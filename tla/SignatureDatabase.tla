--------------------------- MODULE SignatureDatabase ---------------------------
(* SignatureDatabase of cache/signature_database.py: five SQLite tables.  Every *)
(* method is one transaction, or a SELECT and then, in a transaction of its     *)
(* own, the DELETE of a row the SELECT found expired or the UPDATE of the row's *)
(* access time.  The operators here say what a transaction makes of a table, so *)
(* that a caller may take the two apart.                                        *)
(*                                                                              *)
(* A table maps its keys to rows or to None.  Left out: access counts,          *)
(* statistics, model names, prefixes, metadata and the indexes.  created_at and *)
(* last_accessed_at only order rows, and are the number of the call that wrote  *)
(* them; expires_at is compared with the clock.  A method whose transaction     *)
(* raises rolls back and answers None, False or 0: that is up to the caller of  *)
(* these operators, which may leave the table alone.                            *)
EXTENDS Integers, FiniteSets

CONSTANT None               \* Python's None

VARIABLES now,              \* datetime.now(), in ticks
          calls             \* the calls so far: orders what happens in a tick

(* expires = 0 stands for NULL, and touched = 0 too.                            *)
Expiry(ttl) == IF ttl > 0 THEN now + ttl ELSE 0
Row(sig, ttl) == [sig |-> sig, expires |-> Expiry(ttl), made |-> calls, touched |-> 0]
Marked(row, made, touched) ==
    [sig |-> row.sig, expires |-> row.expires, made |-> made, touched |-> touched]
EmptyTable(keys) == [k \in keys |-> None]

\* Mutant: off by one at the expiry.
IsExpiredEarly(row) == row.expires > 0 /\ now >= row.expires

IsExpired(row) == row.expires > 0 /\ now > row.expires

Has(t, k) == t[k] # None /\ ~IsExpired(t[k])
HasExpired(t, k) == t[k] # None /\ IsExpired(t[k])
Delete(t, k) == [t EXCEPT ![k] = None]

(* What SELECT ... WHERE key = ? and the check of expires_at make of a row.     *)
Select(t, k) == IF Has(t, k) THEN t[k] ELSE None

(* _update_access_stats() and its sisters.                                      *)
Touch(t, k) == IF t[k] = None THEN t ELSE [t EXCEPT ![k] = Marked(@, @.made, calls)]

(* set(): the upsert keeps when the row was made and last read, and INSERT OR   *)
(* IGNORE keeps the row.                                                        *)
Set(t, k, row, update) ==
    IF t[k] = None THEN [t EXCEPT ![k] = row]
    ELSE IF update THEN [t EXCEPT ![k] = Marked(row, @.made, @.touched)]
    ELSE t

(* clear(): everything, or what matches the namespace and the conversation.     *)
Clear(t, ks) == [k \in DOMAIN t |-> IF k \in ks THEN None ELSE t[k]]

(* cleanup_expired() and its sisters, by one DELETE.                            *)
CleanupExpired(t) == Clear(t, {k \in DOMAIN t : HasExpired(t, k)})

(* bulk_set(): the entries of a function from keys to rows or None.             *)
BulkSet(t, rows) ==
    [k \in DOMAIN t |-> IF rows[k] = None THEN t[k] ELSE Set(t, k, rows[k], TRUE)[k]]

(* ORDER BY last_accessed_at DESC NULLS LAST, created_at DESC.                  *)
Before(r, s) == \/ r.touched > s.touched
                \/ r.touched = s.touched /\ r.made > s.made
Newest(t, ks) ==
    LET in == {k \in ks : t[k] # None}
    IN  IF in = {} THEN None
        ELSE CHOOSE k \in in : \A j \in in \ {k} : ~Before(t[j], t[k])

(* get_by_thinking_hash_any_namespace(), get_last_session_signature(): the      *)
(* newest row of all, None if that one is expired, whatever the others are.     *)
SelectNewest(t, ks) ==
    LET k == Newest(t, ks) IN IF k = None THEN None ELSE Select(t, k)
-----------------------------------------------------------------------------
\* Mutant: the upsert forgets the expiry.
SetSignatureKeepsExpiry(t, k, sig, ttl) ==
    [t EXCEPT ![k] = [sig |-> sig,
                      expires |-> IF t[k] = None THEN Expiry(ttl) ELSE t[k].expires,
                      made |-> IF t[k] = None THEN 0 ELSE t[k].made, touched |-> calls]]

(* The rows of the other tables.  Storing a tool's or a session's signature     *)
(* counts as an access, and so created_at never matters there.                  *)
SetSignature(t, k, sig, ttl) ==
    [t EXCEPT ![k] = [sig |-> sig, expires |-> Expiry(ttl),
                      made |-> IF t[k] = None THEN 0 ELSE t[k].made, touched |-> calls]]

DeleteToolSignature(t, k) == Delete(t, k)
TouchTool(t, k) == Touch(t, k)
DeleteSessionSignature(t, k) == Delete(t, k)
TouchSession(t, k) == Touch(t, k)

SetToolSignature(t, k, sig, ttl) == SetSignature(t, k, sig, ttl)
GetToolSignature(t, k) == Select(t, k)
AfterGetTool(t, k) == IF HasExpired(t, k) THEN DeleteToolSignature(t, k)
                      ELSE TouchTool(t, k)
CleanupTools(t, tools) == Clear(t, {k \in tools : HasExpired(t, k)})

SetSessionSignature(t, k, sig, ttl) == SetSignature(t, k, sig, ttl)
GetSessionSignature(t, k) == Select(t, k)
AfterGetSession(t, k) == IF HasExpired(t, k) THEN DeleteSessionSignature(t, k)
                         ELSE TouchSession(t, k)
CleanupSessions(t, sessions) == Clear(t, {k \in sessions : HasExpired(t, k)})
LastSessionSignature(t, sessions) == SelectNewest(t, sessions)
=============================================================================
