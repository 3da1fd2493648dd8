---------------------------- MODULE SignatureStore ----------------------------
(* Where thinking signatures are kept and how a lost one is recovered:          *)
(* signature_cache.py and converters/signature_recovery.py over the legacy      *)
(* cache, the facade's database, and the caches of the migration, the adapter's *)
(* own map and the new manager's two layers.                                    *)
(*                                                                              *)
(* Requests are served on the event loop, and no function here awaits: one call *)
(* follows the other.  What does run beside them are the daemon threads in      *)
(* which the dual write brings a signature to the new cache, so a call is cut   *)
(* where such a thread can tell.                                                *)
(*                                                                              *)
(* A signature remembers what it is about: the text, who stored it and when.    *)
(* Left out: statistics, the flags' overrides, and the manager's asynchronous   *)
(* queue, which nobody hands it: it always writes through.  The new cache's     *)
(* first layer is a table here, with room for everything: MemoryCache has its   *)
(* lock and its evictions.                                                      *)
EXTENDS LegacySignatureCache

CONSTANTS Tools, Sessions,      \* what a signature may be stored under
          Owners,               \* owner ids and conversation ids
          DbTTL,                \* ttl_seconds of the facade's database
          L1TTL, L2TTL,         \* new_l1_ttl_seconds, new_l2_ttl_seconds
          Migrations,           \* whether migration mode may be on, off or both
          Phases,               \* the phases it is set to
          Scenes,               \* the sets of calls that go together in a run
          MaxCalls,             \* bound: calls, in each of the scenes
          MaxTime               \* bound: ticks

Ids == Tools \cup Sessions
Keys == Texts \X (Owners \cup {None})
Signatures == [of : Texts \cup {None}, owner : Owners \cup {None}, at : 1..MaxTime, valid : BOOLEAN]
Rows == [sig : Signatures, expires : Nat, made : Nat, touched : Nat]
Entries == [text : Texts \cup {None}, sig : Signatures, owner : Owners \cup {None},
            at : 1..MaxTime]

ASSUME StoreAssumption ==
    /\ Tools \cap Sessions = {}                   \* they are the keys of two tables
    /\ None \notin Sessions \cup Keys \cup Signatures \cup Rows \cup Entries
    /\ Migrations \subseteq BOOLEAN
    /\ Scenes \subseteq SUBSET {"tools", "sessions", "texts"}
    /\ Phases \subseteq 1..4
    /\ DbTTL \in Nat \ {0} /\ L1TTL \in Nat \ {0} /\ L2TTL \in Nat \ {0}
    /\ MaxCalls \in [Scenes -> Nat] /\ MaxTime \in Nat \ {0}

VARIABLES scene,        \* which calls are made
          migration,    \* _is_migration_mode()
          phase,        \* the phase of the migration
          tools,        \* _tool_signatures
          sessions,     \* _session_signatures
          main,         \* _cache, of the legacy cache
          adapter,      \* _legacy_cache, of the adapter
          db,           \* tool_signature_cache and session_signature_cache
          l1, l2,       \* the two layers of the new cache
          writers,      \* the daemon threads on their way to the new cache
          asking,       \* the call that is asking for a signature, or None
          answer,       \* history: what the last such call was told
          stored,       \* history: what the database took last under an id
          until         \* history: until when the new cache has what a thread has
                        \* brought to both of its layers

memory == <<tools, sessions, main, adapter>>
new == <<l1, l2, writers>>
history == <<answer, stored, until>>
mode == <<scene, migration>>
vars == <<now, calls, mode, phase, memory, db, new, asking, history>>

(* What set_phase() decides: who is written to, who is asked, who is asked      *)
(* first.  1 is LEGACY_ONLY, 2 DUAL_WRITE, 3 NEW_PREFERRED and 4 NEW_ONLY.      *)
WritesLegacy == phase \in {1, 2, 3}
WritesNew == phase \in {2, 3, 4}
ReadsLegacy == phase \in {1, 2, 3}
ReadsNew == phase \in {2, 3, 4}
PrefersNew == phase \in {3, 4}

(* What lifespan() of app.py sets.                                              *)
StartPhase == 2

Signature(text, owner, valid) ==
    [of |-> text, owner |-> owner, at |-> now, valid |-> valid]
Layers == {"text", "session", "tool", "last", "lastText", "recent"}
Questionings == [layers : Seq(Layers), text : Texts \cup {None}, tool : Tools,
                 session : Sessions, owner : Owners, purging : BOOLEAN]
Given == [layer : Layers, text : Texts \cup {None}, owner : Owners, sig : Signatures,
          at : 1..MaxTime]

TypeOK ==
    /\ now \in 1..MaxTime /\ calls \in 0..MaxCalls[scene]
    /\ scene \in Scenes /\ migration \in BOOLEAN /\ phase \in 1..4
    /\ tools \in [Tools -> Entries \cup {None}]
    /\ sessions \in [Sessions -> Entries \cup {None}]
    /\ \A m \in {main, adapter} :
         m \in Seq(Entries) /\ Len(m) <= MaxSize
    /\ db \in [Ids -> Rows \cup {None}]
    /\ l1 \in [Keys -> Rows \cup {None}] /\ l2 \in [Keys -> Rows \cup {None}]
    /\ writers \subseteq [key : Keys, sig : Signatures, row : Rows \cup {None}]
    /\ asking \in Questionings \cup {None}
    /\ answer \in Given \cup {None}
    /\ stored \in [Ids -> Signatures \cup {None}]
    /\ until \in [Keys -> (1..MaxTime + L1TTL) \cup {None}]

Init ==
    /\ now = 1 /\ calls = 0
    /\ scene \in Scenes
    /\ migration \in Migrations
    /\ phase = StartPhase
    /\ tools = EmptyTable(Tools) /\ sessions = EmptyTable(Sessions)
    /\ main = <<>> /\ adapter = <<>>
    /\ db = EmptyTable(Ids)
    /\ l1 = EmptyTable(Keys) /\ l2 = EmptyTable(Keys)
    /\ writers = {}
    /\ asking = None /\ answer = None
    /\ stored = EmptyTable(Ids)
    /\ until = EmptyTable(Keys)

(* A call on the event loop, while no other is under way.                       *)
Calls(kind) == /\ asking = None
               /\ kind \in scene
               /\ calls < MaxCalls[scene]
               /\ calls' = calls + 1
               /\ answer' = None
-----------------------------------------------------------------------------
(* The facade's four ways to the database, for which any failure is an answer. *)
FacadeCacheTool(k, sig, up) == IF up THEN SetToolSignature(db, k, sig, DbTTL) ELSE db
FacadeGetTool(k, up) == IF up THEN GetToolSignature(db, k) ELSE None
FacadeCacheSession(k, sig, up) == IF up THEN SetSessionSignature(db, k, sig, DbTTL) ELSE db
FacadeGetSession(k, up) == IF up THEN GetSessionSignature(db, k) ELSE None

(* cache_tool_signature() and cache_session_signature(): memory and, in         *)
(* migration mode, the database, neither of them minding what became of the     *)
(* other.  Memory alone looks at what the signature looks like.                 *)
Stores(k, sig, up) ==
    stored' = [stored EXCEPT ![k] = IF migration /\ up /\ sig.valid THEN sig ELSE None]

CacheToolSignature ==
    /\ Calls("tools")
    /\ \E k \in Tools, owner \in Owners, valid \in BOOLEAN, up \in BOOLEAN :
         LET sig == Signature(None, owner, valid)
         IN  /\ tools' = Remember(tools, k, sig, owner)
             /\ db' = IF migration THEN FacadeCacheTool(k, sig, up) ELSE db
             /\ Stores(k, sig, up)
    /\ UNCHANGED <<now, mode, phase, sessions, main, adapter, new, asking, until>>

CacheSessionSignature ==
    /\ Calls("sessions")
    /\ \E k \in Sessions, owner \in Owners, valid \in BOOLEAN, up \in BOOLEAN :
         LET sig == Signature(None, owner, valid)
         IN  /\ sessions' = RememberSession(sessions, k, sig, owner)
             /\ db' = IF migration THEN FacadeCacheSession(k, sig, up) ELSE db
             /\ Stores(k, sig, up)
    /\ UNCHANGED <<now, mode, phase, tools, main, adapter, new, asking, until>>

(* DualWriteStrategy.write() for the adapter's set(): its own map at once, and  *)
(* a thread for the new cache, which is taken for done.                         *)
StartsThread(key, sig) == writers' = writers \cup {[key |-> key, sig |-> sig, row |-> None]}
DualWrite(text, sig, owner) ==
    /\ adapter' = IF WritesLegacy THEN WriteToLegacy(adapter, text, sig) ELSE adapter
    /\ IF WritesNew THEN StartsThread(<<text, owner>>, sig) ELSE UNCHANGED writers
AdapterSet(text, sig, owner) ==
    IF sig.valid THEN DualWrite(text, sig, owner) ELSE UNCHANGED <<adapter, writers>>

(* cache_signature(): the facade's cache if there is a migration, else the      *)
(* legacy one.  A conversation, or else an owner, is whom the text belongs to.  *)
CacheSignature ==
    /\ Calls("texts")
    /\ \E text \in Texts, owner \in Owners :
         LET sig == Signature(text, owner, TRUE)
         IN  IF migration THEN AdapterSet(text, sig, owner) /\ UNCHANGED main
             ELSE main' = SetText(main, text, sig, owner) /\ UNCHANGED <<adapter, writers>>
    /\ UNCHANGED <<now, mode, phase, tools, sessions, db, l1, l2, asking, stored, until>>

(* The thread: the manager's cache_signature() makes one entry object, which    *)
(* set() of the first layer gives an expiry.                                    *)
WriterSetsL1(w) ==
    /\ w.row = None
    /\ LET row == Marked(Row(w.sig, L1TTL), calls, calls)
       IN  /\ l1' = [l1 EXCEPT ![w.key] = Marked(row, 0, calls)]
           /\ writers' = (writers \ {w}) \cup {[key |-> w.key, sig |-> w.sig, row |-> row]}
    /\ UNCHANGED <<now, calls, mode, phase, memory, db, l2, asking, history>>

(* set() of the second layer gives it one of its own only if it has none.       *)
L2Row(row) == Marked(IF row.expires = 0 THEN Row(row.sig, L2TTL) ELSE row, row.made, 0)
InL1(w) == l1[w.key] # None /\ l1[w.key].expires >= w.row.expires
WriterSetsL2(w) ==
    /\ w.row # None
    /\ l2' = Set(l2, w.key, L2Row(w.row), TRUE)
    /\ writers' = writers \ {w}
    /\ until' = [until EXCEPT ![w.key] = IF InL1(w) THEN w.row.expires ELSE None]
    /\ UNCHANGED <<now, calls, mode, phase, memory, db, l1, asking, answer, stored>>
-----------------------------------------------------------------------------
(* A call that asks for a signature, and the layers it goes through until one   *)
(* has it: get_cached_signature(), get_tool_signature() and so on ask one,      *)
(* recover_signature_for_thinking() and recover_signature_for_tool_use() three. *)
(* What the client sent along, or the tool's id carries, is used before any of  *)
(* this.                                                                        *)
RecoverForThinking == <<"text", "session", "lastText">>
RecoverForToolUse == <<"session", "tool", "last">>
Questions == {RecoverForThinking, RecoverForToolUse,
              <<"text">>, <<"tool">>, <<"session">>, <<"last">>, <<"recent">>}

About(layer) == CASE layer = "text" -> "texts" [] layer = "tool" -> "tools" [] OTHER -> "sessions"

Asks ==
    /\ \E layers \in Questions, tool \in Tools, session \in Sessions, owner \in Owners :
       \E text \in IF Head(layers) = "text" THEN Texts ELSE {None} :
         /\ Calls(About(Head(layers)))
         /\ asking' = [layers |-> layers, text |-> text, tool |-> tool, session |-> session,
                       owner |-> owner, purging |-> FALSE]
    /\ UNCHANGED <<now, mode, phase, memory, db, new, stored, until>>

At(layer) == asking # None /\ asking.layers # <<>> /\ Head(asking.layers) = layer

(* The layer has the signature, or the next one is asked.                       *)
Answers(sig) ==
    IF sig = None
    THEN asking' = [asking EXCEPT !.layers = Tail(@), !.purging = FALSE] /\ UNCHANGED answer
    ELSE /\ asking' = None
         /\ answer' = [layer |-> Head(asking.layers), text |-> asking.text,
                       owner |-> asking.owner, sig |-> sig, at |-> now]

(* No layer has it: None, or the placeholder.                                   *)
GivesUp ==
    /\ asking # None /\ asking.layers = <<>>
    /\ asking' = None
    /\ UNCHANGED <<now, calls, mode, phase, memory, db, new, history>>

(* get_tool_signature(), get_session_signature(): memory, then the database,    *)
(* whose answer goes back to memory as if it were new and the asker's.          *)
AskTool ==
    /\ At("tool")
    /\ \E up \in BOOLEAN :
         LET k == asking.tool
             first == Recall(tools, k, asking.owner)
             asksDb == first.sig = None /\ migration
             row == IF asksDb THEN FacadeGetTool(k, up) ELSE None
         IN  /\ db' = IF asksDb /\ up THEN AfterGetTool(db, k) ELSE db
             /\ tools' = IF row = None THEN first.map
                         ELSE Remember(first.map, k, row.sig, asking.owner)
             /\ Answers(IF row = None THEN first.sig ELSE row.sig)
    /\ UNCHANGED <<now, calls, mode, phase, sessions, main, adapter, new, stored, until>>

AskSession ==
    /\ At("session")
    /\ \E up \in BOOLEAN :
         LET k == asking.session
             first == RecallSession(sessions, k, asking.owner)
             asksDb == first.sig = None /\ migration
             row == IF asksDb THEN FacadeGetSession(k, up) ELSE None
         IN  /\ db' = IF asksDb /\ up THEN AfterGetSession(db, k) ELSE db
             /\ sessions' = IF row = None THEN first.map
                            ELSE RememberSession(first.map, k, row.sig, asking.owner)
             /\ Answers(IF row = None THEN first.sig ELSE row.sig)
    /\ UNCHANGED <<now, calls, mode, phase, tools, main, adapter, new, stored, until>>

AskRecent ==
    /\ At("recent")
    /\ Answers(Recent(tools, sessions, main, asking.owner))
    /\ UNCHANGED <<now, calls, mode, phase, memory, db, new, stored, until>>

(* get_last_signature(): the active cache's last one, the legacy cache's, the   *)
(* session row used last; get_last_signature_with_text() stops before that.     *)
LastInMemory == IF migration /\ Last(adapter) # None THEN Last(adapter) ELSE Last(main)

AskLast ==
    /\ At("last") \/ At("lastText")
    /\ LET row == IF migration /\ At("last") THEN LastSessionSignature(db, Sessions) ELSE None
       IN  Answers(IF LastInMemory # None THEN LastInMemory
                   ELSE IF row = None THEN None ELSE row.sig)
    /\ UNCHANGED <<now, calls, mode, phase, memory, db, new, stored, until>>
-----------------------------------------------------------------------------
(* get_cached_signature() of the manager, under the text and the conversation:  *)
(* the first layer, the second one, which promotes, and then whatever either of *)
(* them has for the text from any conversation.                                 *)
Asked == <<asking.text, asking.owner>>
SameText == {k \in Keys : k[1] = asking.text}

(* set(entry, update_if_exists=False) of the first layer.                       *)
Promote(t, k, row) ==
    IF t[k] = None THEN [t EXCEPT ![k] = Marked(row, 0, calls)] ELSE t

(* _fallback_lookup(): an entry found in the second layer is put in the first   *)
(* one under the conversation it was stored for.                                *)
Anywhere(new2) ==
    LET live == {k \in SameText : Has(l1, k)}
        first == Newest(l1, live)
        second == SelectNewest(new2, SameText)
    IN  IF first # None THEN [l1 |-> l1, l2 |-> new2, sig |-> l1[first].sig]
        ELSE IF second = None THEN [l1 |-> l1, l2 |-> new2, sig |-> None]
        ELSE [l1 |-> Promote(l1, Newest(new2, SameText), second), l2 |-> new2,
              sig |-> second.sig]

ReadFromNew ==
    IF Has(l1, Asked) THEN [l1 |-> Touch(l1, Asked), l2 |-> l2, sig |-> l1[Asked].sig]
    ELSE IF Has(l2, Asked)
    THEN [l1 |-> Promote(l1, Asked, l2[Asked]), l2 |-> Touch(l2, Asked),
          sig |-> l2[Asked].sig]
    ELSE Anywhere(l2)

(* The second layer looks at a row, and deletes it in another transaction when  *)
(* it is too old: a thread may have renewed it by then.                         *)
MustPurge == ~Has(l1, Asked) /\ HasExpired(l2, Asked)

(* ReadStrategy.read(): the adapter's map and the new cache, in the order and   *)
(* as far as the phase has it.                                                  *)
FallsBack(r) ==
    IF r.sig = None /\ ReadsLegacy /\ PrefersNew
    THEN LET old == ReadFromLegacy(adapter, asking.text)
         IN  adapter' = old.map /\ Answers(old.sig)
    ELSE UNCHANGED adapter /\ Answers(r.sig)

Reads(old) ==
    IF old.sig # None \/ ~ReadsNew
    THEN adapter' = old.map /\ Answers(old.sig) /\ UNCHANGED <<l1, l2>>
    ELSE IF MustPurge
    THEN /\ adapter' = old.map
         /\ asking' = [asking EXCEPT !.purging = TRUE]
         /\ UNCHANGED <<l1, l2, answer>>
    ELSE /\ l1' = ReadFromNew.l1 /\ l2' = ReadFromNew.l2
         /\ IF PrefersNew THEN FallsBack(ReadFromNew)
            ELSE adapter' = old.map /\ Answers(ReadFromNew.sig)

(* get_cached_signature()                                                       *)
AskText ==
    /\ At("text") /\ ~asking.purging
    /\ IF migration
       THEN /\ Reads(IF PrefersNew THEN Answer(adapter, None)
                     ELSE ReadFromLegacy(adapter, asking.text))
            /\ UNCHANGED main
       ELSE LET old == GetText(main, asking.text, asking.owner)
            IN  main' = old.map /\ Answers(old.sig) /\ UNCHANGED <<adapter, l1, l2>>
    /\ UNCHANGED <<now, calls, mode, phase, tools, sessions, db, writers, stored, until>>

Purges ==
    /\ At("text") /\ asking.purging
    /\ LET r == Anywhere(Delete(l2, Asked))
       IN  l1' = r.l1 /\ l2' = r.l2 /\ FallsBack(r)
    /\ until' = Delete(until, Asked)
    /\ UNCHANGED <<now, calls, mode, phase, tools, sessions, main, db, writers, stored>>
-----------------------------------------------------------------------------
(* invalidate() and clear() of the facade: the new cache is left as it is.      *)
InvalidateSignature ==
    /\ Calls("texts")
    /\ \E text \in Texts :
         IF migration
         THEN /\ adapter' = IF WritesLegacy THEN Invalidate(adapter, text) ELSE adapter
              /\ UNCHANGED main
         ELSE main' = Invalidate(main, text) /\ UNCHANGED adapter
    /\ UNCHANGED <<now, mode, phase, tools, sessions, db, new, asking, stored, until>>

ClearSignatures ==
    /\ Calls("texts")
    /\ IF migration THEN adapter' = <<>> /\ UNCHANGED main
       ELSE main' = <<>> /\ UNCHANGED adapter
    /\ UNCHANGED <<now, mode, phase, tools, sessions, db, new, asking, stored, until>>

(* cleanup_expired() of the facade, of the manager and of the database.         *)
Cleanup ==
    /\ \E kind \in scene : Calls(kind)
    /\ \/ /\ main' = IF migration THEN main ELSE CleanupTexts(main)
          /\ adapter' = IF migration THEN CleanupTexts(adapter) ELSE adapter
          /\ UNCHANGED <<db, l1, l2>>
       \/ /\ l1' = CleanupExpired(l1) /\ l2' = CleanupExpired(l2)
          /\ UNCHANGED <<main, adapter, db>>
       \/ /\ db' = CleanupTools(CleanupSessions(db, Sessions), Tools)
          /\ UNCHANGED <<main, adapter, l1, l2>>
    /\ UNCHANGED <<now, mode, phase, tools, sessions, writers, asking, stored, until>>

SetMigrationPhase ==
    /\ Calls("texts") /\ migration
    /\ phase' \in Phases \ {phase}
    /\ UNCHANGED <<now, mode, memory, db, new, asking, stored, until>>

(* delete() and clear() of the manager, which invalidate() and clear() above do *)
(* not call.                                                                    *)
DeleteFromNew ==
    /\ Calls("texts")
    /\ \E k \in Texts \X Owners :
         l1' = Delete(l1, k) /\ l2' = Delete(l2, k) /\ until' = Delete(until, k)
    /\ UNCHANGED <<now, mode, phase, memory, db, writers, asking, stored>>

ClearNew ==
    /\ Calls("texts")
    /\ \E owner \in Owners :
         LET ks == {k \in Keys : k[2] = owner}
         IN  l1' = Clear(l1, ks) /\ l2' = Clear(l2, ks) /\ until' = Clear(until, ks)
    /\ UNCHANGED <<now, mode, phase, memory, db, writers, asking, stored>>

(* shutdown() of the manager, through the adapter and the facade: the first     *)
(* layer's entries go to the second one.                                        *)
SyncL1ToL2 == BulkSet(l2, [k \in Keys |-> IF Has(l1, k) THEN L2Row(l1[k]) ELSE None])
Shutdown ==
    /\ Calls("texts") /\ migration
    /\ l2' = SyncL1ToL2
    /\ UNCHANGED <<now, mode, phase, memory, db, l1, writers, asking, stored, until>>

(* The process dies, its daemon threads with it, and starts again: the          *)
(* databases are what is left.                                                  *)
Restart ==
    /\ calls < MaxCalls[scene] /\ calls' = calls + 1
    /\ tools' = EmptyTable(Tools) /\ sessions' = EmptyTable(Sessions)
    /\ main' = <<>> /\ adapter' = <<>>
    /\ l1' = EmptyTable(Keys) /\ writers' = {}
    /\ asking' = None /\ answer' = None
    /\ phase' = StartPhase
    /\ UNCHANGED <<now, mode, db, l2, stored, until>>

Tick ==
    /\ now < MaxTime /\ now' = now + 1
    /\ UNCHANGED <<calls, mode, phase, memory, db, new, asking, history>>
-----------------------------------------------------------------------------
Writes == \E w \in writers : WriterSetsL1(w) \/ WriterSetsL2(w)
Proceeds == GivesUp \/ AskTool \/ AskSession \/ AskRecent \/ AskLast \/ AskText \/ Purges

Next == \/ CacheToolSignature \/ CacheSessionSignature \/ CacheSignature
        \/ Asks \/ Proceeds \/ Writes
        \/ InvalidateSignature \/ ClearSignatures \/ Cleanup
        \/ DeleteFromNew \/ ClearNew \/ SetMigrationPhase \/ Shutdown \/ Restart \/ Tick

Spec == Init /\ [][Next]_vars
-----------------------------------------------------------------------------
(* A signature given for a thinking text was stored with that text, whichever   *)
(* cache it came from: the maps go by the first 500 characters, and the new     *)
(* cache looks under any conversation (signature_cache.py:633).                 *)
RightText == answer # None /\ answer.layer = "text" =>
    Norm[answer.sig.of] = Norm[answer.text]

(* A tool's or a session's signature, and the last one, are not given out for   *)
(* ever: memory takes what the database has for new, yet only while the         *)
(* database still has it.                                                       *)
SignatureAges == answer # None /\ answer.layer # "text" =>
    answer.at - answer.sig.at <= DbTTL + MemoryTTL

(* What the database has taken for a tool or a session is what anybody asking   *)
(* for it is given until it expires there, through promotions, expiries in      *)
(* memory, cleanups and restarts (signature_cache.py:1030).                     *)
Serves(k) ==
    LET e == IF k \in Tools THEN tools[k] ELSE sessions[k]
    IN  IF e # None /\ ~Stale(e) THEN e.sig
        ELSE IF Has(db, k) THEN db[k].sig ELSE None
StoredIsServed == \A k \in Ids :
    migration /\ stored[k] # None /\ now <= stored[k].at + DbTTL => Serves(k) = stored[k]

(* What a dual write has brought to the new cache is found for that text and    *)
(* conversation, in whichever of the phases that read it, and after restarts,   *)
(* until it expires, even when its row is renewed while it is being purged      *)
(* (signature_database.py:413).  A thread that a delete overtakes between its   *)
(* two writes leaves its signature in the second layer only, where such a purge *)
(* takes it along: that is not promised.                                        *)
MigrationKeeps ==
    [][At("text") /\ migration /\ ReadsNew /\ asking' # None
       /\ until[Asked] # None /\ now <= until[Asked]
         => asking'.layers = asking.layers]_vars

=============================================================================
