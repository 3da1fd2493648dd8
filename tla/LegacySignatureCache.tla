------------------------- MODULE LegacySignatureCache -------------------------
(* SignatureCache of signature_cache.py, the cache in memory that the database  *)
(* and the migration were built around: signatures by thinking text, in an      *)
(* OrderedDict with a limit, and by tool and by session, in plain dictionaries. *)
(* LegacySignatureCacheAdapter keeps one more map of the first kind, with the   *)
(* same code but for owners.  Every method holds its lock from end to end, so   *)
(* that an operator stands for all of it; one that answers returns the map it   *)
(* leaves behind and the answer.                                                *)
(*                                                                              *)
(* A text stands for its bytes: Norm says what _normalize_thinking_text() makes *)
(* of it, and Prefix what the first 500 characters of that tell apart.          *)
EXTENDS SignatureDatabase, Selection

CONSTANTS Texts, Norm, Prefix,
          MaxSize,              \* max_size
          MemoryTTL,            \* ttl_seconds, in ticks
          Window                \* half of a client's TTL: get_ttl_for_client(); an
                                \* hour at the most, which is what ttl_seconds is

ASSUME LegacyAssumption ==
    /\ Norm \in [Texts -> Texts]
    /\ \A t, u \in Texts : Norm[t] = Norm[u] => Prefix[Norm[t]] = Prefix[Norm[u]]
    /\ MaxSize \in Nat \ {0} /\ MemoryTTL \in Nat /\ Window \in 0..MemoryTTL

(* _generate_key()                                                              *)
Key(text) == Prefix[Norm[text]]

Entry(text, sig, owner) ==
    [text |-> text, sig |-> sig, owner |-> owner, at |-> now]
Stale(e) == now - e.at > MemoryTTL

(* Both sides must name an owner for an entry to be kept from anybody.          *)
Foreign(e, owner) == owner # None /\ e.owner # None /\ e.owner # owner

Answer(map, sig) == [map |-> map, sig |-> sig]

(* set(): a signature that does not look like one is refused.  The last to be   *)
(* stored goes to the end, and the first ones go when there are too many.       *)
Without(m, key) == Selected(m, {i \in DOMAIN m : Key(m[i].text) # key})
Store(m, e) == LET s == Append(Without(m, Key(e.text)), e)
               IN  IF Len(s) > MaxSize THEN Tail(s) ELSE s
SetText(m, text, sig, owner) ==
    IF sig.valid THEN Store(m, Entry(text, sig, owner)) ELSE m

(* get(): the key is a hash of the first 500 characters, hence the comparison   *)
(* of the whole texts.  A hit moves to the end.                                 *)
Under(m, key) == {m[i] : i \in {j \in DOMAIN m : Key(m[j].text) = key}}
GetText(m, text, owner) ==
    LET found == Under(m, Key(text))
        e == CHOOSE e \in found : TRUE
    IN  IF found = {} THEN Answer(m, None)
        ELSE IF Stale(e) THEN Answer(Without(m, Key(text)), None)
        ELSE IF Foreign(e, owner) \/ Norm[e.text] # Norm[text] THEN Answer(m, None)
        ELSE Answer(Append(Without(m, Key(text)), e), e.sig)

\* Mutant: the adapter compares hashes only.
ReadByHash(m, text) ==
    LET found == Under(m, Key(text))
        e == CHOOSE e \in found : TRUE
    IN  IF found = {} THEN Answer(m, None)
        ELSE IF Stale(e) THEN Answer(Without(m, Key(text)), None)
        ELSE Answer(Append(Without(m, Key(text)), e), e.sig)

(* _read_from_legacy() and _write_to_legacy() of the adapter: nobody owns an    *)
(* entry there, nor has anybody's conversation a part in it.                    *)
WriteToLegacy(m, text, sig) == Store(m, Entry(text, sig, None))
ReadFromLegacy(m, text) ==
    LET found == Under(m, Key(text))
        e == CHOOSE e \in found : TRUE
    IN  IF found = {} THEN Answer(m, None)
        ELSE IF Stale(e) THEN Answer(Without(m, Key(text)), None)
        ELSE IF Norm[e.text] # Norm[text] THEN Answer(m, None)
        ELSE Answer(Append(Without(m, Key(text)), e), e.sig)

(* invalidate(), cleanup_expired()                                              *)
Invalidate(m, text) == Without(m, Key(text))
CleanupTexts(m) == Selected(m, {i \in DOMAIN m : ~Stale(m[i])})

(* get_last_signature(): the newest entry that has not expired.                 *)
Last(m) ==
    LET fresh == CleanupTexts(m)
    IN  IF fresh = <<>> THEN None ELSE fresh[Len(fresh)].sig

-----------------------------------------------------------------------------
(* cache_tool_signature(), get_tool_signature(), and the same for sessions.     *)
Remember(d, k, sig, owner) ==
    IF sig.valid THEN [d EXCEPT ![k] = Entry(None, sig, owner)] ELSE d

\* Mutant: memory never lets go.
RecallForever(d, k, owner) ==
    IF d[k] = None THEN Answer(d, None)
    ELSE Answer(d, IF Foreign(d[k], owner) THEN None ELSE d[k].sig)

Recall(d, k, owner) ==
    IF d[k] = None THEN Answer(d, None)
    ELSE IF Stale(d[k]) THEN Answer([d EXCEPT ![k] = None], None)
    ELSE Answer(d, IF Foreign(d[k], owner) THEN None ELSE d[k].sig)

RememberSession(d, k, sig, owner) == Remember(d, k, sig, owner)
RecallSession(d, k, owner) == Recall(d, k, owner)

(* get_recent_signature(): what is younger than the window, the newest tool's   *)
(* before the newest session's, whoever they belong to, and then the last text  *)
(* that is the owner's; get_recent_signature_with_text() starts with the texts. *)
Young(e) == now - e.at < Window
NewestYoung(d) ==
    LET young == {k \in DOMAIN d : d[k] # None /\ Young(d[k])}
    IN  IF young = {} THEN None
        ELSE d[CHOOSE k \in young : \A j \in young : d[j].at <= d[k].at].sig
YoungText(m, owner) ==
    LET mine == Selected(m, {i \in DOMAIN m :
                               (owner = None \/ m[i].owner = owner) /\ Young(m[i])})
    IN  IF mine = <<>> THEN None ELSE mine[Len(mine)].sig
Recent(toolMap, sessionMap, m, owner) ==
    IF NewestYoung(toolMap) # None THEN NewestYoung(toolMap)
    ELSE IF NewestYoung(sessionMap) # None THEN NewestYoung(sessionMap)
    ELSE YoungText(m, owner)
=============================================================================
