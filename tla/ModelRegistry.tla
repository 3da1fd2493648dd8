---------------------------- MODULE ModelRegistry ----------------------------
(* gateway/model_registry.py: which backend offers which model, from the      *)
(* configuration and from the backends' own lists, and the list of models     *)
(* clients are shown.  A refresh asks every enabled backend at once and       *)
(* suspends until the last has answered; the periodic task and the clients'   *)
(* requests for a list that has grown old start it.                           *)
EXTENDS Naturals, FiniteSets, Sequences, FiniteSetsExt

CONSTANTS MAX_MODELS_PER_BACKEND, MAX_TOTAL_DYNAMIC_MODELS,
          MaxTasks    \* bound: refreshes that were created and have not begun

ASSUME RegistryAssumption ==
    MAX_MODELS_PER_BACKEND \in Nat /\ MAX_TOTAL_DYNAMIC_MODELS \in Nat

Everything == {"*"}   \* a configured list that names no model

VARIABLES static,     \* _static_models, as pairs of a model and a backend
          dynamic,    \* _dynamic_models, likewise
          rawModels,  \* _backend_raw_models, likewise
          wildcard,   \* _wildcard_backends
          registered, \* _initialized
          listing,    \* _cached_models_response, and whether it is stale
          asking,     \* backends a refresh waits for; _refresh_lock is held
          refreshing, \*   as long as a refresh runs
          tasks       \* refreshes that were created and have not begun

registryVars == <<static, dynamic, rawModels, wildcard, registered, listing, asking,
                  refreshing, tasks>>

NoListing == [built |-> FALSE, models |-> {}, stale |-> TRUE]

InitRegistry == /\ static = {} /\ dynamic = {} /\ rawModels = {} /\ wildcard = {}
                /\ registered = FALSE
                /\ listing = NoListing
                /\ asking = {} /\ refreshing = FALSE
                /\ tasks = 0

(* The process ends; the registry of the next one is empty.                   *)
ResetRegistry == /\ static' = {} /\ dynamic' = {} /\ rawModels' = {} /\ wildcard' = {}
                 /\ registered' = FALSE
                 /\ listing' = NoListing
                 /\ asking' = {} /\ refreshing' = FALSE
                 /\ tasks' = 0
-----------------------------------------------------------------------------
ModelsOf(pairs) == {p[1] : p \in pairs}

Known == ModelsOf(static) \cup ModelsOf(dynamic)

(* is_model_known_to_backend, for a name as it is spelt in the lists.         *)
IsKnownTo(m, b) == b \in wildcard \/ <<m, b>> \in static \cup dynamic

BackendsFor(m) == wildcard \cup {p[2] : p \in {q \in static \cup dynamic : q[1] = m}}

Rebuilt == [built |-> TRUE, models |-> Known, stale |-> FALSE]

(* At startup, once: the models of the enabled backends.  The periodic task   *)
(* is created, and the startup itself asks for the first refresh.             *)
Initialize(config) ==
    LET enabled == {b \in DOMAIN config : config[b].enabled}
    IN  /\ ~registered
        /\ wildcard' = {b \in enabled : config[b].models = Everything}
        /\ static' = UNION {config[b].models \X {b} : b \in enabled \ wildcard'}
        /\ registered' = TRUE
        /\ tasks' = 1
        /\ UNCHANGED <<dynamic, rawModels, listing, asking, refreshing>>

(* refresh_all(), up to the requests it sends.  It returns when another       *)
(* refresh holds the lock.                                                    *)
BeginRefresh(config) ==
    /\ tasks > 0 /\ ~refreshing
    /\ tasks' = tasks - 1
    /\ refreshing' = TRUE
    /\ asking' = {b \in DOMAIN config : config[b].enabled}
    /\ UNCHANGED <<static, dynamic, rawModels, wildcard, registered, listing>>

SkipRefresh ==
    /\ tasks > 0 /\ refreshing
    /\ tasks' = tasks - 1
    /\ UNCHANGED <<static, dynamic, rawModels, wildcard, registered, listing, asking,
                   refreshing>>

(* A backend answers with a list, cut to MAX_MODELS_PER_BACKEND.  It is added *)
(* to the backend's raw list, and to the models unless there are more than    *)
(* MAX_TOTAL_DYNAMIC_MODELS; what was learned is never dropped.               *)
HasRoom == Cardinality(ModelsOf(dynamic)) <= MAX_TOTAL_DYNAMIC_MODELS

(* A refresh that looked at the number of models before it waited.            *)
LearnsUnchecked(b, offered) ==
    /\ b \in asking
    /\ Cardinality(offered) \in 1..MAX_MODELS_PER_BACKEND
    /\ asking' = asking \ {b}
    /\ rawModels' = rawModels \cup (offered \X {b})
    /\ dynamic' = dynamic \cup (offered \X {b})
    /\ UNCHANGED <<static, wildcard, registered, listing, refreshing, tasks>>

Learns(b, offered) ==
    /\ b \in asking
    /\ Cardinality(offered) \in 1..MAX_MODELS_PER_BACKEND
    /\ asking' = asking \ {b}
    /\ rawModels' = rawModels \cup (offered \X {b})
    /\ dynamic' = IF HasRoom THEN dynamic \cup (offered \X {b}) ELSE dynamic
    /\ UNCHANGED <<static, wildcard, registered, listing, refreshing, tasks>>

(* It fails, answers with another status or an empty list, has no base URL or *)
(* speaks Anthropic's format.                                                 *)
TeachesNothing(b) ==
    /\ b \in asking
    /\ asking' = asking \ {b}
    /\ UNCHANGED <<static, dynamic, rawModels, wildcard, registered, listing, refreshing,
                   tasks>>

(* The last one has answered: _rebuild_cache().                               *)
EndRefresh ==
    /\ refreshing /\ asking = {}
    /\ refreshing' = FALSE
    /\ listing' = Rebuilt
    /\ UNCHANGED <<static, dynamic, rawModels, wildcard, registered, asking, tasks>>

(* The periodic task wakes up.                                                *)
Wake == /\ registered /\ tasks < MaxTasks
        /\ tasks' = tasks + 1
        /\ UNCHANGED <<static, dynamic, rawModels, wildcard, registered, listing, asking,
                       refreshing>>

(* A client asks for the models when the list is old: it gets the old one,    *)
(* and a refresh is created unless one runs.  Several may be created before   *)
(* the first begins.                                                          *)
Ask == /\ listing.built /\ listing.stale
       /\ ~refreshing /\ tasks < MaxTasks
       /\ tasks' = tasks + 1
       /\ UNCHANGED <<static, dynamic, rawModels, wildcard, registered, listing, asking,
                      refreshing>>

Age == /\ listing.built /\ ~listing.stale
       /\ listing' = [listing EXCEPT !.stale = TRUE]
       /\ UNCHANGED <<static, dynamic, rawModels, wildcard, registered, asking, refreshing, tasks>>

-----------------------------------------------------------------------------
(* The models the gateway serves because backends offer them, _dynamic_models,*)
(* are at most the limit and one backend's list, however many refreshes ran   *)
(* and in whatever order the answers came.  The raw lists beside them are     *)
(* added to before the limit is looked at, and have none of their own.        *)
DynamicBounded ==
    Cardinality(ModelsOf(dynamic)) <= MAX_TOTAL_DYNAMIC_MODELS + MAX_MODELS_PER_BACKEND
=============================================================================
