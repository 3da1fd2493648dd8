---------------------------- MODULE GatewayConfig ----------------------------
(* config/gateway.yaml and what the gateway makes of it: config.py and        *)
(* config_loader.py read it into BACKENDS, MODEL_ROUTING and the sections,    *)
(* config_writer.py merges them back into it.  "cross" is the section         *)
(* cross_model_fallback, "final" final_fallback and "copilot"                 *)
(* copilot_model_mapping; "default" stands for default_routing,               *)
(* backend_capabilities and runtime_flags, which are alike.                   *)
EXTENDS Naturals, FiniteSets

CONSTANTS Backends,   \* backends' keys, in the code, in the file or added
          Builtin,    \* those config.py defines
          RouteNames, \* models with a rule
          Chains,     \* backend chains of a rule
          Keys,       \* API keys
          Urls,       \* base URLs, in plain
          EnvUrl,     \* the one the environment gives a builtin backend
          Reference,  \* a base_url written as "${VARIABLE:default}"
          ModelIds,   \* models a backend may be configured with or offer
          Offers      \* the lists of them a backend may answer with

ASSUME ConfigAssumption == /\ Builtin \subseteq Backends
                           /\ EnvUrl \in Urls /\ Reference \notin Urls
                           /\ IsFiniteSet(Backends)
                           /\ \A offered \in Offers : offered \subseteq ModelIds /\ IsFiniteSet(offered)

Sections == {"cross", "final", "default", "copilot"}

(* Those that requests read.  copilot_model_mapping is edited and saved, but  *)
(* map_model_for_copilot() uses the table in the code.                        *)
InUse == Sections \ {"copilot"}

SectionValue == [enabled : BOOLEAN, rules : Nat]
Rule == [enabled : BOOLEAN, chain : Chains]

(* A backend in the file.  listed tells api_keys from api_key; "enabled"      *)
(* stands for every field the loader and the writer copy as it is.            *)
Node == [enabled : BOOLEAN, priority : Nat, url : Urls \cup {Reference},
         listed : BOOLEAN, keys : SUBSET Keys, models : SUBSET ModelIds]

(* A backend in BACKENDS.                                                     *)
Backend == [enabled : BOOLEAN, priority : Nat, url : Urls, listed : BOOLEAN,
            keys : SUBSET Keys, models : SUBSET ModelIds, scid : BOOLEAN]

IsPartial(f, S, T) == DOMAIN f \subseteq S /\ \A x \in DOMAIN f : f[x] \in T

IsContent(content) == /\ DOMAIN content = {"backends", "routing", "sections"}
                      /\ IsPartial(content.backends, Backends, Node)
                      /\ IsPartial(content.routing, RouteNames, Rule)
                      /\ IsPartial(content.sections, Sections, SectionValue)

Empty == [x \in {} |-> x]

(* d[x] = value, and d.update(other), of a dictionary.                        *)
With(d, x, value) == [y \in DOMAIN d \cup {x} |-> IF y = x THEN value ELSE d[y]]
Updated(d, other) ==
    [y \in DOMAIN d \cup DOMAIN other |-> IF y \in DOMAIN other THEN other[y] ELSE d[y]]

NoContent == [backends |-> Empty, routing |-> Empty, sections |-> Empty]
-----------------------------------------------------------------------------
(* Reading.                                                                   *)
CodeDefault(b) == [enabled |-> TRUE, priority |-> 5, url |-> EnvUrl, listed |-> FALSE,
                   keys |-> {}, models |-> {}, scid |-> FALSE]

(* A variable's name is replaced by what the environment says.                *)
Expanded(url) == IF url = Reference THEN EnvUrl ELSE url

(* A backend of the code takes its plain fields, a plain URL and its keys     *)
(* from the file, and nothing else.                                           *)
Overridden(b, node) ==
    [CodeDefault(b) EXCEPT
        !.enabled = node.enabled,
        !.priority = node.priority,
        !.url = IF node.url = Reference THEN @ ELSE node.url,
        !.keys = node.keys,
        !.listed = node.listed /\ node.keys # {}]

(* A backend the code does not know: api_key is not read.                     *)
Added(node) ==
    [enabled |-> node.enabled, priority |-> node.priority,
     url |-> Expanded(node.url),
     listed |-> TRUE, keys |-> IF node.listed THEN node.keys ELSE {},
     models |-> node.models, scid |-> FALSE]

LoadedBackends(content) ==
    [b \in Builtin \cup DOMAIN content.backends |->
        IF b \notin DOMAIN content.backends THEN CodeDefault(b)
        ELSE IF b \in Builtin THEN Overridden(b, content.backends[b])
        ELSE Added(content.backends[b])]

(* What the code uses of a section: the rules of a cross-model fallback that  *)
(* is switched off are not loaded.  An absent section reads as an empty one.  *)
NoSection == [enabled |-> TRUE, rules |-> 0]

SectionIn(sections, s) == IF s \in DOMAIN sections THEN sections[s] ELSE NoSection

Parsed(s, value) ==
    IF s = "cross" THEN [enabled |-> TRUE,
                         rules |-> IF value.enabled THEN value.rules ELSE 0]
                   ELSE value
-----------------------------------------------------------------------------
(* Writing: what a save makes of the file it has read.                        *)
FreshNode(backend) ==
    [enabled |-> backend.enabled, priority |-> backend.priority, url |-> backend.url,
     listed |-> backend.listed, keys |-> backend.keys, models |-> backend.models]

(* A merge that writes the list of keys for new backends only.                *)
MergedNodeButKeys(node, backend) ==
    [node EXCEPT !.enabled = backend.enabled, !.priority = backend.priority,
                 !.url = IF @ = Reference THEN @ ELSE backend.url]

(* The models of a backend the file has already are not written, its keys     *)
(* only if there are any, and its URL unless the file names a variable.       *)
MergedNode(node, backend) ==
    [node EXCEPT
        !.enabled = backend.enabled,
        !.priority = backend.priority,
        !.url = IF @ = Reference THEN @ ELSE backend.url,
        !.keys = IF backend.keys = {} \/ (~backend.listed /\ node.listed /\ @ # {})
                 THEN @ ELSE backend.keys,
        !.listed = IF backend.keys = {} \/ (node.listed /\ node.keys # {})
                   THEN @ ELSE backend.listed]

MergeBackend(content, b, backend) ==
    LET node == IF b \in DOMAIN content.backends
                THEN MergedNode(content.backends[b], backend)
                ELSE FreshNode(backend)
    IN  [content EXCEPT !.backends = With(@, b, node)]

(* The rules replace the file's, all of them, unless there are none; the      *)
(* sections that were given replace the file's.                               *)
MergeRules(content, rules) ==
    IF DOMAIN rules = {} THEN content ELSE [content EXCEPT !.routing = rules]

MergeSections(content, sections) ==
    [content EXCEPT !.sections = Updated(@, sections)]
=============================================================================
