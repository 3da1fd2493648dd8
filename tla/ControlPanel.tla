---------------------------- MODULE ControlPanel ----------------------------
(* The gateway's configuration while it runs: what requests read of it        *)
(* (config.py, config_loader.py), the panel that edits it in memory           *)
(* (endpoints/panel.py), the saves that write it to the file from another     *)
(* thread (config_writer.py), the operator who edits the file by hand, and    *)
(* the restart that reads it back.  A route of the panel runs in one step of  *)
(* the event loop; a save runs in an executor's thread, entry by entry, on    *)
(* the dictionaries the routes are changing.  POSIX: the temporary file       *)
(* replaces the old one at once.                                              *)
EXTENDS GatewayConfig, ModelRegistry, ModelNames, SequencesExt

CONSTANTS Contents,      \* files the gateway may be started with
          HandWritten,   \* files an operator may put in place
          Budgets        \* bounds: how often each thing happens

ASSUME PanelAssumption ==
    \A content \in Contents \cup HandWritten : IsContent(content)

VARIABLES disk,      \* config/gateway.yaml: whether it exists, what it says and,
                     \*   history, the save that wrote it
          backends,  \* BACKENDS
          routing,   \* MODEL_ROUTING, which saves write
          served,    \* _model_routing_cache, which requests use
          raw,       \* _raw_yaml_cache
          cache,     \* the sections' own caches
          saves,     \* saves under way, in the order they wait for _write_lock
          asked,     \* history: saves the panel has asked for
          foreign,   \* history: the file was edited by hand since the start
          lost,      \* history: sections read or edited while there was no file
          left       \* of the bounds

configVars == <<disk, backends, routing, served, raw, cache>>
vars == <<configVars, saves, asked, foreign, lost, left, registryVars>>

Spend(what) == left[what] > 0 /\ left' = [left EXCEPT ![what] = @ - 1]

NotLoaded == [loaded |-> FALSE, value |-> NoSection]
RulesNotLoaded == [loaded |-> FALSE, rules |-> Empty]
RawNotLoaded == [loaded |-> FALSE, sections |-> Empty]

(* What importing config.py puts in force.                                    *)
Started(file) ==
    /\ backends = LoadedBackends(file.content)
    /\ routing = file.content.routing

Init == /\ \E content \in Contents, present \in BOOLEAN :
              disk = [present |-> present, by |-> 0,
                      content |-> IF present THEN content ELSE NoContent]
        /\ Started(disk)
        /\ served = RulesNotLoaded
        /\ raw = RawNotLoaded
        /\ cache = [s \in Sections |-> NotLoaded]
        /\ saves = <<>> /\ asked = 0
        /\ foreign = FALSE /\ lost = {}
        /\ left \in Budgets
        /\ InitRegistry
-----------------------------------------------------------------------------
(* What is in force, and what the panel shows.                                *)
RawSections == IF raw.loaded THEN raw.sections ELSE disk.content.sections

InForce(s) == IF cache[s].loaded THEN cache[s].value
                                 ELSE Parsed(s, SectionIn(RawSections, s))

ShownRaw(s) == Parsed(s, SectionIn(RawSections, s))

Shown(s) == IF s = "final" THEN InForce(s) ELSE ShownRaw(s)

(* _get_raw_yaml_config() keeps what it has read; without a file it returns   *)
(* an empty dictionary that nobody keeps.                                     *)
RawLoaded == IF raw.loaded \/ ~disk.present THEN raw
             ELSE [loaded |-> TRUE, sections |-> disk.content.sections]

(* History: what is made of a section then has nothing raw beside it.         *)
LostWithoutFile(s) == IF RawLoaded.loaded THEN lost ELSE lost \cup {s}

(* Routes are served once the startup is over.  A registry that is switched   *)
(* on has then been filled and has asked the backends once.                   *)
Serving == left["refreshes"] = 0 \/ listing.built
-----------------------------------------------------------------------------
(* Requests.  The rules are read from the file when the first request needs   *)
(* them, a section when the first request needs that section.                 *)
ReadRules == /\ ~served.loaded /\ Spend("reads")
             /\ served' = [loaded |-> TRUE, rules |-> disk.content.routing]
             /\ UNCHANGED <<disk, backends, routing, raw, cache, saves, asked, foreign,
                            lost, registryVars>>

ReadSection(s) ==
    /\ ~cache[s].loaded /\ Spend("reads")
    /\ raw' = RawLoaded
    /\ cache' = [cache EXCEPT ![s] = [loaded |-> TRUE, value |-> InForce(s)]]
    /\ lost' = LostWithoutFile(s)
    /\ UNCHANGED <<disk, backends, routing, served, saves, asked, foreign, registryVars>>

(* The panel's edits.  Each marks what it touches in the saves under way.     *)
Touching(settings) == [i \in DOMAIN saves |-> [saves[i] EXCEPT !.touched = @ \cup settings]]

EditBackends(changed, settings) ==
    /\ Spend("edits")
    /\ backends' = changed
    /\ saves' = Touching(settings)
    /\ UNCHANGED <<disk, routing, served, raw, cache, asked, foreign, lost, registryVars>>

AddBackend(b, url, keys) ==
    /\ b \notin DOMAIN backends
    /\ EditBackends(With(backends, b,
                         [enabled |-> TRUE, priority |-> 5, url |-> url, listed |-> TRUE,
                          keys |-> keys, models |-> {}, scid |-> FALSE]),
                    {b} \X {"enabled", "priority", "url", "keys"})

(* The fields that are given, one of them here; and toggle_backend().         *)
UpdateBackend(b, url) ==
    EditBackends([backends EXCEPT ![b].url = url], {<<b, "url">>})

ToggleBackend(b) ==
    EditBackends([backends EXCEPT ![b].enabled = ~@], {<<b, "enabled">>})

(* The order names each once; it may leave backends out, and those keep their *)
(* number.                                                                    *)
ReorderBackends(order) ==
    EditBackends([b \in DOMAIN backends |->
                    IF b \notin ToSet(order) THEN backends[b]
                    ELSE [backends[b] EXCEPT
                            !.priority = (CHOOSE i \in DOMAIN order : order[i] = b) - 1]],
                 ToSet(order) \X {"priority"})

Orders(names) == UNION {SetToSeqs(some) : some \in SUBSET names}

ToggleScid(b) ==
    EditBackends([backends EXCEPT ![b].scid = ~@], {<<b, "scid">>})

(* The first key that is added turns api_key into a list.                     *)
AddKey(b, key) ==
    EditBackends([backends EXCEPT ![b].keys = @ \cup {key}, ![b].listed = TRUE],
                 {<<b, "keys">>})

DeleteKey(b, key) ==
    /\ backends[b].listed /\ key \in backends[b].keys
    /\ EditBackends([backends EXCEPT ![b].keys = @ \ {key}], {<<b, "keys">>})

FetchModels(b, offered) ==
    /\ backends[b].enabled
    /\ EditBackends([backends EXCEPT ![b].models = offered], {<<b, "models">>})

(* update_routing() changes the rules requests use and the rules saves write. *)
(* When no request has loaded the former, they become this rule alone.  A     *)
(* rule stays switched off if it was.                                         *)
UpdateRouting(m, chain) ==
    LET current == IF m \in DOMAIN served.rules THEN served.rules[m].enabled
                   ELSE IF m \in DOMAIN routing THEN routing[m].enabled ELSE TRUE
        rule == [enabled |-> current, chain |-> chain]
    IN  /\ Spend("edits")
        /\ served' = [loaded |-> TRUE, rules |-> With(served.rules, m, rule)]
        /\ routing' = With(routing, m, rule)
        /\ saves' = Touching({<<"rule", m>>})
        /\ UNCHANGED <<disk, backends, raw, cache, asked, foreign, lost, registryVars>>

(* A section is replaced in the raw configuration, if there is one, and in    *)
(* what was made of it: the rules of the cross-model fallback and the final   *)
(* fallback are put in force as they are, switched off or not; of the others  *)
(* what was made is thrown away, and they are parsed again.                   *)
EditSection(s, value, made) ==
    /\ Spend("edits")
    /\ raw' = IF RawLoaded.loaded
              THEN [RawLoaded EXCEPT !.sections = With(@, s, value)] ELSE RawLoaded
    /\ lost' = LostWithoutFile(s)
    /\ cache' = [cache EXCEPT ![s] = made]
    /\ saves' = Touching({<<"section", s>>})
    /\ UNCHANGED <<disk, backends, routing, served, asked, foreign, registryVars>>

UpdateCrossModelFallback(value) ==
    EditSection("cross", value, [loaded |-> TRUE, value |-> [value EXCEPT !.enabled = TRUE]])

UpdateFinalFallback(value) ==
    EditSection("final", value, [loaded |-> TRUE, value |-> value])

\* An edit that keeps what was made of the section before.
UpdateDefaultKept(value) == EditSection("default", value, cache["default"])

UpdateDefault(value) == EditSection("default", value, NotLoaded)

(* No request will read what is made of this one.                             *)
UpdateCopilotModelMapping(value) == EditSection("copilot", value, NotLoaded)
-----------------------------------------------------------------------------
(* A save.  The route takes the sections as they are and waits for the lock;  *)
(* the backends and the rules are read later, by the thread, while it merges. *)
AskSave ==
    /\ Spend("saves")
    /\ raw' = RawLoaded
    /\ asked' = asked + 1
    /\ saves' = Append(saves, [id |-> asked + 1, sections |-> RawLoaded.sections,
                               touched |-> {}, step |-> "waiting",
                               content |-> NoContent, todo |-> {}, size |-> 0])
    /\ UNCHANGED <<disk, backends, routing, served, cache, foreign, lost, registryVars>>

(* A writer without the lock.                                                 *)
WritingAtOnce == DOMAIN saves

(* The save that holds _write_lock: the one that has waited longest.          *)
Writing == DOMAIN saves \cap {1}

unsavedVars == <<backends, routing, served, raw, cache, asked, foreign, lost, left,
                 registryVars>>

Step(i, save) == saves' = [saves EXCEPT ![i] = save] /\ UNCHANGED <<disk, unsavedVars>>

ReadFile(i) ==
    /\ saves[i].step = "waiting" /\ disk.present
    /\ Step(i, [saves[i] EXCEPT !.step = "backends", !.content = disk.content,
                                !.todo = DOMAIN backends,
                                !.size = Cardinality(DOMAIN backends)])

(* The loop over BACKENDS raises when a route has added one since it began.   *)
MergeNext(i) ==
    /\ saves[i].step = "backends" /\ saves[i].todo # {}
    /\ Cardinality(DOMAIN backends) = saves[i].size
    /\ LET b == CHOOSE x \in saves[i].todo : TRUE
       IN  Step(i, [saves[i] EXCEPT !.content = MergeBackend(@, b, backends[b]),
                                    !.todo = @ \ {b}])

BackendsMerged(i) ==
    /\ saves[i].step = "backends" /\ saves[i].todo = {}
    /\ Cardinality(DOMAIN backends) = saves[i].size
    /\ Step(i, [saves[i] EXCEPT !.step = "rules", !.size = Cardinality(DOMAIN routing)])

(* So does the loop over the rules.                                           *)
MergeTheRest(i) ==
    /\ saves[i].step = "rules"
    /\ Cardinality(DOMAIN routing) = saves[i].size
    /\ Step(i, [saves[i] EXCEPT !.step = "writing",
                    !.content = MergeSections(MergeRules(@, routing), saves[i].sections)])

Replace(i) ==
    /\ saves[i].step = "writing"
    /\ disk' = [present |-> TRUE, content |-> saves[i].content, by |-> saves[i].id]
    /\ saves' = RemoveAt(saves, i)
    /\ UNCHANGED unsavedVars

(* No file, a dictionary that changed, or an error of the disk: the panel is  *)
(* told, and the file is as it was.                                           *)
SaveFails(i) ==
    /\ \/ saves[i].step = "waiting" /\ ~disk.present
       \/ saves[i].step = "backends" /\ Cardinality(DOMAIN backends) # saves[i].size
       \/ saves[i].step = "rules" /\ Cardinality(DOMAIN routing) # saves[i].size
       \/ saves[i].step = "writing"
    /\ saves' = RemoveAt(saves, i)
    /\ UNCHANGED <<disk, unsavedVars>>
-----------------------------------------------------------------------------
(* The operator writes the file; the gateway does not notice.                 *)
HandEdit(content) ==
    /\ Spend("hand")
    /\ disk' = [disk EXCEPT !.present = TRUE, !.content = content]
    /\ foreign' = TRUE
    /\ UNCHANGED <<backends, routing, served, raw, cache, saves, asked, lost, registryVars>>

(* The process ends, in the middle of a save or not, and another starts.      *)
Restart ==
    /\ Spend("restarts")
    /\ backends' = LoadedBackends(disk.content)
    /\ routing' = disk.content.routing
    /\ served' = RulesNotLoaded /\ raw' = RawNotLoaded
    /\ cache' = [s \in Sections |-> NotLoaded]
    /\ saves' = <<>>
    /\ foreign' = FALSE /\ lost' = {}
    /\ ResetRegistry
    /\ UNCHANGED <<disk, asked>>

Panel ==
    \/ \E b \in Backends, url \in Urls, keys \in SUBSET Keys : AddBackend(b, url, keys)
    \/ \E b \in DOMAIN backends :
          \/ \E url \in Urls : UpdateBackend(b, url)
          \/ ToggleBackend(b)
          \/ ToggleScid(b)
          \/ \E key \in Keys : AddKey(b, key) \/ DeleteKey(b, key)
          \/ \E offered \in Offers : FetchModels(b, offered)
    \/ \E order \in Orders(DOMAIN backends) : ReorderBackends(order)
    \/ \E m \in RouteNames, chain \in Chains : UpdateRouting(m, chain)
    \/ \E on \in BOOLEAN :
          LET value == [enabled |-> on, rules |-> 2]
          IN  \/ UpdateCrossModelFallback(value)
              \/ UpdateFinalFallback(value)
              \/ UpdateDefault(value)
              \/ UpdateCopilotModelMapping(value)
    \/ AskSave

Requests == ReadRules \/ \E s \in InUse : ReadSection(s)

Writer == \E i \in Writing :
             \/ ReadFile(i) \/ MergeNext(i) \/ BackendsMerged(i)
             \/ MergeTheRest(i) \/ Replace(i) \/ SaveFails(i)

Outside == Restart \/ \E content \in HandWritten : HandEdit(content)

panelVars == <<configVars, saves, asked, foreign, lost>>

(* The registry.  A backend's list is of any of the models there are.         *)
Registry ==
    \/ left["refreshes"] > 0 /\ Initialize(backends) /\ UNCHANGED <<panelVars, left>>
    \/ (Wake \/ Ask) /\ Spend("refreshes") /\ UNCHANGED panelVars
    \/ /\ \/ BeginRefresh(backends) \/ SkipRefresh \/ EndRefresh \/ Age
          \/ \E b \in asking : \/ \E offered \in Offers : Learns(b, offered)
                               \/ TeachesNothing(b)
       /\ UNCHANGED <<panelVars, left>>

Next == \/ Serving /\ (Panel \/ Requests)
        \/ Writer \/ Outside \/ Registry

Spec == Init /\ [][Next]_vars
-----------------------------------------------------------------------------
Settings == (Backends \X {"enabled", "priority", "url", "keys", "models", "scid"})
            \cup ({"rule"} \X RouteNames) \cup ({"section"} \X Sections)

IsSave(save) ==
    /\ DOMAIN save = {"id", "sections", "touched", "step", "content", "todo", "size"}
    /\ save.id \in 1..asked
    /\ IsPartial(save.sections, Sections, SectionValue)
    /\ save.touched \subseteq Settings
    /\ save.step \in {"waiting", "backends", "rules", "writing"}
    /\ IsContent(save.content)
    /\ save.todo \subseteq DOMAIN backends

TypeOK == /\ asked \in Nat
          /\ DOMAIN disk = {"present", "by", "content"}
          /\ disk.present \in BOOLEAN /\ disk.by \in 0..asked /\ IsContent(disk.content)
          /\ IsPartial(backends, Backends, Backend)
          /\ IsPartial(routing, RouteNames, Rule)
          /\ served.loaded \in BOOLEAN /\ IsPartial(served.rules, RouteNames, Rule)
          /\ DOMAIN raw = {"loaded", "sections"}
          /\ raw.loaded \in BOOLEAN /\ IsPartial(raw.sections, Sections, SectionValue)
          /\ cache \in [Sections -> [loaded : BOOLEAN, value : SectionValue]]
          /\ saves \in Seq(Range(saves)) /\ \A i \in DOMAIN saves : IsSave(saves[i])
          /\ foreign \in BOOLEAN /\ lost \subseteq Sections

(* Of the save i, which is writing: what the next start makes of the file is  *)
(* what is in force, or what the panel shows of a section nobody reads.       *)
Keeps(i) ==
    LET new == LoadedBackends(disk'.content)
        same(b, field) == <<b, field>> \in saves[i].touched
                          \/ new[b][field] = backends[b][field]
    IN  /\ \A b \in DOMAIN backends :
              <<b, "enabled">> \in saves[i].touched \/ b \in DOMAIN new
        /\ \A b \in DOMAIN backends \cap DOMAIN new :
              /\ same(b, "enabled") /\ same(b, "priority")
              /\ disk'.content.backends[b].url # Reference => same(b, "url")
              /\ \/ same(b, "keys") \/ backends[b].keys = {}
                 \/ foreign /\ ~backends[b].listed
        /\ \A m \in DOMAIN served.rules :
              \/ foreign \/ <<"rule", m>> \in saves[i].touched
              \/ /\ m \in DOMAIN disk'.content.routing
                 /\ disk'.content.routing[m] = served.rules[m]
        /\ \A s \in Sections \ lost :
              \/ foreign \/ <<"section", s>> \in saves[i].touched
              \/ Parsed(s, SectionIn(disk'.content.sections, s))
                    = IF s \in InUse THEN InForce(s) ELSE Shown(s)
              \/ s = "cross" /\ ~disk'.content.sections[s].enabled

(* A save that succeeds leaves a file from which the next start puts in force *)
(* what was in force when it was asked for, whatever the routes, the requests *)
(* and other saves did meanwhile: of every setting but those edited since;    *)
(* and shows the same copilot_model_mapping, which is not in force.           *)
(* What does not come back is what the writer leaves out on purpose or the    *)
(* loader does not read: a URL where the file names a variable, the last key  *)
(* that was deleted, a cross-model fallback that was switched off (which      *)
(* stays in force until then), and what was written by hand after it was      *)
(* read: rules, sections, and a list of keys where the gateway has one key.   *)
SaveKeepsEdits ==
    [][\A i \in Writing :
         saves[i].step = "writing" /\ disk'.by = saves[i].id => Keeps(i)]_vars

(* Saves land in the order they were asked for: an older one never replaces   *)
(* what a newer one has written.                                              *)
SavesLandInOrder == [][disk'.by >= disk.by]_vars

(* What the panel shows of a section that requests read is what they get,     *)
(* whichever of the two was loaded first: but for a cross-model fallback that *)
(* was switched off and keeps working, and for what was read or edited while  *)
(* there was no file.  Of the other section, copilot_model_mapping, nothing   *)
(* is in force that it could tell; and the rules of models are no section:    *)
(* of them the panel shows the file's, in force or not.                       *)
PanelTellsTruth ==
    \A s \in InUse \ lost :
       \/ Shown(s) = InForce(s)
       \/ s = "cross" /\ ~SectionIn(RawSections, s).enabled

(* However a client spells a Claude model, a rule for it is found, if there   *)
(* is one under its plain name, with a dot or a dash: as long as the name     *)
(* tells the tier first and ends in one suffix, a date before it perhaps, or  *)
(* is in the table.  And a rule that is found is, when its entries are        *)
(* compared with the name, for that model: an entry that is not is taken for  *)
(* another model, which an IDE's client may not be sent to; and Copilot is    *)
(* asked for the same model by either name, but for Sonnet, where the dash    *)
(* makes it an older one.  Names the table sends to another model make no     *)
(* good rules: their own clients pass by them.                                *)
Understood(n) == \/ Tabled(n)
                 \/ /\ n.first = "tier"
                    /\ n.tail \in {<<>>, <<"thinking">>, <<"latest">>, <<"date">>,
                                  <<"date", "thinking">>}

Renamed(r) == r.tier \in {"gpt-4o", "gemini-3-pro"}

FoundBySpellings(keys) ==
    \A n \in Name :
        LET found == RuleFor(keys, n)
            plain == {r \in keys : \E sep \in {".", "-"} : r = Plain(n.tier, n.version, sep)}
        IN  /\ \A r \in found : Renamed(r) \/ Comparable[r] = Comparable[n]
            /\ \A r \in found : \/ Renamed(n) \/ n.tier = "sonnet"
                                \/ MapModelForCopilot(n) = MapModelForCopilot(r)
            /\ Understood(n) /\ ~Renamed(n) /\ plain # {} => found # {} /\ found \subseteq plain

Verdicts == {<<keys, FoundBySpellings(keys)>> : keys \in SUBSET RouteNames}

EverySpellingFindsItsRule == <<DOMAIN served.rules, TRUE>> \in Verdicts
=============================================================================
