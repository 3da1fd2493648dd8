-------------------------- MODULE ControlPanelProofs -------------------------
(* What holds of the configuration and its panel for any backends, files and  *)
(* routes, and any number of edits, saves, hand edits and restarts: what the  *)
(* panel shows, the order saves land in, what they keep, and how many models  *)
(* the registry learns.                                                       *)
EXTENDS ControlPanel, FiniteSetTheorems, SequenceTheorems, TLAPS

(* Dictionaries.                                                              *)
LEMMA WithPartial ==
  ASSUME NEW d, NEW S, NEW T, IsPartial(d, S, T), NEW x \in S, NEW value \in T
  PROVE  IsPartial(With(d, x, value), S, T)
  BY DEF IsPartial, With

LEMMA UpdatedPartial ==
  ASSUME NEW d, NEW e, NEW S, NEW T, IsPartial(d, S, T), IsPartial(e, S, T)
  PROVE  IsPartial(Updated(d, e), S, T)
  BY DEF IsPartial, Updated

LEMMA EmptyPartial ==
  ASSUME NEW S, NEW T
  PROVE  IsPartial(Empty, S, T)
  BY DEF IsPartial, Empty

LEMMA NoContentIsContent == IsContent(NoContent)
  BY EmptyPartial DEF IsContent, NoContent

(* What the start puts in force, and what a merge leaves in the file.         *)
LEMMA LoadedPartial ==
  ASSUME NEW content, IsContent(content)
  PROVE  IsPartial(LoadedBackends(content), Backends, Backend)
<1> DEFINE new == LoadedBackends(content)
<1>1. DOMAIN new = Builtin \cup DOMAIN content.backends /\ DOMAIN new \subseteq Backends
  BY ConfigAssumption DEF LoadedBackends, IsContent, IsPartial
<1>2. ASSUME NEW b \in DOMAIN new PROVE new[b] \in Backend
  <2>1. CodeDefault(b) \in Backend
    BY ConfigAssumption DEF CodeDefault, Backend
  <2>2. b \in DOMAIN content.backends => content.backends[b] \in Node
    BY DEF IsContent, IsPartial
  <2>3. b \in DOMAIN content.backends => Overridden(b, content.backends[b]) \in Backend
    BY <2>2, ConfigAssumption DEF Overridden, CodeDefault, Backend, Node
  <2>4. b \in DOMAIN content.backends => Added(content.backends[b]) \in Backend
    BY <2>2, ConfigAssumption DEF Added, Expanded, Backend, Node
  <2> QED BY <1>1, <2>1, <2>3, <2>4 DEF LoadedBackends
<1> QED BY <1>1, <1>2 DEF IsPartial

LEMMA MergedNodeType ==
  ASSUME NEW node \in Node, NEW backend \in Backend
  PROVE  MergedNode(node, backend) \in Node
  BY DEF MergedNode, Node, Backend

LEMMA FreshNodeType ==
  ASSUME NEW backend \in Backend
  PROVE  FreshNode(backend) \in Node
  BY DEF FreshNode, Node, Backend

LEMMA MergeBackendContent ==
  ASSUME NEW content, IsContent(content), NEW b \in Backends, NEW backend \in Backend
  PROVE  IsContent(MergeBackend(content, b, backend))
<1> DEFINE node == IF b \in DOMAIN content.backends
                   THEN MergedNode(content.backends[b], backend) ELSE FreshNode(backend)
<1>1. node \in Node
  <2>1. CASE b \in DOMAIN content.backends
    <3>1. content.backends[b] \in Node
      BY <2>1 DEF IsContent, IsPartial
    <3>2. MergedNode(content.backends[b], backend) \in Node
      BY <3>1, MergedNodeType
    <3> QED BY <2>1, <3>2
  <2>2. CASE b \notin DOMAIN content.backends
    <3>1. FreshNode(backend) \in Node
      BY FreshNodeType
    <3> QED BY <2>2, <3>1
  <2> QED BY <2>1, <2>2
<1>2. MergeBackend(content, b, backend) = [content EXCEPT !.backends = With(@, b, node)]
  BY DEF MergeBackend
<1> HIDE DEF node
<1>3. IsPartial(With(content.backends, b, node), Backends, Node)
  BY <1>1, WithPartial DEF IsContent
<1> QED BY <1>2, <1>3 DEF IsContent

LEMMA MergeRestContent ==
  ASSUME NEW content, IsContent(content), NEW rules, IsPartial(rules, RouteNames, Rule),
         NEW sections, IsPartial(sections, Sections, SectionValue)
  PROVE  IsContent(MergeSections(MergeRules(content, rules), sections))
<1> DEFINE ruled == MergeRules(content, rules)
<1>1. IsContent(ruled)
  BY DEF MergeRules, IsContent
<1>2. IsPartial(Updated(ruled.sections, sections), Sections, SectionValue)
  BY <1>1, UpdatedPartial DEF IsContent
<1> HIDE DEF ruled
<1>3. IsContent([ruled EXCEPT !.sections = Updated(@, sections)])
  BY <1>1, <1>2 DEF IsContent
<1> QED BY <1>3 DEF MergeSections, ruled
-----------------------------------------------------------------------------
(* The queue of saves is a sequence over its own elements, whatever they are. *)
LEMMA SeqOfFunction ==
  ASSUME NEW n \in Nat, NEW s, s = [i \in 1..n |-> s[i]]
  PROVE  s \in Seq(Range(s)) /\ Len(s) = n
<1>1. DOMAIN s = 1..n /\ s \in [1..n -> Range(s)]
  BY DEF Range
<1> QED BY <1>1

LEMMA SavesDomain ==
  ASSUME TypeOK
  PROVE  Len(saves) \in Nat /\ DOMAIN saves = 1..Len(saves)
  BY LenProperties DEF TypeOK

(* The first of the queue leaves.                                             *)
LEMMA RemoveFirstSave ==
  ASSUME TypeOK, 1 \in DOMAIN saves, saves' = RemoveAt(saves, 1)
  PROVE  /\ saves' \in Seq(Range(saves'))
         /\ Len(saves) \in Nat /\ DOMAIN saves' = 1..(Len(saves) - 1)
         /\ \A i \in DOMAIN saves' : i + 1 \in DOMAIN saves /\ saves'[i] = saves[i + 1]
<1> DEFINE S == Range(saves)
           rest == SubSeq(saves, 2, Len(saves))
<1>1. saves \in Seq(S) /\ Len(saves) \in Nat /\ DOMAIN saves = 1..Len(saves) /\ Len(saves) >= 1
  BY SavesDomain DEF TypeOK
<1>2. \A i \in 2..Len(saves) : saves[i] \in S
  BY <1>1 DEF Range
<1> HIDE DEF S
<1>3. /\ rest \in Seq(S) /\ Len(rest) = Len(saves) - 1
      /\ \A i \in 1..(Len(saves) - 1) : rest[i] = saves[i + 1]
  <2>1. /\ rest \in Seq(S)
        /\ Len(rest) = IF 2 <= Len(saves) THEN Len(saves) - 2 + 1 ELSE 0
        /\ \A i \in 1..(Len(saves) - 2 + 1) : rest[i] = saves[2 + i - 1]
    BY <1>1, <1>2, SubSeqProperties
  <2> QED BY <1>1, <2>1
<1> HIDE DEF rest
<1>4. SubSeq(saves, 1, 0) = << >>
  BY SubSeqEmpty
<1>5. saves' = rest
  <2>1. RemoveAt(saves, 1) = SubSeq(saves, 1, 0) \o rest
    BY DEF RemoveAt, rest
  <2>2. << >> \o rest = rest
    BY <1>3, ConcatEmptySeq
  <2> QED BY <1>4, <2>1, <2>2
<1> QED BY <1>1, <1>3, <1>5, SeqOfRange, LenProperties

LEMMA AppendSave ==
  ASSUME TypeOK, NEW save, saves' = Append(saves, save)
  PROVE  /\ saves' \in Seq(Range(saves'))
         /\ Len(saves) \in Nat /\ DOMAIN saves' = 1..(Len(saves) + 1)
         /\ \A i \in DOMAIN saves : i \in DOMAIN saves' /\ saves'[i] = saves[i]
         /\ saves'[Len(saves) + 1] = save
<1> DEFINE S == Range(saves) \cup {save}
<1>1. saves \in Seq(S) /\ save \in S
  BY SeqMonotonic DEF TypeOK
<1> HIDE DEF S
<1>2. /\ saves' \in Seq(S) /\ Len(saves') = Len(saves) + 1
      /\ \A i \in 1..Len(saves) : saves'[i] = saves[i]
      /\ saves'[Len(saves) + 1] = save
  BY <1>1
<1>3. DOMAIN saves = 1..Len(saves) /\ Len(saves) \in Nat
  BY SavesDomain
<1>4. saves' \in Seq(Range(saves'))
  BY <1>2, SeqOfRange
<1>5. DOMAIN saves' = 1..Len(saves')
  BY <1>2, LenProperties
<1> QED BY <1>2, <1>3, <1>4, <1>5

LEMMA StepSave ==
  ASSUME TypeOK, NEW i \in DOMAIN saves, NEW save, saves' = [saves EXCEPT ![i] = save]
  PROVE  /\ saves' \in Seq(Range(saves'))
         /\ DOMAIN saves' = DOMAIN saves /\ saves'[i] = save
         /\ \A j \in DOMAIN saves : j # i => saves'[j] = saves[j]
<1>1. Len(saves) \in Nat /\ DOMAIN saves = 1..Len(saves)
  BY SavesDomain
<1>2. DOMAIN saves' = DOMAIN saves /\ saves' = [j \in 1..Len(saves) |-> saves'[j]]
  BY <1>1
<1> QED BY <1>1, <1>2, SeqOfFunction

LEMMA TouchSaves ==
  ASSUME TypeOK, NEW settings, saves' = Touching(settings)
  PROVE  /\ saves' \in Seq(Range(saves'))
         /\ DOMAIN saves' = DOMAIN saves
         /\ \A i \in DOMAIN saves :
              saves'[i] = [saves[i] EXCEPT !.touched = saves[i].touched \cup settings]
<1>1. Len(saves) \in Nat /\ DOMAIN saves = 1..Len(saves)
  BY SavesDomain
<1>2. /\ DOMAIN saves' = DOMAIN saves /\ saves' = [j \in 1..Len(saves) |-> saves'[j]]
      /\ \A i \in DOMAIN saves :
           saves'[i] = [saves[i] EXCEPT !.touched = saves[i].touched \cup settings]
  BY <1>1 DEF Touching
<1> QED BY <1>1, <1>2, SeqOfFunction
-----------------------------------------------------------------------------
(* Sections: what the file, the raw copy and the sections' caches hold.       *)
LEMMA SectionInType ==
  ASSUME NEW sections, IsPartial(sections, Sections, SectionValue), NEW s
  PROVE  SectionIn(sections, s) \in SectionValue
  BY DEF SectionIn, NoSection, SectionValue, IsPartial

LEMMA ParsedType ==
  ASSUME NEW s, NEW value \in SectionValue
  PROVE  Parsed(s, value) \in SectionValue
  BY DEF Parsed, SectionValue

LEMMA RawSectionsType ==
  ASSUME TypeOK
  PROVE  /\ IsPartial(RawSections, Sections, SectionValue)
         /\ DOMAIN RawLoaded = {"loaded", "sections"} /\ RawLoaded.loaded \in BOOLEAN
         /\ IsPartial(RawLoaded.sections, Sections, SectionValue)
  BY DEF TypeOK, RawSections, RawLoaded, IsContent

LEMMA InForceType ==
  ASSUME TypeOK, NEW s \in Sections
  PROVE  InForce(s) \in SectionValue
<1>1. SectionIn(RawSections, s) \in SectionValue
  BY RawSectionsType, SectionInType
<1>2. Parsed(s, SectionIn(RawSections, s)) \in SectionValue
  BY <1>1, ParsedType
<1> QED BY <1>2 DEF InForce, TypeOK

(* TypeOK in parts, so that a step is checked where it acts.                  *)
FileOK == /\ asked \in Nat
          /\ DOMAIN disk = {"present", "by", "content"}
          /\ disk.present \in BOOLEAN /\ disk.by \in 0..asked /\ IsContent(disk.content)
BackendsOK == IsPartial(backends, Backends, Backend)
RulesOK == /\ IsPartial(routing, RouteNames, Rule)
           /\ served.loaded \in BOOLEAN /\ IsPartial(served.rules, RouteNames, Rule)
SectionsOK == /\ DOMAIN raw = {"loaded", "sections"}
              /\ raw.loaded \in BOOLEAN /\ IsPartial(raw.sections, Sections, SectionValue)
              /\ cache \in [Sections -> [loaded : BOOLEAN, value : SectionValue]]
              /\ foreign \in BOOLEAN /\ lost \subseteq Sections
SavesOK == saves \in Seq(Range(saves)) /\ \A i \in DOMAIN saves : IsSave(saves[i])

LEMMA TypeParts == TypeOK <=> /\ FileOK /\ BackendsOK /\ RulesOK
                              /\ SectionsOK /\ SavesOK
  BY DEF TypeOK, FileOK, BackendsOK, RulesOK, SectionsOK, SavesOK

LEMMA TypePartsNext ==
  ASSUME FileOK', BackendsOK', RulesOK', SectionsOK', SavesOK'
  PROVE  TypeOK'
  BY DEF TypeOK, FileOK, BackendsOK, RulesOK, SectionsOK, SavesOK

LEMMA TypeInit == Init => TypeOK
<1> SUFFICES ASSUME Init PROVE TypeOK
    OBVIOUS
<1>1. IsContent(disk.content)
  BY PanelAssumption, NoContentIsContent DEF Init
<1>2. FileOK
  BY <1>1 DEF Init, FileOK
<1>3. BackendsOK
  BY <1>1, LoadedPartial DEF Init, Started, BackendsOK
<1>4. RulesOK
  BY <1>1, EmptyPartial DEF Init, Started, RulesOK, IsContent, RulesNotLoaded
<1>5. SectionsOK
  BY EmptyPartial
  DEF Init, SectionsOK, RawNotLoaded, NotLoaded, NoSection, SectionValue
<1>6. SavesOK
  BY DEF Init, SavesOK
<1> QED BY <1>2, <1>3, <1>4, <1>5, <1>6, TypeParts

(* Saves that are only waited for stay well typed when backends are added.    *)
LEMMA SavesStayOK ==
  ASSUME TypeOK, UNCHANGED <<saves, asked>>, DOMAIN backends \subseteq DOMAIN backends'
  PROVE  SavesOK'
  BY DEF TypeOK, SavesOK, IsSave

LEMMA TouchingOK ==
  ASSUME TypeOK, NEW settings \in SUBSET Settings, saves' = Touching(settings),
         asked' = asked, DOMAIN backends \subseteq DOMAIN backends'
  PROVE  SavesOK'
<1>1. /\ saves' \in Seq(Range(saves'))
      /\ DOMAIN saves' = DOMAIN saves
      /\ \A i \in DOMAIN saves :
            saves'[i] = [saves[i] EXCEPT !.touched = saves[i].touched \cup settings]
  BY TouchSaves
<1>2. ASSUME NEW i \in DOMAIN saves PROVE IsSave(saves[i])'
  BY <1>1 DEF TypeOK, IsSave
<1> QED BY <1>1, <1>2 DEF SavesOK

LEMMA StepOK ==
  ASSUME TypeOK, NEW i \in DOMAIN saves, NEW save, IsSave(save),
         saves' = [saves EXCEPT ![i] = save], UNCHANGED <<asked, backends>>
  PROVE  SavesOK'
<1>1. /\ saves' \in Seq(Range(saves'))
      /\ DOMAIN saves' = DOMAIN saves /\ saves'[i] = save
      /\ \A j \in DOMAIN saves : j # i => saves'[j] = saves[j]
  BY StepSave
<1>2. ASSUME NEW j \in DOMAIN saves PROVE IsSave(saves[j])'
  BY <1>1 DEF TypeOK, IsSave
<1> QED BY <1>1, <1>2 DEF SavesOK

LEMMA RemoveOK ==
  ASSUME TypeOK, 1 \in DOMAIN saves, saves' = RemoveAt(saves, 1),
         UNCHANGED <<asked, backends>>
  PROVE  SavesOK'
<1>1. /\ saves' \in Seq(Range(saves'))
      /\ \A i \in DOMAIN saves' : i + 1 \in DOMAIN saves /\ saves'[i] = saves[i + 1]
  BY RemoveFirstSave
<1>2. ASSUME NEW i \in DOMAIN saves' PROVE IsSave(saves[i])'
  BY <1>1 DEF TypeOK, IsSave
<1> QED BY <1>1, <1>2 DEF SavesOK
-----------------------------------------------------------------------------
(* Every step of the panel, the requests, the writer and the world is well    *)
(* typed.                                                                     *)
LEMMA EditBackendsType ==
  ASSUME TypeOK, NEW changed, IsPartial(changed, Backends, Backend),
         DOMAIN backends \subseteq DOMAIN changed,
         NEW settings \in SUBSET Settings, EditBackends(changed, settings)
  PROVE  TypeOK'
<1>1. FileOK' /\ RulesOK' /\ SectionsOK' /\ BackendsOK'
  BY TypeParts DEF EditBackends, FileOK, RulesOK, SectionsOK, BackendsOK
<1>2. SavesOK'
  BY TouchingOK DEF EditBackends
<1> QED BY <1>1, <1>2, TypePartsNext

(* What a backend's fields are changed to keeps its type.                     *)
LEMMA ChangedType ==
  ASSUME TypeOK, NEW b \in DOMAIN backends, NEW changed \in Backend
  PROVE  /\ IsPartial([backends EXCEPT ![b] = changed], Backends, Backend)
         /\ DOMAIN [backends EXCEPT ![b] = changed] = DOMAIN backends
         /\ b \in Backends
  BY DEF TypeOK, IsPartial

LEMMA AddBackendType ==
  ASSUME TypeOK, NEW b \in Backends, NEW url \in Urls, NEW keys \in SUBSET Keys,
         AddBackend(b, url, keys)
  PROVE  TypeOK'
<1> DEFINE backend == [enabled |-> TRUE, priority |-> 5, url |-> url, listed |-> TRUE,
                       keys |-> keys, models |-> {}, scid |-> FALSE]
           settings == {b} \X {"enabled", "priority", "url", "keys"}
<1>1. backend \in Backend
  BY DEF Backend
<1>2. settings \in SUBSET Settings
  BY DEF Settings
<1>3. EditBackends(With(backends, b, backend), settings)
  BY DEF AddBackend
<1> HIDE DEF backend, settings
<1>4. IsPartial(With(backends, b, backend), Backends, Backend)
  BY <1>1, WithPartial DEF TypeOK
<1>5. DOMAIN backends \subseteq DOMAIN With(backends, b, backend)
  BY DEF With
<1> DEFINE changed == With(backends, b, backend)
<1>6. /\ IsPartial(changed, Backends, Backend) /\ DOMAIN backends \subseteq DOMAIN changed
      /\ EditBackends(changed, settings)
  BY <1>3, <1>4, <1>5
<1> HIDE DEF changed
<1> QED BY <1>2, <1>6, EditBackendsType

(* The routes that change one backend.                                        *)
ChangeBackend(b) == \/ \E url \in Urls : UpdateBackend(b, url)
                    \/ ToggleBackend(b)
                    \/ ToggleScid(b)
                    \/ \E key \in Keys : AddKey(b, key) \/ DeleteKey(b, key)
                    \/ \E offered \in Offers : FetchModels(b, offered)

(* Each is an edit of one backend's field, which it touches, and leaves the   *)
(* other fields that are saved alone.                                         *)
LEMMA ChangeBackendIs ==
  ASSUME TypeOK, NEW b \in DOMAIN backends, ChangeBackend(b)
  PROVE  \E changed \in Backend, field \in {"enabled", "url", "keys", "models", "scid"} :
           /\ EditBackends([backends EXCEPT ![b] = changed], {<<b, field>>})
           /\ changed.priority = backends[b].priority
           /\ field # "enabled" => changed.enabled = backends[b].enabled
           /\ field # "url" => changed.url = backends[b].url
           /\ field # "keys" => /\ changed.keys = backends[b].keys
                                /\ changed.listed = backends[b].listed
           /\ backends[b].listed => changed.listed
           /\ ~changed.listed => changed.keys = backends[b].keys
<1>0. backends[b] \in Backend
  BY DEF TypeOK, IsPartial
<1> DEFINE Is(changed, field) ==
           /\ EditBackends([backends EXCEPT ![b] = changed], {<<b, field>>})
           /\ changed.priority = backends[b].priority
           /\ field # "enabled" => changed.enabled = backends[b].enabled
           /\ field # "url" => changed.url = backends[b].url
           /\ field # "keys" => /\ changed.keys = backends[b].keys
                               /\ changed.listed = backends[b].listed
           /\ backends[b].listed => changed.listed
           /\ ~changed.listed => changed.keys = backends[b].keys
<1> SUFFICES \E changed \in Backend, field \in {"enabled", "url", "keys", "models", "scid"} :
                Is(changed, field)
  OBVIOUS
<1>1. ASSUME NEW url \in Urls, UpdateBackend(b, url)
      PROVE  \E changed \in Backend : Is(changed, "url")
  <2> DEFINE changed == [backends[b] EXCEPT !.url = url]
  <2>1. changed \in Backend /\ Is(changed, "url")
    BY <1>0, <1>1 DEF UpdateBackend, Backend
  <2> QED BY <2>1
<1>2. ASSUME ToggleBackend(b) PROVE \E changed \in Backend : Is(changed, "enabled")
  <2> DEFINE changed == [backends[b] EXCEPT !.enabled = ~@]
  <2>1. changed \in Backend /\ Is(changed, "enabled")
    BY <1>0, <1>2 DEF ToggleBackend, Backend
  <2> QED BY <2>1
<1>3. ASSUME ToggleScid(b) PROVE \E changed \in Backend : Is(changed, "scid")
  <2> DEFINE changed == [backends[b] EXCEPT !.scid = ~@]
  <2>1. changed \in Backend /\ Is(changed, "scid")
    BY <1>0, <1>3 DEF ToggleScid, Backend
  <2> QED BY <2>1
<1>4. ASSUME NEW key \in Keys, AddKey(b, key)
      PROVE  \E changed \in Backend : Is(changed, "keys")
  <2> DEFINE changed == [backends[b] EXCEPT !.keys = @ \cup {key}, !.listed = TRUE]
  <2>1. changed \in Backend /\ Is(changed, "keys")
    BY <1>0, <1>4 DEF AddKey, Backend
  <2> QED BY <2>1
<1>5. ASSUME NEW key \in Keys, DeleteKey(b, key)
      PROVE  \E changed \in Backend : Is(changed, "keys")
  <2> DEFINE changed == [backends[b] EXCEPT !.keys = @ \ {key}]
  <2>1. changed \in Backend /\ Is(changed, "keys")
    BY <1>0, <1>5 DEF DeleteKey, Backend
  <2> QED BY <2>1
<1>6. ASSUME NEW offered \in Offers, FetchModels(b, offered)
      PROVE  \E changed \in Backend : Is(changed, "models")
  <2> DEFINE changed == [backends[b] EXCEPT !.models = offered]
  <2>1. changed \in Backend /\ Is(changed, "models")
    BY <1>0, <1>6, ConfigAssumption DEF FetchModels, Backend
  <2> QED BY <2>1
<1> HIDE DEF Is
<1> QED BY <1>1, <1>2, <1>3, <1>4, <1>5, <1>6 DEF ChangeBackend

LEMMA ChangeBackendType ==
  ASSUME TypeOK, NEW b \in DOMAIN backends, ChangeBackend(b)
  PROVE  TypeOK'
<1>1. PICK changed \in Backend, field \in {"enabled", "url", "keys", "models", "scid"} :
         EditBackends([backends EXCEPT ![b] = changed], {<<b, field>>})
  BY ChangeBackendIs
<1> DEFINE new == [backends EXCEPT ![b] = changed]
           settings == {<<b, field>>}
<1>2. /\ IsPartial(new, Backends, Backend) /\ DOMAIN backends \subseteq DOMAIN new
      /\ settings \in SUBSET Settings
  BY ChangedType DEF Settings
<1>3. EditBackends(new, settings)
  BY <1>1
<1> HIDE DEF new, settings
<1> QED BY <1>2, <1>3, EditBackendsType

(* An order lists backends by position, each once.                            *)
LEMMA ReorderType ==
  ASSUME TypeOK, NEW order \in Orders(DOMAIN backends), ReorderBackends(order)
  PROVE  TypeOK'
<1>1. PICK some \in SUBSET DOMAIN backends :
         /\ order \in [1..Cardinality(some) -> some]
         /\ ToSet(order) \subseteq some
  <2>1. PICK some \in SUBSET DOMAIN backends : order \in SetToSeqs(some)
    BY DEF Orders
  <2>2. order \in [1..Cardinality(some) -> some]
    BY <2>1 DEF SetToSeqs
  <2>3. ToSet(order) \subseteq some
    BY <2>2 DEF ToSet
  <2> QED BY <2>2, <2>3
<1> DEFINE new == [b \in DOMAIN backends |->
                     IF b \notin ToSet(order) THEN backends[b]
                     ELSE [backends[b] EXCEPT
                             !.priority = (CHOOSE i \in DOMAIN order : order[i] = b) - 1]]
           settings == ToSet(order) \X {"priority"}
<1>2. EditBackends(new, settings)
  BY DEF ReorderBackends
<1>3. settings \in SUBSET Settings
  BY <1>1 DEF Settings, TypeOK, IsPartial
<1>4. ASSUME NEW b \in DOMAIN backends PROVE new[b] \in Backend
  <2>1. backends[b] \in Backend
    BY DEF TypeOK, IsPartial
  <2>2. CASE b \in ToSet(order)
    <3> DEFINE i == CHOOSE i \in DOMAIN order : order[i] = b
    <3>1. i \in DOMAIN order
      BY <2>2 DEF ToSet
    <3>2. i \in 1..Cardinality(some)
      BY <1>1, <3>1
    <3>3. Cardinality(some) \in Nat
      <4>1. some \in SUBSET Backends
        BY DEF TypeOK, IsPartial
      <4> QED BY <4>1, FS_Subset, FS_CardinalityType, ConfigAssumption
    <3>4. i - 1 \in Nat
      BY <3>2, <3>3
    <3> HIDE DEF i
    <3>5. [backends[b] EXCEPT !.priority = i - 1] \in Backend
      BY <2>1, <3>4 DEF Backend
    <3> QED BY <2>2, <3>5 DEF i
  <2> QED BY <2>1, <2>2
<1>5. DOMAIN new = DOMAIN backends /\ DOMAIN backends \subseteq Backends
  BY DEF TypeOK, IsPartial
<1> HIDE DEF new, settings
<1>6. IsPartial(new, Backends, Backend)
  BY <1>4, <1>5 DEF IsPartial
<1> QED BY <1>2, <1>3, <1>5, <1>6, EditBackendsType

LEMMA UpdateRoutingType ==
  ASSUME TypeOK, NEW m \in RouteNames, NEW chain \in Chains, UpdateRouting(m, chain)
  PROVE  TypeOK'
<1>1. PICK rule \in Rule : /\ served' = [loaded |-> TRUE, rules |-> With(served.rules, m, rule)]
                           /\ routing' = With(routing, m, rule)
  <2> DEFINE current == IF m \in DOMAIN served.rules THEN served.rules[m].enabled
                        ELSE IF m \in DOMAIN routing THEN routing[m].enabled ELSE TRUE
             rule == [enabled |-> current, chain |-> chain]
  <2>1. current \in BOOLEAN
    BY DEF TypeOK, IsPartial, Rule
  <2>2. rule \in Rule
    BY <2>1 DEF Rule
  <2> QED BY <2>2 DEF UpdateRouting
<1>2. RulesOK'
  <2>1. IsPartial(With(routing, m, rule), RouteNames, Rule)
    BY WithPartial DEF TypeOK
  <2>2. IsPartial(With(served.rules, m, rule), RouteNames, Rule)
    BY WithPartial DEF TypeOK
  <2> QED BY <1>1, <2>1, <2>2 DEF RulesOK
<1>3. FileOK' /\ SectionsOK' /\ BackendsOK'
  BY TypeParts DEF UpdateRouting, FileOK, SectionsOK, BackendsOK
<1>4. SavesOK'
  <2> DEFINE settings == {<<"rule", m>>}
  <2>1. settings \in SUBSET Settings /\ saves' = Touching(settings)
    BY DEF Settings, UpdateRouting
  <2> HIDE DEF settings
  <2> QED BY <2>1, TouchingOK DEF UpdateRouting
<1> QED BY <1>2, <1>3, <1>4, TypePartsNext

(* The routes that replace a section: what each makes of it.                  *)
LEMMA EditSectionType ==
  ASSUME TypeOK, NEW s \in Sections, NEW value \in SectionValue,
         NEW made \in [loaded : BOOLEAN, value : SectionValue], EditSection(s, value, made)
  PROVE  TypeOK'
<1>1. SectionsOK'
  <2>1. DOMAIN raw' = {"loaded", "sections"} /\ raw'.loaded \in BOOLEAN
    BY RawSectionsType DEF EditSection
  <2>2. IsPartial(raw'.sections, Sections, SectionValue)
    <3>1. IsPartial(With(RawLoaded.sections, s, value), Sections, SectionValue)
      BY RawSectionsType, WithPartial
    <3> QED BY <3>1, RawSectionsType DEF EditSection
  <2>3. lost' \subseteq Sections
    BY DEF EditSection, LostWithoutFile, TypeOK
  <2> QED BY <2>1, <2>2, <2>3 DEF EditSection, SectionsOK, TypeOK
<1>2. FileOK' /\ RulesOK' /\ BackendsOK'
  BY TypeParts DEF EditSection, FileOK, RulesOK, BackendsOK
<1>3. SavesOK'
  <2> DEFINE settings == {<<"section", s>>}
  <2>1. settings \in SUBSET Settings /\ saves' = Touching(settings)
    BY DEF Settings, EditSection
  <2> HIDE DEF settings
  <2> QED BY <2>1, TouchingOK DEF EditSection
<1> QED BY <1>1, <1>2, <1>3, TypePartsNext

LEMMA RequestsType ==
  ASSUME TypeOK, Requests
  PROVE  TypeOK'
<1>1. CASE ReadRules
  <2>1. FileOK' /\ RulesOK' /\ BackendsOK' /\ SectionsOK'
    BY <1>1, TypeParts
    DEF ReadRules, FileOK, RulesOK, BackendsOK, SectionsOK, IsContent
  <2>2. SavesOK'
    BY <1>1, SavesStayOK DEF ReadRules
  <2> QED BY <2>1, <2>2, TypePartsNext
<1>2. ASSUME NEW s \in Sections, ReadSection(s) PROVE TypeOK'
  <2>1. SectionsOK'
    <3>1. InForce(s) \in SectionValue
      BY InForceType
    <3>2. cache' \in [Sections -> [loaded : BOOLEAN, value : SectionValue]]
      BY <1>2, <3>1 DEF ReadSection, TypeOK
    <3> QED BY <1>2, <3>2, RawSectionsType
            DEF ReadSection, LostWithoutFile, SectionsOK, TypeOK
  <2>2. FileOK' /\ RulesOK' /\ BackendsOK'
    BY <1>2, TypeParts DEF ReadSection, FileOK, RulesOK, BackendsOK
  <2>3. SavesOK'
    BY <1>2, SavesStayOK DEF ReadSection
  <2> QED BY <2>1, <2>2, <2>3, TypePartsNext
<1> QED BY <1>1, <1>2 DEF Requests, InUse

NewSave == [id |-> asked + 1, sections |-> RawLoaded.sections, touched |-> {},
            step |-> "waiting", content |-> NoContent, todo |-> {}, size |-> 0]

LEMMA AskSaveType ==
  ASSUME TypeOK, AskSave
  PROVE  TypeOK'
<1>1. FileOK' /\ RulesOK' /\ BackendsOK'
  BY TypeParts DEF AskSave, FileOK, RulesOK, BackendsOK
<1>2. SectionsOK'
  BY RawSectionsType DEF AskSave, SectionsOK, TypeOK
<1>3. saves' = Append(saves, NewSave)
  BY DEF AskSave, NewSave
<1>4. /\ saves' \in Seq(Range(saves'))
      /\ Len(saves) \in Nat /\ DOMAIN saves' = 1..(Len(saves) + 1)
      /\ DOMAIN saves = 1..Len(saves)
      /\ \A i \in DOMAIN saves : i \in DOMAIN saves' /\ saves'[i] = saves[i]
      /\ saves'[Len(saves) + 1] = NewSave
  BY <1>3, AppendSave, SavesDomain
<1>5. asked' = asked + 1 /\ asked \in Nat /\ backends' = backends
  BY DEF AskSave, TypeOK
<1>6. ASSUME NEW i \in DOMAIN saves PROVE IsSave(saves[i])'
  <2>1. IsSave(saves[i]) /\ saves'[i] = saves[i]
    BY <1>4 DEF TypeOK
  <2> QED BY <1>5, <2>1 DEF IsSave
<1>7. ASSUME NEW i \in DOMAIN saves', saves'[i] = NewSave PROVE IsSave(saves[i])'
  <2>1. /\ DOMAIN NewSave = {"id", "sections", "touched", "step", "content", "todo", "size"}
        /\ NewSave.id \in 1..asked'
        /\ IsPartial(NewSave.sections, Sections, SectionValue)
        /\ NewSave.touched \subseteq Settings
        /\ NewSave.step = "waiting"
        /\ IsContent(NewSave.content)
        /\ NewSave.todo \subseteq DOMAIN backends
    BY <1>5, RawSectionsType, NoContentIsContent DEF NewSave
  <2> QED BY <1>5, <1>7, <2>1 DEF IsSave
<1>8. SavesOK'
  <2>1. \A i \in DOMAIN saves' : i \in DOMAIN saves \/ saves'[i] = NewSave
    BY <1>4
  <2> QED BY <1>4, <1>6, <1>7, <2>1 DEF SavesOK
<1> QED BY <1>1, <1>2, <1>8, TypePartsNext

(* What a step of the writer makes of the save it works on.                   *)
LEMMA WriterSteps ==
  ASSUME TypeOK, NEW i \in Writing,
         ReadFile(i) \/ MergeNext(i) \/ BackendsMerged(i) \/ MergeTheRest(i)
  PROVE  /\ i = 1 /\ i \in DOMAIN saves
         /\ UNCHANGED <<disk, unsavedVars>>
         /\ \E save : IsSave(save) /\ saves' = [saves EXCEPT ![i] = save]
<1>0. i = 1 /\ i \in DOMAIN saves /\ IsSave(saves[i])
  BY DEF Writing, TypeOK
<1>1. UNCHANGED <<disk, unsavedVars>>
  BY DEF ReadFile, MergeNext, BackendsMerged, MergeTheRest, Step
<1>2. CASE ReadFile(i)
  <2> DEFINE save == [saves[i] EXCEPT !.step = "backends", !.content = disk.content,
                                      !.todo = DOMAIN backends,
                                      !.size = Cardinality(DOMAIN backends)]
  <2>1. IsSave(save)
    BY <1>0 DEF IsSave, TypeOK
  <2> QED BY <1>0, <1>1, <1>2, <2>1 DEF ReadFile, Step
<1>3. CASE MergeNext(i)
  <2>1. PICK b \in saves[i].todo :
           saves' = [saves EXCEPT ![i] =
                       [saves[i] EXCEPT !.content = MergeBackend(@, b, backends[b]),
                                        !.todo = @ \ {b}]]
    BY <1>3 DEF MergeNext, Step
  <2>2. b \in Backends /\ backends[b] \in Backend
    BY <1>0 DEF IsSave, TypeOK, IsPartial
  <2> DEFINE merged == MergeBackend(saves[i].content, b, backends[b])
  <2>3. IsContent(merged)
    <3> DEFINE content == saves[i].content
               backend == backends[b]
    <3>1. IsContent(content) /\ backend \in Backend
      BY <1>0, <2>2 DEF IsSave
    <3> HIDE DEF content, backend
    <3>2. IsContent(MergeBackend(content, b, backend))
      BY <2>2, <3>1, MergeBackendContent
    <3> QED BY <3>2 DEF content, backend
  <2> HIDE DEF merged
  <2> DEFINE save == [saves[i] EXCEPT !.content = merged, !.todo = @ \ {b}]
  <2>4. IsSave(save)
    BY <1>0, <2>3 DEF IsSave
  <2> QED BY <1>0, <1>1, <2>1, <2>4 DEF merged
<1>4. CASE BackendsMerged(i)
  <2> DEFINE save == [saves[i] EXCEPT !.step = "rules", !.size = Cardinality(DOMAIN routing)]
  <2>1. IsSave(save)
    BY <1>0 DEF IsSave
  <2> QED BY <1>0, <1>1, <1>4, <2>1 DEF BackendsMerged, Step
<1>5. CASE MergeTheRest(i)
  <2> DEFINE content == saves[i].content
             sections == saves[i].sections
             merged == MergeSections(MergeRules(content, routing), sections)
             save == [saves[i] EXCEPT !.step = "writing", !.content = merged]
  <2>1. IsContent(merged)
    <3>1. /\ IsContent(content) /\ IsPartial(sections, Sections, SectionValue)
          /\ IsPartial(routing, RouteNames, Rule)
      BY <1>0 DEF IsSave, TypeOK
    <3> HIDE DEF content, sections
    <3> QED BY <3>1, MergeRestContent
  <2>2. saves' = [saves EXCEPT ![i] = save]
    BY <1>5 DEF MergeTheRest, Step
  <2> HIDE DEF merged
  <2>3. IsSave(save)
    BY <1>0, <2>1 DEF IsSave
  <2> HIDE DEF save
  <2> QED BY <1>0, <1>1, <2>2, <2>3
<1> QED BY <1>2, <1>3, <1>4, <1>5

LEMMA WriterType ==
  ASSUME TypeOK, Writer
  PROVE  TypeOK'
<1>1. PICK i \in Writing : \/ ReadFile(i) \/ MergeNext(i) \/ BackendsMerged(i)
                           \/ MergeTheRest(i) \/ Replace(i) \/ SaveFails(i)
  BY DEF Writer
<1>0. i = 1 /\ i \in DOMAIN saves /\ IsSave(saves[i])
  BY DEF Writing, TypeOK
<1>2. RulesOK' /\ BackendsOK' /\ SectionsOK'
  BY <1>1, TypeParts
  DEF ReadFile, MergeNext, BackendsMerged, MergeTheRest, Replace, SaveFails, Step,
      unsavedVars, RulesOK, BackendsOK, SectionsOK
<1>3. CASE ReadFile(i) \/ MergeNext(i) \/ BackendsMerged(i) \/ MergeTheRest(i)
  <2>1. PICK save : IsSave(save) /\ saves' = [saves EXCEPT ![i] = save]
    BY <1>3, WriterSteps
  <2>2. UNCHANGED <<disk, unsavedVars>>
    BY <1>3, WriterSteps
  <2>3. SavesOK'
    BY <1>0, <2>1, <2>2, StepOK DEF unsavedVars
  <2>4. FileOK'
    BY <2>2, TypeParts DEF unsavedVars, FileOK
  <2> QED BY <1>2, <2>3, <2>4, TypePartsNext
<1>4. CASE Replace(i)
  <2>1. SavesOK'
    BY <1>0, <1>4, RemoveOK DEF Replace, unsavedVars
  <2>2. FileOK'
    BY <1>0, <1>4 DEF Replace, unsavedVars, FileOK, TypeOK, IsSave
  <2> QED BY <1>2, <2>1, <2>2, TypePartsNext
<1>5. CASE SaveFails(i)
  <2>1. SavesOK'
    BY <1>0, <1>5, RemoveOK DEF SaveFails, unsavedVars
  <2>2. FileOK'
    BY <1>5, TypeParts DEF SaveFails, unsavedVars, FileOK
  <2> QED BY <1>2, <2>1, <2>2, TypePartsNext
<1> QED BY <1>1, <1>3, <1>4, <1>5

LEMMA OutsideType ==
  ASSUME TypeOK, Outside
  PROVE  TypeOK'
<1>1. CASE Restart
  <2>1. FileOK' /\ RulesOK' /\ SectionsOK'
    BY <1>1, TypeParts, EmptyPartial
    DEF Restart, FileOK, RulesOK, SectionsOK, IsContent, RulesNotLoaded, RawNotLoaded,
        NotLoaded, NoSection, SectionValue
  <2>2. BackendsOK'
    BY <1>1, LoadedPartial DEF Restart, BackendsOK, TypeOK
  <2>3. SavesOK'
    BY <1>1 DEF Restart, SavesOK
  <2> QED BY <2>1, <2>2, <2>3, TypePartsNext
<1>2. ASSUME NEW content \in HandWritten, HandEdit(content) PROVE TypeOK'
  <2>1. FileOK' /\ RulesOK' /\ SectionsOK' /\ BackendsOK'
    BY <1>2, TypeParts, PanelAssumption DEF HandEdit, FileOK, RulesOK, SectionsOK, BackendsOK
  <2>2. SavesOK'
    BY <1>2, SavesStayOK DEF HandEdit
  <2> QED BY <2>1, <2>2, TypePartsNext
<1> QED BY <1>1, <1>2 DEF Outside

(* What the panel's routes are.                                               *)
LEMMA PanelIs ==
  ASSUME Panel
  PROVE  \/ \E b \in Backends, url \in Urls, keys \in SUBSET Keys : AddBackend(b, url, keys)
         \/ \E b \in DOMAIN backends : ChangeBackend(b)
         \/ \E order \in Orders(DOMAIN backends) : ReorderBackends(order)
         \/ \E m \in RouteNames, chain \in Chains : UpdateRouting(m, chain)
         \/ \E on \in BOOLEAN :
               LET value == [enabled |-> on, rules |-> 2]
               IN  \/ UpdateCrossModelFallback(value)
                   \/ UpdateFinalFallback(value)
                   \/ UpdateDefault(value)
                   \/ UpdateCopilotModelMapping(value)
         \/ AskSave
  BY DEF Panel, ChangeBackend

(* An edit of a section: which, and what it makes of it.                      *)
SectionEdit(s, value, made) ==
    /\ EditSection(s, value, made)
    /\ \/ s = "cross" /\ made = [loaded |-> TRUE, value |-> [value EXCEPT !.enabled = TRUE]]
       \/ s = "final" /\ made = [loaded |-> TRUE, value |-> value]
       \/ s \in {"default", "copilot"} /\ made = NotLoaded

LEMMA SectionEditIs ==
  ASSUME NEW value \in SectionValue,
         \/ UpdateCrossModelFallback(value)
         \/ UpdateFinalFallback(value)
         \/ UpdateDefault(value)
         \/ UpdateCopilotModelMapping(value)
  PROVE  \E s \in Sections, made \in [loaded : BOOLEAN, value : SectionValue] :
            SectionEdit(s, value, made)
<1>1. CASE UpdateCrossModelFallback(value)
  <2> DEFINE made == [loaded |-> TRUE, value |-> [value EXCEPT !.enabled = TRUE]]
  <2>1. made \in [loaded : BOOLEAN, value : SectionValue] /\ "cross" \in Sections
    BY DEF SectionValue, Sections
  <2>2. SectionEdit("cross", value, made)
    BY <1>1 DEF UpdateCrossModelFallback, SectionEdit
  <2> QED BY <2>1, <2>2
<1>2. CASE UpdateFinalFallback(value)
  <2> DEFINE made == [loaded |-> TRUE, value |-> value]
  <2>1. made \in [loaded : BOOLEAN, value : SectionValue] /\ "final" \in Sections
    BY DEF Sections
  <2>2. SectionEdit("final", value, made)
    BY <1>2 DEF UpdateFinalFallback, SectionEdit
  <2> QED BY <2>1, <2>2
<1>3. CASE UpdateDefault(value)
  <2>1. NotLoaded \in [loaded : BOOLEAN, value : SectionValue] /\ "default" \in Sections
    BY DEF NotLoaded, NoSection, SectionValue, Sections
  <2>2. SectionEdit("default", value, NotLoaded)
    BY <1>3 DEF UpdateDefault, SectionEdit
  <2> QED BY <2>1, <2>2
<1>4. CASE UpdateCopilotModelMapping(value)
  <2>1. NotLoaded \in [loaded : BOOLEAN, value : SectionValue] /\ "copilot" \in Sections
    BY DEF NotLoaded, NoSection, SectionValue, Sections
  <2>2. SectionEdit("copilot", value, NotLoaded)
    BY <1>4 DEF UpdateCopilotModelMapping, SectionEdit
  <2> QED BY <2>1, <2>2
<1> QED BY <1>1, <1>2, <1>3, <1>4

LEMMA PanelType ==
  ASSUME TypeOK, Panel
  PROVE  TypeOK'
<1>1. ASSUME NEW on \in BOOLEAN,
             LET value == [enabled |-> on, rules |-> 2]
             IN  \/ UpdateCrossModelFallback(value)
                 \/ UpdateFinalFallback(value)
                 \/ UpdateDefault(value)
                 \/ UpdateCopilotModelMapping(value)
      PROVE  TypeOK'
  <2> DEFINE value == [enabled |-> on, rules |-> 2]
  <2>1. value \in SectionValue
    BY DEF SectionValue
  <2>2. UpdateCrossModelFallback(value) \/ UpdateFinalFallback(value) \/ UpdateDefault(value)
       \/ UpdateCopilotModelMapping(value)
    BY <1>1
  <2> HIDE DEF value
  <2>3. PICK s \in Sections, made \in [loaded : BOOLEAN, value : SectionValue] :
           SectionEdit(s, value, made)
    BY <2>1, <2>2, SectionEditIs
  <2> QED BY <2>1, <2>3, EditSectionType DEF SectionEdit
<1> QED BY <1>1, PanelIs, AddBackendType, ChangeBackendType, ReorderType,
           UpdateRoutingType, AskSaveType

(* The registry keeps to itself, and so does a step that changes nothing.     *)
LEMMA AloneType ==
  ASSUME TypeOK, UNCHANGED panelVars
  PROVE  TypeOK'
  BY DEF panelVars, configVars, TypeOK, IsSave

LEMMA TypeNext == TypeOK /\ [Next]_vars => TypeOK'
<1> SUFFICES ASSUME TypeOK, [Next]_vars PROVE TypeOK'
    OBVIOUS
<1>1. CASE Registry \/ UNCHANGED vars
  <2>1. UNCHANGED panelVars
    BY <1>1 DEF Registry, vars, panelVars
  <2> QED BY <2>1, AloneType
<1> QED BY <1>1, PanelType, RequestsType, WriterType, OutsideType DEF Next

(* Type correctness of the panel and the configuration it edits.              *)
THEOREM TypeCorrect == Spec => []TypeOK
  BY TypeInit, TypeNext, PTL DEF Spec
-----------------------------------------------------------------------------
(* The registry.  Models are learned only while there is room.                *)
Learned == IsFiniteSet(ModelsOf(dynamic)) /\ DynamicBounded

LEMMA LearnedNext == Learned /\ [Next]_vars => Learned'
<1> SUFFICES ASSUME Learned, [Next]_vars PROVE Learned'
    OBVIOUS
<1>0. MAX_TOTAL_DYNAMIC_MODELS \in Nat /\ MAX_MODELS_PER_BACKEND \in Nat
  BY RegistryAssumption
<1>1. CASE dynamic' = dynamic
  BY <1>1 DEF Learned, DynamicBounded, ModelsOf
<1>2. CASE ResetRegistry
  <2>1. ModelsOf(dynamic') = {}
    BY <1>2 DEF ResetRegistry, ModelsOf
  <2> QED BY <1>0, <2>1, FS_EmptySet DEF Learned, DynamicBounded
<1>3. ASSUME NEW b, NEW offered \in Offers, Learns(b, offered) PROVE Learned'
  <2>1. CASE HasRoom
    <3>1. dynamic' = dynamic \cup (offered \X {b})
      BY <1>3, <2>1 DEF Learns
    <3>2. ModelsOf(dynamic') = ModelsOf(dynamic) \cup offered
      <4>1. ModelsOf(dynamic') = ModelsOf(dynamic) \cup ModelsOf(offered \X {b})
        BY <3>1 DEF ModelsOf
      <4>2. ModelsOf(offered \X {b}) = offered
        <5>1. ASSUME NEW m \in offered PROVE m \in ModelsOf(offered \X {b})
          <6>1. <<m, b>> \in offered \X {b} /\ <<m, b>>[1] = m
            OBVIOUS
          <6> QED BY <6>1 DEF ModelsOf
        <5>2. ASSUME NEW p \in offered \X {b} PROVE p[1] \in offered
          OBVIOUS
        <5> QED BY <5>1, <5>2 DEF ModelsOf
      <4> QED BY <4>1, <4>2
    <3>3. IsFiniteSet(offered) /\ IsFiniteSet(ModelsOf(dynamic))
      BY ConfigAssumption DEF Learned
    <3> DEFINE known == ModelsOf(dynamic)
    <3> HIDE DEF known
    <3>4. /\ IsFiniteSet(known \cup offered)
          /\ Cardinality(known \cup offered)
               = Cardinality(known) + Cardinality(offered) - Cardinality(known \cap offered)
      BY <3>3, FS_Union DEF known
    <3>5. /\ Cardinality(known) \in Nat /\ Cardinality(offered) \in Nat
          /\ Cardinality(known \cap offered) \in Nat
      BY <3>3, FS_CardinalityType, FS_Subset DEF known
    <3>6. /\ Cardinality(known) <= MAX_TOTAL_DYNAMIC_MODELS
          /\ Cardinality(offered) <= MAX_MODELS_PER_BACKEND
      BY <1>0, <1>3, <2>1 DEF HasRoom, Learns, known
    <3>7. Cardinality(known \cup offered) <= MAX_TOTAL_DYNAMIC_MODELS + MAX_MODELS_PER_BACKEND
      BY <1>0, <3>4, <3>5, <3>6
    <3> QED BY <3>2, <3>4, <3>7 DEF Learned, DynamicBounded, known
  <2>2. CASE ~HasRoom
    BY <1>1, <1>3, <2>2 DEF Learns
  <2> QED BY <2>1, <2>2
<1>4. CASE Panel \/ Requests \/ Writer
  <2>1. dynamic' = dynamic
    BY <1>4
    DEF Panel, AddBackend, UpdateBackend, ToggleBackend, ToggleScid, AddKey, DeleteKey,
        FetchModels, ReorderBackends, EditBackends, UpdateRouting,
        UpdateCrossModelFallback, UpdateFinalFallback, UpdateDefault,
        UpdateCopilotModelMapping, EditSection,
        AskSave, Requests, ReadRules, ReadSection, Writer, ReadFile, MergeNext,
        BackendsMerged, MergeTheRest, Replace, SaveFails, Step, unsavedVars, registryVars
  <2> QED BY <1>1, <2>1
<1>5. CASE Outside
  BY <1>1, <1>2, <1>5 DEF Outside, Restart, HandEdit, registryVars
<1>6. CASE Registry
  BY <1>1, <1>3, <1>6
  DEF Registry, Initialize, Wake, Ask, BeginRefresh, SkipRefresh, EndRefresh, Age,
      TeachesNothing
<1>7. CASE UNCHANGED vars
  BY <1>1, <1>7 DEF vars, registryVars
<1> QED BY <1>4, <1>5, <1>6, <1>7 DEF Next

(* The models learned from the backends stay below the limit and one          *)
(* backend's list, whatever refreshes overlap (_refresh_backend).             *)
THEOREM LearnedModelsAreBounded == Spec => []DynamicBounded
<1>1. Init => Learned
  <2> SUFFICES ASSUME Init PROVE Learned
      OBVIOUS
  <2>1. ModelsOf(dynamic) = {}
    BY DEF Init, InitRegistry, ModelsOf
  <2> QED BY <2>1, FS_EmptySet, RegistryAssumption DEF Learned, DynamicBounded
<1>2. Learned => DynamicBounded
  BY DEF Learned
<1> QED BY <1>1, <1>2, LearnedNext, PTL DEF Spec
-----------------------------------------------------------------------------
(* Saves are numbered as they were asked for, wait in that order, and what is *)
(* in the file is older than any that waits.                                  *)
Ordered == /\ \A i \in DOMAIN saves : disk.by < saves[i].id
           /\ \A i, j \in DOMAIN saves : i < j => saves[i].id < saves[j].id

LEMMA SameOrder ==
  ASSUME Ordered, disk'.by = disk.by, DOMAIN saves' = DOMAIN saves,
         \A i \in DOMAIN saves : saves'[i].id = saves[i].id
  PROVE  Ordered'
  BY DEF Ordered

LEMMA TouchedOrder ==
  ASSUME TypeOK, Ordered, NEW settings, saves' = Touching(settings), disk' = disk
  PROVE  Ordered'
<1>1. /\ DOMAIN saves' = DOMAIN saves
      /\ \A i \in DOMAIN saves :
            saves'[i] = [saves[i] EXCEPT !.touched = saves[i].touched \cup settings]
  BY TouchSaves
<1>2. \A i \in DOMAIN saves : saves'[i].id = saves[i].id
  BY <1>1 DEF TypeOK, IsSave
<1> QED BY <1>1, <1>2, SameOrder

LEMMA WriterKeepsId ==
  ASSUME TypeOK, NEW i \in Writing,
         ReadFile(i) \/ MergeNext(i) \/ BackendsMerged(i) \/ MergeTheRest(i)
  PROVE  /\ DOMAIN saves' = DOMAIN saves
         /\ \A j \in DOMAIN saves : /\ saves'[j].id = saves[j].id
                                    /\ saves'[j].sections = saves[j].sections
                                    /\ saves'[j].touched = saves[j].touched
<1>1. i \in DOMAIN saves /\ IsSave(saves[i])
  BY DEF Writing, TypeOK
<1>2. CASE ReadFile(i)
  BY <1>1, <1>2 DEF ReadFile, Step, IsSave
<1>3. CASE MergeNext(i)
  BY <1>1, <1>3 DEF MergeNext, Step, IsSave
<1>4. CASE BackendsMerged(i)
  BY <1>1, <1>4 DEF BackendsMerged, Step, IsSave
<1>5. CASE MergeTheRest(i)
  BY <1>1, <1>5 DEF MergeTheRest, Step, IsSave
<1> QED BY <1>2, <1>3, <1>4, <1>5

LEMMA RemovedOrder ==
  ASSUME TypeOK, Ordered, 1 \in DOMAIN saves, saves' = RemoveAt(saves, 1),
         disk'.by \in {disk.by, saves[1].id}
  PROVE  Ordered' /\ disk'.by >= disk.by
<1>1. /\ Len(saves) \in Nat /\ DOMAIN saves' = 1..(Len(saves) - 1)
      /\ DOMAIN saves = 1..Len(saves)
      /\ \A i \in DOMAIN saves' : i + 1 \in DOMAIN saves /\ saves'[i] = saves[i + 1]
  BY RemoveFirstSave, SavesDomain
<1>2. /\ \A i \in DOMAIN saves : saves[i].id \in Nat
      /\ disk.by \in Nat
  BY DEF TypeOK, IsSave
<1>3. ASSUME NEW i \in DOMAIN saves' PROVE disk'.by < saves'[i].id
  <2>1. i + 1 \in DOMAIN saves /\ 1 < i + 1 /\ saves'[i] = saves[i + 1]
    BY <1>1
  <2>2. saves[1].id < saves[i + 1].id /\ disk.by < saves[i + 1].id
    BY <2>1 DEF Ordered
  <2> QED BY <2>1, <2>2
<1>4. ASSUME NEW i \in DOMAIN saves', NEW j \in DOMAIN saves', i < j
      PROVE  saves'[i].id < saves'[j].id
  <2>1. /\ i + 1 \in DOMAIN saves /\ saves'[i] = saves[i + 1]
        /\ j + 1 \in DOMAIN saves /\ saves'[j] = saves[j + 1]
        /\ i + 1 < j + 1
    BY <1>1, <1>4
  <2> QED BY <2>1 DEF Ordered
<1>5. disk'.by >= disk.by
  BY <1>2 DEF Ordered
<1> QED BY <1>3, <1>4, <1>5 DEF Ordered

LEMMA OrderedNext == TypeOK /\ Ordered /\ [Next]_vars => Ordered' /\ disk'.by >= disk.by
<1> SUFFICES ASSUME TypeOK, Ordered, [Next]_vars PROVE Ordered' /\ disk'.by >= disk.by
    OBVIOUS
<1>0. disk.by \in Nat
  BY DEF TypeOK
<1>1. CASE UNCHANGED <<disk, saves>>
  BY <1>0, <1>1 DEF Ordered
<1>2. ASSUME NEW settings, saves' = Touching(settings), disk' = disk
      PROVE  Ordered' /\ disk'.by >= disk.by
  BY <1>0, <1>2, TouchedOrder
<1>3. CASE AskSave
  <2>1. saves' = Append(saves, NewSave) /\ disk' = disk
    BY <1>3 DEF AskSave, NewSave
  <2>2. /\ Len(saves) \in Nat /\ DOMAIN saves' = 1..(Len(saves) + 1)
        /\ DOMAIN saves = 1..Len(saves)
        /\ \A i \in DOMAIN saves : saves'[i] = saves[i]
        /\ saves'[Len(saves) + 1].id = asked + 1
    BY <2>1, AppendSave, SavesDomain DEF NewSave
  <2>3. /\ asked \in Nat /\ disk.by <= asked
        /\ \A i \in DOMAIN saves : saves[i].id \in Nat /\ saves[i].id <= asked
    BY DEF TypeOK, IsSave
  <2>4. ASSUME NEW i \in DOMAIN saves' PROVE disk'.by < saves'[i].id
    BY <1>0, <2>1, <2>2, <2>3 DEF Ordered
  <2>5. ASSUME NEW i \in DOMAIN saves', NEW j \in DOMAIN saves', i < j
        PROVE  saves'[i].id < saves'[j].id
    <3>1. i \in DOMAIN saves
      BY <2>2, <2>5
    <3>2. CASE j \in DOMAIN saves
      BY <2>2, <2>5, <3>1, <3>2 DEF Ordered
    <3>3. CASE j = Len(saves) + 1
      BY <2>2, <2>3, <3>1, <3>3
    <3> QED BY <2>2, <3>2, <3>3
  <2> QED BY <1>0, <2>1, <2>4, <2>5 DEF Ordered
<1>4. CASE Panel
  <2>1. ASSUME NEW b \in DOMAIN backends, ChangeBackend(b)
        PROVE  Ordered' /\ disk'.by >= disk.by
    BY <1>2, <2>1, ChangeBackendIs DEF EditBackends
  <2>2. ASSUME NEW on \in BOOLEAN,
               LET value == [enabled |-> on, rules |-> 2]
               IN  \/ UpdateCrossModelFallback(value)
                   \/ UpdateFinalFallback(value)
                   \/ UpdateDefault(value)
                   \/ UpdateCopilotModelMapping(value)
        PROVE  Ordered' /\ disk'.by >= disk.by
    BY <1>2, <2>2
    DEF UpdateCrossModelFallback, UpdateFinalFallback, UpdateDefault,
        UpdateCopilotModelMapping, EditSection
  <2>3. ASSUME NEW b, NEW url, NEW keys, AddBackend(b, url, keys)
        PROVE  Ordered' /\ disk'.by >= disk.by
    BY <1>2, <2>3 DEF AddBackend, EditBackends
  <2>4. ASSUME NEW order, ReorderBackends(order) PROVE Ordered' /\ disk'.by >= disk.by
    BY <1>2, <2>4 DEF ReorderBackends, EditBackends
  <2>5. ASSUME NEW m, NEW chain, UpdateRouting(m, chain)
        PROVE  Ordered' /\ disk'.by >= disk.by
    BY <1>2, <2>5 DEF UpdateRouting
  <2> QED BY <1>3, <1>4, PanelIs, <2>1, <2>2, <2>3, <2>4, <2>5
<1>5. CASE Writer
  <2>1. PICK i \in Writing : \/ ReadFile(i) \/ MergeNext(i) \/ BackendsMerged(i)
                             \/ MergeTheRest(i) \/ Replace(i) \/ SaveFails(i)
    BY <1>5 DEF Writer
  <2>2. i = 1 /\ i \in DOMAIN saves
    BY DEF Writing
  <2>3. CASE ReadFile(i) \/ MergeNext(i) \/ BackendsMerged(i) \/ MergeTheRest(i)
    <3>1. disk' = disk
      BY <2>3, WriterSteps
    <3> QED BY <1>0, <2>3, <3>1, WriterKeepsId, SameOrder
  <2>4. CASE Replace(i)
    BY <2>2, <2>4, RemovedOrder DEF Replace
  <2>5. CASE SaveFails(i)
    BY <2>2, <2>5, RemovedOrder DEF SaveFails
  <2> QED BY <2>1, <2>3, <2>4, <2>5
<1>6. CASE Restart
  BY <1>0, <1>6 DEF Restart, Ordered
<1>7. ASSUME NEW content, HandEdit(content) PROVE Ordered' /\ disk'.by >= disk.by
  <2>1. disk'.by = disk.by /\ saves' = saves
    BY <1>7 DEF HandEdit, TypeOK
  <2> QED BY <1>0, <2>1, SameOrder
<1>8. CASE Requests \/ Registry \/ UNCHANGED vars
  BY <1>1, <1>8
  DEF Requests, ReadRules, ReadSection, Registry, panelVars, configVars, vars
<1> QED BY <1>4, <1>5, <1>6, <1>7, <1>8 DEF Next, Outside

(* Saves land in the order they were asked for (_write_lock): however routes, *)
(* failures and restarts come between, an older one never replaces what a     *)
(* newer one has written.                                                     *)
THEOREM SavesKeepTheirOrder == Spec => SavesLandInOrder
<1>1. Init => Ordered
  BY DEF Init, Ordered
<1>2. TypeOK /\ Ordered /\ [Next]_vars => [disk'.by >= disk.by]_vars
  BY OrderedNext
<1> QED BY <1>1, <1>2, TypeInit, TypeNext, OrderedNext, PTL DEF Spec, SavesLandInOrder
-----------------------------------------------------------------------------
(* How the queue of saves changes, field by field.                            *)
LEMMA TouchedFields ==
  ASSUME TypeOK, NEW settings, saves' = Touching(settings)
  PROVE  /\ DOMAIN saves' = DOMAIN saves
         /\ \A i \in DOMAIN saves :
               /\ saves'[i].sections = saves[i].sections
               /\ saves'[i].step = saves[i].step
               /\ saves'[i].content = saves[i].content
               /\ saves'[i].todo = saves[i].todo
               /\ saves'[i].touched = saves[i].touched \cup settings
<1>1. /\ DOMAIN saves' = DOMAIN saves
      /\ \A i \in DOMAIN saves :
            saves'[i] = [saves[i] EXCEPT !.touched = saves[i].touched \cup settings]
  BY TouchSaves
<1> QED BY <1>1 DEF TypeOK, IsSave

LEMMA AskedFields ==
  ASSUME TypeOK, AskSave
  PROVE  /\ \A i \in DOMAIN saves' : \/ i \in DOMAIN saves /\ saves'[i] = saves[i]
                                     \/ saves'[i] = NewSave
         /\ \A i, j \in DOMAIN saves' : i < j => i \in DOMAIN saves
<1>1. saves' = Append(saves, NewSave)
  BY DEF AskSave, NewSave
<1>2. /\ Len(saves) \in Nat /\ DOMAIN saves' = 1..(Len(saves) + 1)
      /\ DOMAIN saves = 1..Len(saves)
      /\ \A i \in DOMAIN saves : saves'[i] = saves[i]
      /\ saves'[Len(saves) + 1] = NewSave
  BY <1>1, AppendSave, SavesDomain
<1> QED BY <1>2

LEMMA RemovedFields ==
  ASSUME TypeOK, 1 \in DOMAIN saves, saves' = RemoveAt(saves, 1)
  PROVE  \A i \in DOMAIN saves' : /\ i + 1 \in DOMAIN saves /\ 1 < i + 1
                                  /\ saves'[i] = saves[i + 1]
<1>1. /\ Len(saves) \in Nat /\ DOMAIN saves' = 1..(Len(saves) - 1)
      /\ \A i \in DOMAIN saves' : i + 1 \in DOMAIN saves /\ saves'[i] = saves[i + 1]
  BY RemoveFirstSave
<1> QED BY <1>1
-----------------------------------------------------------------------------
(* What a save has merged of a backend agrees with the backend, in every      *)
(* field that was not touched since it was asked for.  A backend that was     *)
(* added meanwhile is touched in all of them.                                 *)
Fields == {"enabled", "priority", "url", "keys"}

Agrees(save, b, backend, byHand) ==
    \/ {b} \X Fields \subseteq save.touched
    \/ /\ b \in DOMAIN save.content.backends
       /\ LET node == save.content.backends[b]
          IN  /\ <<b, "enabled">> \in save.touched \/ node.enabled = backend.enabled
              /\ <<b, "priority">> \in save.touched \/ node.priority = backend.priority
              /\ \/ <<b, "url">> \in save.touched
                 \/ node.url = Reference \/ node.url = backend.url
              /\ \/ <<b, "keys">> \in save.touched \/ backend.keys = {}
                 \/ byHand /\ ~backend.listed
                 \/ node.keys = backend.keys /\ (b \in Builtin \/ node.listed)

(* Where the gateway has one key, the file has no list of them: unless it was *)
(* written by hand.                                                           *)
Single(content, b) == b \in DOMAIN content.backends
                        => ~(content.backends[b].listed /\ content.backends[b].keys # {})

MergedAgree == \A i \in DOMAIN saves :
    /\ saves[i].step # "waiting"
         => \A b \in DOMAIN backends \ saves[i].todo :
              Agrees(saves[i], b, backends[b], foreign)
    /\ saves[i].step \in {"rules", "writing"} => saves[i].todo = {}
OneKeyIsSingle == ~foreign =>
    \A b \in DOMAIN backends : ~backends[b].listed =>
       /\ Single(disk.content, b)
       /\ \A i \in DOMAIN saves : saves[i].step # "waiting" => Single(saves[i].content, b)
AddedAreListed == \A b \in DOMAIN backends \ Builtin : backends[b].listed

BackendsAgree == MergedAgree /\ OneKeyIsSingle /\ AddedAreListed

(* Once it agrees, it agrees when more is touched.                            *)
LEMMA AgreesStill ==
  ASSUME NEW save, NEW later, NEW b, NEW backend, NEW byHand, NEW byHandLater,
         Agrees(save, b, backend, byHand),
         later.content = save.content, save.touched \subseteq later.touched,
         byHand => byHandLater
  PROVE  Agrees(later, b, backend, byHandLater)
  BY DEF Agrees

(* A merge makes the file's node agree with the backend.                      *)
LEMMA MergedNodeAgrees ==
  ASSUME NEW node \in Node, NEW backend \in Backend
  PROVE  LET new == MergedNode(node, backend)
         IN  /\ new.enabled = backend.enabled /\ new.priority = backend.priority
             /\ new.url = Reference \/ new.url = backend.url
             /\ backend.keys # {} /\ (backend.listed \/ ~(node.listed /\ node.keys # {}))
                  => new.keys = backend.keys
             /\ backend.keys # {} /\ backend.listed => new.listed
             /\ ~backend.listed /\ ~(node.listed /\ node.keys # {})
                  => ~(new.listed /\ new.keys # {})
  BY DEF MergedNode, Node, Backend

LEMMA FreshNodeAgrees ==
  ASSUME NEW backend \in Backend
  PROVE  LET new == FreshNode(backend)
         IN  /\ new.enabled = backend.enabled /\ new.priority = backend.priority
             /\ new.url = backend.url /\ new.keys = backend.keys
             /\ new.listed = backend.listed
  BY DEF FreshNode, Node, Backend

LEMMA MergeIs ==
  ASSUME NEW content, IsContent(content), NEW b, NEW backend
  PROVE  LET merged == MergeBackend(content, b, backend)
         IN  /\ DOMAIN merged.backends = DOMAIN content.backends \cup {b}
             /\ \A c \in DOMAIN content.backends :
                   c # b => merged.backends[c] = content.backends[c]
             /\ b \in DOMAIN content.backends
                  => merged.backends[b] = MergedNode(content.backends[b], backend)
             /\ b \notin DOMAIN content.backends => merged.backends[b] = FreshNode(backend)
             /\ merged.routing = content.routing
             /\ merged.sections = content.sections
  BY DEF MergeBackend, With, IsContent

(* An edit changes fields it touches, or adds a backend and touches it all.   *)
LEMMA EditAgrees ==
  ASSUME TypeOK, BackendsAgree, NEW changed, NEW settings, EditBackends(changed, settings),
         \A b \in DOMAIN changed :
            \/ {b} \X Fields \subseteq settings /\ changed[b].listed
            \/ /\ b \in DOMAIN backends
               /\ <<b, "enabled">> \in settings \/ changed[b].enabled = backends[b].enabled
               /\ <<b, "priority">> \in settings \/ changed[b].priority = backends[b].priority
               /\ <<b, "url">> \in settings \/ changed[b].url = backends[b].url
               /\ \/ <<b, "keys">> \in settings
                  \/ /\ changed[b].keys = backends[b].keys
                     /\ changed[b].listed = backends[b].listed
               /\ backends[b].listed => changed[b].listed
  PROVE  BackendsAgree'
<1>1. /\ DOMAIN saves' = DOMAIN saves
      /\ \A i \in DOMAIN saves :
            /\ saves'[i].step = saves[i].step
            /\ saves'[i].content = saves[i].content
            /\ saves'[i].todo = saves[i].todo
            /\ saves'[i].touched = saves[i].touched \cup settings
  BY TouchedFields DEF EditBackends
<1>2. backends' = changed /\ foreign' = foreign /\ disk' = disk
  BY DEF EditBackends
<1>3. ASSUME NEW i \in DOMAIN saves, saves[i].step # "waiting",
             NEW b \in DOMAIN changed \ saves[i].todo
      PROVE  Agrees(saves'[i], b, changed[b], foreign)
  <2>1. CASE {b} \X Fields \subseteq settings
    BY <1>1, <2>1 DEF Agrees
  <2>2. CASE ~({b} \X Fields \subseteq settings)
    <3>1. Agrees(saves[i], b, backends[b], foreign)
      BY <1>3, <2>2 DEF BackendsAgree, MergedAgree
    <3> QED BY <1>1, <1>3, <2>2, <3>1 DEF Agrees
  <2> QED BY <2>1, <2>2
<1>4. MergedAgree'
  BY <1>1, <1>2, <1>3 DEF BackendsAgree, MergedAgree
<1>5. OneKeyIsSingle'
  BY <1>1, <1>2 DEF BackendsAgree, OneKeyIsSingle
<1>6. AddedAreListed'
  BY <1>2 DEF BackendsAgree, AddedAreListed
<1> QED BY <1>4, <1>5, <1>6 DEF BackendsAgree

LEMMA PanelAgrees ==
  ASSUME TypeOK, BackendsAgree, Panel
  PROVE  BackendsAgree'
<1>1. ASSUME NEW b \in DOMAIN backends, ChangeBackend(b) PROVE BackendsAgree'
  <2>1. PICK changed \in Backend, field \in {"enabled", "url", "keys", "models", "scid"} :
           /\ EditBackends([backends EXCEPT ![b] = changed], {<<b, field>>})
           /\ changed.priority = backends[b].priority
           /\ field # "enabled" => changed.enabled = backends[b].enabled
           /\ field # "url" => changed.url = backends[b].url
           /\ field # "keys" => /\ changed.keys = backends[b].keys
                                /\ changed.listed = backends[b].listed
           /\ backends[b].listed => changed.listed
    BY <1>1, ChangeBackendIs
  <2> DEFINE new == [backends EXCEPT ![b] = changed]
             settings == {<<b, field>>}
  <2>2. /\ DOMAIN new = DOMAIN backends /\ new[b] = changed
        /\ \A c \in DOMAIN backends : c # b => new[c] = backends[c]
        /\ <<b, field>> \in settings /\ EditBackends(new, settings)
    BY <2>1
  <2> HIDE DEF new, settings
  <2>3. ASSUME NEW c \in DOMAIN new
        PROVE  /\ c \in DOMAIN backends
               /\ <<c, "enabled">> \in settings \/ new[c].enabled = backends[c].enabled
               /\ <<c, "priority">> \in settings \/ new[c].priority = backends[c].priority
               /\ <<c, "url">> \in settings \/ new[c].url = backends[c].url
               /\ \/ <<c, "keys">> \in settings
                  \/ /\ new[c].keys = backends[c].keys
                     /\ new[c].listed = backends[c].listed
               /\ backends[c].listed => new[c].listed
    BY <2>1, <2>2
  <2> QED BY <2>2, <2>3, EditAgrees
<1>2. ASSUME NEW b, NEW url, NEW keys, AddBackend(b, url, keys) PROVE BackendsAgree'
  <2> DEFINE backend == [enabled |-> TRUE, priority |-> 5, url |-> url, listed |-> TRUE,
                         keys |-> keys, models |-> {}, scid |-> FALSE]
             new == With(backends, b, backend)
             settings == {b} \X Fields
  <2>1. EditBackends(new, settings)
    BY <1>2 DEF AddBackend, Fields
  <2>2. /\ DOMAIN new = DOMAIN backends \cup {b} /\ new[b].listed
        /\ \A c \in DOMAIN backends : c # b => new[c] = backends[c]
        /\ {b} \X Fields \subseteq settings
    BY DEF With
  <2> HIDE DEF new, settings
  <2> QED BY <2>1, <2>2, EditAgrees
<1>3. ASSUME NEW order, ReorderBackends(order) PROVE BackendsAgree'
  <2> DEFINE new == [b \in DOMAIN backends |->
                       IF b \notin ToSet(order) THEN backends[b]
                       ELSE [backends[b] EXCEPT
                               !.priority = (CHOOSE i \in DOMAIN order : order[i] = b) - 1]]
             settings == ToSet(order) \X {"priority"}
  <2>1. EditBackends(new, settings)
    BY <1>3 DEF ReorderBackends
  <2>2. ASSUME NEW b \in DOMAIN new
        PROVE  /\ b \in DOMAIN backends
               /\ new[b].enabled = backends[b].enabled
               /\ <<b, "priority">> \in settings \/ new[b].priority = backends[b].priority
               /\ new[b].url = backends[b].url
               /\ new[b].keys = backends[b].keys
               /\ new[b].listed = backends[b].listed
    <3>1. b \in DOMAIN backends /\ backends[b] \in Backend
      BY DEF TypeOK, IsPartial
    <3>2. CASE b \in ToSet(order)
      BY <3>1, <3>2 DEF Backend
    <3> QED BY <3>1, <3>2
  <2> HIDE DEF new, settings
  <2> QED BY <2>1, <2>2, EditAgrees
<1>4. ASSUME NEW settings, saves' = Touching(settings), UNCHANGED <<backends, disk, foreign>>
      PROVE  BackendsAgree'
  <2>1. /\ DOMAIN saves' = DOMAIN saves
        /\ \A i \in DOMAIN saves :
              /\ saves'[i].step = saves[i].step
              /\ saves'[i].content = saves[i].content
              /\ saves'[i].todo = saves[i].todo
              /\ saves[i].touched \subseteq saves'[i].touched
    BY <1>4, TouchedFields
  <2>2. MergedAgree'
    BY <1>4, <2>1, AgreesStill DEF BackendsAgree, MergedAgree
  <2>3. OneKeyIsSingle' /\ AddedAreListed'
    BY <1>4, <2>1 DEF BackendsAgree, OneKeyIsSingle, AddedAreListed
  <2> QED BY <2>2, <2>3 DEF BackendsAgree
<1>5. ASSUME NEW m, NEW chain, UpdateRouting(m, chain) PROVE BackendsAgree'
  BY <1>4, <1>5 DEF UpdateRouting
<1>6. ASSUME NEW on \in BOOLEAN,
             LET value == [enabled |-> on, rules |-> 2]
             IN  \/ UpdateCrossModelFallback(value)
                 \/ UpdateFinalFallback(value)
                 \/ UpdateDefault(value)
                 \/ UpdateCopilotModelMapping(value)
      PROVE  BackendsAgree'
  BY <1>4, <1>6
  DEF UpdateCrossModelFallback, UpdateFinalFallback, UpdateDefault,
        UpdateCopilotModelMapping, EditSection
<1>7. CASE AskSave
  <2>1. \A i \in DOMAIN saves' : \/ i \in DOMAIN saves /\ saves'[i] = saves[i]
                                 \/ saves'[i].step = "waiting"
    BY <1>7, AskedFields DEF NewSave
  <2>2. UNCHANGED <<backends, disk, foreign>>
    BY <1>7 DEF AskSave
  <2>3. MergedAgree' /\ OneKeyIsSingle' /\ AddedAreListed'
    BY <2>1, <2>2 DEF BackendsAgree, MergedAgree, OneKeyIsSingle, AddedAreListed
  <2> QED BY <2>3 DEF BackendsAgree
<1> QED BY PanelIs, <1>1, <1>2, <1>3, <1>5, <1>6, <1>7

(* The merge of one more backend.                                             *)
LEMMA MergeNextAgrees ==
  ASSUME TypeOK, BackendsAgree, NEW i \in Writing, MergeNext(i)
  PROVE  BackendsAgree'
<1>0. i \in DOMAIN saves /\ IsSave(saves[i]) /\ saves[i].step = "backends"
  BY DEF Writing, TypeOK, MergeNext
<1>1. PICK b \in saves[i].todo :
         saves' = [saves EXCEPT ![i] =
                     [saves[i] EXCEPT !.content = MergeBackend(@, b, backends[b]),
                                      !.todo = @ \ {b}]]
  BY DEF MergeNext, Step
<1>2. UNCHANGED <<backends, disk, foreign>>
  BY DEF MergeNext, Step, unsavedVars
<1>3. b \in DOMAIN backends /\ backends[b] \in Backend /\ b \in Backends
  BY <1>0 DEF IsSave, TypeOK, IsPartial
<1> DEFINE content == saves[i].content
           backend == backends[b]
           merged == MergeBackend(content, b, backend)
<1>4. /\ DOMAIN saves' = DOMAIN saves
      /\ \A j \in DOMAIN saves : j # i => saves'[j] = saves[j]
      /\ saves'[i].step = "backends" /\ saves'[i].content = merged
      /\ saves'[i].todo = saves[i].todo \ {b} /\ saves'[i].touched = saves[i].touched
  BY <1>0, <1>1 DEF IsSave
<1>5. IsContent(content) /\ backend \in Backend
  BY <1>0, <1>3 DEF IsSave
<1> HIDE DEF content, backend
<1>6. /\ DOMAIN merged.backends = DOMAIN content.backends \cup {b}
      /\ \A c \in DOMAIN content.backends :
            c # b => merged.backends[c] = content.backends[c]
      /\ b \in DOMAIN content.backends
           => merged.backends[b] = MergedNode(content.backends[b], backend)
      /\ b \notin DOMAIN content.backends => merged.backends[b] = FreshNode(backend)
  BY <1>5, MergeIs
<1> DEFINE new == merged.backends[b]
<1>7. b \notin Builtin => backend.listed
  BY <1>3 DEF BackendsAgree, AddedAreListed, backend
<1>8. ~foreign /\ ~backend.listed => Single(content, b)
  BY <1>0, <1>3 DEF BackendsAgree, OneKeyIsSingle, backend, content
<1> HIDE DEF merged
<1>9. /\ new.enabled = backend.enabled /\ new.priority = backend.priority
      /\ new.url = Reference \/ new.url = backend.url
      /\ \/ backend.keys = {}
         \/ foreign /\ ~backend.listed
         \/ new.keys = backend.keys /\ (b \in Builtin \/ new.listed)
      /\ ~foreign /\ ~backend.listed => ~(new.listed /\ new.keys # {})
  <2>1. CASE b \in DOMAIN content.backends
    <3> DEFINE node == content.backends[b]
    <3>1. node \in Node
      BY <1>5, <2>1 DEF IsContent, IsPartial
    <3>2. ~foreign /\ ~backend.listed => ~(node.listed /\ node.keys # {})
      BY <1>8, <2>1 DEF Single
    <3>3. new = MergedNode(node, backend)
      BY <1>6, <2>1
    <3> HIDE DEF node, new
    <3>4. /\ new.enabled = backend.enabled /\ new.priority = backend.priority
          /\ new.url = Reference \/ new.url = backend.url
          /\ backend.keys # {} /\ (backend.listed \/ ~(node.listed /\ node.keys # {}))
               => new.keys = backend.keys
          /\ backend.keys # {} /\ backend.listed => new.listed
          /\ ~backend.listed /\ ~(node.listed /\ node.keys # {})
               => ~(new.listed /\ new.keys # {})
      BY <1>5, <3>1, <3>3, MergedNodeAgrees
    <3> QED BY <1>7, <3>2, <3>4
  <2>2. CASE b \notin DOMAIN content.backends
    <3>1. new = FreshNode(backend)
      BY <1>6, <2>2
    <3> HIDE DEF new
    <3>2. /\ new.enabled = backend.enabled /\ new.priority = backend.priority
          /\ new.url = backend.url /\ new.keys = backend.keys
          /\ new.listed = backend.listed
      BY <1>5, <3>1, FreshNodeAgrees
    <3> QED BY <1>7, <3>2
  <2> QED BY <2>1, <2>2
<1>10. ASSUME NEW c \in DOMAIN backends \ saves'[i].todo
       PROVE  Agrees(saves'[i], c, backends[c], foreign)
  <2>1. CASE c = b
    BY <1>4, <1>6, <1>9, <2>1 DEF Agrees, backend
  <2>2. CASE c # b
    <3>1. Agrees(saves[i], c, backends[c], foreign)
      BY <1>0, <1>4, <2>2 DEF BackendsAgree, MergedAgree
    <3> QED BY <1>4, <1>6, <2>2, <3>1 DEF Agrees, content
  <2> QED BY <2>1, <2>2
<1>11. ASSUME ~foreign, NEW c \in DOMAIN backends, ~backends[c].listed
       PROVE  Single(merged, c)
  <2>1. CASE c = b
    BY <1>6, <1>9, <1>11, <2>1 DEF Single, backend
  <2>2. CASE c # b
    <3>1. Single(content, c)
      BY <1>0, <1>11 DEF BackendsAgree, OneKeyIsSingle, content
    <3> QED BY <1>6, <2>2, <3>1 DEF Single
  <2> QED BY <2>1, <2>2
<1>12. MergedAgree'
  BY <1>2, <1>4, <1>10 DEF BackendsAgree, MergedAgree
<1>13. OneKeyIsSingle'
  BY <1>2, <1>4, <1>11 DEF BackendsAgree, OneKeyIsSingle
<1>14. AddedAreListed'
  BY <1>2 DEF BackendsAgree, AddedAreListed
<1> QED BY <1>12, <1>13, <1>14 DEF BackendsAgree

LEMMA RestIs ==
  ASSUME NEW content, IsContent(content), NEW rules, NEW sections
  PROVE  LET merged == MergeSections(MergeRules(content, rules), sections)
         IN  /\ merged.backends = content.backends
             /\ merged.sections = Updated(content.sections, sections)
             /\ merged.routing = IF DOMAIN rules = {} THEN content.routing ELSE rules
  BY DEF MergeSections, MergeRules, IsContent

LEMMA MergedTheRest ==
  ASSUME TypeOK, NEW i \in Writing, MergeTheRest(i)
  PROVE  /\ DOMAIN saves' = DOMAIN saves
         /\ \A j \in DOMAIN saves : j # i => saves'[j] = saves[j]
         /\ saves[i].step = "rules" /\ disk' = disk
         /\ saves'[i].step = "writing"
         /\ saves'[i].sections = saves[i].sections
         /\ saves'[i].todo = saves[i].todo /\ saves'[i].touched = saves[i].touched
         /\ saves'[i].content.backends = saves[i].content.backends
         /\ saves'[i].content.sections
              = Updated(saves[i].content.sections, saves[i].sections)
         /\ saves'[i].content.routing
              = IF DOMAIN routing = {} THEN saves[i].content.routing ELSE routing
<1>0. i \in DOMAIN saves /\ IsSave(saves[i])
  BY DEF Writing, TypeOK
<1> DEFINE content == saves[i].content
           sections == saves[i].sections
           merged == MergeSections(MergeRules(content, routing), sections)
<1>1. saves' = [saves EXCEPT ![i] = [saves[i] EXCEPT !.step = "writing", !.content = merged]]
      /\ saves[i].step = "rules" /\ disk' = disk
  BY DEF MergeTheRest, Step
<1>2. IsContent(content)
  BY <1>0 DEF IsSave
<1> HIDE DEF content, sections
<1>3. /\ merged.backends = content.backends
      /\ merged.sections = Updated(content.sections, sections)
      /\ merged.routing = IF DOMAIN routing = {} THEN content.routing ELSE routing
  BY <1>2, RestIs
<1> HIDE DEF merged
<1>4. /\ DOMAIN saves' = DOMAIN saves
      /\ \A j \in DOMAIN saves : j # i => saves'[j] = saves[j]
      /\ saves'[i].step = "writing" /\ saves'[i].content = merged
      /\ saves'[i].sections = saves[i].sections
      /\ saves'[i].todo = saves[i].todo /\ saves'[i].touched = saves[i].touched
  BY <1>0, <1>1 DEF IsSave
<1> QED BY <1>1, <1>3, <1>4 DEF content, sections

LEMMA WriterAgrees ==
  ASSUME TypeOK, BackendsAgree, Writer
  PROVE  BackendsAgree'
<1>1. PICK i \in Writing : \/ ReadFile(i) \/ MergeNext(i) \/ BackendsMerged(i)
                           \/ MergeTheRest(i) \/ Replace(i) \/ SaveFails(i)
  BY DEF Writer
<1>0. i = 1 /\ i \in DOMAIN saves /\ IsSave(saves[i])
  BY DEF Writing, TypeOK
<1>2. UNCHANGED <<backends, foreign>>
  BY <1>1 DEF ReadFile, MergeNext, BackendsMerged, MergeTheRest, Replace, SaveFails,
              Step, unsavedVars
<1>3. CASE ReadFile(i)
  <2>1. /\ DOMAIN saves' = DOMAIN saves
        /\ \A j \in DOMAIN saves : j # i => saves'[j] = saves[j]
        /\ saves'[i].step = "backends" /\ saves'[i].content = disk.content
        /\ saves'[i].todo = DOMAIN backends /\ disk' = disk
    BY <1>0, <1>3 DEF ReadFile, Step, IsSave
  <2>2. MergedAgree'
    BY <1>2, <2>1 DEF BackendsAgree, MergedAgree
  <2>3. OneKeyIsSingle' /\ AddedAreListed'
    BY <1>2, <2>1 DEF BackendsAgree, OneKeyIsSingle, AddedAreListed
  <2> QED BY <2>2, <2>3 DEF BackendsAgree
<1>4. CASE BackendsMerged(i)
  <2>1. /\ DOMAIN saves' = DOMAIN saves
        /\ \A j \in DOMAIN saves : j # i => saves'[j] = saves[j]
        /\ saves[i].step = "backends" /\ saves[i].todo = {} /\ disk' = disk
        /\ saves'[i].step = "rules" /\ saves'[i].content = saves[i].content
        /\ saves'[i].todo = saves[i].todo /\ saves'[i].touched = saves[i].touched
    BY <1>0, <1>4 DEF BackendsMerged, Step, IsSave
  <2>2. ASSUME NEW b \in DOMAIN backends PROVE Agrees(saves'[i], b, backends[b], foreign)
    <3>1. Agrees(saves[i], b, backends[b], foreign)
      BY <1>0, <2>1 DEF BackendsAgree, MergedAgree
    <3> QED BY <2>1, <3>1 DEF Agrees
  <2>3. MergedAgree'
    BY <1>2, <2>1, <2>2 DEF BackendsAgree, MergedAgree
  <2>4. OneKeyIsSingle' /\ AddedAreListed'
    BY <1>2, <2>1 DEF BackendsAgree, OneKeyIsSingle, AddedAreListed
  <2> QED BY <2>3, <2>4 DEF BackendsAgree
<1>5. CASE MergeTheRest(i)
  <2>1. /\ DOMAIN saves' = DOMAIN saves
        /\ \A j \in DOMAIN saves : j # i => saves'[j] = saves[j]
        /\ saves[i].step = "rules" /\ disk' = disk
        /\ saves'[i].step = "writing"
        /\ saves'[i].content.backends = saves[i].content.backends
        /\ saves'[i].todo = saves[i].todo /\ saves'[i].touched = saves[i].touched
    BY <1>0, <1>5, MergedTheRest
  <2>2. saves[i].todo = {}
    BY <1>0, <2>1 DEF BackendsAgree, MergedAgree
  <2>3. ASSUME NEW b \in DOMAIN backends PROVE Agrees(saves'[i], b, backends[b], foreign)
    <3>1. Agrees(saves[i], b, backends[b], foreign)
      BY <1>0, <2>1, <2>2 DEF BackendsAgree, MergedAgree
    <3> QED BY <2>1, <3>1 DEF Agrees
  <2>4. MergedAgree'
    BY <1>2, <2>1, <2>2, <2>3 DEF BackendsAgree, MergedAgree
  <2>5. OneKeyIsSingle' /\ AddedAreListed'
    BY <1>2, <2>1 DEF BackendsAgree, OneKeyIsSingle, AddedAreListed, Single
  <2> QED BY <2>4, <2>5 DEF BackendsAgree
<1>6. CASE Replace(i) \/ SaveFails(i)
  <2>1. \A j \in DOMAIN saves' : j + 1 \in DOMAIN saves /\ saves'[j] = saves[j + 1]
    BY <1>0, <1>6, RemovedFields DEF Replace, SaveFails
  <2>2. disk'.content \in {disk.content, saves[i].content}
        /\ (disk'.content # disk.content => saves[i].step = "writing")
    BY <1>6 DEF Replace, SaveFails
  <2>3. MergedAgree'
    BY <1>2, <2>1 DEF BackendsAgree, MergedAgree
  <2>4. OneKeyIsSingle' /\ AddedAreListed'
    BY <1>0, <1>2, <2>1, <2>2 DEF BackendsAgree, OneKeyIsSingle, AddedAreListed
  <2> QED BY <2>3, <2>4 DEF BackendsAgree
<1> QED BY <1>1, <1>3, <1>4, <1>5, <1>6, MergeNextAgrees

(* After a start the backends are what the file says.                         *)
LEMMA StartAgrees ==
  ASSUME NEW content, IsContent(content), NEW b \in DOMAIN LoadedBackends(content)
  PROVE  LET backend == LoadedBackends(content)[b]
         IN  /\ b \notin Builtin => backend.listed
             /\ ~backend.listed => Single(content, b)
<1>1. b \in DOMAIN content.backends => content.backends[b] \in Node
  BY DEF IsContent, IsPartial
<1>2. CASE b \notin DOMAIN content.backends
  BY <1>2 DEF LoadedBackends, Single
<1>3. CASE b \in DOMAIN content.backends /\ b \in Builtin
  BY <1>1, <1>3 DEF LoadedBackends, Overridden, CodeDefault, Single, Node
<1>4. CASE b \in DOMAIN content.backends /\ b \notin Builtin
  BY <1>1, <1>4 DEF LoadedBackends, Added
<1> QED BY <1>2, <1>3, <1>4

LEMMA AgreeInit == Init => BackendsAgree
<1> SUFFICES ASSUME Init PROVE BackendsAgree
    OBVIOUS
<1>1. IsContent(disk.content)
  BY TypeInit DEF TypeOK
<1>2. backends = LoadedBackends(disk.content) /\ DOMAIN saves = {}
  BY DEF Init, Started
<1> QED BY <1>1, <1>2, StartAgrees
        DEF BackendsAgree, MergedAgree, OneKeyIsSingle, AddedAreListed

LEMMA AgreeNext == TypeOK /\ BackendsAgree /\ [Next]_vars => BackendsAgree'
<1> SUFFICES ASSUME TypeOK, BackendsAgree, [Next]_vars PROVE BackendsAgree'
    OBVIOUS
<1>1. CASE Restart
  <2>1. /\ backends' = LoadedBackends(disk.content) /\ DOMAIN saves' = {} /\ disk' = disk
        /\ IsContent(disk.content)
    BY <1>1 DEF Restart, TypeOK
  <2> QED BY <2>1, StartAgrees
          DEF BackendsAgree, MergedAgree, OneKeyIsSingle, AddedAreListed
<1>2. ASSUME NEW content, HandEdit(content) PROVE BackendsAgree'
  <2>1. UNCHANGED <<backends, saves>> /\ foreign' = TRUE
    BY <1>2 DEF HandEdit
  <2>2. MergedAgree'
    BY <2>1, AgreesStill DEF BackendsAgree, MergedAgree
  <2> QED BY <2>1, <2>2 DEF BackendsAgree, OneKeyIsSingle, AddedAreListed
<1>3. CASE Requests \/ Registry \/ UNCHANGED vars
  <2>1. UNCHANGED <<backends, saves, disk, foreign>>
    BY <1>3 DEF Requests, ReadRules, ReadSection, Registry, panelVars, configVars, vars
  <2> QED BY <2>1 DEF BackendsAgree, MergedAgree, OneKeyIsSingle, AddedAreListed
<1> QED BY <1>1, <1>2, <1>3, PanelAgrees, WriterAgrees DEF Next, Outside
-----------------------------------------------------------------------------
(* The rules.  Until requests load them, they are what the file says; then    *)
(* those that requests use are among those a save writes.                     *)
RulesAgree == ~foreign =>
    /\ ~served.loaded => /\ disk.content.routing = routing
                         /\ \A i \in DOMAIN saves :
                              saves[i].step # "waiting" => saves[i].content.routing = routing
    /\ \A m \in DOMAIN served.rules : m \in DOMAIN routing /\ routing[m] = served.rules[m]
    /\ \A i \in DOMAIN saves : saves[i].step = "writing" =>
         \A m \in DOMAIN routing :
            \/ <<"rule", m>> \in saves[i].touched
            \/ /\ m \in DOMAIN saves[i].content.routing
               /\ saves[i].content.routing[m] = routing[m]

LEMMA RulesTouched ==
  ASSUME TypeOK, RulesAgree, NEW settings, saves' = Touching(settings),
         UNCHANGED <<foreign, disk, served, routing>>
  PROVE  RulesAgree'
<1>1. /\ DOMAIN saves' = DOMAIN saves
      /\ \A i \in DOMAIN saves :
            /\ saves'[i].step = saves[i].step
            /\ saves'[i].content = saves[i].content
            /\ saves'[i].touched = saves[i].touched \cup settings
  BY TouchedFields
<1> QED BY <1>1 DEF RulesAgree

LEMMA RulesInit == Init => RulesAgree
  BY DEF Init, Started, RulesNotLoaded, Empty, RulesAgree

LEMMA RulesPanel ==
  ASSUME TypeOK, RulesAgree, Panel
  PROVE  RulesAgree'
<1>1. ASSUME NEW m \in RouteNames, NEW chain \in Chains, UpdateRouting(m, chain)
      PROVE  RulesAgree'
  <2>1. PICK rule : /\ served' = [loaded |-> TRUE, rules |-> With(served.rules, m, rule)]
                    /\ routing' = With(routing, m, rule)
    BY <1>1 DEF UpdateRouting
  <2>2. /\ DOMAIN saves' = DOMAIN saves /\ foreign' = foreign
        /\ \A i \in DOMAIN saves :
              /\ saves'[i].step = saves[i].step
              /\ saves'[i].content = saves[i].content
              /\ saves'[i].touched = saves[i].touched \cup {<<"rule", m>>}
    BY <1>1, TouchedFields DEF UpdateRouting
  <2> QED BY <2>1, <2>2 DEF RulesAgree, With
<1>2. CASE AskSave
  <2>1. \A i \in DOMAIN saves' : \/ i \in DOMAIN saves /\ saves'[i] = saves[i]
                                 \/ saves'[i].step = "waiting"
    BY <1>2, AskedFields DEF NewSave
  <2>2. UNCHANGED <<foreign, disk, served, routing>>
    BY <1>2 DEF AskSave
  <2> QED BY <2>1, <2>2 DEF RulesAgree
<1>3. ASSUME NEW b \in DOMAIN backends, ChangeBackend(b) PROVE RulesAgree'
  BY <1>3, ChangeBackendIs, RulesTouched DEF EditBackends
<1>4. ASSUME NEW on \in BOOLEAN,
             LET value == [enabled |-> on, rules |-> 2]
             IN  \/ UpdateCrossModelFallback(value)
                 \/ UpdateFinalFallback(value)
                 \/ UpdateDefault(value)
                 \/ UpdateCopilotModelMapping(value)
      PROVE  RulesAgree'
  BY <1>4, RulesTouched
  DEF UpdateCrossModelFallback, UpdateFinalFallback, UpdateDefault,
        UpdateCopilotModelMapping, EditSection
<1>5. ASSUME NEW b, NEW url, NEW keys, AddBackend(b, url, keys) PROVE RulesAgree'
  BY <1>5, RulesTouched DEF AddBackend, EditBackends
<1>6. ASSUME NEW order, ReorderBackends(order) PROVE RulesAgree'
  BY <1>6, RulesTouched DEF ReorderBackends, EditBackends
<1> QED BY PanelIs, <1>1, <1>2, <1>3, <1>4, <1>5, <1>6

LEMMA MergeNextKeepsTheRest ==
  ASSUME TypeOK, NEW i \in Writing, MergeNext(i)
  PROVE  /\ DOMAIN saves' = DOMAIN saves
         /\ \A j \in DOMAIN saves : j # i => saves'[j] = saves[j]
         /\ saves[i].step = "backends" /\ saves'[i].step = "backends"
         /\ saves'[i].content.routing = saves[i].content.routing
         /\ saves'[i].content.sections = saves[i].content.sections
         /\ saves'[i].sections = saves[i].sections /\ saves'[i].touched = saves[i].touched
<1>0. i \in DOMAIN saves /\ IsSave(saves[i]) /\ saves[i].step = "backends"
  BY DEF Writing, TypeOK, MergeNext
<1>1. PICK b \in saves[i].todo :
         saves' = [saves EXCEPT ![i] =
                     [saves[i] EXCEPT !.content = MergeBackend(@, b, backends[b]),
                                      !.todo = @ \ {b}]]
  BY DEF MergeNext, Step
<1> DEFINE content == saves[i].content
           merged == MergeBackend(content, b, backends[b])
<1>2. /\ DOMAIN saves' = DOMAIN saves
      /\ \A j \in DOMAIN saves : j # i => saves'[j] = saves[j]
      /\ saves'[i].step = "backends" /\ saves'[i].content = merged
      /\ saves'[i].sections = saves[i].sections /\ saves'[i].touched = saves[i].touched
  BY <1>0, <1>1 DEF IsSave
<1>3. IsContent(content)
  BY <1>0 DEF IsSave
<1> HIDE DEF content
<1>4. merged.routing = content.routing /\ merged.sections = content.sections
  BY <1>3, MergeIs
<1> HIDE DEF merged
<1> QED BY <1>0, <1>2, <1>4 DEF content

LEMMA RulesWriter ==
  ASSUME TypeOK, RulesAgree, Writer
  PROVE  RulesAgree'
<1>1. PICK i \in Writing : \/ ReadFile(i) \/ MergeNext(i) \/ BackendsMerged(i)
                           \/ MergeTheRest(i) \/ Replace(i) \/ SaveFails(i)
  BY DEF Writer
<1>0. i = 1 /\ i \in DOMAIN saves /\ IsSave(saves[i])
  BY DEF Writing, TypeOK
<1>2. UNCHANGED <<served, routing, foreign>>
  BY <1>1 DEF ReadFile, MergeNext, BackendsMerged, MergeTheRest, Replace, SaveFails,
              Step, unsavedVars
<1>3. CASE ReadFile(i)
  <2>1. /\ DOMAIN saves' = DOMAIN saves
        /\ \A j \in DOMAIN saves : j # i => saves'[j] = saves[j]
        /\ saves'[i].step = "backends" /\ saves'[i].content = disk.content
        /\ disk' = disk
    BY <1>0, <1>3 DEF ReadFile, Step, IsSave
  <2> QED BY <1>2, <2>1 DEF RulesAgree
<1>7. i \in Writing
  OBVIOUS
<1>4. CASE MergeNext(i) \/ BackendsMerged(i)
  <2>1. /\ DOMAIN saves' = DOMAIN saves
        /\ \A j \in DOMAIN saves : j # i => saves'[j] = saves[j]
        /\ saves[i].step # "waiting" /\ saves'[i].step # "writing"
        /\ saves'[i].content.routing = saves[i].content.routing
        /\ disk' = disk
    <3>1. CASE MergeNext(i)
      BY <3>1, <1>0, <1>7, MergeNextKeepsTheRest DEF MergeNext, Step
    <3>2. CASE BackendsMerged(i)
      BY <1>0, <3>2 DEF BackendsMerged, Step, IsSave
    <3> QED BY <1>4, <3>1, <3>2
  <2> QED BY <1>0, <1>2, <2>1 DEF RulesAgree
<1>5. CASE MergeTheRest(i)
  BY <1>0, <1>2, <1>5, MergedTheRest DEF RulesAgree
<1>6. CASE Replace(i) \/ SaveFails(i)
  <2>1. \A j \in DOMAIN saves' : j + 1 \in DOMAIN saves /\ saves'[j] = saves[j + 1]
    BY <1>0, <1>6, RemovedFields DEF Replace, SaveFails
  <2>2. /\ disk'.content \in {disk.content, saves[i].content}
        /\ disk'.content # disk.content => saves[i].step = "writing"
    BY <1>6 DEF Replace, SaveFails
  <2> QED BY <1>0, <1>2, <2>1, <2>2 DEF RulesAgree
<1> QED BY <1>1, <1>3, <1>4, <1>5, <1>6

LEMMA RulesNext == TypeOK /\ RulesAgree /\ [Next]_vars => RulesAgree'
<1> SUFFICES ASSUME TypeOK, RulesAgree, [Next]_vars PROVE RulesAgree'
    OBVIOUS
<1>1. CASE Restart
  BY <1>1 DEF Restart, RulesNotLoaded, Empty, RulesAgree
<1>2. ASSUME NEW content, HandEdit(content) PROVE RulesAgree'
  BY <1>2 DEF HandEdit, RulesAgree
<1>3. CASE ReadRules
  <2>1. /\ ~served.loaded /\ UNCHANGED <<disk, routing, saves, foreign>>
        /\ served'.loaded /\ served'.rules = disk.content.routing
    BY <1>3 DEF ReadRules
  <2> QED BY <2>1 DEF RulesAgree
<1>4. ASSUME \/ \E s \in Sections : ReadSection(s)
             \/ Registry \/ UNCHANGED vars
      PROVE  RulesAgree'
  <2>1. UNCHANGED <<foreign, disk, served, routing, saves>>
    BY <1>4 DEF ReadSection, Registry, panelVars, configVars, vars
  <2> QED BY <2>1 DEF RulesAgree
<1> QED BY <1>1, <1>2, <1>3, <1>4, RulesPanel, RulesWriter
        DEF Next, Outside, Requests, InUse
-----------------------------------------------------------------------------
(* The sections.  What was made of one agrees with the raw copy: but for a    *)
(* cross-model fallback that is switched off, and for what was read or edited *)
(* while there was no file.                                                   *)
SwitchedOff(s) == s = "cross" /\ ~SectionIn(raw.sections, s).enabled

Truth == \A s \in Sections \ lost : cache[s].loaded =>
            /\ raw.loaded
            /\ \/ cache[s].value = Parsed(s, SectionIn(raw.sections, s))
               \/ SwitchedOff(s)

LEMMA SwitchedOn ==
  ASSUME NEW value \in SectionValue, value.enabled
  PROVE  [value EXCEPT !.enabled = TRUE] = [enabled |-> TRUE, rules |-> value.rules]
<1>1. value = [enabled |-> value.enabled, rules |-> value.rules]
  BY DEF SectionValue
<1>2. value.enabled = TRUE
  BY DEF SectionValue
<1>3. value = [enabled |-> TRUE, rules |-> value.rules]
  BY <1>1, <1>2, Zenon
<1>4. [value EXCEPT !.enabled = TRUE] = value
  <2>1. [value EXCEPT !.enabled = value.enabled] = value
    BY DEF SectionValue
  <2> QED BY <1>2, <2>1, Zenon
<1> QED BY <1>3, <1>4, Zenon

LEMMA TruthNext == TypeOK /\ Truth /\ [Next]_vars => Truth'
<1> SUFFICES ASSUME TypeOK, Truth, [Next]_vars PROVE Truth'
    OBVIOUS
<1>1. ASSUME UNCHANGED <<raw, cache, lost>> PROVE Truth'
  BY <1>1 DEF Truth, SwitchedOff
<1>2. ASSUME NEW s \in Sections, ReadSection(s) PROVE Truth'
  <2>1. /\ cache' = [cache EXCEPT ![s] = [loaded |-> TRUE, value |-> InForce(s)]]
        /\ raw' = RawLoaded /\ lost' = LostWithoutFile(s) /\ ~cache[s].loaded
    BY <1>2 DEF ReadSection
  <2>2. ASSUME NEW x \in Sections \ lost', cache'[x].loaded
        PROVE  /\ raw'.loaded
               /\ cache'[x].value = Parsed(x, SectionIn(raw'.sections, x)) \/ SwitchedOff(x)'
    <3>1. CASE x = s
      <4>1. RawLoaded.loaded /\ RawLoaded.sections = RawSections
        BY <2>1, <2>2, <3>1 DEF LostWithoutFile, RawLoaded, RawSections
      <4>2. cache'[x].value = Parsed(s, SectionIn(RawSections, s))
        BY <2>1, <3>1 DEF InForce, TypeOK
      <4> QED BY <2>1, <3>1, <4>1, <4>2
    <3>2. CASE x # s
      <4>1. cache'[x] = cache[x] /\ x \notin lost
        BY <2>1, <2>2, <3>2 DEF TypeOK, LostWithoutFile
      <4>2. raw.loaded
        BY <2>2, <4>1 DEF Truth
      <4>3. raw' = raw
        BY <2>1, <4>2 DEF RawLoaded
      <4> QED BY <2>2, <4>1, <4>3 DEF Truth, SwitchedOff
    <3> QED BY <3>1, <3>2
  <2> QED BY <2>2 DEF Truth
<1>3. CASE AskSave
  <2>1. raw' = RawLoaded /\ UNCHANGED <<cache, lost>>
    BY <1>3 DEF AskSave
  <2>2. raw.loaded => raw' = raw
    BY <2>1 DEF RawLoaded
  <2> QED BY <2>1, <2>2 DEF Truth, SwitchedOff
<1>4. ASSUME NEW s \in Sections, NEW value \in SectionValue, NEW made, SectionEdit(s, value, made)
      PROVE  Truth'
  <2>1. /\ cache' = [cache EXCEPT ![s] = made] /\ lost' = LostWithoutFile(s)
        /\ RawLoaded.loaded => /\ raw'.loaded
                               /\ raw'.sections = With(RawLoaded.sections, s, value)
    BY <1>4, RawSectionsType DEF SectionEdit, EditSection
  <2>2. ASSUME NEW x \in Sections \ lost', cache'[x].loaded
        PROVE  /\ raw'.loaded
               /\ cache'[x].value = Parsed(x, SectionIn(raw'.sections, x)) \/ SwitchedOff(x)'
    <3>1. CASE x = s
      <4>1. raw'.loaded /\ SectionIn(raw'.sections, s) = value
        BY <2>1, <2>2, <3>1 DEF LostWithoutFile, SectionIn, With
      <4>2. cache'[x] = made /\ made.loaded
        BY <2>1, <2>2, <3>1 DEF TypeOK
      <4>3. \/ made.value = Parsed(s, value)
            \/ (s = "cross" /\ ~value.enabled)
        <5>1. CASE s = "cross" /\ value.enabled
          <6>1. made.value = [value EXCEPT !.enabled = TRUE]
            BY <1>4, <5>1 DEF SectionEdit
          <6>2. [value EXCEPT !.enabled = TRUE] = [enabled |-> TRUE, rules |-> value.rules]
            BY <5>1, SwitchedOn
          <6> QED BY <5>1, <6>1, <6>2 DEF Parsed
        <5>2. CASE s # "cross"
          BY <1>4, <4>2, <5>2 DEF SectionEdit, Parsed, NotLoaded
        <5> QED BY <5>1, <5>2
      <4> QED BY <3>1, <4>1, <4>2, <4>3 DEF SwitchedOff
    <3>2. CASE x # s
      <4>1. cache'[x] = cache[x] /\ x \notin lost
        BY <2>1, <2>2, <3>2 DEF TypeOK, LostWithoutFile
      <4>2. raw.loaded
        BY <2>2, <4>1 DEF Truth
      <4>3. raw'.loaded /\ SectionIn(raw'.sections, x) = SectionIn(raw.sections, x)
        BY <2>1, <3>2, <4>2 DEF RawLoaded, SectionIn, With
      <4> QED BY <2>2, <4>1, <4>3 DEF Truth, SwitchedOff
    <3> QED BY <3>1, <3>2
  <2> QED BY <2>2 DEF Truth
<1>5. ASSUME NEW on \in BOOLEAN,
             LET value == [enabled |-> on, rules |-> 2]
             IN  \/ UpdateCrossModelFallback(value)
                 \/ UpdateFinalFallback(value)
                 \/ UpdateDefault(value)
                 \/ UpdateCopilotModelMapping(value)
      PROVE  Truth'
  <2> DEFINE value == [enabled |-> on, rules |-> 2]
  <2>1. value \in SectionValue
    BY DEF SectionValue
  <2>2. UpdateCrossModelFallback(value) \/ UpdateFinalFallback(value) \/ UpdateDefault(value)
       \/ UpdateCopilotModelMapping(value)
    BY <1>5
  <2> HIDE DEF value
  <2>3. \E s \in Sections, made \in [loaded : BOOLEAN, value : SectionValue] :
           SectionEdit(s, value, made)
    BY <2>1, <2>2, SectionEditIs
  <2> QED BY <1>4, <2>1, <2>3
<1>6. CASE Panel
  <2>1. ASSUME NEW b \in DOMAIN backends, ChangeBackend(b) PROVE Truth'
    BY <1>1, <2>1, ChangeBackendIs DEF EditBackends
  <2>2. ASSUME \/ \E b \in Backends, url \in Urls, keys \in SUBSET Keys : AddBackend(b, url, keys)
               \/ \E order \in Orders(DOMAIN backends) : ReorderBackends(order)
               \/ \E m \in RouteNames, chain \in Chains : UpdateRouting(m, chain)
        PROVE  Truth'
    BY <1>1, <2>2 DEF AddBackend, ReorderBackends, EditBackends, UpdateRouting
  <2> QED BY <1>3, <1>5, <1>6, <2>1, <2>2, PanelIs
<1>7. CASE Restart
  BY <1>7 DEF Restart, NotLoaded, Truth
<1>8. ASSUME \/ ReadRules \/ Writer \/ Registry \/ UNCHANGED vars
             \/ \E content \in HandWritten : HandEdit(content)
      PROVE  Truth'
  <2>1. UNCHANGED <<raw, cache, lost>>
    BY <1>8 DEF ReadRules, Writer, ReadFile, MergeNext, BackendsMerged, MergeTheRest,
                Replace, SaveFails, Step, unsavedVars, Registry, panelVars, configVars,
                HandEdit, vars
  <2> QED BY <1>1, <2>1
<1> QED BY <1>2, <1>6, <1>7, <1>8 DEF Next, Outside, Requests, InUse

(* Whichever of the two was loaded first, what the panel shows of a section   *)
(* that requests read is what they get, whatever was edited, saved and        *)
(* restarted.                                                                 *)
THEOREM PanelShowsWhatIsInForce == Spec => []PanelTellsTruth
<1>1. Init => Truth
  BY DEF Init, NotLoaded, Truth
<1>2. TypeOK /\ Truth => PanelTellsTruth
  <2> SUFFICES ASSUME TypeOK, Truth, NEW s \in InUse \ lost
               PROVE  \/ Shown(s) = InForce(s)
                      \/ s = "cross" /\ ~SectionIn(RawSections, s).enabled
      BY DEF PanelTellsTruth
  <2>0. s \in Sections \ lost
    BY DEF InUse
  <2>1. CASE cache[s].loaded
    <3>1. RawSections = raw.sections
      BY <2>0, <2>1 DEF Truth, RawSections
    <3> QED BY <2>0, <2>1, <3>1 DEF Truth, SwitchedOff, Shown, ShownRaw, InForce
  <2>2. CASE ~cache[s].loaded
    BY <2>2 DEF Shown, ShownRaw, InForce
  <2> QED BY <2>1, <2>2
<1> QED BY <1>1, <1>2, TypeInit, TypeNext, TruthNext, PTL DEF Spec
-----------------------------------------------------------------------------
(* The sections.  A save takes the raw copy when it is asked for and writes   *)
(* it over the file's: a section it does not hold the file has not either.    *)
Alike(one, other, s) == /\ s \in DOMAIN one <=> s \in DOMAIN other
                        /\ s \in DOMAIN one => one[s] = other[s]

Carries(save) ==
    /\ save.step # "waiting" => DOMAIN save.content.sections \subseteq DOMAIN save.sections
    /\ save.step = "writing" => \A s \in Sections : Alike(save.content.sections, save.sections, s)

(* A save under way, while the file, the raw copy and the later saves are:    *)
(* nothing is in the file that it does not hold, and what it holds is what    *)
(* the raw copy says but for what was touched.                                *)
Holds(save, file, sections) ==
    /\ DOMAIN file \subseteq DOMAIN save.sections
    /\ DOMAIN save.sections \subseteq DOMAIN sections
    /\ \A s \in Sections : \/ <<"section", s>> \in save.touched
                             \/ Alike(save.sections, sections, s)
    /\ Carries(save)

SectionsAgree ==
    /\ raw.loaded => disk.present
    /\ ~foreign =>
         /\ raw.loaded => DOMAIN disk.content.sections \subseteq DOMAIN raw.sections
         /\ ~disk.present => \A i \in DOMAIN saves : saves[i].step = "waiting"
         /\ disk.present => \A i \in DOMAIN saves :
              /\ raw.loaded
              /\ Holds(saves[i], disk.content.sections, raw.sections)
              /\ \A j \in DOMAIN saves :
                    i < j => DOMAIN saves[i].sections \subseteq DOMAIN saves[j].sections

LEMMA RawLoadedIs == /\ raw.loaded \/ ~disk.present => RawLoaded = raw
                     /\ ~raw.loaded /\ disk.present
                          => RawLoaded = [loaded |-> TRUE, sections |-> disk.content.sections]
  BY DEF RawLoaded

(* The panel's edits, but those of a section, touch what a save does not hold *)
(* of the raw copy.                                                           *)
LEMMA SectionsTouched ==
  ASSUME TypeOK, SectionsAgree, NEW settings, saves' = Touching(settings),
         UNCHANGED <<foreign, disk, raw>>
  PROVE  SectionsAgree'
<1>1. /\ DOMAIN saves' = DOMAIN saves
      /\ \A i \in DOMAIN saves :
            /\ saves'[i].sections = saves[i].sections
            /\ saves'[i].step = saves[i].step
            /\ saves'[i].content = saves[i].content
            /\ saves'[i].touched = saves[i].touched \cup settings
  BY TouchedFields
<1> QED BY <1>1 DEF SectionsAgree, Holds, Carries

LEMMA SectionsEdited ==
  ASSUME TypeOK, SectionsAgree, NEW s \in Sections, NEW value \in SectionValue, NEW made,
         EditSection(s, value, made)
  PROVE  SectionsAgree'
<1>1. /\ DOMAIN saves' = DOMAIN saves
      /\ \A i \in DOMAIN saves :
            /\ saves'[i].sections = saves[i].sections
            /\ saves'[i].step = saves[i].step
            /\ saves'[i].content = saves[i].content
            /\ saves'[i].touched = saves[i].touched \cup {<<"section", s>>}
  BY TouchedFields DEF EditSection
<1>2. UNCHANGED <<foreign, disk>>
  BY DEF EditSection
<1>3. CASE raw.loaded
  <2>1. raw'.loaded /\ raw'.sections = With(raw.sections, s, value)
    BY <1>3, RawLoadedIs DEF EditSection, TypeOK
  <2>2. /\ DOMAIN raw'.sections = DOMAIN raw.sections \cup {s}
        /\ \A x \in DOMAIN raw.sections : x # s => raw'.sections[x] = raw.sections[x]
    BY <2>1 DEF With
  <2>3. ASSUME NEW i \in DOMAIN saves, ~foreign
        PROVE  Holds(saves'[i], disk.content.sections, raw'.sections)
    BY <1>1, <1>3, <2>2, <2>3 DEF SectionsAgree, Holds, Carries, Alike
  <2> QED BY <1>1, <1>2, <1>3, <2>1, <2>2, <2>3 DEF SectionsAgree
<1>4. CASE ~raw.loaded /\ ~disk.present
  <2>1. raw' = raw
    BY <1>4, RawLoadedIs DEF EditSection
  <2> QED BY <1>1, <1>2, <1>4, <2>1 DEF SectionsAgree
<1>5. CASE ~raw.loaded /\ disk.present
  <2>1. raw'.loaded /\ raw'.sections = With(disk.content.sections, s, value)
    BY <1>5, RawLoadedIs DEF EditSection
  <2>2. DOMAIN disk.content.sections \subseteq DOMAIN raw'.sections
    BY <2>1 DEF With
  <2>3. foreign \/ DOMAIN saves = {}
    BY <1>5 DEF SectionsAgree
  <2> QED BY <1>1, <1>2, <1>5, <2>1, <2>2, <2>3 DEF SectionsAgree
<1> QED BY <1>3, <1>4, <1>5

LEMMA SectionsAsked ==
  ASSUME TypeOK, SectionsAgree, AskSave
  PROVE  SectionsAgree'
<1>1. /\ \A i \in DOMAIN saves' : \/ i \in DOMAIN saves /\ saves'[i] = saves[i]
                                  \/ saves'[i] = NewSave
      /\ \A i, j \in DOMAIN saves' : i < j => i \in DOMAIN saves
      /\ \A i \in DOMAIN saves : saves'[i] = saves[i]
  <2>1. saves' = Append(saves, NewSave)
    BY DEF AskSave, NewSave
  <2> QED BY <2>1, AskedFields, AppendSave, SavesDomain
<1>2. raw' = RawLoaded /\ UNCHANGED <<foreign, disk>>
  BY DEF AskSave
<1>3. /\ NewSave.step = "waiting" /\ NewSave.touched = {}
      /\ NewSave.sections = RawLoaded.sections
  BY DEF NewSave
<1>4. CASE ~raw.loaded /\ ~disk.present
  BY <1>1, <1>2, <1>3, <1>4, RawLoadedIs DEF SectionsAgree
<1>5. CASE raw.loaded
  <2>1. raw' = raw /\ disk.present
    BY <1>2, <1>5, RawLoadedIs DEF SectionsAgree
  <2>2. ~foreign => Holds(NewSave, disk.content.sections, raw.sections)
    BY <1>2, <1>3, <1>5, <2>1 DEF SectionsAgree, Holds, Carries, Alike
  <2>3. ASSUME ~foreign, NEW i \in DOMAIN saves', NEW j \in DOMAIN saves', i < j
        PROVE  DOMAIN saves'[i].sections \subseteq DOMAIN saves'[j].sections
    <3>1. i \in DOMAIN saves /\ saves'[i] = saves[i]
      BY <1>1, <2>3
    <3>2. CASE j \in DOMAIN saves /\ saves'[j] = saves[j]
      BY <2>1, <2>3, <3>1, <3>2 DEF SectionsAgree
    <3>3. CASE saves'[j] = NewSave
      BY <1>2, <1>3, <2>1, <2>3, <3>1, <3>3 DEF SectionsAgree, Holds
    <3> QED BY <1>1, <3>2, <3>3
  <2>4. ASSUME ~foreign, NEW i \in DOMAIN saves'
        PROVE  Holds(saves'[i], disk.content.sections, raw.sections)
    BY <1>1, <2>1, <2>2, <2>4 DEF SectionsAgree
  <2> QED BY <1>2, <1>5, <2>1, <2>3, <2>4 DEF SectionsAgree
<1>6. CASE ~raw.loaded /\ disk.present
  <2>1. raw'.loaded /\ raw'.sections = disk.content.sections
    BY <1>2, <1>6, RawLoadedIs
  <2>2. foreign \/ DOMAIN saves = {}
    BY <1>6 DEF SectionsAgree
  <2>3. ASSUME ~foreign, NEW i \in DOMAIN saves'
        PROVE  /\ saves'[i] = NewSave /\ \A j \in DOMAIN saves' : ~(i < j)
    BY <1>1, <2>2, <2>3
  <2>4. Holds(NewSave, disk.content.sections, raw'.sections)
    BY <1>2, <1>3, <2>1 DEF Holds, Carries, Alike
  <2> QED BY <1>2, <2>1, <2>3, <2>4, <1>6 DEF SectionsAgree
<1> QED BY <1>4, <1>5, <1>6

LEMMA SectionsPanel ==
  ASSUME TypeOK, SectionsAgree, Panel
  PROVE  SectionsAgree'
<1>1. ASSUME NEW b \in DOMAIN backends, ChangeBackend(b) PROVE SectionsAgree'
  BY <1>1, ChangeBackendIs, SectionsTouched DEF EditBackends
<1>2. ASSUME NEW b, NEW url, NEW keys, AddBackend(b, url, keys) PROVE SectionsAgree'
  BY <1>2, SectionsTouched DEF AddBackend, EditBackends
<1>3. ASSUME NEW order, ReorderBackends(order) PROVE SectionsAgree'
  BY <1>3, SectionsTouched DEF ReorderBackends, EditBackends
<1>4. ASSUME NEW m, NEW chain, UpdateRouting(m, chain) PROVE SectionsAgree'
  BY <1>4, SectionsTouched DEF UpdateRouting
<1>5. ASSUME NEW on \in BOOLEAN,
             LET value == [enabled |-> on, rules |-> 2]
             IN  \/ UpdateCrossModelFallback(value)
                 \/ UpdateFinalFallback(value)
                 \/ UpdateDefault(value)
                 \/ UpdateCopilotModelMapping(value)
      PROVE  SectionsAgree'
  <2> DEFINE value == [enabled |-> on, rules |-> 2]
  <2>1. value \in SectionValue
    BY DEF SectionValue
  <2>2. UpdateCrossModelFallback(value) \/ UpdateFinalFallback(value) \/ UpdateDefault(value)
       \/ UpdateCopilotModelMapping(value)
    BY <1>5
  <2> HIDE DEF value
  <2>3. \E s \in Sections, made \in [loaded : BOOLEAN, value : SectionValue] :
           SectionEdit(s, value, made)
    BY <2>1, <2>2, SectionEditIs
  <2> QED BY <2>1, <2>3, SectionsEdited DEF SectionEdit
<1> QED BY <1>1, <1>2, <1>3, <1>4, <1>5, PanelIs, SectionsAsked

LEMMA SectionsWriter ==
  ASSUME TypeOK, SectionsAgree, Writer
  PROVE  SectionsAgree'
<1>1. PICK i \in Writing : \/ ReadFile(i) \/ MergeNext(i) \/ BackendsMerged(i)
                           \/ MergeTheRest(i) \/ Replace(i) \/ SaveFails(i)
  BY DEF Writer
<1>0. i = 1 /\ i \in DOMAIN saves /\ IsSave(saves[i])
  BY DEF Writing, TypeOK
<1>2. UNCHANGED <<raw, foreign>>
  BY <1>1 DEF ReadFile, MergeNext, BackendsMerged, MergeTheRest, Replace, SaveFails,
              Step, unsavedVars
<1>3. ASSUME disk' = disk, DOMAIN saves' = DOMAIN saves,
             \A j \in DOMAIN saves : j # i => saves'[j] = saves[j],
             disk.present,
             saves'[i].sections = saves[i].sections, saves'[i].touched = saves[i].touched,
             ~foreign => Carries(saves'[i])
      PROVE  SectionsAgree'
  <2>1. ASSUME ~foreign, NEW j \in DOMAIN saves
        PROVE  /\ raw.loaded /\ saves'[j].sections = saves[j].sections
               /\ Holds(saves'[j], disk.content.sections, raw.sections)
    BY <1>0, <1>3, <2>1 DEF SectionsAgree, Holds
  <2> QED BY <1>2, <1>3, <2>1 DEF SectionsAgree
<1>4. CASE ReadFile(i)
  <2>1. /\ DOMAIN saves' = DOMAIN saves
        /\ \A j \in DOMAIN saves : j # i => saves'[j] = saves[j]
        /\ saves'[i].step = "backends" /\ saves'[i].content = disk.content
        /\ saves'[i].sections = saves[i].sections /\ saves'[i].touched = saves[i].touched
        /\ disk' = disk /\ disk.present
    BY <1>0, <1>4 DEF ReadFile, Step, IsSave
  <2>2. ~foreign => Carries(saves'[i])
    BY <1>0, <2>1 DEF SectionsAgree, Holds, Carries
  <2> QED BY <1>3, <2>1, <2>2
<1>5. CASE MergeNext(i) \/ BackendsMerged(i)
  <2>1. /\ DOMAIN saves' = DOMAIN saves
        /\ \A j \in DOMAIN saves : j # i => saves'[j] = saves[j]
        /\ saves[i].step = "backends" /\ saves'[i].step \in {"backends", "rules"}
        /\ saves'[i].content.sections = saves[i].content.sections
        /\ saves'[i].sections = saves[i].sections /\ saves'[i].touched = saves[i].touched
        /\ disk' = disk
    <3>1. CASE MergeNext(i)
      BY <3>1, <1>1, MergeNextKeepsTheRest DEF MergeNext, Step
    <3>2. CASE BackendsMerged(i)
      BY <1>0, <3>2 DEF BackendsMerged, Step, IsSave
    <3> QED BY <1>5, <3>1, <3>2
  <2>2. ~foreign => disk.present /\ Carries(saves'[i])
    BY <1>0, <2>1 DEF SectionsAgree, Holds, Carries
  <2>3. CASE foreign
    BY <1>2, <2>1, <2>3 DEF SectionsAgree
  <2> QED BY <1>3, <2>1, <2>2, <2>3
<1>6. CASE MergeTheRest(i)
  <2>1. /\ DOMAIN saves' = DOMAIN saves
        /\ \A j \in DOMAIN saves : j # i => saves'[j] = saves[j]
        /\ saves[i].step = "rules" /\ disk' = disk
        /\ saves'[i].step = "writing"
        /\ saves'[i].sections = saves[i].sections /\ saves'[i].touched = saves[i].touched
        /\ saves'[i].content.sections
             = Updated(saves[i].content.sections, saves[i].sections)
    BY <1>6, <1>1, MergedTheRest
  <2>2. ASSUME ~foreign PROVE disk.present /\ Carries(saves'[i])
    <3>1. /\ disk.present
          /\ DOMAIN saves[i].content.sections \subseteq DOMAIN saves[i].sections
      BY <1>0, <2>1, <2>2 DEF SectionsAgree, Holds, Carries
    <3> QED BY <2>1, <3>1 DEF Carries, Updated, Alike
  <2>3. CASE foreign
    BY <1>2, <2>1, <2>3 DEF SectionsAgree
  <2> QED BY <1>3, <2>1, <2>2, <2>3
<1>7. CASE Replace(i) \/ SaveFails(i)
  <2>1. \A j \in DOMAIN saves' : j + 1 \in DOMAIN saves /\ saves'[j] = saves[j + 1]
    BY <1>0, <1>7, RemovedFields DEF Replace, SaveFails
  <2>2. DOMAIN saves \subseteq Nat /\ DOMAIN saves' \subseteq Nat
    <3>1. saves' = RemoveAt(saves, 1)
      BY <1>0, <1>7 DEF Replace, SaveFails
    <3> QED BY <1>0, <3>1, RemoveFirstSave, SavesDomain
  <2>3. \A j, k \in DOMAIN saves' : j < k => j + 1 < k + 1
    BY <2>2
  <2>4. CASE SaveFails(i)
    <3>1. disk' = disk
      BY <2>4 DEF SaveFails
    <3> QED BY <1>2, <2>1, <2>3, <3>1 DEF SectionsAgree
  <2>5. CASE Replace(i)
    <3>1. /\ disk'.present /\ disk'.content = saves[i].content
          /\ saves[i].step = "writing"
      BY <2>5 DEF Replace
    <3>2. ASSUME ~foreign
          PROVE  /\ raw.loaded /\ disk.present
                 /\ DOMAIN disk'.content.sections \subseteq DOMAIN saves[i].sections
                 /\ DOMAIN saves[i].sections \subseteq DOMAIN raw.sections
      BY <1>0, <3>1, <3>2 DEF SectionsAgree, Holds, Carries
    <3>3. ASSUME ~foreign, NEW j \in DOMAIN saves'
          PROVE  Holds(saves'[j], disk'.content.sections, raw.sections)
      <4>1. DOMAIN saves[i].sections \subseteq DOMAIN saves'[j].sections
        <5>1. j + 1 \in DOMAIN saves /\ 1 < j + 1
          BY <1>0, <1>7, RemovedFields DEF Replace, SaveFails
        <5> QED BY <1>0, <2>1, <3>2, <3>3, <5>1 DEF SectionsAgree
      <4>2. Holds(saves'[j], disk.content.sections, raw.sections)
        BY <2>1, <3>2, <3>3 DEF SectionsAgree
      <4> QED BY <3>2, <3>3, <4>1, <4>2 DEF Holds
    <3>4. ASSUME ~foreign, NEW j \in DOMAIN saves', NEW k \in DOMAIN saves', j < k
          PROVE  DOMAIN saves'[j].sections \subseteq DOMAIN saves'[k].sections
      BY <2>1, <2>3, <3>2, <3>4 DEF SectionsAgree
    <3> QED BY <1>2, <3>1, <3>2, <3>3, <3>4 DEF SectionsAgree
  <2> QED BY <1>7, <2>4, <2>5
<1> QED BY <1>1, <1>4, <1>5, <1>6, <1>7

LEMMA SectionsNext == TypeOK /\ SectionsAgree /\ [Next]_vars => SectionsAgree'
<1> SUFFICES ASSUME TypeOK, SectionsAgree, [Next]_vars PROVE SectionsAgree'
    OBVIOUS
<1>1. CASE Restart
  BY <1>1 DEF Restart, RawNotLoaded, SectionsAgree
<1>2. ASSUME NEW content, HandEdit(content) PROVE SectionsAgree'
  <2>1. foreign' /\ disk'.present /\ raw' = raw
    BY <1>2 DEF HandEdit, TypeOK
  <2> QED BY <2>1 DEF SectionsAgree
<1>3. ASSUME NEW s \in Sections, ReadSection(s) PROVE SectionsAgree'
  <2>1. raw' = RawLoaded /\ UNCHANGED <<foreign, disk, saves>>
    BY <1>3 DEF ReadSection
  <2>2. CASE RawLoaded = raw
    BY <2>1, <2>2 DEF SectionsAgree
  <2>3. CASE ~raw.loaded /\ disk.present
    <3>1. raw'.loaded /\ raw'.sections = disk.content.sections
      BY <2>1, <2>3, RawLoadedIs
    <3>2. foreign \/ DOMAIN saves = {}
      BY <2>3 DEF SectionsAgree
    <3> QED BY <2>1, <2>3, <3>1, <3>2 DEF SectionsAgree
  <2> QED BY <2>2, <2>3, RawLoadedIs
<1>4. ASSUME ReadRules \/ Registry \/ UNCHANGED vars PROVE SectionsAgree'
  <2>1. UNCHANGED <<foreign, disk, raw, saves>>
    BY <1>4 DEF ReadRules, Registry, panelVars, configVars, vars
  <2> QED BY <2>1 DEF SectionsAgree
<1> QED BY <1>1, <1>2, <1>3, <1>4, SectionsPanel, SectionsWriter
        DEF Next, Outside, Requests, InUse
-----------------------------------------------------------------------------
(* What a save leaves in the file.                                            *)
Kept == BackendsAgree /\ RulesAgree /\ Truth /\ SectionsAgree

LEMMA KeptInit == Init => Kept
<1> SUFFICES ASSUME Init PROVE Kept
    OBVIOUS
<1>1. Truth
  BY DEF Init, NotLoaded, Truth
<1>2. SectionsAgree
  BY DEF Init, RawNotLoaded, SectionsAgree
<1> QED BY <1>1, <1>2, AgreeInit, RulesInit DEF Kept

LEMMA KeptNext == TypeOK /\ Kept /\ [Next]_vars => Kept'
  BY AgreeNext, RulesNext, TruthNext, SectionsNext DEF Kept

(* A save writes only when it replaces the file.                              *)
LEMMA OnlyReplaceWrites ==
  ASSUME TypeOK, Ordered, [Next]_vars, NEW i \in Writing, disk'.by = saves[i].id
  PROVE  Replace(i)
<1>1. i = 1 /\ i \in DOMAIN saves
  BY DEF Writing
<1>2. disk'.by # disk.by
  BY <1>1 DEF Ordered, TypeOK, IsSave
<1>3. ~(Restart \/ Requests \/ Registry \/ UNCHANGED vars)
  BY <1>2 DEF Restart, Requests, ReadRules, ReadSection, Registry, panelVars, configVars, vars
<1>4. ~\E content \in HandWritten : HandEdit(content)
  BY <1>2 DEF HandEdit, TypeOK
<1>5. ~Panel
  <2>1. ASSUME NEW b \in DOMAIN backends, ChangeBackend(b) PROVE disk' = disk
    BY <2>1, ChangeBackendIs DEF EditBackends
  <2>2. ASSUME NEW on \in BOOLEAN,
               LET value == [enabled |-> on, rules |-> 2]
               IN  \/ UpdateCrossModelFallback(value)
                   \/ UpdateFinalFallback(value)
                   \/ UpdateDefault(value)
                   \/ UpdateCopilotModelMapping(value)
        PROVE  disk' = disk
    BY <2>2 DEF UpdateCrossModelFallback, UpdateFinalFallback, UpdateDefault,
        UpdateCopilotModelMapping, EditSection
  <2>3. ASSUME \/ \E b \in Backends, url \in Urls, keys \in SUBSET Keys : AddBackend(b, url, keys)
               \/ \E order \in Orders(DOMAIN backends) : ReorderBackends(order)
               \/ \E m \in RouteNames, chain \in Chains : UpdateRouting(m, chain)
               \/ AskSave
        PROVE  disk' = disk
    BY <2>3 DEF AddBackend, ReorderBackends, EditBackends, UpdateRouting, AskSave
  <2> QED BY <1>2, <2>1, <2>2, <2>3, PanelIs
<1>6. PICK k \in Writing : \/ ReadFile(k) \/ MergeNext(k) \/ BackendsMerged(k)
                           \/ MergeTheRest(k) \/ Replace(k) \/ SaveFails(k)
  BY <1>3, <1>4, <1>5 DEF Next, Outside, Writer
<1>7. k = i
  BY <1>1 DEF Writing
<1> QED BY <1>2, <1>6, <1>7
        DEF ReadFile, MergeNext, BackendsMerged, MergeTheRest, SaveFails, Step

(* The backends: what the next start makes of what was merged.                *)
LEMMA BackendsKept ==
  ASSUME TypeOK, BackendsAgree, NEW i \in DOMAIN saves, saves[i].step = "writing"
  PROVE  LET new == LoadedBackends(saves[i].content)
             same(b, field) == \/ <<b, field>> \in saves[i].touched
                               \/ new[b][field] = backends[b][field]
         IN  /\ \A b \in DOMAIN backends :
                   <<b, "enabled">> \in saves[i].touched \/ b \in DOMAIN new
             /\ \A b \in DOMAIN backends \cap DOMAIN new :
                   /\ same(b, "enabled") /\ same(b, "priority")
                   /\ saves[i].content.backends[b].url # Reference => same(b, "url")
                   /\ \/ same(b, "keys") \/ backends[b].keys = {}
                      \/ (foreign /\ ~backends[b].listed)
<1> DEFINE content == saves[i].content
           new == LoadedBackends(content)
           touched == saves[i].touched
<1>1. IsSave(saves[i]) /\ IsContent(content)
  BY DEF TypeOK, IsSave
<1>2. \A b \in DOMAIN backends : Agrees(saves[i], b, backends[b], foreign)
  BY DEF BackendsAgree, MergedAgree
<1>3. ASSUME NEW b \in DOMAIN backends
      PROVE  <<b, "enabled">> \in touched \/ b \in DOMAIN new
  BY <1>2 DEF Agrees, Fields, LoadedBackends
<1>4. ASSUME NEW b \in DOMAIN backends, b \in DOMAIN new,
             ~({b} \X Fields \subseteq touched)
      PROVE  /\ <<b, "enabled">> \in touched \/ new[b].enabled = backends[b].enabled
             /\ <<b, "priority">> \in touched \/ new[b].priority = backends[b].priority
             /\ \/ content.backends[b].url = Reference
                \/ <<b, "url">> \in touched \/ new[b].url = backends[b].url
             /\ \/ <<b, "keys">> \in touched \/ new[b].keys = backends[b].keys
                \/ backends[b].keys = {} \/ (foreign /\ ~backends[b].listed)
  <2> DEFINE node == content.backends[b]
  <2>1. b \in DOMAIN content.backends /\ node \in Node
    BY <1>1, <1>2, <1>4 DEF Agrees, IsContent, IsPartial
  <2>2. /\ <<b, "enabled">> \in touched \/ node.enabled = backends[b].enabled
        /\ <<b, "priority">> \in touched \/ node.priority = backends[b].priority
        /\ <<b, "url">> \in touched \/ node.url = Reference \/ node.url = backends[b].url
        /\ \/ <<b, "keys">> \in touched \/ backends[b].keys = {}
           \/ (foreign /\ ~backends[b].listed)
           \/ (node.keys = backends[b].keys /\ (b \in Builtin \/ node.listed))
    BY <1>2, <1>4 DEF Agrees
  <2>3. /\ new[b].enabled = node.enabled /\ new[b].priority = node.priority
        /\ node.url # Reference => new[b].url = node.url
        /\ b \in Builtin \/ node.listed => new[b].keys = node.keys
    BY <2>1 DEF LoadedBackends, Overridden, CodeDefault, Added, Expanded
  <2> QED BY <2>2, <2>3
<1>5. ASSUME NEW b \in DOMAIN backends, {b} \X Fields \subseteq touched
      PROVE  \A field \in Fields : <<b, field>> \in touched
  BY <1>5
<1> QED BY <1>3, <1>4, <1>5 DEF Fields

(* The sections: what the next start parses.                                  *)
LEMMA SectionsKept ==
  ASSUME TypeOK, Truth, SectionsAgree, ~foreign,
         NEW i \in DOMAIN saves, saves[i].step = "writing",
         NEW s \in Sections \ lost, <<"section", s>> \notin saves[i].touched
  PROVE  \/ Parsed(s, SectionIn(saves[i].content.sections, s))
               = IF s \in InUse THEN InForce(s) ELSE Shown(s)
         \/ (s = "cross" /\ ~saves[i].content.sections[s].enabled)
<1>1. raw.loaded /\ Alike(saves[i].content.sections, raw.sections, s)
  BY DEF SectionsAgree, Holds, Carries, Alike
<1>2. SectionIn(saves[i].content.sections, s) = SectionIn(raw.sections, s)
  BY <1>1 DEF Alike, SectionIn
<1>0. s \notin InUse => Shown(s) = Parsed(s, SectionIn(raw.sections, s))
  BY <1>1 DEF InUse, Shown, ShownRaw, RawSections, Sections
<1>3. CASE ~cache[s].loaded
  BY <1>0, <1>1, <1>2, <1>3 DEF InForce, RawSections
<1>4. CASE cache[s].loaded /\ cache[s].value = Parsed(s, SectionIn(raw.sections, s))
  BY <1>0, <1>2, <1>4 DEF InForce
<1>5. CASE SwitchedOff(s)
  <2>1. s \in DOMAIN raw.sections
    BY <1>5 DEF SwitchedOff, SectionIn, NoSection
  <2> QED BY <1>1, <1>5, <2>1 DEF SwitchedOff, SectionIn, Alike
<1> QED BY <1>3, <1>4, <1>5 DEF Truth

(* SaveKeepsEdits: a save that succeeds leaves a file from which the next     *)
(* start puts in force what was in force when it was asked for, of every      *)
(* setting but those edited since, with the exceptions the property names.    *)
THEOREM SavesKeepWhatIsInForce == Spec => SaveKeepsEdits
<1>1. ASSUME TypeOK, Ordered, Kept, [Next]_vars,
             NEW i \in Writing, saves[i].step = "writing", disk'.by = saves[i].id
      PROVE  Keeps(i)
  <2>1. disk'.content = saves[i].content /\ i \in DOMAIN saves
    BY <1>1, OnlyReplaceWrites DEF Replace, Writing
  <2>2. \A m \in DOMAIN served.rules :
           \/ foreign \/ <<"rule", m>> \in saves[i].touched
           \/ (/\ m \in DOMAIN saves[i].content.routing
               /\ saves[i].content.routing[m] = served.rules[m])
    BY <1>1, <2>1 DEF Kept, RulesAgree
  <2>3. \A s \in Sections \ lost :
           \/ foreign \/ <<"section", s>> \in saves[i].touched
           \/ Parsed(s, SectionIn(saves[i].content.sections, s))
                 = IF s \in InUse THEN InForce(s) ELSE Shown(s)
           \/ (s = "cross" /\ ~saves[i].content.sections[s].enabled)
    BY <1>1, <2>1, SectionsKept DEF Kept
  <2> QED BY <1>1, <2>1, <2>2, <2>3, BackendsKept DEF Kept, Keeps
<1>2. Init => Ordered
  BY DEF Init, Ordered
<1>3. TypeOK /\ Ordered /\ Kept /\ [Next]_vars
        => [\A i \in Writing :
              saves[i].step = "writing" /\ disk'.by = saves[i].id => Keeps(i)]_vars
  BY <1>1
<1> QED BY <1>2, <1>3, TypeInit, TypeNext, OrderedNext, KeptInit, KeptNext, PTL
        DEF Spec, SaveKeepsEdits
-----------------------------------------------------------------------------
(* Names of models.  The rules there may be are for Claude models by their    *)
(* plain names, as in the repository's gateway.yaml, and for others by any.   *)
PlainlyNamed ==
    \A r \in RouteNames : /\ r \in Name
                          /\ ~Renamed(r) => r.tail = <<>> /\ r.first = "tier"

(* But for the names the table sends elsewhere, tier and version stay.        *)
LEMMA MappedName ==
  ASSUME NEW n \in ClaudeName
  PROVE  LET m == ModelMapping(n)
         IN  /\ m = [tier |-> n.tier, version |-> n.version, first |-> m.first,
                     sep |-> m.sep, tail |-> m.tail]
             /\ m.first \in {"tier", "version"} /\ m.sep \in {".", "-"}
             /\ Tabled(n) => m.first = "tier" /\ m.tail \in {<<>>, <<"thinking">>}
             /\ ~Tabled(n) => m = n
  BY DEF ModelMapping, ClaudeName, Plain

LEMMA WithoutLastIs ==
  ASSUME NEW n, NEW suffixes, n = [tier |-> n.tier, version |-> n.version, first |-> n.first,
                                   sep |-> n.sep, tail |-> n.tail]
  PROVE  LET m == WithoutLast(n, suffixes)
         IN  m = [tier |-> n.tier, version |-> n.version, first |-> n.first,
                  sep |-> n.sep, tail |-> m.tail]
  BY DEF WithoutLast

LEMMA StrippedIs ==
  ASSUME NEW n, n = [tier |-> n.tier, version |-> n.version, first |-> n.first,
                     sep |-> n.sep, tail |-> n.tail]
  PROVE  /\ LET m == Stripped(n)
            IN  m = [tier |-> n.tier, version |-> n.version, first |-> n.first,
                     sep |-> n.sep, tail |-> m.tail]
         /\ n.tail = <<>> => Stripped(n) = n
<1> DEFINE m == WithoutLast(n, {"thinking", "extended", "preview", "latest"})
<1>1. m = [tier |-> n.tier, version |-> n.version, first |-> n.first, sep |-> n.sep,
           tail |-> m.tail]
  BY WithoutLastIs
<1>2. n.tail = <<>> => m = n
  BY DEF WithoutLast
<1> HIDE DEF m
<1>3. LET k == WithoutLast(m, {"date"})
      IN  k = [tier |-> m.tier, version |-> m.version, first |-> m.first, sep |-> m.sep,
               tail |-> k.tail]
  BY <1>1, WithoutLastIs
<1>4. Stripped(n) = WithoutLast(m, {"date"})
  BY DEF Stripped, m
<1>5. m = n /\ n.tail = <<>> => WithoutLast(m, {"date"}) = n
  BY DEF WithoutLast
<1> QED BY <1>1, <1>2, <1>3, <1>4, <1>5

LEMMA WithoutOne ==
  ASSUME NEW a
  PROVE  /\ <<a>> # <<>> /\ Last(<<a>>) = a /\ Front(<<a>>) = <<>>
  BY DEF Last, Front

LEMMA WithoutSecond ==
  ASSUME NEW a, NEW b
  PROVE  <<a, b>> # <<>> /\ Last(<<a, b>>) = b /\ Front(<<a, b>>) = <<a>>
<1> DEFINE s == SubSeq(<<a, b>>, 1, 1)
<1>1. DOMAIN s = 1..1 /\ s[1] = a
  OBVIOUS
<1>2. s \in Seq({a, b}) /\ Len(s) = 1
  OBVIOUS
<1> HIDE DEF s
<1>3. s = <<a>>
  BY <1>1, <1>2
<1> QED BY <1>3 DEF s, Last, Front

(* The suffixes a name may end in for the search to take all of them off.     *)
LEMMA StrippedOff ==
  ASSUME NEW n, n = [tier |-> n.tier, version |-> n.version, first |-> n.first,
                     sep |-> n.sep, tail |-> n.tail],
         n.tail \in {<<>>, <<"thinking">>, <<"latest">>, <<"date">>, <<"date", "thinking">>}
  PROVE  Stripped(n).tail = <<>>
<1> DEFINE m == WithoutLast(n, {"thinking", "extended", "preview", "latest"})
<1>1. m.tail \in {<<>>, <<"date">>}
  <2>1. CASE n.tail \in {<<>>, <<"date">>}
    BY <2>1, WithoutOne DEF WithoutLast
  <2>2. CASE n.tail \in {<<"thinking">>, <<"latest">>}
    BY <2>2, WithoutOne DEF WithoutLast
  <2>3. CASE n.tail = <<"date", "thinking">>
    BY <2>3, WithoutSecond DEF WithoutLast
  <2> QED BY <2>1, <2>2, <2>3
<1>2. m = [tier |-> n.tier, version |-> n.version, first |-> n.first, sep |-> n.sep,
           tail |-> m.tail]
  BY WithoutLastIs
<1> HIDE DEF m
<1>3. WithoutLast(m, {"date"}).tail = <<>>
  BY <1>1, <1>2, WithoutOne DEF WithoutLast
<1> QED BY <1>3 DEF Stripped, m

(* What the rule for a name is looked for under.                              *)
Written(p) == p = [tier |-> p.tier, version |-> p.version, first |-> p.first,
                   sep |-> p.sep, tail |-> p.tail]

LEMMA NamesAre ==
  /\ \A n \in ClaudeName : n.tier \in {"opus", "sonnet", "haiku"} /\ ~Renamed(n)
  /\ \A n \in OtherName : Renamed(n)
  /\ \A n \in Name : ~Renamed(n) => n \in ClaudeName
<1>1. ASSUME NEW n \in ClaudeName PROVE n.tier \in {"opus", "sonnet", "haiku"}
  BY DEF ClaudeName
<1>2. ASSUME NEW n \in OtherName PROVE n.tier \in {"gpt-4o", "gemini-3-pro"}
  BY DEF OtherName
<1> QED BY <1>1, <1>2 DEF Name, Renamed

LEMMA MappedIsWritten ==
  ASSUME NEW n \in Name
  PROVE  Written(ModelMapping(n))
<1>1. CASE n \in ClaudeName
  BY <1>1, MappedName DEF Written
<1>2. CASE n \in OtherName
  <2>1. /\ Written(n) /\ Written(Plain("sonnet", "4.5", "-"))
        /\ Written([n EXCEPT !.tail = <<"high">>])
    BY <1>2 DEF Written, OtherName, Plain
  <2>2. n.tier \in {"gpt-4o", "gemini-3-pro"}
    BY <1>2 DEF OtherName
  <2> QED BY <2>1, <2>2 DEF ModelMapping
<1> QED BY <1>1, <1>2 DEF Name

LEMMA CandidateIs ==
  ASSUME NEW n \in Name, NEW r \in {Candidates[n][i] : i \in 1..4},
         r.tail = <<>>, r.first = "tier"
  PROVE  LET p == Stripped(ModelMapping(n))
         IN  /\ Written(p) /\ p.tail = <<>> /\ p.first = "tier"
             /\ r.tier = p.tier /\ r.version = p.version
<1> DEFINE m == ModelMapping(n)
           p == Stripped(m)
<1>1. /\ Written(m) /\ Written(p) /\ p.first = m.first
      /\ p.tier = m.tier /\ p.version = m.version /\ (m.tail = <<>> => p = m)
  BY MappedIsWritten, StrippedIs DEF Written
<1>2. Candidates[n] = <<m, p, [p EXCEPT !.sep = "."], [p EXCEPT !.sep = "-"]>>
  BY DEF Candidates
<1> HIDE DEF m, p
<1>3. r \in {m, p, [p EXCEPT !.sep = "."], [p EXCEPT !.sep = "-"]}
  BY <1>2
<1>4. \A sep : LET q == [p EXCEPT !.sep = sep]
                IN  /\ q.tail = p.tail /\ q.first = p.first
                    /\ q.tier = p.tier /\ q.version = p.version
  BY <1>1 DEF Written
<1>5. /\ r.tail = p.tail /\ r.first = p.first
      /\ r.tier = p.tier /\ r.version = p.version
  <2>1. CASE r = m
    BY <1>1, <2>1
  <2>2. CASE r = p
    BY <2>2
  <2>3. CASE \E sep : r = [p EXCEPT !.sep = sep]
    BY <1>4, <2>3
  <2> QED BY <1>3, <2>1, <2>2, <2>3
<1>6. /\ p.tail = <<>> /\ p.first = "tier"
      /\ r.tier = p.tier /\ r.version = p.version
  BY <1>5
<1> QED BY <1>1, <1>6 DEF m, p

(* A plain name and every name whose rule it is are compared as one.          *)
LEMMA PlainComparable ==
  ASSUME NEW r \in ClaudeName, r.tail = <<>>, r.first = "tier"
  PROVE  Comparable[r] = Plain(r.tier, r.version, ".")
<1> DEFINE m == ModelMapping(r)
           p == Stripped(m)
<1>1. /\ Written(m) /\ m.tier = r.tier /\ m.version = r.version
      /\ m.first = "tier" /\ m.tail \in {<<>>, <<"thinking">>}
  BY MappedName DEF Written
<1> HIDE DEF m
<1>2. /\ Written(p) /\ p.tier = r.tier /\ p.version = r.version /\ p.first = "tier"
      /\ p.tail = <<>>
  BY <1>1, StrippedIs, StrippedOff DEF Written
<1>3. Comparable[r] = [p EXCEPT !.sep = "."]
  BY DEF Comparable, Name, m
<1> HIDE DEF p
<1> QED BY <1>2, <1>3 DEF Plain, Written

LEMMA FoundIsCandidate ==
  ASSUME NEW keys, NEW n \in Name, NEW r \in RuleFor(keys, n)
  PROVE  r \in keys /\ r \in {Candidates[n][i] : i \in 1..4}
<1> DEFINE found == {i \in 1..4 : Candidates[n][i] \in keys}
<1>1. found # {} /\ r = Candidates[n][Min(found)]
  BY DEF RuleFor
<1>2. Min(found) \in found
  <2>1. \A i \in found : i \in {1, 2, 3, 4}
    OBVIOUS
  <2> HIDE DEF found
  <2>2. \E i \in found : \A j \in found : i <= j
    <3>1. CASE 1 \in found
      BY <2>1, <3>1
    <3>2. CASE 1 \notin found /\ 2 \in found
      BY <2>1, <3>2
    <3>3. CASE 1 \notin found /\ 2 \notin found /\ 3 \in found
      BY <2>1, <3>3
    <3>4. CASE \A i \in found : i = 4
      BY <1>1, <3>4
    <3> QED BY <2>1, <3>1, <3>2, <3>3, <3>4
  <2> QED BY <2>2 DEF Min
<1> QED BY <1>1, <1>2


LEMMA RulesAreFound ==
  ASSUME PlainlyNamed, NEW keys \in SUBSET RouteNames
  PROVE  FoundBySpellings(keys)
<1> SUFFICES ASSUME NEW n \in Name
             PROVE  LET found == RuleFor(keys, n)
                        plain == {r \in keys : \E sep \in {".", "-"} :
                                                r = Plain(n.tier, n.version, sep)}
                    IN  /\ \A r \in found : Renamed(r) \/ Comparable[r] = Comparable[n]
                        /\ \A r \in found : \/ Renamed(n) \/ n.tier = "sonnet"
                                            \/ MapModelForCopilot(n) = MapModelForCopilot(r)
                        /\ Understood(n) /\ ~Renamed(n) /\ plain # {}
                             => found # {} /\ found \subseteq plain
  BY DEF FoundBySpellings
<1> DEFINE found == RuleFor(keys, n)
           plain == {r \in keys : \E sep \in {".", "-"} : r = Plain(n.tier, n.version, sep)}
           m == ModelMapping(n)
           p == Stripped(m)
<1>1. ASSUME NEW r \in found, ~Renamed(r)
      PROVE  /\ r \in ClaudeName /\ r.tail = <<>> /\ r.first = "tier"
             /\ Written(p) /\ p.tail = <<>> /\ p.first = "tier"
             /\ r.tier = p.tier /\ r.version = p.version
  <2>1. r \in keys /\ r \in {Candidates[n][i] : i \in 1..4}
    BY FoundIsCandidate
  <2>2. r \in ClaudeName /\ r.tail = <<>> /\ r.first = "tier"
    BY <1>1, <2>1, NamesAre DEF PlainlyNamed
  <2> QED BY <2>1, <2>2, CandidateIs
<1>2. ASSUME NEW r \in found, ~Renamed(r) PROVE Comparable[r] = Comparable[n]
  <2>1. Comparable[r] = Plain(p.tier, p.version, ".")
    BY <1>1, <1>2, PlainComparable
  <2>2. Comparable[n] = [p EXCEPT !.sep = "."]
    BY DEF Comparable
  <2>3. Written(p) /\ p.tail = <<>> /\ p.first = "tier"
    BY <1>1, <1>2
  <2> HIDE DEF p
  <2> QED BY <2>1, <2>2, <2>3 DEF Plain, Written
<1>3. ASSUME ~Renamed(n) PROVE Written(m) /\ Written(p) /\ p.tier = n.tier /\ p.version = n.version
  <2>1. Written(m) /\ m.tier = n.tier /\ m.version = n.version
    BY <1>3, NamesAre, MappedName DEF Written
  <2> HIDE DEF m
  <2> QED BY <2>1, StrippedIs DEF Written
<1>4. ASSUME NEW r \in found, ~Renamed(n)
      PROVE  ~Renamed(r) /\ r.tier = n.tier /\ r.version = n.version
  <2>1. r \in keys /\ r \in {Candidates[n][i] : i \in 1..4}
    BY FoundIsCandidate
  <2>2. r.tier = n.tier
    <3>1. r \in {m, p, [p EXCEPT !.sep = "."], [p EXCEPT !.sep = "-"]}
      BY <2>1 DEF Candidates
    <3>2. m.tier = n.tier
      BY <1>4, NamesAre, MappedName
    <3> HIDE DEF m, p
    <3> QED BY <1>3, <1>4, <3>1, <3>2 DEF Written
  <2>3. ~Renamed(r)
    BY <1>4, <2>2 DEF Renamed
  <2> QED BY <1>1, <1>3, <1>4, <2>2, <2>3
<1>5. ASSUME NEW r \in found, ~Renamed(n), n.tier # "sonnet"
      PROVE  MapModelForCopilot(n) = MapModelForCopilot(r)
  BY <1>4, <1>5 DEF MapModelForCopilot, CopilotVersion
<1>6. ASSUME Understood(n), ~Renamed(n), plain # {}
      PROVE  found # {} /\ found \subseteq plain
  <2>1. p.tail = <<>> /\ p.first = "tier"
    <3>1. m.first = "tier" /\ m.tail \in {<<>>, <<"thinking">>, <<"latest">>, <<"date">>,
                                         <<"date", "thinking">>}
      BY <1>6, NamesAre, MappedName DEF Understood
    <3>2. Written(m)
      BY <1>3, <1>6
    <3> HIDE DEF m
    <3> QED BY <3>1, <3>2, StrippedIs, StrippedOff DEF Written
  <2>2. \A sep \in {".", "-"} : [p EXCEPT !.sep = sep] = Plain(n.tier, n.version, sep)
    <3>1. Written(p) /\ p.tier = n.tier /\ p.version = n.version
      BY <1>3, <1>6
    <3> HIDE DEF p
    <3> QED BY <2>1, <3>1 DEF Plain, Written
  <2>3. \E i \in 1..4 : Candidates[n][i] \in keys
    <3>1. Candidates[n] = <<m, p, [p EXCEPT !.sep = "."], [p EXCEPT !.sep = "-"]>>
      BY DEF Candidates
    <3>2. \E sep \in {".", "-"} : Plain(n.tier, n.version, sep) \in keys
      BY <1>6
    <3> HIDE DEF m, p
    <3> QED BY <2>2, <3>1, <3>2
  <2>4. found # {}
    BY <2>3 DEF RuleFor
  <2>5. ASSUME NEW r \in found PROVE r \in plain
    <3>1. r \in keys /\ r \in ClaudeName /\ r.tail = <<>> /\ r.first = "tier"
      BY <1>1, <1>4, <1>6, FoundIsCandidate
    <3>2. r = Plain(n.tier, n.version, r.sep) /\ r.sep \in {".", "-"}
      BY <1>4, <1>6, <3>1 DEF ClaudeName, Plain
    <3> QED BY <3>1, <3>2
  <2> QED BY <2>4, <2>5
<1> HIDE DEF found, plain, m, p
<1> QED BY <1>2, <1>5, <1>6 DEF found, plain

(* EverySpellingFindsItsRule: however a client spells a Claude model, a rule  *)
(* under its plain name is found, and a rule that is found is for that model: *)
(* whatever suffixes names end in, and whichever rules there are, as long as  *)
(* those of Claude models are under plain names, as in gateway.yaml.          *)
THEOREM RulesAreFoundByAnySpelling ==
  ASSUME PlainlyNamed
  PROVE  Spec => []EverySpellingFindsItsRule
<1>1. ASSUME TypeOK PROVE EverySpellingFindsItsRule
  <2>1. DOMAIN served.rules \in SUBSET RouteNames
    BY <1>1, TypeParts DEF RulesOK, IsPartial
  <2>2. FoundBySpellings(DOMAIN served.rules) = TRUE
    <3>1. FoundBySpellings(DOMAIN served.rules)
      BY <2>1, RulesAreFound
    <3> QED BY <3>1
  <2> QED BY <2>1, <2>2 DEF EverySpellingFindsItsRule, Verdicts
<1>2. TypeOK => EverySpellingFindsItsRule
  BY <1>1
<1> QED BY <1>2, TypeCorrect, PTL

=============================================================================
