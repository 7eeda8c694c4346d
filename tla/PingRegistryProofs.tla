------------------------- MODULE PingRegistryProofs -------------------------
(***************************************************************************)
(* Proofs about PingRegistry: for any sites, sources, targets and filters, *)
(* any number of overlapping runs and of requests.                         *)
(***************************************************************************)
EXTENDS PingRegistry, TLAPS

\* Next, without the grouping that fairness needs.
LEMMA NextCases ==
  ASSUME [Next]_vars
  PROVE  \/ \E key \in Keys, name \in Names : AddTarget(key, name)
         \/ \E old, key \in Keys, name \in Names : BeginSave(old, key, name)
         \/ \E key \in Keys : BeginRemove(key)
         \/ \E site \in Sites, row \in SourceRow : AddSource(site, row)
         \/ \E site \in Sites : RemoveSource(site)
         \/ \E seen \in SUBSET Sites : ImportSources(seen)
         \/ CommitSave \/ EndRemove \/ RestartApi
         \/ \E g \in Groups : DeleteGroup(g)
         \/ \E r \in RunIds : FetchConfig(r) \/ Register(r) \/ FetchAgain(r)
         \/ \E r \in RunIds, name \in Names : PushTarget(r, name)
         \/ UNCHANGED vars
BY DEF Next, Operator, Handler, Script

LEMMA NoRowType ==
  /\ NoRow \notin SourceRow
  /\ \A row \in SourceRow \cup {NoRow} : row # NoRow => row.source \in Sources
BY PingAssumption DEF SourceRow, NoRow

-----------------------------------------------------------------------------
(* Types.                                                                  *)

\* A fault is counted, or none happened.
LEMMA FaultType ==
  ASSUME faults \in 0..MaxFaults, Fault \/ faults' = faults
  PROVE  faults' \in 0..MaxFaults
BY PingAssumption DEF Fault

LEMMA EditType ==
  ASSUME edits \in 0..MaxEdits, Edit
  PROVE  edits' \in 0..MaxEdits /\ request.kind = "none"
BY PingAssumption DEF Edit

LEMMA ExcuseType ==
  ASSUME groups' \subseteq Groups, NEW more, Excuse(more)
  PROVE  excused' \subseteq Groups
BY DEF Excuse

LEMMA RegisteredType ==
  ASSUME registry \in [Sites -> SourceRow \cup {NoRow}]
  PROVE  RegisteredSources \subseteq Sources
BY NoRowType DEF RegisteredSources, Registered

LEMMA DoomedType ==
  ASSUME TypeOK, NEW name \in Names
  PROVE  RegisteredSources \X {name} \in SUBSET Groups
BY RegisteredType DEF TypeOK, Groups

LEMMA IdleRunType == IdleRun \in RunRecord
BY DEF IdleRun, RunRecord

LEMMA NoRequestType == NoRequest \in Requests
BY DEF NoRequest, Requests

\* The answer of the API makes a run that pushes, or one that ends.
LEMMA ConfigType ==
  ASSUME TypeOK, NEW site \in Sites, Registered(site)
  PROVE  /\ Ended(Config(site)) \in RunRecord
         /\ Ended(Config(site)).pc = "push" =>
              /\ Ended(Config(site)).source # None
              /\ Ended(Config(site)).todo # {}
<1> DEFINE c == Config(site)
<1>1. registry[site].source \in Sources
  BY NoRowType DEF TypeOK, Registered
<1>2. ScriptTargets(targets, registry[site].source) \in SUBSET Names
  BY DEF TypeOK, ScriptTargets
<1>3. /\ c \in RunRecord /\ c.pc = "push" /\ c.source # None
  BY <1>1, <1>2, PingAssumption DEF Config, RunRecord
<1> HIDE DEF c
<1>4. CASE c.todo = {}
  <2>1. Ended(c) = IdleRun
    BY <1>3, <1>4 DEF Ended
  <2>2. IdleRun.pc = "idle"
    BY DEF IdleRun
  <2>3. QED
    BY <2>1, <2>2, IdleRunType DEF c
<1>5. CASE c.todo # {}
  <2>1. Ended(c) = c
    BY <1>5 DEF Ended
  <2>2. QED
    BY <1>3, <1>5, <2>1 DEF c
<1>6. QED
  BY <1>4, <1>5

LEMMA InitType == Init => TypeOK
<1> SUFFICES ASSUME Init PROVE TypeOK
  OBVIOUS
<1>1. NoRequest \in Requests /\ NoRequest.kind = "none"
  BY NoRequestType DEF NoRequest
<1>2. IdleRun \in RunRecord /\ IdleRun.pc = "idle"
  BY IdleRunType DEF IdleRun
<1>3. edits \in 0..MaxEdits /\ faults \in 0..MaxFaults
  BY PingAssumption DEF Init
<1>4. QED
  BY <1>1, <1>2, <1>3 DEF Init, TypeOK

LEMMA TargetsType ==
  ASSUME TypeOK,
         \/ \E key \in Keys, name \in Names : AddTarget(key, name)
         \/ \E old, key \in Keys, name \in Names : BeginSave(old, key, name)
         \/ \E key \in Keys : BeginRemove(key)
  PROVE  TypeOK'
<1>1. ASSUME NEW key \in Keys, NEW name \in Names, AddTarget(key, name)
      PROVE  TypeOK'
  BY <1>1, EditType, ExcuseType DEF AddTarget, Upsert, TypeOK
<1>2. ASSUME NEW old \in Keys, NEW key \in Keys, NEW name \in Names,
             BeginSave(old, key, name)
      PROVE  TypeOK'
  <2>1. (IF targets[old] = None THEN {} ELSE RegisteredSources \X {targets[old]})
          \in SUBSET Groups
    BY DoomedType DEF TypeOK
  <2>2. /\ request' \in Requests /\ request'.old = old /\ request'.key = key
        /\ request'.name = name
    BY <1>2, <2>1 DEF BeginSave, Requests
  <2>3. QED
    BY <1>2, <2>2, EditType DEF BeginSave, TypeOK
<1>3. ASSUME NEW key \in Keys, BeginRemove(key)
      PROVE  TypeOK'
  <2>1. RegisteredSources \X {targets[key]} \in SUBSET Groups
    BY <1>3, DoomedType DEF TypeOK, BeginRemove
  <2>2. request' \in Requests /\ request'.kind = "remove"
    BY <1>3, <2>1, NoRequestType DEF BeginRemove, Requests, NoRequest
  <2>3. targets' \in [Keys -> Names \cup {None}]
    BY <1>3 DEF BeginRemove, TypeOK
  <2>4. QED
    BY <1>3, <2>2, <2>3, EditType DEF BeginRemove, TypeOK
<1>4. QED
  BY <1>1, <1>2, <1>3

LEMMA SourcesType ==
  ASSUME TypeOK,
         \/ \E site \in Sites, row \in SourceRow : AddSource(site, row)
         \/ \E site \in Sites : RemoveSource(site)
         \/ \E seen \in SUBSET Sites : ImportSources(seen)
  PROVE  TypeOK'
<1>1. ASSUME NEW site \in Sites, NEW row \in SourceRow, AddSource(site, row)
      PROVE  TypeOK'
  BY <1>1, EditType, ExcuseType DEF AddSource, SetSource, TypeOK
<1>2. ASSUME NEW site \in Sites, RemoveSource(site)
      PROVE  TypeOK'
  BY <1>2, EditType, ExcuseType DEF RemoveSource, SetSource, TypeOK
<1>3. ASSUME NEW seen \in SUBSET Sites, ImportSources(seen)
      PROVE  TypeOK'
  <2>1. \A s \in Sites : [source |-> s, interface |-> FALSE] \in SourceRow
    BY PingAssumption DEF SourceRow
  <2>2. registry' \in [Sites -> SourceRow \cup {NoRow}]
    BY <1>3, <2>1 DEF ImportSources, Imported, TypeOK
  <2>3. chosen' \in [Sites -> SourceRow \cup {NoRow}]
    BY <1>3, <2>2 DEF ImportSources, TypeOK
  <2>4. QED
    BY <1>3, <2>2, <2>3, EditType, ExcuseType DEF ImportSources, TypeOK
<1>4. QED
  BY <1>1, <1>2, <1>3

LEMMA HandlerType ==
  ASSUME TypeOK,
         \/ CommitSave \/ EndRemove \/ RestartApi
         \/ \E g \in Groups : DeleteGroup(g)
  PROVE  TypeOK'
<1>1. NoRequest \in Requests /\ NoRequest.kind = "none"
  BY NoRequestType DEF NoRequest
<1>2. CASE CommitSave
  BY <1>1, <1>2, ExcuseType DEF CommitSave, Upsert, TypeOK
<1>3. CASE EndRemove
  BY <1>1, <1>3 DEF EndRemove, TypeOK
<1>4. CASE RestartApi
  BY <1>1, <1>4, FaultType, ExcuseType DEF RestartApi, TypeOK
<1>5. ASSUME NEW g \in Groups, DeleteGroup(g)
      PROVE  TypeOK'
  <2>1. request' \in Requests /\ request'.kind = request.kind
        /\ request'.old = request.old /\ request'.key = request.key
        /\ request'.name = request.name
    BY <1>5 DEF DeleteGroup, TypeOK, Requests
  <2>2. groups' \subseteq Groups /\ excused' \subseteq Groups
    BY <1>5, ExcuseType DEF DeleteGroup, TypeOK
  <2>3. faults' \in 0..MaxFaults
    BY <1>5, FaultType DEF DeleteGroup, TypeOK
  <2>4. QED
    BY <1>5, <2>1, <2>2, <2>3 DEF DeleteGroup, TypeOK
<1>6. QED
  BY <1>2, <1>3, <1>4, <1>5

LEMMA ScriptType ==
  ASSUME TypeOK, NEW r \in RunIds,
         \/ FetchConfig(r) \/ Register(r) \/ FetchAgain(r)
         \/ \E name \in Names : PushTarget(r, name)
  PROVE  TypeOK'
<1> DEFINE site == r[1]
<1>1. site \in Sites
  BY DEF RunIds
<1>2. IdleRun \in RunRecord /\ IdleRun.pc # "push"
  BY IdleRunType DEF IdleRun
<1>3. ASSUME NEW run \in RunRecord,
             run.pc = "push" => run.source # None /\ run.todo # {},
             runs' = [runs EXCEPT ![r] = run]
      PROVE  /\ runs' \in [RunIds -> RunRecord]
             /\ \A q \in RunIds : runs'[q].pc = "push" =>
                  runs'[q].source # None /\ runs'[q].todo # {}
  BY <1>3 DEF TypeOK
<1>4. ASSUME NEW to \in {"absent", "failed", "again"},
             runs' = [runs EXCEPT ![r].pc = to]
      PROVE  /\ runs' \in [RunIds -> RunRecord]
             /\ \A q \in RunIds : runs'[q].pc = "push" =>
                  runs'[q].source # None /\ runs'[q].todo # {}
  BY <1>4 DEF TypeOK, RunRecord
<1>5. ASSUME Registered(site), runs' = [runs EXCEPT ![r] = Ended(Config(site))]
      PROVE  /\ runs' \in [RunIds -> RunRecord]
             /\ \A q \in RunIds : runs'[q].pc = "push" =>
                  runs'[q].source # None /\ runs'[q].todo # {}
  BY <1>1, <1>3, <1>5, ConfigType
<1>6. CASE FetchConfig(r)
  <2>1. blind' \subseteq Sites /\ faults' \in 0..MaxFaults
    BY <1>1, <1>6, FaultType DEF FetchConfig, TypeOK
  <2>2. /\ runs' \in [RunIds -> RunRecord]
        /\ \A q \in RunIds : runs'[q].pc = "push" =>
             runs'[q].source # None /\ runs'[q].todo # {}
    BY <1>4, <1>5, <1>6 DEF FetchConfig
  <2>3. QED
    BY <1>6, <2>1, <2>2 DEF FetchConfig, TypeOK
<1>7. CASE Register(r)
  <2>1. [source |-> site, interface |-> FALSE] \in SourceRow
    BY <1>1, PingAssumption DEF SourceRow
  <2>2. registry' \in [Sites -> SourceRow \cup {NoRow}]
    BY <1>1, <1>7, <2>1 DEF Register, SetSource, TypeOK
  <2>3. blind' \subseteq Sites /\ faults' \in 0..MaxFaults
    BY <1>1, <1>7, FaultType DEF Register, TypeOK
  <2>4. /\ runs' \in [RunIds -> RunRecord]
        /\ \A q \in RunIds : runs'[q].pc = "push" =>
             runs'[q].source # None /\ runs'[q].todo # {}
    BY <1>2, <1>3, <1>4, <1>7 DEF Register
  <2>5. QED
    BY <1>7, <2>2, <2>3, <2>4, ExcuseType DEF Register, TypeOK
<1>8. CASE FetchAgain(r)
  <2>1. faults' \in 0..MaxFaults
    BY <1>8, FaultType DEF FetchAgain, TypeOK
  <2>2. /\ runs' \in [RunIds -> RunRecord]
        /\ \A q \in RunIds : runs'[q].pc = "push" =>
             runs'[q].source # None /\ runs'[q].todo # {}
    BY <1>2, <1>3, <1>5, <1>8 DEF FetchAgain
  <2>3. QED
    BY <1>8, <2>1, <2>2 DEF FetchAgain, TypeOK
<1>9. ASSUME NEW name \in Names, PushTarget(r, name)
      PROVE  TypeOK'
  <2> DEFINE left == [runs[r] EXCEPT !.todo = @ \ {name}]
  <2>1. runs[r] \in RunRecord /\ runs[r].pc = "push" /\ runs[r].source # None
    BY <1>9 DEF PushTarget, TypeOK
  <2>2. left \in RunRecord /\ left.source = runs[r].source /\ left.pc = "push"
    BY <2>1 DEF RunRecord
  <2>3. runs' = [runs EXCEPT ![r] = Ended(left)]
    BY <1>9 DEF PushTarget, Pushed
  <2> HIDE DEF left
  <2>4. /\ Ended(left) \in RunRecord
        /\ Ended(left).pc = "push" => Ended(left).source # None /\ Ended(left).todo # {}
    BY <1>2, <2>1, <2>2 DEF Ended
  <2>5. /\ runs' \in [RunIds -> RunRecord]
        /\ \A q \in RunIds : runs'[q].pc = "push" =>
             runs'[q].source # None /\ runs'[q].todo # {}
    <3> DEFINE run == Ended(left)
    <3>1. run \in RunRecord /\ runs' = [runs EXCEPT ![r] = run]
      BY <2>3, <2>4
    <3>2. run.pc = "push" => run.source # None /\ run.todo # {}
      BY <2>4
    <3> HIDE DEF run
    <3>3. QED
      BY <1>3, <3>1, <3>2
  <2>6. groups' \subseteq Groups /\ excused' \subseteq Groups
    <3>1. <<runs[r].source, name>> \in Groups
      BY <2>1 DEF RunRecord, Groups
    <3>2. groups' \subseteq Groups
      BY <1>9, <3>1 DEF PushTarget, TypeOK
    <3>3. QED
      BY <1>9, <3>2, ExcuseType DEF PushTarget
  <2>7. faults' \in 0..MaxFaults
    BY <1>9, FaultType DEF PushTarget, TypeOK
  <2>8. QED
    BY <1>9, <2>5, <2>6, <2>7 DEF PushTarget, TypeOK
<1>10. QED
  BY <1>6, <1>7, <1>8, <1>9

LEMMA TypeInductive == TypeOK /\ [Next]_vars => TypeOK'
<1> SUFFICES ASSUME TypeOK, [Next]_vars PROVE TypeOK'
  OBVIOUS
<1>1. CASE UNCHANGED vars
  BY <1>1 DEF vars, TypeOK
<1>2. QED
  BY <1>1, NextCases, TargetsType, SourcesType, HandlerType, ScriptType

\* Every variable keeps its type; a run that pushes has a source and targets
\* left, and a save in progress knows its rows (main.py:1070-1110,
\* site-ping.py:88-160).
THEOREM PingTypeCorrect == Spec => []TypeOK
BY InitType, TypeInductive, PTL DEF Spec

-----------------------------------------------------------------------------
(* The settings of a site.                                                 *)

SettingsInv == TypeOK /\ SettingsKept

LEMMA RegisterKeeps ==
  ASSUME TypeOK, SettingsKept, NEW r \in RunIds, Register(r)
  PROVE  SettingsKept'
<1>1. r[1] \in Sites
  BY DEF RunIds
<1>2. /\ chosen' = chosen
      /\ \A s \in Sites : s # r[1] => registry'[s] = registry[s]
      /\ blind \subseteq blind'
      /\ Registered(r[1]) => r[1] \in blind'
  BY <1>1 DEF Register, SetSource, TypeOK
<1>3. chosen[r[1]] # NoRow => r[1] \in blind'
  BY <1>1, <1>2 DEF SettingsKept, Registered
<1>4. QED
  BY <1>2, <1>3 DEF SettingsKept

LEMMA SettingsInductive == SettingsInv /\ [Next]_vars => SettingsInv'
<1> SUFFICES ASSUME TypeOK, SettingsKept, [Next]_vars PROVE SettingsKept'
  BY TypeInductive DEF SettingsInv
<1>1. ASSUME UNCHANGED <<registry, chosen>>, blind \subseteq blind'
      PROVE  SettingsKept'
  BY <1>1 DEF SettingsKept
<1>2. ASSUME NEW key \in Keys, NEW name \in Names,
             \/ AddTarget(key, name)
             \/ \E old \in Keys : BeginSave(old, key, name)
             \/ BeginRemove(key)
      PROVE  SettingsKept'
  BY <1>1, <1>2 DEF AddTarget, BeginSave, BeginRemove
<1>3. ASSUME \/ CommitSave \/ EndRemove \/ RestartApi \/ UNCHANGED vars
             \/ \E g \in Groups : DeleteGroup(g)
      PROVE  SettingsKept'
  BY <1>1, <1>3 DEF CommitSave, EndRemove, RestartApi, DeleteGroup, vars
<1>4. ASSUME NEW r \in RunIds,
             \/ FetchConfig(r) \/ FetchAgain(r)
             \/ \E name \in Names : PushTarget(r, name)
      PROVE  SettingsKept'
  BY <1>1, <1>4 DEF FetchConfig, FetchAgain, PushTarget
<1>5. ASSUME NEW r \in RunIds, Register(r) PROVE SettingsKept'
  BY <1>5, RegisterKeeps
<1>6. ASSUME NEW site \in Sites,
             \/ \E row \in SourceRow : AddSource(site, row)
             \/ RemoveSource(site)
      PROVE  SettingsKept'
  BY <1>6 DEF AddSource, RemoveSource, SetSource, TypeOK, SettingsKept
<1>7. ASSUME NEW seen \in SUBSET Sites, ImportSources(seen)
      PROVE  SettingsKept'
  <2>1. /\ chosen' = [s \in Sites |-> IF Registered(s) THEN chosen[s]
                                      ELSE registry'[s]]
        /\ \A s \in Sites : Registered(s) => registry'[s] = registry[s]
        /\ blind' = blind
    BY <1>7 DEF ImportSources, Imported, Registered
  <2>2. QED
    BY <2>1 DEF SettingsKept
<1>8. CASE \E key \in Keys : BeginRemove(key)
  BY <1>1, <1>8 DEF BeginRemove
<1>9. QED
  BY <1>2, <1>3, <1>4, <1>5, <1>6, <1>7, <1>8, NextCases

\* What an operator chose for a site is only overwritten by a run of that site
\* that could not see it (site-ping.py:70, main.py:897).
THEOREM SettingsAlwaysKept == Spec => []SettingsKept
<1>1. Init => SettingsInv
  <2>1. Init => SettingsKept
    BY DEF Init, SettingsKept
  <2>2. QED
    BY <2>1, InitType DEF SettingsInv
<1>2. SettingsInv => SettingsKept
  BY DEF SettingsInv
<1>3. QED
  BY <1>1, <1>2, SettingsInductive, PTL DEF Spec

-----------------------------------------------------------------------------
(* What is left on the Pushgateway.                                        *)

\* Between its begin and its commit a save has accounted for every group of the
\* name it takes away, those pushed meanwhile included.
SaveCovers ==
    request.kind = "save" /\ targets[request.old] # None =>
        \A g \in groups : g[2] = targets[request.old] =>
            g \in request.doomed \/ g \in excused

NothingDoomed == request.kind = "none" => request.doomed = {}

LeftoverInv == TypeOK /\ NothingDoomed /\ SaveCovers /\ LeftoversExplained

LEMMA GroupType ==
  ASSUME TypeOK, NEW g \in groups
  PROVE  /\ g[1] \in Sources /\ g[2] \in Names
         /\ g = <<g[1], g[2]>>
BY DEF TypeOK, Groups

\* The source of a configured group is registered.
LEMMA ConfiguredRegistered ==
  ASSUME TypeOK, NEW g \in groups, Configured(targets, registry, g)
  PROVE  g[1] \in RegisteredSources
<1>1. PICK s \in Sites : registry[s].source = g[1]
  BY DEF Configured
<1>2. g[1] # None
  BY GroupType, PingAssumption
<1>3. registry[s] # NoRow
  BY <1>1, <1>2 DEF NoRow
<1>4. QED
  BY <1>1, <1>3 DEF RegisteredSources, Registered

\* The excuses of groups that stay are kept, and more added.
LEMMA ExcuseKeeps ==
  ASSUME NEW more, Excuse(more), NEW g \in groups', g \in excused \/ g \in more
  PROVE  g \in excused'
BY DEF Excuse

\* A row other than the one written keeps what it configures.
LEMMA OtherRowStays ==
  ASSUME NEW table \in [Keys -> Names \cup {None}], NEW source,
         NEW key \in Keys, NEW name \in Names \cup {None},
         NEW n \in ScriptTargets(table, source),
         n # table[key] \/ n = name
  PROVE  n \in ScriptTargets([table EXCEPT ![key] = name], source)
<1> DEFINE after == [table EXCEPT ![key] = name]
<1>1. PICK k \in Keys : table[k] # None /\ Covers(k[2], source) /\ n = table[k]
  BY DEF ScriptTargets
<1>2. after[k] = n
  BY <1>1
<1>3. QED
  BY <1>1, <1>2 DEF ScriptTargets

\* A site that keeps its source keeps its groups configured; the groups of a
\* source that is given up are excused.
LEMMA RowsChange ==
  ASSUME LeftoverInv, groups' = groups, Excuse(GivenUp(registry')),
         UNCHANGED <<targets, request>>
  PROVE  NothingDoomed' /\ SaveCovers' /\ LeftoversExplained'
<1>1. ASSUME NEW g \in groups, Configured(targets, registry, g)
      PROVE  Configured(targets, registry', g) \/ g \in excused'
  <2>1. PICK s \in Sites : registry[s].source = g[1]
    BY <1>1 DEF Configured
  <2>2. CASE registry'[s].source = g[1]
    BY <1>1, <2>1, <2>2 DEF Configured
  <2>3. CASE registry'[s].source # g[1]
    <3>1. g \in GivenUp(registry')
      BY <2>1, <2>3 DEF GivenUp, GroupsFrom
    <3>2. QED
      BY <3>1, ExcuseKeeps
  <2>4. QED
    BY <2>2, <2>3
<1>2. \A g \in groups : g \in excused => g \in excused'
  BY ExcuseKeeps
<1>3. LeftoversExplained'
  BY <1>1, <1>2 DEF LeftoverInv, LeftoversExplained
<1>4. QED
  BY <1>2, <1>3 DEF LeftoverInv, NothingDoomed, SaveCovers

LEMMA AddTargetExplained ==
  ASSUME LeftoverInv, NEW key \in Keys, NEW name \in Names, AddTarget(key, name)
  PROVE  NothingDoomed' /\ SaveCovers' /\ LeftoversExplained'
<1>1. /\ targets' = [targets EXCEPT ![key] = name]
      /\ UNCHANGED <<registry, groups, request>>
      /\ Excuse(Replaced(targets, key, name)) /\ request.kind = "none"
  BY DEF AddTarget, Upsert, Edit
<1>2. ASSUME NEW g \in groups, Configured(targets, registry, g)
      PROVE  Configured(targets', registry, g) \/ g \in excused'
  <2>1. CASE g[2] = targets[key] /\ g[2] # name
    <3>1. g \in Replaced(targets, key, name)
      BY <2>1, GroupType, PingAssumption
         DEF Replaced, GroupsNamed, LeftoverInv
    <3>2. QED
      BY <1>1, <3>1, ExcuseKeeps
  <2>2. CASE g[2] # targets[key] \/ g[2] = name
    BY <1>1, <1>2, <2>2, OtherRowStays DEF Configured, LeftoverInv, TypeOK
  <2>3. QED
    BY <2>1, <2>2
<1>3. \A g \in groups : g \in excused => g \in excused'
  BY <1>1, ExcuseKeeps
<1>4. LeftoversExplained'
  BY <1>1, <1>2, <1>3 DEF LeftoverInv, LeftoversExplained
<1>5. QED
  BY <1>1, <1>4 DEF LeftoverInv, NothingDoomed, SaveCovers

LEMMA BeginSaveExplained ==
  ASSUME LeftoverInv, NEW old \in Keys, NEW key \in Keys, NEW name \in Names,
         BeginSave(old, key, name)
  PROVE  NothingDoomed' /\ SaveCovers' /\ LeftoversExplained'
<1>1. /\ request.kind = "none" /\ request.doomed = {}
      /\ request'.kind = "save" /\ request'.old = old
      /\ targets[old] # None =>
           request'.doomed = RegisteredSources \X {targets[old]}
      /\ UNCHANGED <<targets, registry, groups, excused>>
  BY DEF BeginSave, Edit, LeftoverInv, NothingDoomed
<1>2. LeftoversExplained'
  BY <1>1 DEF LeftoverInv, LeftoversExplained
<1>3. ASSUME targets[old] # None, NEW g \in groups, g[2] = targets[old]
      PROVE  g \in request'.doomed \/ g \in excused'
  <2>1. CASE Configured(targets, registry, g)
    <3>1. g[1] \in RegisteredSources
      BY <2>1, ConfiguredRegistered DEF LeftoverInv
    <3>2. g = <<g[1], g[2]>>
      BY GroupType DEF LeftoverInv
    <3>3. QED
      BY <1>1, <1>3, <3>1, <3>2
  <2>2. CASE ~Configured(targets, registry, g)
    BY <1>1, <2>2 DEF LeftoverInv, LeftoversExplained
  <2>3. QED
    BY <2>1, <2>2
<1>4. QED
  BY <1>1, <1>2, <1>3 DEF NothingDoomed, SaveCovers

LEMMA CommitSaveExplained ==
  ASSUME LeftoverInv, CommitSave
  PROVE  NothingDoomed' /\ SaveCovers' /\ LeftoversExplained'
<1> DEFINE old == request.old
           key == request.key
           name == request.name
           table == [targets EXCEPT ![old] = None]
<1>1. /\ request.kind = "save" /\ request.doomed = {}
      /\ targets' = [table EXCEPT ![key] = name]
      /\ Excuse(Replaced(table, key, name))
      /\ UNCHANGED <<registry, groups>>
      /\ request' = NoRequest
  BY DEF CommitSave, Upsert
<1>2. old \in Keys /\ key \in Keys /\ name \in Names
  BY <1>1 DEF LeftoverInv, TypeOK
<1>3. table \in [Keys -> Names \cup {None}]
  BY <1>2 DEF LeftoverInv, TypeOK
<1>4. /\ request'.kind = "none" /\ request'.doomed = {}
  BY <1>1 DEF NoRequest
<1>5. \A g \in groups : g \in excused => g \in excused'
  BY <1>1, ExcuseKeeps
<1>6. ASSUME NEW g \in groups, Configured(targets, registry, g)
      PROVE  Configured(targets', registry, g) \/ g \in excused'
  <2>1. g[2] \in Names /\ g[2] # None
    BY GroupType, PingAssumption DEF LeftoverInv
  <2>2. CASE g[2] = targets[old]
    BY <1>1, <1>5, <2>1, <2>2 DEF LeftoverInv, SaveCovers
  <2>3. CASE g[2] # targets[old]
    <3>1. g[2] \in ScriptTargets(table, g[1])
      BY <1>2, <1>6, <2>3, OtherRowStays DEF Configured, LeftoverInv, TypeOK
    <3>2. CASE g[2] = table[key] /\ g[2] # name
      <4>1. g \in Replaced(table, key, name)
        BY <2>1, <3>2 DEF Replaced, GroupsNamed
      <4>2. QED
        BY <1>1, <4>1, ExcuseKeeps
    <3>3. CASE g[2] # table[key] \/ g[2] = name
      <4> HIDE DEF table
      <4>1. g[2] \in ScriptTargets(targets', g[1])
        BY <1>1, <1>2, <1>3, <3>1, <3>3, OtherRowStays
      <4>2. QED
        BY <1>6, <4>1 DEF Configured
    <3>4. QED
      BY <3>2, <3>3
  <2>4. QED
    BY <2>2, <2>3
<1>7. LeftoversExplained'
  BY <1>1, <1>5, <1>6 DEF LeftoverInv, LeftoversExplained
<1>8. QED
  BY <1>4, <1>7 DEF NothingDoomed, SaveCovers

LEMMA BeginRemoveExplained ==
  ASSUME LeftoverInv, NEW key \in Keys, BeginRemove(key)
  PROVE  NothingDoomed' /\ SaveCovers' /\ LeftoversExplained'
<1>1. /\ request.kind = "none" /\ request.doomed = {} /\ targets[key] # None
      /\ targets' = [targets EXCEPT ![key] = None]
      /\ request'.kind = "remove"
      /\ request'.doomed = RegisteredSources \X {targets[key]}
      /\ UNCHANGED <<registry, groups, excused>>
  BY DEF BeginRemove, Edit, LeftoverInv, NothingDoomed, NoRequest
<1>2. ASSUME NEW g \in groups, Configured(targets, registry, g)
      PROVE  Configured(targets', registry, g) \/ g \in request'.doomed
  <2>1. CASE g[2] = targets[key]
    <3>1. g[1] \in RegisteredSources /\ g = <<g[1], g[2]>>
      BY <1>2, ConfiguredRegistered, GroupType DEF LeftoverInv
    <3>2. QED
      BY <1>1, <2>1, <3>1
  <2>2. CASE g[2] # targets[key]
    BY <1>1, <1>2, <2>2, OtherRowStays DEF Configured, LeftoverInv, TypeOK
  <2>3. QED
    BY <2>1, <2>2
<1>3. LeftoversExplained'
  BY <1>1, <1>2 DEF LeftoverInv, LeftoversExplained
<1>4. QED
  BY <1>1, <1>3 DEF NothingDoomed, SaveCovers

LEMMA DeleteExplained ==
  ASSUME LeftoverInv, NEW g \in Groups, DeleteGroup(g)
  PROVE  NothingDoomed' /\ SaveCovers' /\ LeftoversExplained'
<1>1. /\ request'.kind = request.kind /\ request'.old = request.old
      /\ request'.doomed = request.doomed \ {g} /\ g \in request.doomed
      /\ UNCHANGED <<targets, registry>>
  BY DEF DeleteGroup, LeftoverInv, TypeOK, Requests
<1>2. /\ groups' \subseteq groups
      /\ \A h \in groups' : h \in excused => h \in excused'
      /\ g \in groups' => g \in excused'
  BY DEF DeleteGroup, Excuse
<1>3. QED
  BY <1>1, <1>2 DEF LeftoverInv, LeftoversExplained, NothingDoomed, SaveCovers

LEMMA EndsExplained ==
  ASSUME LeftoverInv, EndRemove \/ RestartApi
  PROVE  NothingDoomed' /\ SaveCovers' /\ LeftoversExplained'
<1>1. /\ request'.kind = "none" /\ request'.doomed = {}
      /\ UNCHANGED <<targets, registry, groups>>
  BY DEF EndRemove, RestartApi, NoRequest
<1>2. \A g \in groups : g \in request.doomed \/ g \in excused => g \in excused'
  BY DEF EndRemove, RestartApi, Excuse
<1>3. QED
  BY <1>1, <1>2 DEF LeftoverInv, LeftoversExplained, NothingDoomed, SaveCovers

LEMMA PushExplained ==
  ASSUME LeftoverInv, NEW r \in RunIds, NEW name \in Names, PushTarget(r, name)
  PROVE  NothingDoomed' /\ SaveCovers' /\ LeftoversExplained'
<1> DEFINE g == <<runs[r].source, name>>
<1>1. UNCHANGED <<targets, registry, request>>
  BY DEF PushTarget
<1>2. CASE groups' = groups /\ Excuse({})
  <2>1. \A h \in groups' : h \in excused => h \in excused'
    BY <1>2, ExcuseKeeps
  <2>2. QED
    BY <1>1, <1>2, <2>1
       DEF LeftoverInv, LeftoversExplained, NothingDoomed, SaveCovers
<1>3. CASE groups' = groups \cup {g} /\ Excuse(IF TooLate(g) THEN {g} ELSE {})
  <2>1. \A h \in groups' : h \in excused => h \in excused'
    BY <1>3, ExcuseKeeps
  <2>2. TooLate(g) => g \in excused'
    BY <1>3, ExcuseKeeps
  <2> HIDE DEF g
  <2>3. ~TooLate(g) => /\ Configured(targets, registry, g)
                       /\ request.kind = "save" => g[2] # targets[request.old]
    BY DEF TooLate
  <2>4. LeftoversExplained'
    BY <1>1, <1>3, <2>1, <2>2, <2>3 DEF LeftoverInv, LeftoversExplained
  <2>5. SaveCovers'
    BY <1>1, <1>3, <2>1, <2>2, <2>3 DEF LeftoverInv, SaveCovers
  <2>6. QED
    BY <1>1, <2>4, <2>5 DEF LeftoverInv, NothingDoomed
<1>4. QED
  BY <1>2, <1>3 DEF PushTarget

LEMMA LeftoverInductive == LeftoverInv /\ [Next]_vars => LeftoverInv'
<1> SUFFICES ASSUME LeftoverInv, [Next]_vars
             PROVE  NothingDoomed' /\ SaveCovers' /\ LeftoversExplained'
  BY TypeInductive DEF LeftoverInv
<1>1. ASSUME NEW r \in RunIds, FetchConfig(r) \/ FetchAgain(r)
      PROVE  UNCHANGED <<targets, registry, groups, request, excused>>
  BY <1>1 DEF FetchConfig, FetchAgain
<1>2. ASSUME UNCHANGED <<targets, registry, groups, request, excused>>
      PROVE  NothingDoomed' /\ SaveCovers' /\ LeftoversExplained'
  BY <1>2 DEF LeftoverInv, NothingDoomed, SaveCovers, LeftoversExplained
<1>3. CASE UNCHANGED vars
  BY <1>2, <1>3 DEF vars
<1>4. ASSUME NEW r \in RunIds, Register(r)
      PROVE  NothingDoomed' /\ SaveCovers' /\ LeftoversExplained'
  BY <1>4, RowsChange DEF Register
<1>5. ASSUME \/ \E site \in Sites, row \in SourceRow : AddSource(site, row)
             \/ \E site \in Sites : RemoveSource(site)
             \/ \E seen \in SUBSET Sites : ImportSources(seen)
      PROVE  NothingDoomed' /\ SaveCovers' /\ LeftoversExplained'
  BY <1>5, RowsChange DEF AddSource, RemoveSource, ImportSources
<1>6. QED
  BY <1>1, <1>2, <1>3, <1>4, <1>5, NextCases, AddTargetExplained,
     BeginSaveExplained, CommitSaveExplained, BeginRemoveExplained,
     DeleteExplained, EndsExplained, PushExplained

\* A group without a configured target is about to be deleted or was left for
\* one of the reasons named in `excused` (main.py:1090, 1132).
THEOREM LeftoversAlwaysExplained == Spec => []LeftoversExplained
<1>1. Init => LeftoverInv
  <2>1. Init => NothingDoomed /\ SaveCovers /\ LeftoversExplained
    BY DEF Init, NoRequest, NothingDoomed, SaveCovers, LeftoversExplained
  <2>2. QED
    BY <2>1, InitType DEF LeftoverInv
<1>2. LeftoverInv => LeftoversExplained
  BY DEF LeftoverInv
<1>3. QED
  BY <1>1, <1>2, LeftoverInductive, PTL DEF Spec
=============================================================================
