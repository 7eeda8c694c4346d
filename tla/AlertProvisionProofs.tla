------------------------ MODULE AlertProvisionProofs ------------------------
(***************************************************************************)
(* Proofs about AlertProvision, for every set of rules, groups, folders    *)
(* and bodies, any number of restarts and edits and any placement of the   *)
(* failures.                                                               *)
(***************************************************************************)
EXTENDS AlertProvision, TLAPS

(* What Next can do, one disjunct per action (used to split the steps).    *)
Step ==
  \/ Migrate \/ ProbeHealth \/ ListFolders \/ ListRules
  \/ \E g \in Groups : UseFolder(g)
  \/ \E g \in Groups : CreateFolder(g)
  \/ \E g \in Groups : SkipGroup(g)
  \/ \E u \in Uids : UpsertRule(u)
  \/ \E u \in Uids : DeleteStale(u)
  \/ FindStale \/ Finish \/ GrafanaBoots
  \/ \E u \in Uids, b \in Content : EditInUI(u, b)
  \/ Restart

LEMMA NextIsStep == Next <=> Step
BY DEF Next, Step, ScriptStep

-----------------------------------------------------------------------------
(* Type correctness. *)
ProbeLeft == pc \in {"migrate", "wait"} => tries < Retries

TypeInv == TypeOK /\ ProbeLeft

LEMMA InitTypeInv == Init => TypeInv
<1> SUFFICES ASSUME Init
             PROVE  TypeInv
  OBVIOUS
<1>1. locked \subseteq Uids
  BY DEF Init, Present
<1>2. 0 < Retries /\ 0 \in 0..Retries
  BY ProvisionAssumption
<1>3. QED
  BY <1>1, <1>2 DEF Init, TypeInv, ProbeLeft, TypeOK, Steps

LEMMA NextTypeInv == TypeInv /\ [Next]_vars => TypeInv'
<1> SUFFICES ASSUME TypeInv, [Next]_vars
             PROVE  TypeInv'
  OBVIOUS
<1>0. 0 < Retries /\ 0 \in 0..Retries
  BY ProvisionAssumption
<1> USE ProvisionAssumption
    DEF TypeInv, ProbeLeft, TypeOK, Steps, grafanaVars, boundVars, runVars
<1>1. CASE Migrate
  BY <1>1 DEF Migrate
<1>2. CASE ProbeHealth
  BY <1>2 DEF ProbeHealth, NextTries, NoProbeLeft
<1>3. CASE ListFolders
  BY <1>3 DEF ListFolders
<1>4. CASE ListRules
  BY <1>4 DEF ListRules, Present, GroupsInYaml, InYaml
<1>5. ASSUME NEW g \in Groups, UseFolder(g)
      PROVE  TypeInv'
  BY <1>5 DEF UseFolder, StartGroup, RulesOf, InYaml
<1>6. ASSUME NEW g \in Groups, CreateFolder(g)
      PROVE  TypeInv'
  BY <1>6 DEF CreateFolder, StartGroup, RulesOf, InYaml
<1>7. ASSUME NEW g \in Groups, SkipGroup(g)
      PROVE  TypeInv'
  BY <1>7 DEF SkipGroup, StartGroup
<1>8. ASSUME NEW u \in Uids, UpsertRule(u)
      PROVE  TypeInv'
  <2>1. rules' \in [Uids -> Content]
    BY <1>8 DEF UpsertRule
  <2>2. QED
    BY <1>8, <2>1 DEF UpsertRule, NamedUids
<1>9. ASSUME NEW u \in Uids, DeleteStale(u)
      PROVE  TypeInv'
  <2>1. rules' \in [Uids -> Content]
    BY <1>9 DEF DeleteStale, Content
  <2>2. QED
    BY <1>9, <2>1 DEF DeleteStale
<1>10. CASE FindStale
  BY <1>10 DEF FindStale, Stale
<1>11. CASE Finish
  BY <1>11 DEF Finish
<1>12. CASE GrafanaBoots
  BY <1>12 DEF GrafanaBoots
<1>13. ASSUME NEW u \in Uids, NEW b \in Content, EditInUI(u, b)
       PROVE  TypeInv'
  BY <1>13 DEF EditInUI
<1>14. CASE Restart
  <2>1. tries' \in 0..Retries /\ tries' < Retries
    BY <1>14, <1>0 DEF Restart, FreshRun
  <2>2. restarts' \in Nat
    BY <1>14 DEF Restart
  <2>3. QED
    BY <1>14, <2>1, <2>2 DEF Restart, FreshRun
<1>15. CASE UNCHANGED vars
  BY <1>15 DEF vars
<1> HIDE DEF TypeInv
<1>16. QED
  BY <1>1, <1>2, <1>3, <1>4, <1>5, <1>6, <1>7, <1>8, <1>9, <1>10, <1>11,
     <1>12, <1>13, <1>14, <1>15, NextIsStep DEF Step

(* Every reachable state is of its type: in particular the probes never    *)
(* exceed Retries and the sets of the script stay within the universe.     *)
THEOREM TypeCorrect == Spec => []TypeOK
<1>1. QED
  BY InitTypeInv, NextTypeInv, PTL DEF Spec, TypeInv
-----------------------------------------------------------------------------
(***************************************************************************)
(* What the loop has established when it computes the stale rules: a rule  *)
(* of the file is still ahead of the loop, or its group was skipped, or it *)
(* is in yaml_uids; and what is to be deleted is not in yaml_uids.         *)
(***************************************************************************)
Accounted ==
  pc \in {"sync", "stale"} =>
    \A u \in InYaml : \/ GroupOf[u] \in todo \cup skipped
                      \/ u \in pending \cup yamlUids

StaleUnnamed ==
  pc = "stale" => todo = {} /\ pending = {} /\ stale \cap yamlUids = {}

LoopInv == Accounted /\ StaleUnnamed

LEMMA NextLoopInv == TypeInv /\ LoopInv /\ [Next]_vars => LoopInv'
<1> SUFFICES ASSUME TypeInv, LoopInv, [Next]_vars
             PROVE  LoopInv'
  OBVIOUS
<1> USE DEF LoopInv, Accounted, StaleUnnamed, InYaml, grafanaVars, boundVars,
            runVars
<1>1. CASE Migrate
  BY <1>1 DEF Migrate
<1>2. CASE ProbeHealth
  BY <1>2 DEF ProbeHealth
<1>3. CASE ListFolders
  BY <1>3 DEF ListFolders
<1>4. CASE ListRules
  BY <1>4 DEF ListRules, GroupsInYaml
<1>5. ASSUME NEW g \in Groups, UseFolder(g)
      PROVE  LoopInv'
  BY <1>5 DEF UseFolder, StartGroup, RulesOf
<1>6. ASSUME NEW g \in Groups, CreateFolder(g)
      PROVE  LoopInv'
  BY <1>6 DEF CreateFolder, StartGroup, RulesOf
<1>7. ASSUME NEW g \in Groups, SkipGroup(g)
      PROVE  LoopInv'
  BY <1>7 DEF SkipGroup, StartGroup
<1>8. ASSUME NEW u \in Uids, UpsertRule(u)
      PROVE  LoopInv'
  BY <1>8 DEF UpsertRule, NamedUids
<1>9. ASSUME NEW u \in Uids, DeleteStale(u)
      PROVE  LoopInv'
  BY <1>9 DEF DeleteStale
<1>10. CASE FindStale
  BY <1>10 DEF FindStale, Stale
<1>11. CASE Finish
  BY <1>11 DEF Finish
<1>12. CASE GrafanaBoots
  BY <1>12 DEF GrafanaBoots
<1>13. ASSUME NEW u \in Uids, NEW b \in Content, EditInUI(u, b)
       PROVE  LoopInv'
  BY <1>13 DEF EditInUI
<1>14. CASE Restart
  BY <1>14 DEF Restart, FreshRun
<1>15. CASE UNCHANGED vars
  BY <1>15 DEF vars
<1> HIDE DEF LoopInv
<1>16. QED
  BY <1>1, <1>2, <1>3, <1>4, <1>5, <1>6, <1>7, <1>8, <1>9, <1>10, <1>11,
     <1>12, <1>13, <1>14, <1>15, NextIsStep DEF Step

LEMMA LoopCorrect == Spec => [](TypeInv /\ LoopInv)
<1>1. Init => TypeInv /\ LoopInv
  BY InitTypeInv DEF Init, LoopInv, Accounted, StaleUnnamed
<1>2. QED
  BY <1>1, NextTypeInv, NextLoopInv, PTL DEF Spec

(* The only step that takes a rule of the file out of Grafana without an   *)
(* edit is the deletion of a stale rule.                                   *)
LEMMA LossIsDeletion ==
  ASSUME TypeInv, [Next]_vars, NEW u \in Uids, LosesNamedRule(u)
  PROVE  DeleteStale(u)
<1> USE DEF LosesNamedRule, InYaml, grafanaVars, boundVars
<1>1. ASSUME NEW v \in Uids, DeleteStale(v)
      PROVE  v = u
  BY <1>1 DEF DeleteStale, TypeInv, TypeOK
<1>2. ASSUME NEW v \in Uids, UpsertRule(v)
      PROVE  FALSE
  <2>1. rules' \in {rules, [rules EXCEPT ![v] = yaml[v]]}
    BY <1>2 DEF UpsertRule
  <2>2. QED
    BY <2>1 DEF TypeInv, TypeOK
<1>3. ASSUME NEW v \in Uids, NEW b \in Content, EditInUI(v, b)
      PROVE  FALSE
  BY <1>3 DEF EditInUI, TypeInv, TypeOK
<1>4. rules' # rules
  OBVIOUS
<1>5. QED
  BY <1>1, <1>2, <1>3, <1>4, NextIsStep
     DEF Step, Migrate, ProbeHealth, ListFolders, ListRules, UseFolder,
         CreateFolder, SkipGroup, StartGroup, FindStale, Finish, GrafanaBoots,
         Restart, vars

LEMMA StepExplained ==
  TypeInv /\ LoopInv /\ [Next]_vars =>
    \A u \in Uids : LosesNamedRule(u) => GroupOf[u] \in skipped
<1> SUFFICES ASSUME TypeInv, LoopInv, [Next]_vars,
                    NEW u \in Uids, LosesNamedRule(u)
             PROVE  GroupOf[u] \in skipped
  OBVIOUS
<1>1. DeleteStale(u) /\ u \in InYaml
  BY LossIsDeletion DEF LosesNamedRule
<1>2. QED
  BY <1>1 DEF DeleteStale, LoopInv, Accounted, StaleUnnamed

(* A rule the file names is only ever deleted by a run that skipped its    *)
(* group: neither a failed listing nor a failed upsert costs a rule.       *)
THEOREM DeletionsAreExplained == Spec => DeletionExplained
<1>1. TypeInv /\ LoopInv /\ [Next]_vars =>
        [\A u \in Uids : LosesNamedRule(u) => GroupOf[u] \in skipped]_vars
  BY StepExplained
<1>2. QED
  BY <1>1, LoopCorrect, PTL DEF Spec, DeletionExplained
-----------------------------------------------------------------------------
(***************************************************************************)
(* What a run without a failed request knows at each step: no lock is      *)
(* left; while the loop runs, `existing` is what Grafana holds, and the    *)
(* rules pushed so far have the file's body; then all that differs from    *)
(* the file is what is about to be deleted.                                *)
(***************************************************************************)
CleanLoop ==
  clean /\ pc = "sync" =>
    /\ skipped = {} /\ existing = Present
    /\ pending \subseteq InYaml /\ yamlUids \subseteq InYaml
    /\ \A u \in yamlUids : rules[u] = yaml[u]

CleanStale ==
  clean /\ pc = "stale" =>
    /\ stale \cap InYaml = {}
    /\ \A u \in Uids \ stale : rules[u] = yaml[u]

(* Nothing has been pushed or skipped before the loop. *)
NothingYet ==
  pc \in {"migrate", "wait", "folders", "rules"} =>
    skipped = {} /\ yamlUids = {} /\ pending = {}

CleanInv == NothingYet /\ CleanLoop /\ CleanStale /\ CleanRunSyncs

LEMMA NextCleanInv ==
  TypeInv /\ LoopInv /\ CleanInv /\ [Next]_vars => CleanInv'
<1> SUFFICES ASSUME TypeInv, LoopInv, CleanInv, [Next]_vars
             PROVE  CleanInv'
  OBVIOUS
<1> USE DEF CleanInv, NothingYet, CleanLoop, CleanStale, CleanRunSyncs, InYaml, Present,
            GroupsInYaml, grafanaVars, boundVars, runVars
<1>1. CASE Migrate
  BY <1>1 DEF Migrate
<1>2. CASE ProbeHealth
  BY <1>2 DEF ProbeHealth
<1>3. CASE ListFolders
  BY <1>3 DEF ListFolders
<1>4. CASE ListRules
  BY <1>4 DEF ListRules
<1>5. ASSUME NEW g \in Groups, UseFolder(g)
      PROVE  CleanInv'
  BY <1>5 DEF UseFolder, StartGroup, RulesOf
<1>6. ASSUME NEW g \in Groups, CreateFolder(g)
      PROVE  CleanInv'
  BY <1>6 DEF CreateFolder, StartGroup, RulesOf
<1>7. ASSUME NEW g \in Groups, SkipGroup(g)
      PROVE  CleanInv'
  BY <1>7 DEF SkipGroup, StartGroup
<1>8. ASSUME NEW u \in Uids, UpsertRule(u)
      PROVE  CleanInv'
  <2>1. SUFFICES ASSUME clean'
                 PROVE  CleanLoop'
    BY <1>8 DEF UpsertRule
  <2>2. /\ clean /\ pc = "sync" /\ u \in pending /\ u \in InYaml
        /\ rules' = [rules EXCEPT ![u] = yaml[u]]
        /\ existing' = existing \cup {u}
    BY <1>8, <2>1 DEF UpsertRule, TypeInv, TypeOK
  <2>3. Present' = Present \cup {u}
    BY <2>2 DEF TypeInv, TypeOK
  <2>4. \A v \in yamlUids' : rules'[v] = yaml'[v]
    BY <1>8, <2>2 DEF UpsertRule, NamedUids, TypeInv, TypeOK
  <2>5. QED
    BY <1>8, <2>2, <2>3, <2>4 DEF UpsertRule, NamedUids
<1>9. ASSUME NEW u \in Uids, DeleteStale(u)
      PROVE  CleanInv'
  <2>1. SUFFICES ASSUME clean'
                 PROVE  CleanStale'
    BY <1>9 DEF DeleteStale
  <2>2. /\ clean /\ pc = "stale" /\ u \in stale /\ u \notin InYaml
        /\ rules' = [rules EXCEPT ![u] = Absent]
    BY <1>9, <2>1 DEF DeleteStale, TypeInv, TypeOK
  <2>3. QED
    BY <1>9, <2>2 DEF DeleteStale, TypeInv, TypeOK
<1>10. CASE FindStale
  BY <1>10 DEF FindStale, Stale, LoopInv, Accounted, TypeInv, TypeOK
<1>11. CASE Finish
  <2>1. clean => \A u \in Uids : rules[u] = yaml[u]
    BY <1>11 DEF Finish
  <2>2. clean => rules = yaml
    BY <2>1 DEF TypeInv, TypeOK
  <2>3. QED
    BY <1>11, <2>2 DEF Finish
<1>12. CASE GrafanaBoots
  BY <1>12 DEF GrafanaBoots
<1>13. ASSUME NEW u \in Uids, NEW b \in Content, EditInUI(u, b)
       PROVE  CleanInv'
  BY <1>13 DEF EditInUI
<1>14. CASE Restart
  BY <1>14 DEF Restart, FreshRun
<1>15. CASE UNCHANGED vars
  BY <1>15 DEF vars
<1> HIDE DEF CleanInv
<1>16. QED
  BY <1>1, <1>2, <1>3, <1>4, <1>5, <1>6, <1>7, <1>8, <1>9, <1>10, <1>11,
     <1>12, <1>13, <1>14, <1>15, NextIsStep DEF Step

(* A run whose requests were all answered leaves exactly the rules of the  *)
(* file, whatever earlier runs and UI edits left behind.                   *)
THEOREM CleanRunsSync == Spec => []CleanRunSyncs
<1>1. Init => CleanInv
  BY DEF Init, CleanInv, NothingYet, CleanLoop, CleanStale, CleanRunSyncs
<1>2. QED
  BY <1>1, NextCleanInv, LoopCorrect, PTL DEF Spec, CleanInv

-----------------------------------------------------------------------------
(* Refinement: without folder faults no group is skipped.                  *)
NoneSkipped == skipped = {}

LEMMA NextNoneSkipped ==
  ASSUME ~FolderFaults
  PROVE  NoneSkipped /\ [Next]_vars => NoneSkipped'
BY NextIsStep
   DEF NoneSkipped, Step, Migrate, ProbeHealth, ListFolders, ListRules,
       UseFolder, CreateFolder, SkipGroup, StartGroup, UpsertRule, DeleteStale,
       FindStale, Finish, GrafanaBoots, EditInUI, Restart, FreshRun, vars,
       runVars

(* Each step is one step of RuleSync, or leaves rules, file and edits. *)
LEMMA StepSyncs ==
  TypeInv /\ LoopInv /\ NoneSkipped /\ [Next]_vars =>
    [Sync!Next]_(Sync!syncVars)
<1> SUFFICES ASSUME TypeInv, LoopInv, NoneSkipped, [Next]_vars
             PROVE  Sync!Next \/ UNCHANGED <<yaml, rules, edits>>
  BY DEF Sync!syncVars
<1> USE DEF grafanaVars, boundVars
<1>1. ASSUME NEW u \in Uids, UpsertRule(u)
      PROVE  Sync!Next \/ UNCHANGED <<yaml, rules, edits>>
  <2>1. rules' \in {rules, [rules EXCEPT ![u] = yaml[u]]}
    BY <1>1 DEF UpsertRule
  <2>2. UNCHANGED <<yaml, edits>>
    BY <1>1 DEF UpsertRule
  <2>3. QED
    BY <2>1, <2>2 DEF Sync!Next, Sync!Apply
<1>2. ASSUME NEW u \in Uids, DeleteStale(u)
      PROVE  Sync!Next \/ UNCHANGED <<yaml, rules, edits>>
  <2>1. yaml[u] = Absent
    BY <1>2 DEF DeleteStale, LoopInv, Accounted, StaleUnnamed, NoneSkipped,
                InYaml
  <2>2. rules' \in {rules, [rules EXCEPT ![u] = yaml[u]]}
    BY <1>2, <2>1 DEF DeleteStale
  <2>3. UNCHANGED <<yaml, edits>>
    BY <1>2 DEF DeleteStale
  <2>4. QED
    BY <2>2, <2>3 DEF Sync!Next, Sync!Apply
<1>3. ASSUME NEW u \in Uids, NEW b \in Content, EditInUI(u, b)
      PROVE  Sync!Next
  BY <1>3 DEF EditInUI, Sync!Next, Sync!Edit, Sync!Content, Content
<1>4. CASE Restart
  BY <1>4 DEF Restart, Sync!Next, Sync!Deploy, Sync!Content, Content
<1>5. ASSUME ~Restart, ~\E u \in Uids : UpsertRule(u) \/ DeleteStale(u),
             ~\E u \in Uids, b \in Content : EditInUI(u, b)
      PROVE  UNCHANGED <<yaml, rules, edits>>
  BY <1>5, NextIsStep
     DEF Step, Migrate, ProbeHealth, ListFolders, ListRules, UseFolder,
         CreateFolder, SkipGroup, StartGroup, FindStale, Finish, GrafanaBoots,
         vars
<1>6. QED
  BY <1>1, <1>2, <1>3, <1>4, <1>5

(* While folder requests succeed, every behaviour of the script keeps the  *)
(* declarative promise: apart from UI edits a rule only moves to the value *)
(* the file gives it.                                                      *)
THEOREM RefinesRuleSync ==
  ASSUME ~FolderFaults
  PROVE  Spec => SyncSpec
<1>1. Init => Sync!Init /\ NoneSkipped
  BY DEF Init, Sync!Init, Sync!Content, Content, NoneSkipped
<1>2. NoneSkipped /\ [Next]_vars => NoneSkipped'
  BY NextNoneSkipped
<1>3. QED
  BY <1>1, <1>2, StepSyncs, LoopCorrect, PTL DEF Spec, SyncSpec, Sync!Spec
=============================================================================
