--------------------------- MODULE AlertProvision ---------------------------
(***************************************************************************)
(* images/grafana/entrypoint.sh and provision-alerts.py: at every start of *)
(* the Grafana container the alert rules of the image's alert-rules.yml    *)
(* are pushed through the Grafana API, one request per rule, and the rules *)
(* that the file does not name are deleted.                                *)
(*                                                                         *)
(* Grafana itself (its database and its API) is external: a request is     *)
(* answered, refused, not delivered, or carried out with its answer lost   *)
(* (the 15 s timeout of _request reports status 0 for all of these).       *)
(***************************************************************************)
EXTENDS Naturals

CONSTANTS
  Uids,         \* rule uids
  Bodies,       \* what a rule says
  Absent,       \* no rule with that uid
  Groups,       \* rule groups of the file
  Folders,      \* folder titles
  GroupOf,      \* GroupOf[u]: the group the file lists u under
  FolderOf,     \* FolderOf[g]: the folder of group g
  Retries,      \* health probes before the script gives up (90)
  MaxRestarts,  \* bound: container restarts in a behaviour
  MaxEdits,     \* bound: UI edits in a behaviour
  FolderFaults  \* whether a request about folders may fail

ASSUME ProvisionAssumption ==
  /\ Absent \notin Bodies
  /\ GroupOf \in [Uids -> Groups]
  /\ FolderOf \in [Groups -> Folders]
  /\ Retries \in Nat \ {0}
  /\ MaxRestarts \in Nat
  /\ MaxEdits \in Nat
  /\ FolderFaults \in BOOLEAN

VARIABLES
  yaml,      \* /opt/alert-rules.yml of the running image
  rules,     \* Grafana database: alert rules
  folders,   \* Grafana database: folders
  locked,    \* Grafana database: rules whose provenance is 'file'
  up,        \* Grafana answers requests
  edits,     \* UI edits so far
  restarts,  \* container restarts so far
  pc,        \* what the script is about to do
  tries,     \* health probes made
  known,     \* script: the titles of `folders` (_folder_map)
  existing,  \* script: the set `existing`
  yamlUids,  \* script: the set `yaml_uids`
  todo,      \* script: groups the loop has not reached
  pending,   \* script: rules of the current group not yet pushed
  stale,     \* script: stale rules not yet deleted
  skipped,   \* groups this run skipped (the SKIP log line)
  clean      \* no request of this run failed, no edit since the listing

grafanaVars == <<rules, folders, locked, up>>
runVars == <<tries, known, existing, yamlUids, todo, pending, stale, skipped>>
boundVars == <<edits, restarts>>
vars == <<yaml, grafanaVars, boundVars, pc, runVars, clean>>

Content == Bodies \cup {Absent}
Steps == {"migrate", "wait", "folders", "rules", "sync", "stale", "done", "exit"}

InYaml == {u \in Uids : yaml[u] # Absent}
Present == {u \in Uids : rules[u] # Absent}
GroupsInYaml == {GroupOf[u] : u \in InYaml}
RulesOf(g) == {u \in InYaml : GroupOf[u] = g}

-----------------------------------------------------------------------------
(* A container starts: the migration runs before Grafana does. *)
FreshRun ==
  /\ pc' = "migrate"
  /\ tries' = 0
  /\ known' = {}
  /\ existing' = {}
  /\ yamlUids' = {}
  /\ todo' = {}
  /\ pending' = {}
  /\ stale' = {}
  /\ skipped' = {}
  /\ clean' = TRUE

Init ==
  /\ yaml \in [Uids -> Content]
  /\ rules \in [Uids -> Content]
  /\ folders \in SUBSET Folders
  /\ locked \in SUBSET Present
  /\ up = FALSE
  /\ edits = 0
  /\ restarts = 0
  /\ pc = "migrate"
  /\ tries = 0
  /\ known = {} /\ existing = {} /\ yamlUids = {}
  /\ todo = {} /\ pending = {} /\ stale = {} /\ skipped = {}
  /\ clean = TRUE

(* --migrate: the provenance records go, or a warning is logged. *)
Migrate ==
  /\ pc = "migrate"
  /\ \/ locked' = {} /\ UNCHANGED clean
     \/ UNCHANGED locked /\ clean' = FALSE
  /\ pc' = "wait"
  /\ UNCHANGED <<yaml, rules, folders, up, boundVars, runVars>>

(* exec /run.sh: Grafana comes up, or never does. *)
GrafanaBoots ==
  /\ pc # "migrate" /\ ~up
  /\ up' = TRUE
  /\ UNCHANGED <<yaml, rules, folders, locked, boundVars, pc, runVars, clean>>

(* Mutant: probes are not counted, as in a plain `while True`. *)
UncountedTries == tries
NextTries == tries + 1

(* Mutant: one probe too many. *)
OneProbeMore(n) == n > Retries
NoProbeLeft(n) == n = Retries

(* One iteration of _wait_for_grafana; the file without groups is skipped. *)
ProbeHealth ==
  /\ pc = "wait"
  /\ \/ /\ up
        /\ pc' = IF GroupsInYaml = {} THEN "done" ELSE "folders"
        /\ UNCHANGED tries
     \/ /\ ~up
        /\ tries' = NextTries
        /\ pc' = IF NoProbeLeft(NextTries) THEN "exit" ELSE "wait"
  /\ UNCHANGED <<yaml, grafanaVars, boundVars, known, existing, yamlUids, todo,
                 pending, stale, skipped, clean>>

(* _folder_map: an error reads as no folders. *)
ListFolders ==
  /\ pc = "folders"
  /\ \/ known' = folders /\ UNCHANGED clean
     \/ FolderFaults /\ known' = {} /\ clean' = FALSE
  /\ pc' = "rules"
  /\ UNCHANGED <<yaml, grafanaVars, boundVars, tries, existing, yamlUids, todo,
                 pending, stale, skipped>>

(* _existing_rule_uids: an error reads as no rules. *)
ListRules ==
  /\ pc = "rules"
  /\ \/ existing' = Present /\ UNCHANGED clean
     \/ existing' = {} /\ clean' = FALSE
  /\ todo' = GroupsInYaml
  /\ pc' = "sync"
  /\ UNCHANGED <<yaml, grafanaVars, boundVars, tries, known, yamlUids, pending,
                 stale, skipped>>

-----------------------------------------------------------------------------
(* The loop over groups.  The order of the file is left open. *)
StartGroup(g) ==
  /\ pc = "sync" /\ pending = {} /\ g \in todo
  /\ todo' = todo \ {g}
  /\ UNCHANGED <<yaml, rules, locked, up, boundVars, pc, tries, existing,
                 yamlUids, stale>>

UseFolder(g) ==
  /\ StartGroup(g)
  /\ FolderOf[g] \in known
  /\ pending' = RulesOf(g)
  /\ UNCHANGED <<folders, known, skipped, clean>>

CreateFolder(g) ==
  /\ StartGroup(g)
  /\ FolderOf[g] \notin known
  /\ folders' = folders \cup {FolderOf[g]}
  /\ known' = known \cup {FolderOf[g]}
  /\ pending' = RulesOf(g)
  /\ UNCHANGED <<skipped, clean>>

(* The POST failed, or was carried out and its answer lost: `continue`. *)
SkipGroup(g) ==
  /\ StartGroup(g)
  /\ FolderFaults
  /\ FolderOf[g] \notin known
  /\ folders' \in {folders, folders \cup {FolderOf[g]}}
  /\ skipped' = skipped \cup {g}
  /\ clean' = FALSE
  /\ UNCHANGED <<known, pending>>

(* Grafana takes a PUT of a rule it has and a POST of one it has not,      *)
(* unless a provenance record locks the rule.                              *)
Accepts(u) == u \notin locked /\ (u \in existing <=> u \in Present)

(* Mutant: only a rule whose request succeeded enters yaml_uids.           *)
NamedWhenOk(u, ok) == IF ok THEN yamlUids \cup {u} ELSE yamlUids

(* Every rule the loop reaches enters yaml_uids, whatever the answer.      *)
NamedUids(u, ok) == yamlUids \cup {u}

(* A 200 or 201 tells that the rule was stored; of any other status the    *)
(* script cannot tell.                                                     *)
UpsertRule(u) ==
  /\ pc = "sync" /\ u \in pending
  /\ pending' = pending \ {u}
  /\ \E ok \in BOOLEAN :
       /\ ok => Accepts(u)
       /\ LET pushed == [rules EXCEPT ![u] = yaml[u]]
          IN  rules' \in IF ok THEN {pushed}
                         ELSE IF Accepts(u) THEN {rules, pushed} ELSE {rules}
       /\ yamlUids' = NamedUids(u, ok)
       /\ existing' = IF ok THEN existing \cup {u} ELSE existing
       /\ clean' = (clean /\ ok)
  /\ UNCHANGED <<yaml, folders, locked, up, boundVars, pc, tries, known, todo,
                 stale, skipped>>

(* Mutant: nothing is stale. *)
NothingStale == {}
Stale == existing \ yamlUids

(* stale = existing - yaml_uids, once the loop is over. *)
FindStale ==
  /\ pc = "sync" /\ pending = {} /\ todo = {}
  /\ stale' = Stale
  /\ pc' = "stale"
  /\ UNCHANGED <<yaml, grafanaVars, boundVars, tries, known, existing, yamlUids,
                 todo, pending, skipped, clean>>

DeleteStale(u) ==
  /\ pc = "stale" /\ u \in stale
  /\ stale' = stale \ {u}
  /\ \/ /\ u \notin locked
        /\ rules' = [rules EXCEPT ![u] = Absent]
        /\ clean' \in {clean, FALSE}
     \/ UNCHANGED rules /\ clean' = FALSE
  /\ UNCHANGED <<yaml, folders, locked, up, boundVars, pc, tries, known,
                 existing, yamlUids, todo, pending, skipped>>

Finish ==
  /\ pc = "stale" /\ stale = {}
  /\ pc' = "done"
  /\ UNCHANGED <<yaml, grafanaVars, boundVars, runVars, clean>>

-----------------------------------------------------------------------------
(* Someone edits, creates or deletes a rule in the UI. *)
EditInUI(u, b) ==
  /\ up /\ edits < MaxEdits
  /\ u \notin locked /\ rules[u] # b
  /\ rules' = [rules EXCEPT ![u] = b]
  /\ edits' = edits + 1
  /\ clean' = (clean /\ pc \in {"wait", "folders", "rules"})
  /\ UNCHANGED <<yaml, folders, locked, up, restarts, pc, runVars>>

(* The container is stopped at any point and started again, possibly from  *)
(* a new image; the database stays.                                        *)
Restart ==
  /\ restarts < MaxRestarts
  /\ restarts' = restarts + 1
  /\ yaml' \in [Uids -> Content]
  /\ up' = FALSE
  /\ FreshRun
  /\ UNCHANGED <<rules, folders, locked, edits>>

ScriptStep ==
  \/ Migrate
  \/ ProbeHealth
  \/ ListFolders
  \/ ListRules
  \/ \E g \in Groups : UseFolder(g) \/ CreateFolder(g) \/ SkipGroup(g)
  \/ \E u \in Uids : UpsertRule(u) \/ DeleteStale(u)
  \/ FindStale
  \/ Finish

Next ==
  \/ ScriptStep
  \/ GrafanaBoots
  \/ \E u \in Uids, b \in Content : EditInUI(u, b)
  \/ Restart

(* The script is one process that never blocks for ever on a request.      *)
Spec == Init /\ [][Next]_vars /\ WF_vars(ScriptStep)

-----------------------------------------------------------------------------
(* Every variable keeps its type; the script's own sets are those of a run. *)
TypeOK ==
  /\ yaml \in [Uids -> Content]
  /\ rules \in [Uids -> Content]
  /\ folders \subseteq Folders /\ known \subseteq Folders
  /\ locked \subseteq Uids
  /\ up \in BOOLEAN /\ clean \in BOOLEAN
  /\ edits \in Nat /\ restarts \in Nat
  /\ pc \in Steps
  /\ tries \in 0..Retries
  /\ existing \subseteq Uids /\ yamlUids \subseteq Uids
  /\ pending \subseteq Uids /\ stale \subseteq Uids
  /\ todo \subseteq Groups /\ skipped \subseteq Groups

(* A run in which every request was answered leaves Grafana with exactly   *)
(* the rules of the file: UI-only changes are overwritten, wherever the    *)
(* previous runs were cut off and whatever they left (lines 35-36).  A     *)
(* file without groups is the exception: it deletes nothing.               *)
CleanRunSyncs ==
  pc = "done" /\ clean /\ GroupsInYaml # {} => rules = yaml

(* A rule is deleted although the file of the running image names it.      *)
LosesNamedRule(u) ==
  /\ edits' = edits
  /\ u \in InYaml
  /\ rules[u] # Absent /\ rules'[u] = Absent

(* "Delete rules that exist in Grafana but are no longer in the YAML"      *)
(* (line 221): a rule the file names is never deleted by the script.       *)
OnlyUnnamedDeleted == [][\A u \in Uids : ~LosesNamedRule(u)]_vars

(* What the code does keep: a rule the file names is deleted only by a run *)
(* that could not resolve the folder of the rule's group; a failed listing *)
(* or a failed upsert never costs a rule.                                  *)
DeletionExplained ==
  [][\A u \in Uids : LosesNamedRule(u) => GroupOf[u] \in skipped]_vars

(* Every run comes to an end although Grafana may never come up.           *)
RunEnds == []<>(pc \in {"done", "exit"})

(* While folder requests succeed the script keeps the declarative promise  *)
(* of RuleSync: apart from UI edits, a rule only moves to its file value.  *)
Sync == INSTANCE RuleSync WITH want <- yaml, have <- rules
SyncSpec == Sync!Spec
=============================================================================
