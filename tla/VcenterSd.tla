------------------------------ MODULE VcenterSd ------------------------------
(***************************************************************************)
(* vCenter service discovery (onprem/vcenter-sd/main.py).  A poll walks    *)
(* the machines twice, once for those powered off and once for the         *)
(* targets, rewrites two target files in place and replaces its group on   *)
(* the Pushgateway by a DELETE and a PUT.                                  *)
(***************************************************************************)
EXTENDS Integers, FiniteSets

CONSTANTS
    Vms,
    Nothing,        \* no group, no list in a file
    MaxVmChanges,   \* bound on changes in vCenter
    MaxSdFaults     \* bound on failures and restarts

ASSUME VcenterAssumption ==
    /\ \A a, b \in SUBSET Vms : Nothing \notin {a, [off |-> a, blank |-> b]}
    /\ MaxVmChanges \in Nat /\ MaxSdFaults \in Nat

VARIABLES
    vms,            \* in vCenter: off, on without an address, on
    windowsVms,     \* guests of the Windows family
    poll,           \* the poll in progress: its step and what it has read
    sdFiles,        \* the target files; Nothing: cut or not written yet
    sdGroup,        \* the group on the Pushgateway
    completed,      \* history: the last poll that ended did all it does
    moved,          \* history: changed between the passes of that poll
    vmChanges, sdFaults

vcenterVars == <<vms, windowsVms, poll, sdFiles, sdGroup, completed, moved,
                 vmChanges, sdFaults>>

VmStates == {"off", "no address", "on"}
NoPoll == [pc |-> "idle", off |-> {}, blank |-> {}, targets |-> {}, moved |-> {}]

VcenterInit ==
    /\ vms \in [Vms -> VmStates]
    /\ windowsVms \in SUBSET Vms
    /\ poll = NoPoll
    /\ sdFiles = [linux |-> Nothing, windows |-> Nothing]
    /\ sdGroup = Nothing
    /\ completed = FALSE /\ moved = {}
    /\ vmChanges = 0 /\ sdFaults = 0

In(states) == {v \in Vms : vms[v] \in states}

\* An operator or vCenter changes a machine.
ChangeVm(v, s) ==
    /\ vms[v] # s /\ vmChanges < MaxVmChanges
    /\ vms' = [vms EXCEPT ![v] = s]
    /\ vmChanges' = vmChanges + 1
    /\ poll' = IF poll.pc = "pass 2" THEN [poll EXCEPT !.moved = @ \cup {v}]
               ELSE poll
    /\ UNCHANGED <<windowsVms, sdFiles, sdGroup, completed, moved, sdFaults>>

Goto(pc) == poll' = [poll EXCEPT !.pc = pc]
Still == UNCHANGED <<vms, windowsVms, completed, moved, vmChanges, sdFaults>>

ConnectVcenter ==
    /\ poll.pc = "idle" /\ Goto("pass 1")
    /\ Still /\ UNCHANGED <<sdFiles, sdGroup>>

\* Pass 1: the machines that are off, and the backup times.
PassOne ==
    /\ poll.pc = "pass 1"
    /\ poll' = [poll EXCEPT !.pc = "pass 2", !.off = In({"off"})]
    /\ Still /\ UNCHANGED <<sdFiles, sdGroup>>

\* Mutant: machines without an address are listed as targets too.
PassTwoAll ==
    /\ poll.pc = "pass 2"
    /\ poll' = [poll EXCEPT !.pc = "linux", !.targets = In({"on", "no address"}),
                            !.blank = In({"no address"})]
    /\ Still /\ UNCHANGED <<sdFiles, sdGroup>>

\* Pass 2: the targets, and the machines that are on without an address.
PassTwo ==
    /\ poll.pc = "pass 2"
    /\ poll' = [poll EXCEPT !.pc = "linux", !.targets = In({"on"}),
                            !.blank = In({"no address"})]
    /\ Still /\ UNCHANGED <<sdFiles, sdGroup>>

\* open(..., 'w') empties a file before json.dump fills it.
OpenFile(file) ==
    /\ poll.pc = file /\ sdFiles[file] # Nothing
    /\ sdFiles' = [sdFiles EXCEPT ![file] = Nothing]
    /\ Still /\ UNCHANGED <<poll, sdGroup>>
WriteFile(file, targets, next) ==
    /\ poll.pc = file /\ sdFiles[file] = Nothing
    /\ sdFiles' = [sdFiles EXCEPT ![file] = targets]
    /\ Goto(next)
    /\ Still /\ UNCHANGED sdGroup
WriteLinux == WriteFile("linux", poll.targets \ windowsVms, "windows")
WriteWindows == WriteFile("windows", poll.targets \cap windowsVms, "datastores")

CollectDatastores ==
    /\ poll.pc = "datastores" /\ Goto("delete")
    /\ Still /\ UNCHANGED <<sdFiles, sdGroup>>

\* The status of an answer is not looked at: a refused DELETE changes nothing.
DeleteSdGroup ==
    /\ poll.pc = "delete" /\ Goto("put")
    /\ \/ sdGroup' = Nothing /\ sdFaults' = sdFaults
       \/ sdGroup' = sdGroup /\ sdFaults < MaxSdFaults /\ sdFaults' = sdFaults + 1
    /\ UNCHANGED <<vms, windowsVms, sdFiles, completed, moved, vmChanges>>

PutSdGroup ==
    /\ poll.pc = "put"
    /\ sdGroup' = [off |-> poll.off, blank |-> poll.blank]
    /\ completed' = TRUE /\ moved' = poll.moved
    /\ poll' = NoPoll
    /\ UNCHANGED <<vms, windowsVms, sdFiles, vmChanges, sdFaults>>

\* An exception ends the poll, a restart the process, a refused PUT passes for
\* done; files and group stay as they are.
PollFails ==
    /\ poll.pc # "idle" /\ sdFaults < MaxSdFaults
    /\ sdFaults' = sdFaults + 1
    /\ completed' = FALSE /\ moved' = {}
    /\ poll' = NoPoll
    /\ UNCHANGED <<vms, windowsVms, sdFiles, sdGroup, vmChanges>>

VcenterNext ==
    \/ \E v \in Vms, s \in VmStates : ChangeVm(v, s)
    \/ ConnectVcenter
    \/ PassOne
    \/ PassTwo
    \/ \E file \in {"linux", "windows"} : OpenFile(file)
    \/ WriteLinux
    \/ WriteWindows
    \/ CollectDatastores
    \/ DeleteSdGroup
    \/ PutSdGroup
    \/ PollFails

-----------------------------------------------------------------------------
\* After a poll that did all it does, the group is there, both files are whole,
\* they and the group name every machine, and a machine is named in two roles,
\* or in none, only when it changed between the two passes (main.py:68-203).
PublishedAgrees ==
    completed /\ poll.pc = "idle" =>
      /\ sdGroup # Nothing /\ sdFiles.linux # Nothing /\ sdFiles.windows # Nothing
      /\ \A v \in Vms \ moved :
           Cardinality({role \in {"off", "blank", "linux", "windows"} :
                          v \in CASE role = "off" -> sdGroup.off
                                  [] role = "blank" -> sdGroup.blank
                                  [] OTHER -> sdFiles[role]}) = 1
=============================================================================
