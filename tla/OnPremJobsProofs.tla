-------------------------- MODULE OnPremJobsProofs --------------------------
(***************************************************************************)
(* Proofs about the programs of MCOnPremJobs: the vCenter service          *)
(* discovery, for any machines, changes and faults; the exporters, for any *)
(* number of devices; the Genus monitor, for any fuels and faults; the     *)
(* table of file statuses, for any number of files; the supervisor check,  *)
(* for any workers and labels; and the flashing icon, for any number of    *)
(* threads.  Each program leaves the variables of the others alone.        *)
(***************************************************************************)
EXTENDS MCOnPremJobs, FiniteSetTheorems, SequenceTheorems,
        WellFoundedInduction, TLAPS

-----------------------------------------------------------------------------
(* vCenter service discovery.                                              *)

VmSets == SUBSET Vms
Walked == {"linux", "windows", "datastores", "delete", "put"}

VcenterTypes ==
    /\ vms \in [Vms -> VmStates]
    /\ poll \in [pc : {"idle", "pass 1", "pass 2"} \cup Walked, off : VmSets,
                 blank : VmSets, targets : VmSets, moved : VmSets]
    /\ sdFiles \in [linux : VmSets \cup {Nothing}, windows : VmSets \cup {Nothing}]

\* Machine v is in exactly one of the four sets.
InOne(v, a, b, c, d) ==
    \/ v \in a /\ v \notin b /\ v \notin c /\ v \notin d
    \/ v \notin a /\ v \in b /\ v \notin c /\ v \notin d
    \/ v \notin a /\ v \notin b /\ v \in c /\ v \notin d
    \/ v \notin a /\ v \notin b /\ v \notin c /\ v \in d

\* What the poll in progress has read, and what it has written of it.
PollReads ==
    /\ poll.pc = "pass 2" =>
         \A v \in Vms \ poll.moved : v \in poll.off <=> vms[v] = "off"
    /\ poll.pc \in Walked =>
         \A v \in Vms \ poll.moved :
            InOne(v, poll.off, poll.blank, poll.targets \ windowsVms,
                  poll.targets \cap windowsVms)
    /\ poll.pc \in Walked \ {"linux"} => sdFiles.linux = poll.targets \ windowsVms
    /\ poll.pc \in Walked \ {"linux", "windows"} =>
         sdFiles.windows = poll.targets \cap windowsVms

\* What a poll that did all it does has left.
Published ==
    completed /\ poll.pc = "idle" =>
      /\ sdGroup # Nothing /\ sdFiles.linux # Nothing /\ sdFiles.windows # Nothing
      /\ \A v \in Vms \ moved :
            InOne(v, sdGroup.off, sdGroup.blank, sdFiles.linux, sdFiles.windows)

VcenterInv == VcenterTypes /\ PollReads /\ Published

LEMMA VcenterInitInv ==
  ASSUME VcenterInit
  PROVE  VcenterInv
<1>1. VcenterTypes
  BY DEF VcenterInit, VcenterTypes, NoPoll, VmSets
<1>2. PollReads /\ Published
  BY DEF VcenterInit, PollReads, Published, NoPoll, Walked
<1>3. QED
  BY <1>1, <1>2 DEF VcenterInv

LEMMA ChangeVmKeeps ==
  ASSUME VcenterInv, NEW v \in Vms, NEW s \in VmStates, ChangeVm(v, s)
  PROVE  VcenterInv'
<1>1. CASE poll.pc = "pass 2"
  <2>1. poll' = [poll EXCEPT !.moved = poll.moved \cup {v}]
    BY <1>1 DEF ChangeVm
  <2>2. /\ poll'.pc = "pass 2" /\ poll'.off = poll.off
        /\ poll'.moved = poll.moved \cup {v}
    BY <2>1, <1>1 DEF VcenterInv, VcenterTypes
  <2>3. VcenterTypes'
    BY <2>1 DEF ChangeVm, VcenterInv, VcenterTypes, VmSets
  <2>4. PollReads'
    BY <1>1, <2>2 DEF ChangeVm, VcenterInv, VcenterTypes, PollReads, Walked
  <2>5. Published'
    BY <2>2 DEF Published
  <2>6. QED
    BY <2>3, <2>4, <2>5 DEF VcenterInv
<1>2. CASE poll.pc # "pass 2"
  <2>1. poll' = poll
    BY <1>2 DEF ChangeVm
  <2>2. VcenterTypes'
    BY <2>1 DEF ChangeVm, VcenterInv, VcenterTypes
  <2>3. PollReads' /\ Published'
    BY <1>2, <2>1 DEF ChangeVm, VcenterInv, PollReads, Published, InOne
  <2>4. QED
    BY <2>2, <2>3 DEF VcenterInv
<1>3. QED
  BY <1>1, <1>2

\* The steps between idle and the first file.
LEMMA PassesKeep ==
  ASSUME VcenterInv, ConnectVcenter \/ PassOne \/ PassTwo
  PROVE  VcenterInv'
<1> USE DEF Still, Goto
<1>1. CASE ConnectVcenter
  <2>1. poll'.pc = "pass 1" /\ poll' = [poll EXCEPT !.pc = "pass 1"]
    BY <1>1 DEF ConnectVcenter, VcenterInv, VcenterTypes
  <2>2. VcenterTypes'
    BY <1>1, <2>1 DEF ConnectVcenter, VcenterInv, VcenterTypes
  <2>3. PollReads' /\ Published'
    BY <2>1 DEF PollReads, Published, Walked
  <2>4. QED
    BY <2>2, <2>3 DEF VcenterInv
<1>2. CASE PassOne
  <2>1. /\ poll' = [poll EXCEPT !.pc = "pass 2", !.off = In({"off"})]
        /\ poll'.pc = "pass 2" /\ poll'.off = In({"off"})
        /\ In({"off"}) \in VmSets
    BY <1>2 DEF PassOne, VcenterInv, VcenterTypes, In, VmSets
  <2>2. VcenterTypes'
    BY <1>2, <2>1 DEF PassOne, VcenterInv, VcenterTypes
  <2>3. PollReads' /\ Published'
    BY <1>2, <2>1 DEF PassOne, PollReads, Published, Walked, In
  <2>4. QED
    BY <2>2, <2>3 DEF VcenterInv
<1>3. CASE PassTwo
  <2>1. /\ poll' = [poll EXCEPT !.pc = "linux", !.targets = In({"on"}),
                                !.blank = In({"no address"})]
        /\ poll'.pc = "linux" /\ poll'.off = poll.off /\ poll'.moved = poll.moved
        /\ poll'.targets = In({"on"}) /\ poll'.blank = In({"no address"})
        /\ In({"on"}) \in VmSets /\ In({"no address"}) \in VmSets
    BY <1>3 DEF PassTwo, VcenterInv, VcenterTypes, In, VmSets
  <2>2. VcenterTypes'
    BY <1>3, <2>1 DEF PassTwo, VcenterInv, VcenterTypes, Walked
  <2>3. ASSUME NEW v \in Vms \ poll.moved
        PROVE  InOne(v, poll.off, In({"no address"}), In({"on"}) \ windowsVms,
                     In({"on"}) \cap windowsVms)
    <3>1. v \in poll.off <=> vms[v] = "off"
      BY <1>3 DEF PassTwo, VcenterInv, PollReads
    <3>2. vms[v] \in {"off", "no address", "on"}
      BY DEF VcenterInv, VcenterTypes, VmStates
    <3>3. /\ v \in In({"no address"}) <=> vms[v] = "no address"
          /\ v \in In({"on"}) <=> vms[v] = "on"
      BY DEF In
    <3>4. QED
      BY <3>1, <3>2, <3>3 DEF InOne
  <2>4. PollReads' /\ Published'
    BY <1>3, <2>1, <2>3 DEF PassTwo, PollReads, Published, Walked, InOne
  <2>5. QED
    BY <2>2, <2>4 DEF VcenterInv
<1>4. QED
  BY <1>1, <1>2, <1>3

LEMMA FilesKeep ==
  ASSUME VcenterInv,
         \/ \E file \in {"linux", "windows"} : OpenFile(file)
         \/ WriteLinux \/ WriteWindows \/ CollectDatastores
  PROVE  VcenterInv'
<1> USE DEF Still, Goto
<1>1. ASSUME NEW file \in {"linux", "windows"}, OpenFile(file)
      PROVE  VcenterInv'
  <2>1. VcenterTypes'
    BY <1>1 DEF OpenFile, VcenterInv, VcenterTypes
  <2>2. /\ poll' = poll /\ poll.pc = file
        /\ file = "windows" => sdFiles'.linux = sdFiles.linux
    BY <1>1 DEF OpenFile, VcenterInv, VcenterTypes
  <2>3. PollReads' /\ Published'
    BY <1>1, <2>2 DEF OpenFile, VcenterInv, PollReads, Published, Walked, InOne
  <2>4. QED
    BY <2>1, <2>3 DEF VcenterInv
<1>2. CASE WriteLinux
  <2> DEFINE S == poll.targets \ windowsVms
  <2>1. /\ poll.pc = "linux" /\ poll' = [poll EXCEPT !.pc = "windows"]
        /\ sdFiles' = [sdFiles EXCEPT !["linux"] = S]
        /\ UNCHANGED <<vms, windowsVms, completed, moved, sdGroup>>
    BY <1>2 DEF WriteLinux, WriteFile
  <2>2. /\ poll'.pc = "windows" /\ poll'.off = poll.off /\ poll'.blank = poll.blank
        /\ poll'.targets = poll.targets /\ poll'.moved = poll.moved
        /\ sdFiles'.linux = S /\ S \in VmSets
    BY <2>1 DEF VcenterInv, VcenterTypes, VmSets
  <2>3. VcenterTypes'
    BY <2>1, <2>2 DEF VcenterInv, VcenterTypes, Walked
  <2>4. PollReads' /\ Published'
    BY <2>1, <2>2 DEF VcenterInv, PollReads, Published, Walked, InOne
  <2>5. QED
    BY <2>3, <2>4 DEF VcenterInv
<1>3. CASE WriteWindows
  <2> DEFINE S == poll.targets \cap windowsVms
  <2>1. /\ poll.pc = "windows" /\ poll' = [poll EXCEPT !.pc = "datastores"]
        /\ sdFiles' = [sdFiles EXCEPT !["windows"] = S]
        /\ UNCHANGED <<vms, windowsVms, completed, moved, sdGroup>>
    BY <1>3 DEF WriteWindows, WriteFile
  <2>2. /\ poll'.pc = "datastores" /\ poll'.off = poll.off /\ poll'.blank = poll.blank
        /\ poll'.targets = poll.targets /\ poll'.moved = poll.moved
        /\ sdFiles'.windows = S /\ sdFiles'.linux = sdFiles.linux /\ S \in VmSets
    BY <2>1 DEF VcenterInv, VcenterTypes, VmSets
  <2>3. VcenterTypes'
    BY <2>1, <2>2 DEF VcenterInv, VcenterTypes, Walked
  <2>4. PollReads' /\ Published'
    BY <2>1, <2>2 DEF VcenterInv, PollReads, Published, Walked, InOne
  <2>5. QED
    BY <2>3, <2>4 DEF VcenterInv
<1>4. CASE CollectDatastores
  <2>1. /\ poll.pc = "datastores" /\ poll' = [poll EXCEPT !.pc = "delete"]
        /\ poll'.pc = "delete" /\ poll'.off = poll.off /\ poll'.blank = poll.blank
        /\ poll'.targets = poll.targets /\ poll'.moved = poll.moved
        /\ UNCHANGED <<vms, windowsVms, completed, moved, sdFiles, sdGroup>>
    BY <1>4 DEF CollectDatastores, VcenterInv, VcenterTypes
  <2>2. VcenterTypes'
    BY <2>1 DEF VcenterInv, VcenterTypes, Walked
  <2>3. PollReads' /\ Published'
    BY <2>1 DEF VcenterInv, PollReads, Published, Walked, InOne
  <2>4. QED
    BY <2>2, <2>3 DEF VcenterInv
<1>5. QED
  BY <1>1, <1>2, <1>3, <1>4

LEMMA GroupKeeps ==
  ASSUME VcenterInv, DeleteSdGroup \/ PutSdGroup \/ PollFails
  PROVE  VcenterInv'
<1> USE DEF Goto
<1>1. CASE DeleteSdGroup
  <2>1. /\ poll.pc = "delete" /\ poll' = [poll EXCEPT !.pc = "put"]
        /\ poll'.pc = "put" /\ poll'.off = poll.off /\ poll'.blank = poll.blank
        /\ poll'.targets = poll.targets /\ poll'.moved = poll.moved
        /\ UNCHANGED <<vms, windowsVms, completed, moved, sdFiles>>
    BY <1>1 DEF DeleteSdGroup, VcenterInv, VcenterTypes
  <2>2. VcenterTypes'
    BY <2>1 DEF VcenterInv, VcenterTypes, Walked
  <2>3. PollReads' /\ Published'
    BY <2>1 DEF VcenterInv, PollReads, Published, Walked, InOne
  <2>4. QED
    BY <2>2, <2>3 DEF VcenterInv
<1>2. poll' = NoPoll => poll'.pc = "idle" /\ poll' \in
        [pc : {"idle", "pass 1", "pass 2"} \cup Walked, off : VmSets,
         blank : VmSets, targets : VmSets, moved : VmSets]
  BY DEF NoPoll, VmSets
<1>3. CASE PutSdGroup
  <2>1. /\ poll.pc = "put" /\ poll' = NoPoll /\ moved' = poll.moved
        /\ sdGroup' = [off |-> poll.off, blank |-> poll.blank]
        /\ UNCHANGED <<vms, windowsVms, sdFiles>>
    BY <1>3 DEF PutSdGroup
  <2>2. VcenterTypes'
    BY <1>2, <2>1 DEF VcenterInv, VcenterTypes
  <2>3. PollReads'
    BY <1>2, <2>1 DEF PollReads, Walked
  <2>4. Published'
    <3>1. /\ sdFiles.linux = poll.targets \ windowsVms
          /\ sdFiles.windows = poll.targets \cap windowsVms
          /\ \A v \in Vms \ poll.moved :
               InOne(v, poll.off, poll.blank, poll.targets \ windowsVms,
                     poll.targets \cap windowsVms)
      BY <2>1 DEF VcenterInv, PollReads, Walked
    <3>2. /\ poll.off \in VmSets /\ poll.blank \in VmSets /\ poll.targets \in VmSets
      BY DEF VcenterInv, VcenterTypes
    <3>3. sdGroup' # Nothing /\ sdFiles.linux # Nothing /\ sdFiles.windows # Nothing
      BY <2>1, <3>1, <3>2, VcenterAssumption DEF VmSets
    <3>4. sdGroup'.off = poll.off /\ sdGroup'.blank = poll.blank
      BY <2>1
    <3>5. QED
      BY <2>1, <3>1, <3>3, <3>4 DEF Published, InOne
  <2>5. QED
    BY <2>2, <2>3, <2>4 DEF VcenterInv
<1>4. CASE PollFails
  <2>1. VcenterTypes'
    BY <1>2, <1>4 DEF PollFails, VcenterInv, VcenterTypes
  <2>2. PollReads' /\ Published'
    BY <1>2, <1>4 DEF PollFails, PollReads, Published, Walked
  <2>3. QED
    BY <2>1, <2>2 DEF VcenterInv
<1>5. QED
  BY <1>1, <1>3, <1>4

LEMMA VcenterInductive ==
  ASSUME VcenterInv, VcenterNext \/ UNCHANGED vcenterVars
  PROVE  VcenterInv'
<1>1. CASE UNCHANGED vcenterVars
  BY <1>1 DEF vcenterVars, VcenterInv, VcenterTypes, PollReads, Published, InOne
<1>2. CASE VcenterNext
  BY <1>2, ChangeVmKeeps, PassesKeep, FilesKeep, GroupKeeps DEF VcenterNext
<1>3. QED
  BY <1>1, <1>2

LEMMA OneRole ==
  ASSUME VcenterInv
  PROVE  PublishedAgrees
<1>1. SUFFICES ASSUME completed, poll.pc = "idle", NEW v \in Vms \ moved
               PROVE  Cardinality({role \in {"off", "blank", "linux", "windows"} :
                          v \in CASE role = "off" -> sdGroup.off
                                  [] role = "blank" -> sdGroup.blank
                                  [] OTHER -> sdFiles[role]}) = 1
  BY DEF VcenterInv, Published, PublishedAgrees
<1> DEFINE Of(role) == CASE role = "off" -> sdGroup.off
                         [] role = "blank" -> sdGroup.blank
                         [] OTHER -> sdFiles[role]
           Roles == {role \in {"off", "blank", "linux", "windows"} : v \in Of(role)}
<1>2. InOne(v, sdGroup.off, sdGroup.blank, sdFiles.linux, sdFiles.windows)
  BY <1>1 DEF VcenterInv, Published
<1>3. /\ Of("off") = sdGroup.off /\ Of("blank") = sdGroup.blank
      /\ Of("linux") = sdFiles.linux /\ Of("windows") = sdFiles.windows
  OBVIOUS
<1> HIDE DEF Of
<1>4. PICK r : Roles = {r}
  <2>1. \/ Roles = {"off"} \/ Roles = {"blank"}
        \/ Roles = {"linux"} \/ Roles = {"windows"}
    BY <1>2, <1>3 DEF InOne
  <2>2. QED
    BY <2>1
<1>5. Cardinality(Roles) = 1
  BY <1>4, FS_Singleton
<1>6. QED
  BY <1>5 DEF Of

LEMMA VcenterSteps ==
  ASSUME VcenterInv, [Next]_programVars
  PROVE  VcenterInv'
<1>1. VcenterNext \/ UNCHANGED vcenterVars
  BY DEF Next, Genus, FilesTable, Vcenter, Supervisor, Flash, Exporting, programVars
<1>2. QED
  BY <1>1, VcenterInductive

\* After a poll of the vCenter service discovery that did all it does, every
\* machine that did not change between the two passes is named in exactly one
\* of the two files and the two sets of the group (vcenter-sd main.py:68-203).
THEOREM PolledAlwaysAgrees == Spec => []PublishedAgrees
<1>1. Init => VcenterInv
  BY VcenterInitInv DEF Init
<1>2. VcenterInv /\ [Next]_programVars => VcenterInv'
  BY VcenterSteps
<1>3. VcenterInv => PublishedAgrees
  BY OneRole
<1>4. QED
  BY <1>1, <1>2, <1>3, PTL DEF Spec

-----------------------------------------------------------------------------
(* The exporters.                                                          *)

Asks == {"devices", "health", "peers", "interfaces", "dell", "ietf",
         "openconfig", "current"}

FetchTypes ==
    /\ exporter \in {"controllers", "switches", "locations"}
    /\ fetches \in [1..Devices -> [next : Nat \ {0}, samples : SUBSET Asks, ok : BOOLEAN]]
    /\ answers \in [1..Devices -> SUBSET (Asks \X {"good", "failed", "odd"})]

Good(d) == {a[1] : a \in {b \in answers[d] : b[2] = "good"}}

\* The samples of a device on the page.
Shown(d) == {s \in page.samples : s[1] = d}

\* A fetch has the samples of its good answers, is fine when it has the
\* required ones, and without an uptime has been refused those it asked for.
FetchOK(d) ==
    /\ (\A a \in answers[d] : a[2] # "odd") => fetches[d].samples = Good(d)
    /\ fetches[d].ok <=> Required(exporter) \subseteq fetches[d].samples
    /\ fetches[d].next = 1 => fetches[d].samples = {}
    /\ exporter = "switches" /\ "interfaces" \in fetches[d].samples
         /\ fetches[d].samples \cap Uptimes = {} =>
           /\ fetches[d].next > 2 => <<"dell", "failed">> \in answers[d]
           /\ fetches[d].next > 3 => <<"ietf", "failed">> \in answers[d]
           /\ fetches[d].next > 4 => <<"openconfig", "failed">> \in answers[d]

\* The page is made of the fetches, when all have ended.
PageOK ==
    page # NoPage =>
      /\ \A d \in 1..Devices : Fetched(d)
      /\ page = IF OddTaken THEN [NoPage EXCEPT !.status = "error"]
                ELSE [status |-> "ok",
                      success |-> {d \in 1..Devices : fetches[d].ok},
                      samples |-> UNION {{d} \X fetches[d].samples : d \in 1..Devices}]

ExportersInv == FetchTypes /\ (\A d \in 1..Devices : FetchOK(d)) /\ PageOK

\* The requests of the three exporters, one by one.
LEMMA RequestTable ==
  ASSUME FetchTypes, NEW d \in 1..Devices
  PROVE  /\ Required(exporter) # {}
         /\ ~Fetched(d) => Request(d) \in Asks
         /\ exporter = "switches" =>
              /\ Over = 5 /\ Required(exporter) = {"interfaces"}
              /\ ~Fetched(d) => fetches[d].next \in 1..4
              /\ fetches[d].next = 1 => Request(d) = "interfaces"
              /\ fetches[d].next = 2 => Request(d) = "dell"
              /\ fetches[d].next = 3 => Request(d) = "ietf"
              /\ fetches[d].next = 4 => Request(d) = "openconfig"
         /\ Over \in Nat /\ Over > 1
<1> fetches[d].next \in Nat \ {0}
  BY DEF FetchTypes
<1>1. CASE exporter = "controllers"
  <2>1. Requests[exporter] = <<"devices", "health", "peers">>
    BY <1>1 DEF Requests
  <2>2. Len(Requests[exporter]) = 3 /\ DOMAIN Requests[exporter] = 1..3
    BY <2>1
  <2>3. "devices" \in Required(exporter)
    BY <2>1, <2>2 DEF Required, Optional
  <2>4. ~Fetched(d) => fetches[d].next \in {1, 2, 3}
    BY <2>2 DEF Fetched
  <2>5. QED
    BY <1>1, <2>1, <2>2, <2>3, <2>4 DEF Request, Asks, Over
<1>2. CASE exporter = "switches"
  <2>1. Requests[exporter] = <<"interfaces", "dell", "ietf", "openconfig">>
    BY <1>2 DEF Requests
  <2>2. Len(Requests[exporter]) = 4 /\ DOMAIN Requests[exporter] = 1..4
    BY <2>1
  <2>3. /\ Requests[exporter][1] = "interfaces" /\ Requests[exporter][2] = "dell"
        /\ Requests[exporter][3] = "ietf" /\ Requests[exporter][4] = "openconfig"
    BY <2>1
  <2>4. Required(exporter) = {"interfaces"}
    <3>1. ASSUME NEW r PROVE r \in Required(exporter) <=> r = "interfaces"
      <4>1. r \in {Requests[exporter][i] : i \in DOMAIN Requests[exporter]}
              <=> r \in {"interfaces", "dell", "ietf", "openconfig"}
        <5>1. \A i \in 1..4 : i = 1 \/ i = 2 \/ i = 3 \/ i = 4
          OBVIOUS
        <5>2. QED
          BY <2>2, <2>3, <5>1
      <4>2. QED
        BY <4>1 DEF Required, Optional
    <3>2. QED
      BY <3>1
  <2>5. ~Fetched(d) => fetches[d].next \in {1, 2, 3, 4}
    BY <2>2 DEF Fetched
  <2>6. QED
    BY <1>2, <2>2, <2>3, <2>4, <2>5 DEF Request, Asks, Over
<1>3. CASE exporter = "locations"
  <2>1. Requests[exporter] = <<"current">>
    BY <1>3 DEF Requests
  <2>2. Len(Requests[exporter]) = 1 /\ DOMAIN Requests[exporter] = 1..1
    BY <2>1
  <2>3. "current" \in Required(exporter)
    BY <2>1, <2>2 DEF Required, Optional
  <2>4. ~Fetched(d) => fetches[d].next = 1
    BY <2>2 DEF Fetched
  <2>5. QED
    BY <1>3, <2>1, <2>2, <2>3, <2>4 DEF Request, Asks, Over
<1>4. QED
  BY <1>1, <1>2, <1>3 DEF FetchTypes

LEMMA ExportersInitInv ==
  ASSUME ExportersInit
  PROVE  ExportersInv
<1>1. FetchTypes
  BY DEF ExportersInit, Requests, FetchTypes, NewFetch
<1>2. ASSUME NEW d \in 1..Devices
      PROVE  FetchOK(d)
  <2>1. /\ fetches[d].samples = {} /\ ~fetches[d].ok /\ answers[d] = {}
    BY DEF ExportersInit, NewFetch
  <2>2. Required(exporter) # {}
    BY <1>1, RequestTable
  <2>3. QED
    BY <2>1, <2>2 DEF FetchOK, Good
<1>3. PageOK
  BY DEF ExportersInit, PageOK
<1>4. QED
  BY <1>1, <1>2, <1>3 DEF ExportersInv

\* A device that was not asked keeps what its fetch says.
LEMMA OthersKeep ==
  ASSUME NEW d \in 1..Devices, FetchOK(d), fetches'[d] = fetches[d],
         answers'[d] = answers[d], exporter' = exporter
  PROVE  FetchOK(d)'
BY DEF FetchOK, Good, Required

LEMMA AnswerKeeps ==
  ASSUME ExportersInv, NEW d \in 1..Devices,
         GoodAnswer(d) \/ FailedAnswer(d) \/ OddAnswer(d)
  PROVE  ExportersInv'
<1> DEFINE f == fetches[d]
           r == Request(d)
<1>1. /\ FetchTypes /\ FetchOK(d) /\ exporter' = exporter /\ ~Fetched(d)
      /\ Required(exporter) # {} /\ r \in Asks /\ Over \in Nat /\ Over > 1
      /\ f = [next |-> f.next, samples |-> f.samples, ok |-> f.ok]
      /\ f.next \in Nat \ {0} /\ f.samples \in SUBSET Asks /\ f.ok \in BOOLEAN
      /\ f.next + 1 \in Nat /\ f.next + 1 > 1
      /\ answers[d] \in SUBSET (Asks \X {"good", "failed", "odd"})
  BY RequestTable DEF ExportersInv, FetchTypes, GoodAnswer, FailedAnswer, OddAnswer
<1>2. PageOK'
  BY <1>1 DEF ExportersInv, PageOK, GoodAnswer, FailedAnswer, OddAnswer
<1>3. ASSUME NEW next \in Nat, next > 1, NEW samples \in SUBSET Asks, NEW ok \in BOOLEAN,
             NEW kind \in {"good", "failed", "odd"},
             fetches' = [fetches EXCEPT ![d] =
               [next |-> next, samples |-> samples, ok |-> ok]],
             answers' = [answers EXCEPT ![d] = answers[d] \cup {<<r, kind>>}],
             ok <=> Required(exporter) \subseteq samples,
             kind = "good" => samples = f.samples \cup {r},
             kind = "failed" => samples = f.samples,
             exporter = "switches" /\ "interfaces" \in samples /\ samples \cap Uptimes = {} =>
               /\ next > 2 => <<"dell", "failed">> \in answers[d] \cup {<<r, kind>>}
               /\ next > 3 => <<"ietf", "failed">> \in answers[d] \cup {<<r, kind>>}
               /\ next > 4 => <<"openconfig", "failed">> \in answers[d] \cup {<<r, kind>>}
      PROVE  ExportersInv'
  <2>1. /\ fetches'[d] = [next |-> next, samples |-> samples, ok |-> ok]
        /\ answers'[d] = answers[d] \cup {<<r, kind>>}
    BY <1>1, <1>3 DEF FetchTypes
  <2>2. FetchTypes'
    BY <1>1, <1>3 DEF FetchTypes
  <2>3. fetches'[d].next = next /\ fetches'[d].samples = samples /\ fetches'[d].ok = ok
    BY <2>1
  <2>4. (\A a \in answers'[d] : a[2] # "odd") => samples = Good(d)'
    <3>1. SUFFICES ASSUME \A a \in answers'[d] : a[2] # "odd"
                   PROVE  samples = Good(d)'
      OBVIOUS
    <3>2. f.samples = Good(d)
      BY <1>1, <2>1, <3>1 DEF FetchOK
    <3>3. <<r, kind>>[2] # "odd"
      BY <2>1, <3>1
    <3>4. Good(d)' = Good(d) \cup (IF kind = "good" THEN {r} ELSE {})
      <4>1. Good(d)' = {a[1] : a \in {b \in answers[d] \cup {<<r, kind>>} : b[2] = "good"}}
        BY <2>1 DEF Good
      <4>2. <<r, kind>>[1] = r /\ <<r, kind>>[2] = kind
        OBVIOUS
      <4>3. CASE kind = "good"
        <5>1. {b \in answers[d] \cup {<<r, kind>>} : b[2] = "good"}
                = {b \in answers[d] : b[2] = "good"} \cup {<<r, kind>>}
          BY <4>2, <4>3
        <5>2. QED
          BY <4>1, <4>2, <4>3, <5>1 DEF Good
      <4>4. CASE kind # "good"
        <5>1. {b \in answers[d] \cup {<<r, kind>>} : b[2] = "good"}
                = {b \in answers[d] : b[2] = "good"}
          BY <4>2, <4>4
        <5>2. QED
          BY <4>1, <4>4, <5>1 DEF Good
      <4>5. QED
        BY <4>3, <4>4
    <3>5. QED
      BY <1>3, <3>2, <3>3, <3>4
  <2>5. FetchOK(d)'
    BY <1>1, <1>3, <2>1, <2>3, <2>4 DEF FetchOK, Required
  <2>6. \A e \in 1..Devices : FetchOK(e)'
    <3>1. TAKE e \in 1..Devices
    <3>2. CASE e = d
      BY <2>5, <3>2
    <3>3. CASE e # d
      <4>1. fetches'[e] = fetches[e] /\ answers'[e] = answers[e]
        BY <1>1, <1>3, <3>3 DEF FetchTypes
      <4>2. QED
        BY <1>1, <4>1, OthersKeep DEF ExportersInv
    <3>4. QED
      BY <3>2, <3>3
  <2>7. QED
    BY <1>2, <2>2, <2>6 DEF ExportersInv
<1>4. /\ exporter = "switches" =>
           /\ Over = 5 /\ Required(exporter) = {"interfaces"}
           /\ \/ f.next = 1 /\ r = "interfaces"
              \/ f.next = 2 /\ r = "dell"
              \/ f.next = 3 /\ r = "ietf"
              \/ f.next = 4 /\ r = "openconfig"
      /\ f.next = 1 => f.samples = {}
      /\ exporter = "switches" /\ "interfaces" \in f.samples
           /\ f.samples \cap Uptimes = {} =>
             /\ f.next > 2 => <<"dell", "failed">> \in answers[d]
             /\ f.next > 3 => <<"ietf", "failed">> \in answers[d]
             /\ f.next > 4 => <<"openconfig", "failed">> \in answers[d]
  BY <1>1, RequestTable DEF FetchOK
<1>5. CASE GoodAnswer(d)
  <2> DEFINE samples == f.samples \cup {r}
             next == IF r \in Uptimes THEN Over ELSE f.next + 1
             ok == Required(exporter) \subseteq samples
  <2>1. fetches' = [fetches EXCEPT ![d] = [next |-> next, samples |-> samples, ok |-> ok]]
    BY <1>5 DEF GoodAnswer
  <2>2. answers' = [answers EXCEPT ![d] = answers[d] \cup {<<r, "good">>}]
    BY <1>5 DEF GoodAnswer
  <2>3. next \in Nat /\ next > 1 /\ samples \in SUBSET Asks /\ ok \in BOOLEAN
    BY <1>1
  <2>4. exporter = "switches" /\ samples \cap Uptimes = {} => next = 2
    BY <1>4 DEF Uptimes
  <2>5. /\ ok <=> Required(exporter) \subseteq samples
        /\ samples = f.samples \cup {r}
    OBVIOUS
  <2> HIDE DEF next, samples, ok
  <2>6. exporter = "switches" /\ "interfaces" \in samples
          /\ samples \cap Uptimes = {} =>
             /\ next > 2 => <<"dell", "failed">> \in answers[d] \cup {<<r, "good">>}
             /\ next > 3 => <<"ietf", "failed">> \in answers[d] \cup {<<r, "good">>}
             /\ next > 4 => <<"openconfig", "failed">> \in answers[d] \cup {<<r, "good">>}
    BY <2>3, <2>4
  <2>7. QED
    BY <1>3, <2>1, <2>2, <2>3, <2>5, <2>6
<1>6. CASE FailedAnswer(d)
  <2> DEFINE next == IF r \in Optional THEN f.next + 1 ELSE Over
  <2>1. fetches' = [fetches EXCEPT ![d] = [next |-> next, samples |-> f.samples, ok |-> f.ok]]
    <3>1. fetches' = [fetches EXCEPT ![d] = [f EXCEPT !.next = next]]
      BY <1>1, <1>6 DEF FailedAnswer, FetchTypes
    <3>2. [f EXCEPT !.next = next] = [next |-> next, samples |-> f.samples, ok |-> f.ok]
      <4> HIDE DEF next
      <4>1. \A x, y, z, n : [[next |-> x, samples |-> y, ok |-> z] EXCEPT !.next = n]
                             = [next |-> n, samples |-> y, ok |-> z]
        OBVIOUS
      <4>2. QED
        BY <1>1, <4>1
    <3>3. QED
      BY <3>1, <3>2
  <2>2. answers' = [answers EXCEPT ![d] = answers[d] \cup {<<r, "failed">>}]
    BY <1>6 DEF FailedAnswer
  <2>3. next \in Nat /\ next > 1
    BY <1>1
  <2>4. f.ok <=> Required(exporter) \subseteq f.samples
    BY <1>1 DEF FetchOK
  <2>5. exporter = "switches" /\ "interfaces" \in f.samples
          /\ f.samples \cap Uptimes = {} =>
             /\ next > 2 => <<"dell", "failed">> \in answers[d] \cup {<<r, "failed">>}
             /\ next > 3 => <<"ietf", "failed">> \in answers[d] \cup {<<r, "failed">>}
             /\ next > 4 => <<"openconfig", "failed">> \in answers[d] \cup {<<r, "failed">>}
    BY <1>1, <1>4 DEF Optional
  <2> HIDE DEF next
  <2>6. QED
    BY <1>1, <1>3, <2>1, <2>2, <2>3, <2>4, <2>5
<1>7. CASE OddAnswer(d)
  <2> DEFINE samples == f.samples \cup {r}
             next == f.next + 1
             ok == Required(exporter) \subseteq samples
  <2>1. fetches' = [fetches EXCEPT ![d] = [next |-> next, samples |-> samples, ok |-> ok]]
    BY <1>1, <1>7 DEF OddAnswer
  <2>2. answers' = [answers EXCEPT ![d] = answers[d] \cup {<<r, "odd">>}]
    BY <1>7 DEF OddAnswer
  <2>3. next \in Nat /\ next > 1 /\ samples \in SUBSET Asks /\ ok \in BOOLEAN
    BY <1>1
  <2>4. exporter = "switches" => next = 2
    BY <1>4, <1>7 DEF OddAnswer, Optional
  <2>5. /\ ok <=> Required(exporter) \subseteq samples
        /\ samples = f.samples \cup {r}
    OBVIOUS
  <2> HIDE DEF next, samples, ok
  <2>6. exporter = "switches" /\ "interfaces" \in samples
          /\ samples \cap Uptimes = {} =>
             /\ next > 2 => <<"dell", "failed">> \in answers[d] \cup {<<r, "odd">>}
             /\ next > 3 => <<"ietf", "failed">> \in answers[d] \cup {<<r, "odd">>}
             /\ next > 4 => <<"openconfig", "failed">> \in answers[d] \cup {<<r, "odd">>}
    BY <2>3, <2>4
  <2>7. QED
    BY <1>3, <2>1, <2>2, <2>3, <2>5, <2>6
<1>8. QED
  BY <1>5, <1>6, <1>7

LEMMA RespondKeeps ==
  ASSUME ExportersInv, Respond
  PROVE  ExportersInv'
<1>1. UNCHANGED <<exporter, fetches, answers>>
  BY DEF Respond
<1>2. FetchTypes' /\ \A d \in 1..Devices : FetchOK(d)'
  BY <1>1 DEF ExportersInv, FetchTypes, FetchOK, Good, Required
<1>3. PageOK'
  BY <1>1 DEF Respond, PageOK, Fetched, OddTaken
<1>4. QED
  BY <1>2, <1>3 DEF ExportersInv

LEMMA ScrapeKeeps ==
  ASSUME ExportersInv, Scrape
  PROVE  ExportersInv'
<1>1. /\ exporter' = exporter
      /\ fetches' = [d \in 1..Devices |-> NewFetch]
      /\ answers' = [d \in 1..Devices |-> {}]
      /\ page' = NoPage
  BY DEF Scrape
<1>2. FetchTypes'
  BY <1>1 DEF ExportersInv, FetchTypes, NewFetch
<1>3. ASSUME NEW d \in 1..Devices
      PROVE  FetchOK(d)'
  <2>1. /\ fetches'[d].samples = {} /\ ~fetches'[d].ok /\ answers'[d] = {}
    BY <1>1 DEF NewFetch
  <2>2. Required(exporter) # {}
    BY RequestTable DEF ExportersInv
  <2>3. QED
    BY <1>1, <2>1, <2>2 DEF FetchOK, Good, Required
<1>4. PageOK'
  BY <1>1 DEF PageOK, NoPage
<1>5. QED
  BY <1>2, <1>3, <1>4 DEF ExportersInv

LEMMA ExportersSteps ==
  ASSUME ExportersInv, [Next]_programVars
  PROVE  ExportersInv'
<1>1. ExportersNext \/ UNCHANGED exportersVars
  BY DEF Next, Genus, FilesTable, Vcenter, Supervisor, Flash, Exporting, programVars
<1>2. CASE UNCHANGED exportersVars
  BY <1>2 DEF exportersVars, ExportersInv, FetchTypes, FetchOK, Good, PageOK, Fetched,
              OddTaken, Required
<1>3. CASE ExportersNext
  BY <1>3, AnswerKeeps, RespondKeeps, ScrapeKeeps DEF ExportersNext
<1>4. QED
  BY <1>1, <1>2, <1>3

\* What the page says of a device is what its fetch has.
LEMMA PageOfDevice ==
  ASSUME ExportersInv, page # NoPage, page.status = "ok", NEW d \in 1..Devices
  PROVE  /\ ~OddTaken /\ Fetched(d)
         /\ d \in page.success <=> fetches[d].ok
         /\ {s \in page.samples : s[1] = d} = {d} \X fetches[d].samples
<1> DEFINE made == UNION {{e} \X fetches[e].samples : e \in 1..Devices}
<1>1. ~OddTaken /\ Fetched(d)
  BY DEF ExportersInv, PageOK, NoPage
<1>2. page = [status |-> "ok", success |-> {e \in 1..Devices : fetches[e].ok},
              samples |-> made]
  BY <1>1 DEF ExportersInv, PageOK
<1>3. page.success = {e \in 1..Devices : fetches[e].ok} /\ page.samples = made
  BY <1>2
<1>4. {s \in made : s[1] = d} = {d} \X fetches[d].samples
  <2>1. ASSUME NEW s \in made, s[1] = d
        PROVE  s \in {d} \X fetches[d].samples
    <3>1. PICK e \in 1..Devices : s \in {e} \X fetches[e].samples
      OBVIOUS
    <3>2. e = d
      BY <2>1, <3>1
    <3>3. QED
      BY <3>1, <3>2
  <2>2. ASSUME NEW s \in {d} \X fetches[d].samples
        PROVE  s \in made /\ s[1] = d
    OBVIOUS
  <2>3. QED
    BY <2>1, <2>2
<1>5. QED
  BY <1>1, <1>3, <1>4

LEMMA StaysLocal ==
  ASSUME ExportersInv
  PROVE  FailureStaysLocal
<1>1. SUFFICES ASSUME page # NoPage
               PROVE  /\ page.status = "error" => OddTaken
                      /\ page.status = "ok" => \A d \in 1..Devices :
                           /\ d \in page.success <=> Required(exporter) \subseteq Good(d)
                           /\ Shown(d) \subseteq {d} \X Good(d)
                           /\ d \in page.success => {d} \X Good(d) \subseteq Shown(d)
                           /\ exporter = "switches" /\ d \in page.success
                                /\ (\A u \in Uptimes : <<d, u>> \notin page.samples)
                                => \A u \in Uptimes : <<u, "failed">> \in answers[d]
  BY DEF FailureStaysLocal, Good, Shown
<1>2. page.status = "error" => OddTaken
  BY <1>1 DEF ExportersInv, PageOK
<1>3. ASSUME page.status = "ok", NEW d \in 1..Devices
      PROVE  /\ d \in page.success <=> Required(exporter) \subseteq Good(d)
             /\ Shown(d) \subseteq {d} \X Good(d)
             /\ d \in page.success => {d} \X Good(d) \subseteq Shown(d)
             /\ exporter = "switches" /\ d \in page.success
                  /\ (\A u \in Uptimes : <<d, u>> \notin page.samples)
                  => \A u \in Uptimes : <<u, "failed">> \in answers[d]
  <2>1. /\ ~OddTaken /\ Fetched(d)
        /\ d \in page.success <=> fetches[d].ok
        /\ {s \in page.samples : s[1] = d} = {d} \X fetches[d].samples
    BY <1>1, <1>3, PageOfDevice
  <2>2. fetches[d].samples = Good(d) /\ FetchOK(d)
    BY <2>1 DEF ExportersInv, FetchOK, OddTaken
  <2>3. ASSUME exporter = "switches", d \in page.success,
               \A u \in Uptimes : <<d, u>> \notin page.samples
        PROVE  \A u \in Uptimes : <<u, "failed">> \in answers[d]
    <3>1. fetches[d].next \in Nat /\ fetches[d].next > 4
      BY <1>3, <2>1, <2>3, RequestTable DEF ExportersInv, FetchTypes, Fetched, Over, Requests
    <3>2. "interfaces" \in fetches[d].samples
      BY <1>3, <2>1, <2>2, <2>3, RequestTable DEF ExportersInv, FetchOK
    <3>3. fetches[d].samples \cap Uptimes = {}
      <4>1. ASSUME NEW u \in fetches[d].samples PROVE <<d, u>> \in page.samples
        BY <2>1
      <4>2. QED
        BY <2>3, <4>1
    <3>4. QED
      BY <2>2, <2>3, <3>1, <3>2, <3>3 DEF FetchOK, Uptimes
  <2>4. QED
    BY <2>1, <2>2, <2>3 DEF FetchOK, Shown
<1>4. QED
  BY <1>2, <1>3

\* On every page of an exporter without a malformed answer, a device counts as
\* fetched exactly when its required requests were answered, and then it shows
\* exactly what it answered; a device that failed shows nothing but its own
\* answers of this scrape; and a switch without an uptime was refused by all three
\* of its sources (unifi-local-exporter app.py:120-154, dell-os10-exporter
\* app.py:113-183, weather-exporter app.py:76-120).
THEOREM FailuresAlwaysStayLocal == Spec => []FailureStaysLocal
<1>1. Init => ExportersInv
  BY ExportersInitInv DEF Init
<1>2. ExportersInv /\ [Next]_programVars => ExportersInv'
  BY ExportersSteps
<1>3. ExportersInv => FailureStaysLocal
  BY StaysLocal
<1>4. QED
  BY <1>1, <1>2, <1>3, PTL DEF Spec

-----------------------------------------------------------------------------
(* The Genus monitor: a round, and where a step of it leads.               *)

\* A collector has a step, and only that of a Genus sets genus_up.
Listed(list) ==
  /\ Len(list) \in Nat /\ Len(list) > 0 /\ DOMAIN list = 1..Len(list)
Downless(list) == \A k \in DOMAIN list : "up" \notin list[k].names

LEMMA CollectorsListed ==
  \A name \in DOMAIN Steps :
    Listed(Steps[name]) /\ (name # "genus" => Downless(Steps[name]))
<1>1. Listed(GenusMetrics)
  BY DEF Listed, GenusMetrics
<1>2. /\ Listed(CrossReference) /\ Downless(CrossReference)
      /\ Listed(GatewayMetrics) /\ Downless(GatewayMetrics)
      /\ Listed(EwelcomeMetrics) /\ Downless(EwelcomeMetrics)
      /\ Listed(EpsPricingMetrics) /\ Downless(EpsPricingMetrics)
  BY DEF Listed, Downless, CrossReference, GatewayMetrics, EwelcomeMetrics,
         EpsPricingMetrics, EpsQueue, Connect, Safe, Raw, Keep, Inner, Step
<1>3. /\ Listed(GpsPricingMetrics) /\ Downless(GpsPricingMetrics)
      /\ Listed(EcontractsMetrics) /\ Downless(EcontractsMetrics)
      /\ Listed(EsignatureMetrics) /\ Downless(EsignatureMetrics)
      /\ Listed(PowerstoreMetrics) /\ Downless(PowerstoreMetrics)
      /\ Listed(UbibotMetrics) /\ Downless(UbibotMetrics)
      /\ Listed(PrtgMetrics) /\ Downless(PrtgMetrics)
  BY DEF Listed, Downless, GpsPricingMetrics, EcontractsMetrics, EsignatureMetrics,
         PowerstoreMetrics, UbibotMetrics, PrtgMetrics, Connect, Safe, Raw, Keep,
         Inner, Step
<1>4. QED
  BY <1>1, <1>2, <1>3 DEF Steps

\* What a round is made of: a collector, and the fuel it works for, if any.
Parts == (DOMAIN Steps) \X (STRING \cup {""})

LEMMA FuelParts ==
  ASSUME NEW name \in DOMAIN Steps
  PROVE  PerFuel(name) \in Seq(Parts) /\ Once(name) \in Seq(Parts)
<1>1. /\ Fuels \in [1..Len(Fuels) -> STRING] /\ Len(Fuels) \in Nat
      /\ DOMAIN Fuels = 1..Len(Fuels)
  BY GenusAssumption, LenProperties
<1>2. PerFuel(name) \in [1..Len(Fuels) -> Parts]
  BY <1>1 DEF PerFuel, Parts
<1>3. PerFuel(name) \in Seq(Parts)
  BY <1>1, <1>2, SeqDef
<1>4. PICK part : part = <<name, "">>
  OBVIOUS
<1>5. Once(name) \in Seq(Parts)
  <2>1. part \in Parts
    BY <1>4 DEF Parts
  <2>2. Once(name) = <<part>>
    BY <1>4 DEF Once
  <2>3. <<part>> \in Seq(Parts)
    BY <2>1
  <2>4. QED
    BY <2>2, <2>3
<1>6. QED
  BY <1>3, <1>5

LEMMA RoundParts ==
  /\ Round \in Seq(Parts) /\ Len(Round) \in Nat /\ DOMAIN Round = 1..Len(Round)
  /\ \A i \in DOMAIN Round : Round[i] \in Parts
<1>1. {"genus", "cross", "gateway", "ewelcome", "eps", "gps", "econtracts",
       "esignature", "powerstore", "ubibot", "prtg"} \subseteq DOMAIN Steps
  BY DEF Steps
<1>2. /\ PerFuel("genus") \in Seq(Parts) /\ PerFuel("cross") \in Seq(Parts)
      /\ PerFuel("gateway") \in Seq(Parts) /\ PerFuel("ewelcome") \in Seq(Parts)
      /\ PerFuel("econtracts") \in Seq(Parts) /\ Once("eps") \in Seq(Parts)
      /\ Once("gps") \in Seq(Parts) /\ Once("esignature") \in Seq(Parts)
      /\ Once("powerstore") \in Seq(Parts) /\ Once("ubibot") \in Seq(Parts)
      /\ Once("prtg") \in Seq(Parts)
  BY <1>1, FuelParts
<1>3. ASSUME NEW a \in Seq(Parts), NEW b \in Seq(Parts)
      PROVE  a \o b \in Seq(Parts)
  BY ConcatProperties
<1>4. Round \in Seq(Parts)
  BY <1>2, <1>3 DEF Round
<1>5. QED
  BY <1>4, LenProperties, ElementOfSeq

LEMMA PlaceFacts ==
  /\ \A i \in 1..Len(Round) : Listed(StepsOf(Round[i]))
  /\ \A q \in Places : /\ q = <<q[1], q[2]>>
                       /\ q[1] \in 1..Len(Round)
                       /\ q[2] \in 1..Len(StepsOf(Round[q[1]]))
  /\ \A i \in 1..Len(Round) : \A k \in 1..Len(StepsOf(Round[i])) : <<i, k>> \in Places
<1>1. \A i \in 1..Len(Round) : Listed(StepsOf(Round[i]))
  BY RoundParts, CollectorsListed DEF StepsOf, Parts
<1>2. \A i \in DOMAIN Round : DOMAIN StepsOf(Round[i]) = 1..Len(StepsOf(Round[i]))
  BY <1>1, RoundParts DEF Listed
<1>3. \A q \in Places : \E i \in DOMAIN Round : \E k \in DOMAIN StepsOf(Round[i]) : q = <<i, k>>
  BY DEF Places
<1>4. QED
  BY <1>1, <1>2, <1>3, RoundParts DEF Places

\* Natural numbers have a least one: what AfterFailure chooses.
LEMMA Least ==
  ASSUME NEW T, T \subseteq Nat, T # {}
  PROVE  \E x \in T : \A y \in T : x <= y
<1>1. PICK x \in T : \A y \in T : ~(<<y, x>> \in OpToRel(<, Nat))
  BY WFMin, NatLessThanWellFounded
<1>2. \A y \in T : ~(y < x)
  BY <1>1 DEF OpToRel
<1>3. QED
  BY <1>2

\* q comes before the place pl of the round, or the round is over.
Before(q, pl) ==
  pl = <<0, 0>> \/ q[1] < pl[1] \/ (q[1] = pl[1] /\ q[2] < pl[2])

\* Where part i begins, and what lies before it.
LEMMA FirstFacts ==
  ASSUME NEW i \in 1..(Len(Round) + 1)
  PROVE  /\ FirstOf(i) \in Places \cup {<<0, 0>>}
         /\ FirstOf(i) # <<0, 0>> => FirstOf(i) = <<i, 1>> /\ i \in 1..Len(Round)
         /\ FirstOf(i) = <<0, 0>> <=> i = Len(Round) + 1
         /\ \A q \in Places : Before(q, FirstOf(i)) <=> q[1] < i
<1>1. Len(Round) \in Nat
  BY RoundParts
<1>2. CASE i = Len(Round) + 1
  BY <1>1, <1>2, PlaceFacts DEF FirstOf, Before
<1>3. CASE i \in 1..Len(Round)
  <2>1. 1 \in 1..Len(StepsOf(Round[i]))
    BY <1>3, PlaceFacts DEF Listed
  <2>2. FirstOf(i) = <<i, 1>> /\ <<i, 1>> \in Places
    BY <1>1, <1>3, <2>1, PlaceFacts DEF FirstOf
  <2>3. <<i, 1>> # <<0, 0>> /\ <<i, 1>>[1] = i /\ <<i, 1>>[2] = 1
    BY <1>3
  <2>4. ASSUME NEW q \in Places
        PROVE  Before(q, FirstOf(i)) <=> q[1] < i
    <3>1. q[2] \in Nat /\ q[2] >= 1
      BY PlaceFacts DEF Listed
    <3>2. QED
      BY <2>2, <2>3, <3>1 DEF Before
  <2>5. QED
    BY <1>1, <1>3, <2>2, <2>3, <2>4
<1>4. QED
  BY <1>1, <1>2, <1>3

\* Where a step at p leads: it passes p over and nothing else.
LEMMA AfterFacts ==
  ASSUME NEW p \in Places
  PROVE  /\ After(p) \in Places \cup {<<0, 0>>}
         /\ \/ After(p) = <<p[1], p[2] + 1>>
            \/ After(p) = FirstOf(p[1] + 1)
         /\ \A q \in Places : Before(q, After(p)) => Before(q, p) \/ q = p
<1>1. /\ p[1] \in 1..Len(Round) /\ Len(Round) \in Nat /\ p[1] + 1 \in 1..(Len(Round) + 1)
      /\ Len(StepsOf(Round[p[1]])) \in Nat /\ p[2] \in 1..Len(StepsOf(Round[p[1]]))
      /\ p = <<p[1], p[2]>>
  BY PlaceFacts, RoundParts DEF Listed
<1>2. \A q \in Places : /\ q[1] \in Nat /\ q[2] \in Nat /\ q = <<q[1], q[2]>>
                        /\ q[1] = p[1] => q[2] <= Len(StepsOf(Round[p[1]]))
  BY PlaceFacts, RoundParts DEF Listed
<1>3. CASE p[2] < Len(StepsOf(Round[p[1]]))
  <2>1. After(p) = <<p[1], p[2] + 1>> /\ <<p[1], p[2] + 1>> \in Places
    BY <1>1, <1>3, PlaceFacts DEF After
  <2>2. /\ <<p[1], p[2] + 1>> # <<0, 0>>
        /\ <<p[1], p[2] + 1>>[1] = p[1] /\ <<p[1], p[2] + 1>>[2] = p[2] + 1
    BY <1>1
  <2>3. \A q \in Places : Before(q, After(p)) => Before(q, p) \/ q = p
    BY <1>1, <1>2, <2>1, <2>2 DEF Before
  <2>4. QED
    BY <2>1, <2>3
<1>4. CASE ~(p[2] < Len(StepsOf(Round[p[1]])))
  <2>1. After(p) = FirstOf(p[1] + 1)
    BY <1>4 DEF After
  <2>2. \A q \in Places : Before(q, After(p)) => Before(q, p) \/ q = p
    <3>1. \A q \in Places : Before(q, After(p)) <=> q[1] < p[1] + 1
      BY <1>1, <2>1, FirstFacts
    <3>2. QED
      BY <1>1, <1>2, <1>4, <3>1 DEF Before
  <2>3. QED
    BY <1>1, <2>1, <2>2, FirstFacts
<1>5. QED
  BY <1>3, <1>4

\* Where a failure at p leads, and what it skips.
LEMMA FailureFacts ==
  ASSUME NEW p \in Places
  PROVE  /\ AfterFailure(p) \in Places \cup {<<0, 0>>}
         /\ \/ AfterFailure(p) = FirstOf(p[1] + 1)
            \/ StepAt(p).inner /\ AfterFailure(p)[1] = p[1]
         /\ \A q \in Places : Before(q, AfterFailure(p)) =>
              \/ Before(q, p)
              \/ q[1] = p[1] /\ p[2] <= q[2] /\ (StepAt(p).inner => StepAt(q).inner)
<1> DEFINE later == {q \in Places : q[1] = p[1] /\ q[2] > p[2] /\ ~StepAt(q).inner}
<1>1. /\ p[1] \in 1..Len(Round) /\ Len(Round) \in Nat /\ p[1] + 1 \in 1..(Len(Round) + 1)
      /\ p[1] \in Nat /\ p[2] \in Nat
  BY PlaceFacts, RoundParts DEF Listed
<1>2. \A q \in Places : /\ q[1] \in Nat /\ q[2] \in Nat /\ q # <<0, 0>>
                        /\ q[1] = p[1] /\ q[2] = p[2] => q = p
  BY PlaceFacts, RoundParts DEF Listed
<1>3. CASE StepAt(p).inner /\ later # {}
  <2>1. \E q \in later : \A r \in later : q[2] <= r[2]
    <3>1. {q[2] : q \in later} \subseteq Nat /\ {q[2] : q \in later} # {}
      BY <1>2, <1>3
    <3>2. PICK x \in {q[2] : q \in later} : \A y \in {q[2] : q \in later} : x <= y
      BY <3>1, Least
    <3>3. QED
      BY <3>2
  <2>2. AfterFailure(p) = CHOOSE q \in later : \A r \in later : q[2] <= r[2]
    BY <1>3 DEF AfterFailure
  <2>3. AfterFailure(p) \in later /\ \A r \in later : AfterFailure(p)[2] <= r[2]
    BY <2>1, <2>2
  <2>4. PICK n : n = AfterFailure(p)
    OBVIOUS
  <2>5. n \in Places /\ n[1] = p[1] /\ \A r \in later : n[2] <= r[2]
    BY <2>3, <2>4
  <2>6. ASSUME NEW q \in Places, Before(q, n), ~Before(q, p)
        PROVE  q[1] = p[1] /\ p[2] <= q[2] /\ StepAt(q).inner
    <3>1. q[1] = p[1] /\ p[2] <= q[2] /\ q[2] < n[2]
      BY <1>1, <1>2, <2>5, <2>6 DEF Before
    <3>2. CASE q[2] = p[2]
      BY <1>2, <1>3, <3>1, <3>2
    <3>3. CASE q[2] # p[2]
      <4>1. q[2] > p[2] /\ ~(n[2] <= q[2])
        BY <1>1, <1>2, <2>5, <3>1, <3>3
      <4>2. QED
        BY <2>5, <3>1, <4>1
    <3>4. QED
      BY <3>1, <3>2, <3>3
  <2>7. QED
    BY <1>3, <2>4, <2>5, <2>6
<1>4. CASE ~(StepAt(p).inner /\ later # {})
  <2>1. AfterFailure(p) = FirstOf(p[1] + 1)
    BY <1>4 DEF AfterFailure
  <2>2. \A q \in Places : Before(q, AfterFailure(p)) <=> q[1] < p[1] + 1
    BY <1>1, <2>1, FirstFacts
  <2>3. ASSUME NEW q \in Places, q[1] < p[1] + 1, ~Before(q, p), StepAt(p).inner
        PROVE  StepAt(q).inner
    <3>1. q[1] = p[1] /\ p[2] <= q[2]
      BY <1>1, <1>2, <2>3 DEF Before
    <3>2. CASE q[2] = p[2]
      BY <1>2, <2>3, <3>1, <3>2
    <3>3. CASE q[2] # p[2]
      <4>1. q[2] > p[2]
        BY <1>1, <1>2, <3>1, <3>3
      <4>2. QED
        BY <1>4, <2>3, <3>1, <4>1
    <3>4. QED
      BY <3>2, <3>3
  <2>4. \A q \in Places : q[1] < p[1] + 1 /\ ~Before(q, p) => q[1] = p[1] /\ p[2] <= q[2]
    BY <1>1, <1>2 DEF Before
  <2>5. QED
    BY <1>1, <2>1, <2>2, <2>3, <2>4, FirstFacts
<1>5. QED
  BY <1>3, <1>4

-----------------------------------------------------------------------------
(* The Genus monitor: the failures of a round.                             *)

Shows == [from : {"none", "start", "value", "failure"}, age : 0..1]

GenusTypes ==
  /\ place \in Places \cup {<<0, 0>>}
  /\ gauges \in [Gauges -> Shows]
  /\ lost \subseteq Places

AllOld == \A g \in Gauges : gauges[g].age = 1

\* The loss of p explains that a gauge of q was not set.
Explains(p, q) ==
  /\ p[1] = q[1] /\ p[2] <= q[2]
  /\ StepAt(p).inner => StepAt(q).inner
  /\ StepAt(p).kind # "zero"

\* Every gauge of a step of this round that lies behind is set, or a loss
\* explains why it is not.
Contained ==
  \A q \in Places : Before(q, place) =>
    \A g \in GaugesAt(q) : gauges[g].age > 0 => \E p \in lost : Explains(p, q)

RoundInv == GenusTypes /\ ((Asleep /\ AllOld) \/ Contained)

\* A step at work: the gauges it sets are recent, the others stay, and what is
\* passed over is explained.
LEMMA ShowFacts ==
  ASSUME GenusTypes, NEW names \in SUBSET Gauges, NEW from \in {"value", "failure"},
         gauges' = Show(names, from)
  PROVE  /\ gauges' \in [Gauges -> Shows]
         /\ \A g \in names : gauges'[g].age = 0 /\ gauges'[g].from = from
         /\ \A g \in Gauges \ names : gauges'[g] = gauges[g]
BY DEF GenusTypes, Show, Shows

LEMMA RoundStep ==
  ASSUME RoundInv, ~Asleep, NEW names \in SUBSET Gauges,
         gauges' \in [Gauges -> Shows],
         \A g \in names : gauges'[g].age = 0,
         \A g \in Gauges \ names : gauges'[g] = gauges[g],
         place' \in Places \cup {<<0, 0>>},
         lost \subseteq lost', lost' \subseteq lost \cup {place},
         \A q \in Places : Before(q, place') =>
           \/ Before(q, place)
           \/ q = place /\ GaugesAt(q) \subseteq names
           \/ place \in lost' /\ Explains(place, q)
  PROVE  RoundInv'
<1>1. place \in Places /\ lost' \subseteq Places
  BY DEF RoundInv, GenusTypes, Asleep
<1>2. Contained
  BY DEF RoundInv, Asleep
<1>3. ASSUME NEW q \in Places, Before(q, place'), NEW g \in GaugesAt(q),
             gauges'[g].age > 0
      PROVE  \E p \in lost' : Explains(p, q)
  <2>1. g \in Gauges /\ g \notin names /\ gauges'[g] = gauges[g]
    BY <1>3 DEF Gauges
  <2>2. CASE Before(q, place)
    BY <1>1, <1>2, <1>3, <2>1, <2>2 DEF Contained
  <2>3. CASE place \in lost' /\ Explains(place, q)
    BY <2>3
  <2>4. QED
    BY <1>3, <2>1, <2>2, <2>3
<1>4. Contained'
  BY <1>3 DEF Contained, Before, GaugesAt, Explains
<1>5. GenusTypes'
  BY <1>1 DEF GenusTypes
<1>6. QED
  BY <1>4, <1>5 DEF RoundInv

LEMMA PlaceGauges ==
  \A p \in Places : GaugesAt(p) \subseteq Gauges
BY DEF Gauges

LEMMA RoundInductive ==
  ASSUME RoundInv, GenusNext
  PROVE  RoundInv'
<1>1. CASE StartRound
  <2>1. /\ gauges' \in [Gauges -> Shows] /\ place' = FirstOf(1) /\ lost' = {}
    BY <1>1 DEF StartRound, RoundInv, GenusTypes, Shows
  <2>2. 1 \in 1..(Len(Round) + 1) /\ \A q \in Places : ~(q[1] < 1)
    BY RoundParts, PlaceFacts
  <2>3. /\ place' \in Places \cup {<<0, 0>>}
        /\ \A q \in Places : ~Before(q, place')
    BY <2>1, <2>2, FirstFacts
  <2>4. Contained'
    BY <2>3 DEF Contained, Before
  <2>5. QED
    BY <2>1, <2>3, <2>4 DEF RoundInv, GenusTypes
<1>2. ASSUME ~Asleep, RunStep
      PROVE  RoundInv'
  <2>1. /\ place \in Places /\ GaugesAt(place) \subseteq Gauges
        /\ place[2] \in Nat /\ ~StartRound
    BY <1>2, PlaceGauges, PlaceFacts DEF RoundInv, GenusTypes, Asleep, StartRound, Listed
  <2>2. PICK names \in SUBSET Gauges : names = GaugesAt(place)
    BY <2>1
  <2>3. ASSUME NEW from \in {"value", "failure"}, gauges' = Show(GaugesAt(place), from),
               place' = After(place), lost \subseteq lost', lost' \subseteq lost \cup {place}
        PROVE  RoundInv'
    <3>1. /\ gauges' \in [Gauges -> Shows]
          /\ \A g \in names : gauges'[g].age = 0
          /\ \A g \in Gauges \ names : gauges'[g] = gauges[g]
      BY <2>2, <2>3, ShowFacts DEF RoundInv
    <3>2. /\ place' \in Places \cup {<<0, 0>>}
          /\ \A q \in Places : Before(q, place') =>
               Before(q, place) \/ (q = place /\ GaugesAt(q) \subseteq names)
      BY <2>1, <2>2, <2>3, AfterFacts
    <3>3. QED
      BY <1>2, <2>3, <3>1, <3>2, RoundStep
  <2>4. CASE StepWorks \/ ReadsZero
    BY <2>3, <2>4 DEF StepWorks, ReadsZero
  <2>5. CASE HasNoValue
    <3>1. StepAt(place).kind # "zero" /\ Explains(place, place)
      BY <2>1, <2>5 DEF HasNoValue, Explains
    <3>2. /\ gauges' = gauges /\ place' = After(place) /\ lost' = lost \cup {place}
      BY <2>5 DEF HasNoValue
    <3>3. /\ place' \in Places \cup {<<0, 0>>} /\ place \in lost'
          /\ \A q \in Places : Before(q, place') => Before(q, place) \/ Explains(place, q)
      BY <2>1, <3>1, <3>2, AfterFacts
    <3>4. {} \in SUBSET Gauges /\ gauges' \in [Gauges -> Shows]
      BY <3>2 DEF RoundInv, GenusTypes
    <3>5. QED
      BY <1>2, <3>2, <3>3, <3>4, RoundStep
  <2>6. CASE Raises
    <3>1. /\ StepAt(place).kind # "zero" /\ lost' = lost \cup {place}
          /\ place' = AfterFailure(place)
          /\ gauges' = Show(Gauges \cap {<<Round[place[1]], "up">>}, "failure")
      BY <2>6 DEF Raises
    <3>2. \A q \in Places : Before(q, place') => Before(q, place) \/ Explains(place, q)
      BY <2>1, <3>1, FailureFacts DEF Explains
    <3>3. PICK up \in SUBSET Gauges : up = Gauges \cap {<<Round[place[1]], "up">>}
      OBVIOUS
    <3>4. /\ gauges' \in [Gauges -> Shows]
          /\ \A g \in up : gauges'[g].age = 0
          /\ \A g \in Gauges \ up : gauges'[g] = gauges[g]
      <4>1. gauges' = Show(up, "failure")
        BY <3>1, <3>3
      <4>2. QED
        BY <4>1, ShowFacts DEF RoundInv
    <3>5. place' \in Places \cup {<<0, 0>>} /\ place \in lost'
      BY <2>1, <3>1, FailureFacts
    <3>6. QED
      BY <1>2, <3>1, <3>2, <3>4, <3>5, RoundStep
  <2>7. QED
    BY <1>2, <2>1, <2>4, <2>5, <2>6 DEF RunStep
<1>3. CASE RestartMonitor
  BY <1>3 DEF RestartMonitor, RoundInv, GenusTypes, Unset, Shows, Asleep, AllOld
<1>4. QED
  BY <1>1, <1>2, <1>3 DEF GenusNext, RunStep, StartRound, StepWorks, ReadsZero,
                          HasNoValue, Raises

-----------------------------------------------------------------------------
(* The Genus monitor: what genus_up promises.                              *)

\* The collector of a Genus asks in this order.
LEMMA GenusNames ==
  /\ GenusMetrics[1].names = {} /\ GenusMetrics[2].names = {"hub_age"}
  /\ GenusMetrics[3].names = {"replica_lag"} /\ GenusMetrics[4].names = {"up"}
  /\ \A k \in 1..4 : ~GenusMetrics[k].inner /\ GenusMetrics[k].kind # "keep"
  /\ Len(GenusMetrics) = 4
<1>1. /\ GenusMetrics[1].names = {} /\ GenusMetrics[2].names = {"hub_age"}
      /\ GenusMetrics[3].names = {"replica_lag"} /\ GenusMetrics[4].names = {"up"}
  BY DEF GenusMetrics, Connect, Safe, Raw, Step
<1>2. \A k \in 1..4 : ~GenusMetrics[k].inner /\ GenusMetrics[k].kind # "keep"
  BY DEF GenusMetrics, Connect, Safe, Raw, Step
<1>3. Len(GenusMetrics) = 4
  BY DEF GenusMetrics
<1>4. QED
  BY <1>1, <1>2, <1>3

IsGenus(part) == part[1] = "genus"

LEMMA GenusPlaces ==
  ASSUME NEW p \in Places, IsGenus(Round[p[1]])
  PROVE  /\ p[2] \in 1..4 /\ StepAt(p) = GenusMetrics[p[2]]
         /\ Len(StepsOf(Round[p[1]])) = 4
<1>1. StepsOf(Round[p[1]]) = GenusMetrics
  BY DEF IsGenus, StepsOf, Steps
<1>2. QED
  BY <1>1, GenusNames, PlaceFacts DEF StepAt

\* genus_up is set by these collectors only, and they set two other gauges.
LEMMA UpFacts ==
  /\ \A p \in Places : \A g \in GaugesAt(p) :
       g[1] = Round[p[1]] /\ g[2] \in StepAt(p).names /\ g = <<g[1], g[2]>>
  /\ \A g \in Gauges : g[2] = "up" => IsGenus(g[1])
  /\ \A g \in Gauges : IsGenus(g[1]) => g[2] \in {"hub_age", "replica_lag", "up"}
<1>1. ASSUME NEW p \in Places, NEW g \in GaugesAt(p)
      PROVE  g[1] = Round[p[1]] /\ g[2] \in StepAt(p).names /\ g = <<g[1], g[2]>>
  BY DEF GaugesAt
<1>2. ASSUME NEW p \in Places, ~IsGenus(Round[p[1]])
      PROVE  "up" \notin StepAt(p).names
  <2>1. Round[p[1]] \in Parts /\ p[2] \in 1..Len(StepsOf(Round[p[1]]))
    BY RoundParts, PlaceFacts
  <2>2. /\ Round[p[1]][1] \in DOMAIN Steps /\ Round[p[1]][1] # "genus"
    BY <1>2, <2>1 DEF Parts, IsGenus
  <2>3. Downless(StepsOf(Round[p[1]])) /\ Listed(StepsOf(Round[p[1]]))
    BY <2>2, CollectorsListed DEF StepsOf
  <2>4. QED
    BY <2>1, <2>3 DEF StepAt, Downless, Listed
<1>3. \A g \in Gauges : \E p \in Places : g \in GaugesAt(p)
  BY DEF Gauges
<1>4. \A p \in Places : IsGenus(Round[p[1]]) =>
        StepAt(p).names \subseteq {"hub_age", "replica_lag", "up"}
  BY GenusPlaces, GenusNames
<1>5. QED
  BY <1>1, <1>2, <1>3, <1>4

\* Until the collector of a Genus reaches genus_up, what it has set is recent ...
SetSoFar ==
  ~Asleep /\ IsGenus(Round[place[1]]) =>
    \A g \in Gauges : g[1] = Round[place[1]] =>
      /\ place[2] > 2 /\ g[2] = "hub_age" => gauges[g].age = 0
      /\ place[2] > 3 /\ g[2] = "replica_lag" => gauges[g].age = 0

\* ... and when genus_up was set to 1 in this round, so was the rest.
UpRecent ==
  \A g, h \in Gauges :
    g[1] = h[1] /\ g[2] = "up" /\ gauges[g].from = "value" /\ gauges[g].age = 0 =>
      gauges[h].age = 0

UpInv == SetSoFar /\ UpRecent

\* A collector that begins has nothing to show yet.
LEMMA BeginsUnset ==
  ASSUME NEW i \in 1..(Len(Round) + 1), place' = FirstOf(i)
  PROVE  SetSoFar'
<1>1. place' = <<0, 0>> \/ place'[2] = 1
  BY FirstFacts
<1>2. QED
  BY <1>1 DEF SetSoFar, Asleep

\* One step of a collector keeps the promise, with a value or with 0.
LEMMA UpStep ==
  ASSUME RoundInv, UpInv, ~Asleep, NEW from \in {"value", "failure"},
         gauges' = Show(GaugesAt(place), from), place' = After(place)
  PROVE  UpInv'
<1>1. place \in Places /\ GaugesAt(place) \subseteq Gauges
  BY PlaceGauges DEF RoundInv, GenusTypes, Asleep
<1>2. /\ \A g \in GaugesAt(place) : gauges'[g].age = 0
      /\ \A g \in Gauges \ GaugesAt(place) : gauges'[g] = gauges[g]
  <2>1. PICK names \in SUBSET Gauges : names = GaugesAt(place)
    BY <1>1
  <2>2. QED
    BY <2>1, ShowFacts DEF RoundInv
<1>3. \A g \in Gauges : gauges[g].age = 0 => gauges'[g].age = 0
  BY <1>2
<1>4. PICK i, k : place = <<i, k>> /\ i = place[1] /\ k = place[2]
  BY <1>1, PlaceFacts
<1>5. i \in 1..Len(Round) /\ i + 1 \in 1..(Len(Round) + 1) /\ k \in Nat
  BY <1>1, <1>4, PlaceFacts, RoundParts DEF Listed
<1>6. ASSUME NEW g \in Gauges, IsGenus(Round[i]), g[1] = Round[i]
      PROVE  /\ k = 2 /\ g[2] = "hub_age" => g \in GaugesAt(place)
             /\ k = 3 /\ g[2] = "replica_lag" => g \in GaugesAt(place)
             /\ g[2] = "up" /\ g \in GaugesAt(place) => k = 4
  <2>1. k \in 1..4 /\ StepAt(place) = GenusMetrics[k]
    BY <1>1, <1>4, <1>6, GenusPlaces
  <2>2. g = <<Round[i], g[2]>>
    BY <1>6, UpFacts DEF Gauges
  <2>3. g[2] \in StepAt(place).names => g \in GaugesAt(place)
    BY <1>4, <2>2 DEF GaugesAt
  <2>4. g \in GaugesAt(place) => g[2] \in StepAt(place).names
    BY <1>1, UpFacts
  <2>5. QED
    BY <2>1, <2>3, <2>4, GenusNames
<1>7. SetSoFar'
  <2>1. CASE place' = FirstOf(i + 1)
    BY <1>5, <2>1, BeginsUnset
  <2>2. CASE place' = <<i, k + 1>>
    <3>1. place'[1] = i /\ place'[2] = k + 1
      BY <2>2
    <3>2. ASSUME NEW g \in Gauges, IsGenus(Round[i]), g[1] = Round[i]
          PROVE  /\ k + 1 > 2 /\ g[2] = "hub_age" => gauges'[g].age = 0
                 /\ k + 1 > 3 /\ g[2] = "replica_lag" => gauges'[g].age = 0
      <4>1. /\ k > 2 /\ g[2] = "hub_age" => gauges[g].age = 0
            /\ k > 3 /\ g[2] = "replica_lag" => gauges[g].age = 0
        BY <1>4, <3>2 DEF UpInv, SetSoFar
      <4>2. QED
        BY <1>2, <1>3, <1>5, <1>6, <3>2, <4>1
    <3>3. QED
      BY <3>1, <3>2 DEF SetSoFar
  <2>3. QED
    BY <1>1, <1>4, <2>1, <2>2, AfterFacts
<1>8. ASSUME NEW g \in Gauges, NEW h \in Gauges, g[1] = h[1], g[2] = "up",
             gauges'[g].from = "value", gauges'[g].age = 0
      PROVE  gauges'[h].age = 0
  <2>1. CASE g \in GaugesAt(place)
    <3>1. g[1] = Round[i] /\ IsGenus(Round[i])
      BY <1>1, <1>4, <1>8, <2>1, UpFacts
    <3>2. k = 4
      BY <1>6, <1>8, <2>1, <3>1
    <3>3. h[2] \in {"hub_age", "replica_lag", "up"} /\ h = <<h[1], h[2]>>
      BY <1>8, <3>1, UpFacts DEF Gauges
    <3>4. h[2] = "up" => h = g
      BY <1>8, <3>3, UpFacts DEF Gauges
    <3>5. h[2] # "up" => gauges[h].age = 0
      BY <1>4, <1>8, <3>1, <3>2, <3>3 DEF UpInv, SetSoFar
    <3>6. QED
      BY <1>3, <1>8, <3>4, <3>5
  <2>2. CASE g \notin GaugesAt(place)
    BY <1>2, <1>3, <1>8, <2>2 DEF UpInv, UpRecent
  <2>3. QED
    BY <2>1, <2>2
<1>9. QED
  BY <1>7, <1>8 DEF UpInv, UpRecent

\* A step that raises turns genus_up to 0 and ends the collector of a Genus.
LEMMA UpRaises ==
  ASSUME RoundInv, UpInv, Raises
  PROVE  UpInv'
<1>1. /\ ~Asleep /\ place \in Places
      /\ gauges' = Show(Gauges \cap {<<Round[place[1]], "up">>}, "failure")
      /\ place' = AfterFailure(place)
  BY DEF RoundInv, GenusTypes, Asleep, Raises
<1>2. PICK up \in SUBSET Gauges : up = Gauges \cap {<<Round[place[1]], "up">>}
  OBVIOUS
<1>3. /\ \A g \in up : gauges'[g].age = 0 /\ gauges'[g].from = "failure"
      /\ \A g \in Gauges \ up : gauges'[g] = gauges[g]
  <2>1. gauges' = Show(up, "failure")
    BY <1>1, <1>2
  <2>2. QED
    BY <2>1, ShowFacts DEF RoundInv
<1>4. place[1] + 1 \in 1..(Len(Round) + 1)
  BY <1>1, PlaceFacts, RoundParts
<1>5. SetSoFar'
  <2>1. CASE AfterFailure(place) = FirstOf(place[1] + 1)
    BY <1>1, <1>4, <2>1, BeginsUnset
  <2>2. CASE StepAt(place).inner /\ AfterFailure(place)[1] = place[1]
    <3>1. ~IsGenus(Round[place[1]])
      BY <1>1, <2>2, GenusPlaces, GenusNames
    <3>2. place'[1] = place[1]
      BY <1>1, <2>2
    <3>3. ~IsGenus(Round[place'[1]])
      BY <3>1, <3>2
    <3>4. QED
      BY <3>3 DEF SetSoFar
  <2>3. QED
    BY <1>1, <2>1, <2>2, FailureFacts
<1>6. UpRecent'
  BY <1>3 DEF UpInv, UpRecent
<1>7. QED
  BY <1>5, <1>6 DEF UpInv

LEMMA UpKeeps ==
  ASSUME RoundInv, UpInv, HasNoValue
  PROVE  UpInv'
<1>1. /\ ~Asleep /\ place \in Places /\ StepAt(place).kind = "keep"
      /\ gauges' = gauges /\ place' = After(place)
  BY DEF RoundInv, GenusTypes, Asleep, HasNoValue
<1>2. ~IsGenus(Round[place[1]])
  BY <1>1, GenusPlaces, GenusNames
<1>3. SetSoFar'
  <2>1. CASE After(place) = FirstOf(place[1] + 1)
    <3>1. place[1] + 1 \in 1..(Len(Round) + 1)
      BY <1>1, PlaceFacts, RoundParts
    <3>2. QED
      BY <1>1, <2>1, <3>1, BeginsUnset
  <2>2. CASE After(place) = <<place[1], place[2] + 1>>
    <3>1. place'[1] = place[1]
      BY <1>1, <2>2
    <3>2. ~IsGenus(Round[place'[1]])
      BY <1>2, <3>1
    <3>3. QED
      BY <3>2 DEF SetSoFar
  <2>3. QED
    BY <1>1, <2>1, <2>2, AfterFacts
<1>4. QED
  BY <1>1, <1>3 DEF UpInv, UpRecent

LEMMA UpInductive ==
  ASSUME RoundInv, UpInv, GenusNext
  PROVE  UpInv'
<1>1. CASE StartRound
  <2>1. place' = FirstOf(1) /\ 1 \in 1..(Len(Round) + 1)
    BY <1>1, RoundParts DEF StartRound
  <2>2. SetSoFar'
    BY <2>1, BeginsUnset
  <2>3. \A g \in Gauges : gauges'[g].age = 1
    BY <1>1 DEF StartRound, RoundInv, GenusTypes, Shows
  <2>4. QED
    BY <2>2, <2>3 DEF UpInv, UpRecent
<1>2. CASE StepWorks \/ ReadsZero
  BY <1>2, UpStep DEF StepWorks, ReadsZero
<1>3. CASE HasNoValue
  BY <1>3, UpKeeps
<1>4. CASE Raises
  BY <1>4, UpRaises
<1>5. CASE RestartMonitor
  <2>1. place' = <<0, 0>> /\ \A g \in Gauges : gauges'[g].age = 1
    BY <1>5 DEF RestartMonitor, Unset
  <2>2. QED
    BY <2>1 DEF UpInv, UpRecent, SetSoFar, Asleep
<1>6. QED
  BY <1>1, <1>2, <1>3, <1>4, <1>5 DEF GenusNext, RunStep

LEMMA GenusBegins ==
  ASSUME GenusInit
  PROVE  RoundInv /\ UpInv
BY DEF GenusInit, RoundInv, GenusTypes, Unset, Shows, Asleep, AllOld, UpInv, UpRecent,
       SetSoFar

LEMMA RoundContained == RoundInv => FailureContained
<1>1. ASSUME RoundInv, Asleep, ~AllOld
      PROVE  Contained /\ \A q \in Places : Before(q, place)
  BY <1>1 DEF RoundInv, Asleep, Before
<1>2. ASSUME RoundInv, NEW g \in Gauges, gauges[g].age = 0
      PROVE  ~AllOld
  BY <1>2 DEF AllOld
<1>3. QED
  BY <1>1, <1>2 DEF FailureContained, Contained, Explains

LEMMA UpTells == RoundInv /\ UpInv => UpMeansRecent
<1>1. ASSUME RoundInv
      PROVE  \A g \in Gauges : gauges[g].age \in 0..1
  BY <1>1 DEF RoundInv, GenusTypes, Shows
<1>2. QED
  BY <1>1 DEF UpInv, UpRecent, UpMeansRecent

\* Of all programs only the Genus monitor moves its gauges.
LEMMA GenusSteps ==
  ASSUME RoundInv, UpInv, [Next]_programVars
  PROVE  RoundInv' /\ UpInv'
<1>1. GenusNext \/ UNCHANGED genusVars
  BY DEF Next, Genus, FilesTable, Vcenter, Supervisor, Flash, Exporting, programVars
<1>2. CASE GenusNext
  BY <1>2, RoundInductive, UpInductive
<1>3. CASE UNCHANGED genusVars
  <2>1. place' = place /\ gauges' = gauges /\ lost' = lost
    BY <1>3 DEF genusVars
  <2>2. RoundInv'
    BY <2>1 DEF RoundInv, GenusTypes, Asleep, AllOld, Contained, Before
  <2>3. UpInv'
    BY <2>1 DEF UpInv, SetSoFar, UpRecent, Asleep
  <2>4. QED
    BY <2>2, <2>3
<1>4. QED
  BY <1>1, <1>2, <1>3

\* Whatever the fuels and the faults: after a round of the Genus monitor, a
\* gauge that was not set in it belongs to a part that lost that step, or an
\* earlier one, by raising or for want of a value (genus-monitor app.py:340-1052).
THEOREM FailuresAlwaysContained == Spec => []FailureContained
<1>1. Init => RoundInv /\ UpInv
  BY GenusBegins DEF Init
<1>2. RoundInv /\ UpInv /\ [Next]_programVars => (RoundInv /\ UpInv)'
  BY GenusSteps
<1>3. RoundInv /\ UpInv => FailureContained
  BY RoundContained
<1>4. QED
  BY <1>1, <1>2, <1>3, PTL DEF Spec

\* Whatever the fuels and the faults: whenever genus_up is 1, the other gauges
\* of that Genus are as recent, at any moment of a round (app.py:340-368).
THEOREM UpAlwaysRecent == Spec => []UpMeansRecent
<1>1. Init => RoundInv /\ UpInv
  BY GenusBegins DEF Init
<1>2. RoundInv /\ UpInv /\ [Next]_programVars => (RoundInv /\ UpInv)'
  BY GenusSteps
<1>3. RoundInv /\ UpInv => UpMeansRecent
  BY UpTells
<1>4. QED
  BY <1>1, <1>2, <1>3, PTL DEF Spec

-----------------------------------------------------------------------------
(* The table of file statuses.                                             *)

\* What the table shows as processed is, and a pass that is about to write
\* knows of it, and of nothing that is not processed.
TableInv ==
  /\ rows \in [Files -> {"none", "waiting", "processed"}]
  /\ \A f \in Files : rows[f] = "processed" => f \in processed
  /\ pass.pc = "known" =>
       /\ pass.known \subseteq processed
       /\ \A f \in pass.window : f \in Files /\ rows[f] = "processed" => f \in pass.known

LEMMA TableInductive ==
  ASSUME TableInv, FilesNext \/ UNCHANGED filesVars
  PROVE  /\ TableInv'
         /\ \A f \in Files : rows[f] = "processed" => rows'[f] = "processed"
<1>1. CASE FetchSent
  <2>1. pass' = [NoPass EXCEPT !.pc = "sent", !.window = Window]
    BY <1>1 DEF FetchSent
  <2>2. pass'.pc # "known"
    BY <2>1 DEF NoPass
  <2>3. QED
    BY <1>1, <2>2 DEF FetchSent, TableInv
<1>2. CASE FetchProcessed
  <2>1. PICK now : now = processed \cap pass.window
    OBVIOUS
  <2>2. pass' = [pass EXCEPT !.pc = "known", !.known = now]
    BY <1>2, <2>1 DEF FetchProcessed
  <2>3. pass'.pc = "known" => pass'.window = pass.window
    BY <2>2
  <2>4. pass'.pc = "known" => pass'.known = now \/ pass' = pass
    BY <2>2
  <2>5. QED
    BY <1>2, <2>1, <2>3, <2>4 DEF FetchProcessed, TableInv
<1>3. CASE WriteRows
  <2>1. \A f \in Files : rows'[f] = IF f \in Recent(pass.window)
                                    THEN Status(f, pass.known) ELSE rows[f]
    BY <1>3 DEF WriteRows
  <2>2. /\ rows' \in [Files -> {"none", "waiting", "processed"}]
        /\ pass.pc = "known" /\ pass'.pc = "idle" /\ processed' = processed
        /\ Recent(pass.window) \subseteq pass.window
    BY <1>3 DEF WriteRows, TableInv, Recent, Status, NoPass
  <2>3. QED
    BY <2>1, <2>2 DEF TableInv, Status
<1>4. CASE PassFails
  BY <1>4 DEF PassFails, NoPass, TableInv
<1>5. CASE SendFile \/ ExpireFile \/ UNCHANGED filesVars
  <2>1. rows' = rows /\ processed' = processed /\ pass' = pass
    BY <1>5 DEF SendFile, ExpireFile, filesVars
  <2>2. QED
    BY <2>1 DEF TableInv
<1>6. CASE \E f \in Files : ProcessFile(f)
  BY <1>6 DEF ProcessFile, TableInv
<1>7. QED
  BY <1>1, <1>2, <1>3, <1>4, <1>5, <1>6 DEF FilesNext, PassStep

LEMMA TableSteps ==
  ASSUME TableInv, [Next]_programVars
  PROVE  /\ TableInv'
         /\ \A f \in Files : rows[f] = "processed" => rows'[f] = "processed"
<1>1. FilesNext \/ UNCHANGED filesVars
  BY DEF Next, Genus, FilesTable, Vcenter, Supervisor, Flash, Exporting, programVars
<1>2. QED
  BY <1>1, TableInductive

\* However many files, days and failed passes: a row that shows a file as
\* processed is never turned back (genus-monitor app.py:411-454).
THEOREM ProcessedStays == Spec => ProcessedForGood
<1>1. Init => TableInv
  BY DEF Init, FilesInit, TableInv, NoPass
<1>2. TableInv /\ [Next]_programVars => TableInv'
  BY TableSteps
<1>3. TableInv /\ [Next]_programVars =>
        [\A f \in Files : rows[f] = "processed" => rows'[f] = "processed"]_filesVars
  BY TableSteps
<1>4. QED
  BY <1>1, <1>2, <1>3, PTL DEF Spec, ProcessedForGood

-----------------------------------------------------------------------------
(* The check of the supervisor workers.                                    *)

\* A push in progress has the states of one answer of supervisorctl, and they
\* still hold for the workers that did not change since; one that has no line is
\* stopping, or no worker has one and it is down.
GroupInv ==
  /\ workers \in [Workers -> WorkerStates]
  /\ ~daemon => \A w \in Workers : workers[w] = "EXITED"
  /\ DOMAIN check = {"pc", "states", "moved"} /\ "reachable" \in DOMAIN pushed
  /\ check.pc = "push" =>
       /\ DOMAIN check.states \subseteq Workers
       /\ \A w \in Workers \ check.moved :
            \/ w \in DOMAIN check.states /\ check.states[w] = workers[w]
            \/ w \notin DOMAIN check.states /\ workers[w] \notin Parsed
            \/ DOMAIN check.states = {} /\ workers[w] \notin CountedUp

Current ==
  pushed' # pushed /\ pushed'.reachable =>
    \A w \in Workers \ check.moved : workers[w] \in Parsed =>
       (label[w] \in pushed'.up <=> workers[w] \in CountedUp)

LEMMA CheckFacts ==
  /\ \A pc, states : /\ Checking(pc, states).pc = pc
                     /\ Checking(pc, states).states = states
                     /\ Checking(pc, states).moved = {}
                     /\ DOMAIN Checking(pc, states) = {"pc", "states", "moved"}
  /\ NoCheck.pc = "idle" /\ DOMAIN NoCheck = {"pc", "states", "moved"}
  /\ DOMAIN NoLines = {} /\ "EXITED" \notin CountedUp
BY DEF Checking, NoCheck, NoLines, CountedUp

\* A status that goes straight to the push, or that comes after a restart.
LEMMA FreshAnswer ==
  ASSUME GroupInv, UNCHANGED <<workers, daemon, pushed>>,
         check' = Checking("push", Answer)
  PROVE  GroupInv'
<1>1. check'.states = Answer /\ DOMAIN check' = {"pc", "states", "moved"}
  BY CheckFacts
<1>2. CASE daemon
  <2>1. /\ DOMAIN Answer = {v \in Workers : workers[v] \in Parsed}
        /\ \A w \in DOMAIN Answer : Answer[w] = workers[w]
    BY <1>2 DEF Answer
  <2>2. QED
    BY <1>1, <1>2, <2>1 DEF GroupInv
<1>3. CASE ~daemon
  <2>1. DOMAIN Answer = {} /\ \A w \in Workers : workers[w] \notin CountedUp
    BY <1>3, CheckFacts DEF Answer, GroupInv
  <2>2. QED
    BY <1>1, <1>3, <2>1 DEF GroupInv
<1>4. QED
  BY <1>2, <1>3

LEMMA ChangesKeep ==
  ASSUME GroupInv,
         ToggleDaemon \/ \E w \in Workers, s \in WorkerStates : ChangeWorker(w, s)
  PROVE  GroupInv'
<1>1. ASSUME NEW some, Moved(some)
      PROVE  /\ DOMAIN check' = {"pc", "states", "moved"}
             /\ check'.pc = check.pc /\ check'.states = check.states
             /\ check.pc = "push" => check'.moved = check.moved \cup some
  <2>1. CASE check.pc = "push"
    <3>1. PICK all : all = check.moved \cup some
      OBVIOUS
    <3>2. check' = [check EXCEPT !.moved = all]
      BY <1>1, <2>1, <3>1 DEF Moved
    <3>3. QED
      BY <3>1, <3>2 DEF GroupInv
  <2>2. CASE check.pc # "push"
    BY <1>1, <2>2 DEF Moved, GroupInv
  <2>3. QED
    BY <2>1, <2>2
<1>2. CASE ToggleDaemon
  <2>1. /\ DOMAIN check' = {"pc", "states", "moved"}
        /\ check'.pc = check.pc /\ check'.states = check.states
        /\ check.pc = "push" => check'.moved = check.moved \cup Workers
    BY <1>1, <1>2 DEF ToggleDaemon
  <2>2. /\ workers' \in [Workers -> WorkerStates]
        /\ ~daemon' => \A w \in Workers : workers'[w] = "EXITED"
    BY <1>2 DEF ToggleDaemon, WorkerStates
  <2>3. QED
    BY <1>2, <2>1, <2>2 DEF ToggleDaemon, GroupInv
<1>3. ASSUME NEW w \in Workers, NEW s \in WorkerStates, ChangeWorker(w, s)
      PROVE  GroupInv'
  <2>1. /\ DOMAIN check' = {"pc", "states", "moved"}
        /\ check'.pc = check.pc /\ check'.states = check.states
        /\ check.pc = "push" => check'.moved = check.moved \cup {w}
    BY <1>1, <1>3 DEF ChangeWorker
  <2>2. /\ workers' \in [Workers -> WorkerStates] /\ daemon' /\ daemon
        /\ \A v \in Workers \ {w} : workers'[v] = workers[v]
    BY <1>3 DEF ChangeWorker, GroupInv
  <2>3. QED
    BY <1>3, <2>1, <2>2 DEF ChangeWorker, GroupInv
<1>4. QED
  BY <1>2, <1>3

LEMMA CheckKeeps ==
  ASSUME GroupInv, CheckStep
  PROVE  GroupInv'
<1>1. CASE ReadStatus
  <2>1. UNCHANGED <<workers, daemon, pushed>>
    BY <1>1 DEF ReadStatus
  <2>2. \/ check' = Continue(Answer)
        \/ check' = [NoCheck EXCEPT !.pc = "unreachable"]
    BY <1>1 DEF ReadStatus
  <2>3. CASE check' = [NoCheck EXCEPT !.pc = "unreachable"]
    <3>1. check'.pc = "unreachable" /\ DOMAIN check' = {"pc", "states", "moved"}
      BY <2>3, CheckFacts
    <3>2. QED
      BY <2>1, <3>1 DEF GroupInv
  <2>4. CASE check' = Continue(Answer)
    <3>1. \/ check' = NoCheck \/ check' = Checking("start", Answer)
          \/ check' = Checking("push", Answer)
      BY <2>4 DEF Continue
    <3>2. CASE check' = NoCheck \/ check' = Checking("start", Answer)
      <4>1. check'.pc # "push" /\ DOMAIN check' = {"pc", "states", "moved"}
        BY <3>2, CheckFacts
      <4>2. QED
        BY <2>1, <4>1 DEF GroupInv
    <3>3. QED
      BY <2>1, <3>1, <3>2, FreshAnswer
  <2>5. QED
    BY <2>2, <2>3, <2>4
<1>2. CASE PushUnreachable \/ PushStates
  <2>1. UNCHANGED <<workers, daemon>> /\ check' = NoCheck
    BY <1>2 DEF PushUnreachable, PushStates
  <2>2. "reachable" \in DOMAIN pushed'
    BY <1>2 DEF PushUnreachable, PushStates, Series, GroupInv
  <2>3. QED
    BY <2>1, <2>2, CheckFacts DEF GroupInv
<1>3. CASE StartUnhealthy
  <2>1. check' = [check EXCEPT !.pc = "recheck"] /\ UNCHANGED <<daemon, pushed>>
    BY <1>3 DEF StartUnhealthy
  <2>2. check'.pc # "push" /\ DOMAIN check' = {"pc", "states", "moved"}
    BY <2>1 DEF GroupInv
  <2>3. workers' \in [Workers -> WorkerStates] /\ (~daemon => workers' = workers)
    BY <1>3 DEF StartUnhealthy, GroupInv, WorkerStates
  <2>4. QED
    BY <2>1, <2>2, <2>3 DEF GroupInv
<1>4. CASE Recheck
  <2>1. /\ UNCHANGED <<workers, daemon, pushed>>
        /\ check' = NoCheck \/ check' = Checking("push", Answer)
    BY <1>4 DEF Recheck
  <2>2. CASE check' = NoCheck
    BY <2>1, <2>2, CheckFacts DEF GroupInv
  <2>3. QED
    BY <2>1, <2>2, FreshAnswer
<1>5. QED
  BY <1>1, <1>2, <1>3, <1>4 DEF CheckStep

LEMMA PushIsCurrent ==
  ASSUME GroupInv, SupervisorNext \/ UNCHANGED supervisorVars
  PROVE  Current
<1>1. CASE PushStates
  <2>1. SUFFICES ASSUME pushed' # pushed, NEW w \in Workers \ check.moved,
                        workers[w] \in Parsed
                 PROVE  label[w] \in pushed'.up <=> workers[w] \in CountedUp
    BY DEF Current
  <2>2. Distinct(check.states) /\ pushed' = Series(check.states) /\ check.pc = "push"
    BY <1>1, <2>1 DEF PushStates
  <2>3. pushed'.up = {label[v] : v \in {u \in DOMAIN check.states :
                                          check.states[u] \in CountedUp}}
    BY <2>2 DEF Series
  <2>4. CASE w \notin DOMAIN check.states
    <3>1. DOMAIN check.states = {} /\ workers[w] \notin CountedUp
      BY <2>1, <2>2, <2>4 DEF GroupInv
    <3>2. QED
      BY <2>3, <3>1
  <2>5. CASE w \in DOMAIN check.states
    <3>1. check.states[w] = workers[w]
      BY <2>1, <2>2, <2>5 DEF GroupInv
    <3>2. \A v \in DOMAIN check.states : label[v] = label[w] => v = w
      BY <2>2, <2>5 DEF Distinct
    <3>3. QED
      BY <2>3, <2>5, <3>1, <3>2
  <2>6. QED
    BY <2>4, <2>5
<1>2. CASE PushUnreachable
  <2>1. \/ pushed' = [pushed EXCEPT !.reachable = FALSE] \/ pushed' = pushed
    BY <1>2 DEF PushUnreachable
  <2>2. QED
    BY <2>1 DEF Current, GroupInv
<1>3. CASE UNCHANGED supervisorVars
  BY <1>3 DEF supervisorVars, Current
<1>4. CASE \/ ReadStatus \/ StartUnhealthy \/ Recheck \/ ToggleDaemon
           \/ \E w \in Workers, s \in WorkerStates : ChangeWorker(w, s)
  <2>1. pushed' = pushed
    BY <1>4 DEF ReadStatus, StartUnhealthy, Recheck, ToggleDaemon, ChangeWorker
  <2>2. QED
    BY <2>1 DEF Current
<1>5. QED
  BY <1>1, <1>2, <1>3, <1>4 DEF SupervisorNext, CheckStep

LEMMA GroupSteps ==
  ASSUME GroupInv, [Next]_programVars
  PROVE  GroupInv' /\ Current
<1>1. SupervisorNext \/ UNCHANGED supervisorVars
  BY DEF Next, Genus, FilesTable, Vcenter, Supervisor, Flash, Exporting, programVars
<1>2. CASE UNCHANGED supervisorVars
  <2>1. workers' = workers /\ daemon' = daemon /\ check' = check /\ pushed' = pushed
    BY <1>2 DEF supervisorVars
  <2>2. GroupInv'
    BY <2>1 DEF GroupInv
  <2>3. QED
    BY <1>2, <2>2, PushIsCurrent
<1>3. CASE SupervisorNext
  <2>1. GroupInv'
    BY <1>3, ChangesKeep, CheckKeeps DEF SupervisorNext
  <2>2. QED
    BY <1>3, <2>1, PushIsCurrent
<1>4. QED
  BY <1>1, <1>2, <1>3

\* Whatever the workers, their labels, and the failures of ssh and supervisord:
\* what is pushed for a worker is how the check left it, unless it is stopping
\* (check-workers.sh:26-35, 127-192).
THEOREM GroupAlwaysCurrent == Spec => GroupIsCurrent
<1>1. Init => GroupInv
  BY CheckFacts DEF Init, SupervisorInit, GroupInv, WorkerStates
<1>2. GroupInv /\ [Next]_programVars => GroupInv'
  BY GroupSteps
<1>3. GroupInv /\ [Next]_programVars => [Current]_supervisorVars
  BY GroupSteps
<1>4. QED
  BY <1>1, <1>2, <1>3, PTL DEF Spec, GroupIsCurrent, Current

-----------------------------------------------------------------------------
(* The flashing icon.                                                      *)

\* The threads are where the program can take them.
FlashInv ==
  /\ DOMAIN flashers = Flashers
  /\ RunningHasThread

LEMMA FlashKeeps ==
  ASSUME FlashInv, FlashNext \/ UNCHANGED flashVars
  PROVE  FlashInv'
<1>1. CASE \E t \in Flashers : FlashThread(t)
  <2>1. PICK t \in Flashers : FlashThread(t)
    BY <1>1
  <2>2. CASE FlashBegins(t)
    BY <2>2 DEF FlashBegins, FlashInv, RunningHasThread
  <2>3. CASE FlashWakes(t)
    <3>1. /\ DOMAIN flashers' = Flashers /\ flashers'[t] \in {"ends", "paints"}
          /\ running' = running
      BY <2>3 DEF FlashWakes, FlashInv
    <3>2. QED
      BY <3>1 DEF FlashInv, RunningHasThread
  <2>4. CASE FlashPaints(t)
    <3>1. DOMAIN flashers' = Flashers /\ flashers'[t] = "waits" /\ running' = running
      BY <2>4 DEF FlashPaints, FlashInv
    <3>2. QED
      BY <3>1 DEF FlashInv, RunningHasThread
  <2>5. CASE FlashEnds(t)
    BY <2>5 DEF FlashEnds, FlashInv, RunningHasThread
  <2>6. QED
    BY <2>1, <2>2, <2>3, <2>4, <2>5 DEF FlashThread
<1>2. CASE PollChooses
  <2>1. running' = running
    BY <1>2 DEF PollChooses
  <2>2. \/ flashers' = flashers
        \/ \E t \in Flashers : /\ flashers[t] = "none"
                               /\ flashers' = [flashers EXCEPT ![t] = "spawned"]
    BY <1>2 DEF PollChooses, StartFlashing, Spare
  <2>3. QED
    BY <2>1, <2>2 DEF FlashInv, RunningHasThread
<1>3. CASE \/ \E l \in DOMAIN PlainColour : ChangeLevel(l)
           \/ PollPaints \/ MenuChooses \/ MenuPaints \/ UNCHANGED flashVars
  <2>1. running' = running /\ flashers' = flashers
    BY <1>3 DEF ChangeLevel, PollPaints, MenuChooses, MenuPaints, flashVars
  <2>2. QED
    BY <2>1 DEF FlashInv, RunningHasThread
<1>4. QED
  BY <1>1, <1>2, <1>3 DEF FlashNext, PollIcon

LEMMA FlashSteps ==
  ASSUME FlashInv, [Next]_programVars
  PROVE  FlashInv'
<1>1. FlashNext \/ UNCHANGED flashVars
  BY DEF Next, Genus, FilesTable, Vcenter, Supervisor, Flash, Exporting, programVars
<1>2. QED
  BY <1>1, FlashKeeps

\* However many flash threads are alive and whenever they are scheduled: while
\* the running flag is raised, a thread will lower it (monitor.py:127-145).
THEOREM RunningAlwaysHasThread == Spec => []RunningHasThread
<1>1. Init => FlashInv
  BY DEF Init, FlashInit, FlashInv, RunningHasThread
<1>2. FlashInv /\ [Next]_programVars => FlashInv'
  BY FlashSteps
<1>3. FlashInv => RunningHasThread
  BY DEF FlashInv
<1>4. QED
  BY <1>1, <1>2, <1>3, PTL DEF Spec
=============================================================================
