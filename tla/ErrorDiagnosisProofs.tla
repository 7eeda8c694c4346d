------------------------ MODULE ErrorDiagnosisProofs ------------------------
(***************************************************************************)
(* Proofs about ErrorDiagnosis: for any number of runs, any rankings of    *)
(* any applications and any length of the cooldown key.  First about the   *)
(* cooldown: only six variables and pc matter to it, and the Jira part     *)
(* leaves them alone.  Then about types, history and the tickets in it.    *)
(***************************************************************************)
EXTENDS ErrorDiagnosis, SequenceTheorems, TLAPS

GateType ==
  /\ now \in Nat
  /\ cooldownMap \in [Keys -> Nat \cup {Never}]
  /\ DOMAIN pc = Runs
  /\ force \in [Runs -> BOOLEAN]
  /\ DOMAIN spike = Runs
  /\ startedAt \in [Runs -> Nat \cup {Never}]
  /\ refusedAt \in [Runs -> Nat \cup {Never}]

(* A run that may still pass the gate has not started a diagnosis. *)
WaitingUnstarted ==
  \A r \in Runs : pc[r] \in {"idle", "loki"} => ~Started(r)

(* The map is at least as recent as every diagnosis of its key ... *)
StartsCovered ==
  \A r \in Runs : Started(r) =>
    /\ Key(spike[r]) \in Keys
    /\ cooldownMap[Key(spike[r])] # Never
    /\ startedAt[r] <= cooldownMap[Key(spike[r])]

(* ... and its entry is the time of one of them. *)
MapExplained ==
  \A k \in Keys : cooldownMap[k] # Never =>
    /\ cooldownMap[k] <= now
    /\ \E q \in Runs : /\ Started(q) /\ Key(spike[q]) = k
                       /\ startedAt[q] = cooldownMap[k]

GateInv ==
  /\ GateType /\ WaitingUnstarted /\ StartsCovered /\ MapExplained
  /\ CooldownKept /\ SuppressionExplained

gateVars == <<now, cooldownMap, force, spike, startedAt, refusedAt>>

(* A step that leaves the gate alone: no run enters or re-enters it. *)
Quiet ==
  /\ UNCHANGED gateVars
  /\ DOMAIN pc' = DOMAIN pc
  /\ \A r \in Runs : pc'[r] # pc[r] => pc'[r] \notin {"idle", "loki", "cooldown"}

-----------------------------------------------------------------------------
LEMMA GotoQuiet ==
  ASSUME DOMAIN pc = Runs, NEW r \in Runs, NEW to,
         to \notin {"idle", "loki", "cooldown"}, Goto(r, to),
         UNCHANGED gateVars
  PROVE  Quiet
BY DEF Goto, Quiet

LEMMA QuietKeepsInv == GateInv /\ Quiet => GateInv'
BY DEF GateInv, GateType, WaitingUnstarted, StartsCovered, MapExplained,
       CooldownKept, SuppressionExplained, Quiet, gateVars, Started, SameKey

LEMMA StutterQuiet == UNCHANGED vars => Quiet
BY DEF vars, runVars, jiraVars, Quiet, gateVars

(* The steps of a run other than passing the gate are quiet. *)
LEMMA RunStepQuiet ==
  ASSUME DOMAIN pc = Runs, NEW r \in Runs, RunStep(r),
         ~\E s \in Spikes : Suppress(r, s) \/ Start(r, s)
  PROVE  Quiet
<1> USE DEF gateVars, runVars
<1>1. CASE NothingToDiagnose(r)
  BY <1>1, GotoQuiet DEF NothingToDiagnose, Finish
<1>2. ASSUME NEW h \in Headlines, NEW q \in Shapes, Diagnosed(r, h, q)
      PROVE  Quiet
  BY <1>2, GotoQuiet DEF Diagnosed
<1>3. CASE FindParent(r)
  BY <1>3, GotoQuiet DEF FindParent
<1>4. ASSUME NEW p
      PROVE  AfterParent(r, p) \notin {"idle", "loki", "cooldown"}
  BY DEF AfterParent
<1>5. CASE CommentParent(r)
  BY <1>4, <1>5, GotoQuiet DEF CommentParent
<1>6. CASE CreateParent(r)
  <2>1. PICK p : Goto(r, AfterParent(r, p))
    BY <1>6 DEF CreateParent
  <2>2. UNCHANGED gateVars
    BY <1>6 DEF CreateParent
  <2>3. QED
    BY <1>4, <2>1, <2>2, GotoQuiet
<1>7. CASE FindChild(r)
  BY <1>7, GotoQuiet DEF FindChild
<1>8. CASE CommentChild(r)
  BY <1>8, GotoQuiet DEF CommentChild, NextApp
<1>9. CASE CreateChild(r)
  BY <1>9, GotoQuiet DEF CreateChild, NextApp
<1>10. CASE Notify(r)
  BY <1>10, GotoQuiet DEF Notify, Finish
<1>11. CASE Investigated(r)
  BY <1>11, GotoQuiet DEF Investigated, Finish
<1>12. QED
  BY <1>1, <1>2, <1>3, <1>5, <1>6, <1>7, <1>8, <1>9, <1>10, <1>11
     DEF RunStep

-----------------------------------------------------------------------------
(* What the gate reads and writes, without the parts about history. *)
LEMMA StartKeepsInv ==
  ASSUME GateInv, NEW r \in Runs, NEW s \in Spikes, Start(r, s)
  PROVE  GateInv'
<1> USE DiagnosisAssumption
<1> DEFINE k == Key(s)
<1>1. /\ k \in Keys /\ pc[r] = "loki" /\ ~Started(r)
      /\ force[r] \/ ~Cooling(k)
      /\ cooldownMap' = [cooldownMap EXCEPT ![k] = now]
      /\ spike' = [spike EXCEPT ![r] = s]
      /\ startedAt' = [startedAt EXCEPT ![r] = now]
      /\ pc' = [pc EXCEPT ![r] = "gather"]
      /\ UNCHANGED <<now, force, refusedAt>>
  BY DEF Start, Armed, Goto, GateInv, WaitingUnstarted, Keys
<1> HIDE DEF k
<1>2. GateType'
  BY <1>1 DEF GateInv, GateType
<1>3. /\ Started(r)' /\ Key(spike'[r]) = k /\ startedAt'[r] = now
      /\ \A q \in Runs \ {r} : /\ startedAt'[q] = startedAt[q]
                               /\ spike'[q] = spike[q]
                               /\ Started(q)' <=> Started(q)
  BY <1>1 DEF GateInv, GateType, Started, k
<1>4. cooldownMap'[k] = now /\ \A j \in Keys \ {k} : cooldownMap'[j] = cooldownMap[j]
  BY <1>1 DEF GateInv, GateType
<1>5. WaitingUnstarted'
  BY <1>1, <1>3 DEF GateInv, WaitingUnstarted, GateType
<1>6. \A q \in Runs : Started(q) => startedAt[q] \in Nat /\ startedAt[q] <= now
  BY DEF GateInv, GateType, StartsCovered, MapExplained, Started
<1>7. StartsCovered'
  BY <1>1, <1>3, <1>4, <1>6 DEF GateInv, GateType, StartsCovered
<1>8. MapExplained'
  <2> SUFFICES ASSUME NEW j \in Keys, cooldownMap'[j] # Never
               PROVE  /\ cooldownMap'[j] <= now'
                      /\ \E q \in Runs : /\ Started(q)' /\ Key(spike'[q]) = j
                                         /\ startedAt'[q] = cooldownMap'[j]
    BY DEF MapExplained
  <2>1. CASE j = k
    BY <2>1, <1>1, <1>3, <1>4 DEF GateInv, GateType
  <2>2. CASE j # k
    <3>1. /\ cooldownMap[j] <= now
          /\ \E q \in Runs : /\ Started(q) /\ Key(spike[q]) = j
                             /\ startedAt[q] = cooldownMap[j]
      BY <2>2, <1>4 DEF GateInv, MapExplained
    <3>2. QED
      BY <3>1, <2>2, <1>1, <1>3, <1>4
  <2>3. QED
    BY <2>1, <2>2
<1>9. \A q \in Runs \ {r} : Started(q) /\ Key(spike[q]) = k /\ ~force[r] =>
        startedAt[q] + Cooldown <= now
  BY <1>1, <1>6 DEF GateInv, GateType, StartsCovered, Cooling
<1>10. CooldownKept'
  BY <1>1, <1>3, <1>6, <1>9 DEF GateInv, CooldownKept, SameKey, GateType
<1>11. SuppressionExplained'
  BY <1>1, <1>3 DEF GateInv, SuppressionExplained, SameKey, GateType
<1>12. QED
  BY <1>2, <1>5, <1>7, <1>8, <1>10, <1>11 DEF GateInv

LEMMA SuppressKeepsInv ==
  ASSUME GateInv, NEW r \in Runs, NEW s \in Spikes, Suppress(r, s)
  PROVE  GateInv'
<1> USE DiagnosisAssumption
<1>1. /\ Key(s) \in Keys /\ pc[r] = "loki" /\ ~Started(r) /\ Cooling(Key(s))
      /\ spike' = [spike EXCEPT ![r] = s]
      /\ refusedAt' = [refusedAt EXCEPT ![r] = now]
      /\ pc' = [pc EXCEPT ![r] = "cooldown"]
      /\ UNCHANGED <<now, cooldownMap, force, startedAt>>
  BY DEF Suppress, Finish, Goto, GateInv, WaitingUnstarted, Keys
<1>2. GateType' /\ WaitingUnstarted' /\ StartsCovered' /\ MapExplained'
      /\ CooldownKept'
  BY <1>1 DEF GateInv, GateType, WaitingUnstarted, StartsCovered, MapExplained,
              CooldownKept, Started, SameKey
<1>3. SuppressionExplained'
  <2> SUFFICES ASSUME NEW o \in Runs, pc'[o] = "cooldown"
               PROVE  \E q \in Runs : /\ Started(q)' /\ SameKey(q, o)'
                                      /\ startedAt'[q] <= refusedAt'[o]
                                      /\ refusedAt'[o] < startedAt'[q] + Cooldown
    BY DEF SuppressionExplained
  <2>1. CASE o = r
    <3>1. PICK q \in Runs : /\ Started(q) /\ Key(spike[q]) = Key(s)
                            /\ startedAt[q] = cooldownMap[Key(s)]
                            /\ startedAt[q] <= now
      BY <1>1 DEF GateInv, MapExplained, Cooling
    <3>2. now < startedAt[q] + Cooldown
      BY <1>1, <3>1 DEF Cooling, GateInv, GateType, Started
    <3>3. QED
      BY <1>1, <2>1, <3>1, <3>2 DEF GateInv, GateType, Started, SameKey
  <2>2. CASE o # r
    BY <1>1, <2>2 DEF GateInv, GateType, SuppressionExplained, Started, SameKey
  <2>3. QED
    BY <2>1, <2>2
<1>4. QED
  BY <1>2, <1>3 DEF GateInv

LEMMA InitGateInv == Init => GateInv
BY DEF Init, GateInv, GateType, WaitingUnstarted, StartsCovered, MapExplained,
       CooldownKept, SuppressionExplained, Started

LEMMA NextGateInv == GateInv /\ [Next]_vars => GateInv'
<1> SUFFICES ASSUME GateInv, [Next]_vars
             PROVE  GateInv'
  OBVIOUS
<1> USE DiagnosisAssumption
<1>0. DOMAIN pc = Runs
  BY DEF GateInv, GateType
<1>1. ASSUME NEW r \in Runs, NEW f \in BOOLEAN, Accept(r, f)
      PROVE  GateInv'
  BY <1>1 DEF Accept, Goto, GateInv, GateType, WaitingUnstarted, StartsCovered,
              MapExplained, CooldownKept, SuppressionExplained, Started, SameKey
<1>2. ASSUME NEW r \in Runs, AcceptInvestigation(r)
      PROVE  GateInv'
  BY <1>0, <1>2, GotoQuiet, QuietKeepsInv
     DEF AcceptInvestigation, gateVars, runVars
<1>3. ASSUME NEW r \in Runs, RunStep(r)
      PROVE  GateInv'
  BY <1>0, <1>3, StartKeepsInv, SuppressKeepsInv, RunStepQuiet, QuietKeepsInv
<1>4. ASSUME NEW i \in TicketIds, CloseTicket(i)
      PROVE  GateInv'
  <2>1. Quiet
    BY <1>4 DEF CloseTicket, Quiet, gateVars, runVars
  <2>2. QED
    BY <2>1, QuietKeepsInv
<1>5. CASE Tick
  BY <1>5 DEF Tick, GateInv, GateType, WaitingUnstarted, StartsCovered,
              MapExplained, CooldownKept, SuppressionExplained, Started,
              SameKey, runVars
<1>6. CASE Restart
  BY <1>6 DEF Restart, GateInv, GateType, WaitingUnstarted, StartsCovered,
              MapExplained, CooldownKept, SuppressionExplained, Started
<1>7. CASE UNCHANGED vars
  BY <1>7, StutterQuiet, QuietKeepsInv
<1>8. QED
  BY <1>1, <1>2, <1>3, <1>4, <1>5, <1>6, <1>7 DEF Next

LEMMA GateCorrect == Spec => []GateInv
BY InitGateInv, NextGateInv, PTL DEF Spec

(* Overlapping runs cannot both pass the cooldown, whatever they are doing *)
(* when they reach it: a run that is not forced starts only if every       *)
(* earlier diagnosis of its key is COOLDOWN_HOURS old.                     *)
THEOREM CooldownAlwaysKept == Spec => []CooldownKept
BY GateCorrect, PTL DEF GateInv

(* No run is turned away without a diagnosis of its key within the last    *)
(* COOLDOWN_HOURS of the same process.                                     *)
THEOREM SuppressionAlwaysExplained == Spec => []SuppressionExplained
BY GateCorrect, PTL DEF GateInv

-----------------------------------------------------------------------------
(* Types, and what history tells.                                          *)

TicketType == [parent : Nat, title : Headlines \cup Apps, about : SUBSET Apps,
               words : SUBSET Words, open : BOOLEAN]
ResultType == [run : Runs, status : Recorded, jira : Nat,
               children : [Apps -> Nat]]

TicketsOK ==
  /\ tickets \in Seq(TicketType)
  /\ \A i \in TicketIds : tickets[i].parent \in 0..(i - 1)

(* Where a run is in its loop over the applications. *)
LoopOK ==
  /\ idx \in [Runs -> Nat]
  /\ \A r \in Runs :
       /\ pc[r] \in {"idle", "loki", "gather", "findParent", "fileParent"} => idx[r] = 1
       /\ pc[r] \in {"gather"} \cup JiraSteps => spike[r] \in Spikes
       /\ pc[r] \in {"findChild", "fileChild"} => idx[r] \in 1..Len(spike[r])

(* Where a run is before its loop, and in it. *)
Early == {"idle", "loki", "gather", "findParent", "fileParent"}
InLoop == {"findChild", "fileChild"}

(* A search for the error of app a finds ticket i. *)
Names(i, a) ==
  i \in TicketIds /\ Among(a, tickets[i].about) /\ Among(KeywordOf[a], tickets[i].words)

(* Ticket i is filed for app a under ticket p. *)
Filed(i, a, p) == i \in TicketIds /\ tickets[i].parent = p /\ tickets[i].title = a

(* What a run keeps as the ticket of app a, with p as that of the spike. *)
Keeps(i, a, p) == p # 0 /\ (Filed(i, a, p) \/ Names(i, a))

(* Nothing is kept before the loop, which has a ticket of the spike; what a *)
(* search found for an app, and what is kept of it, goes with the app.      *)
ChildrenOK ==
  \A r \in Runs :
    /\ pc[r] \in Early => \A a \in Apps : childKeys[r][a] = 0
    /\ pc[r] \in InLoop => parentKey[r] # 0
    /\ pc[r] = "fileChild" /\ found[r] # 0 => Names(found[r], App(r))
    /\ \A a \in Apps : childKeys[r][a] # 0 => Keeps(childKeys[r][a], a, parentKey[r])

(* A result points to tickets, as those of its apps. *)
Truthful(x) ==
  /\ x.jira \in 0..Len(tickets)
  /\ \A a \in Apps : x.children[a] # 0 => Keeps(x.children[a], a, x.jira)

HistoryOK ==
  /\ history \in Seq(ResultType)
  /\ \A i \in DOMAIN history : pc[history[i].run] \in Recorded /\ Truthful(history[i])

DiagInv ==
  /\ TypeOK /\ TicketsOK /\ LoopOK /\ ChildrenOK /\ HistoryOK /\ HistoryComplete

-----------------------------------------------------------------------------
(* Jira only gains tickets, and a ticket keeps all but its state. *)
TicketsGrow ==
  /\ TicketsOK'
  /\ Len(tickets) \in Nat /\ Len(tickets') \in Nat /\ Len(tickets) <= Len(tickets')
  /\ \A i \in TicketIds :
       /\ tickets'[i].about = tickets[i].about /\ tickets'[i].words = tickets[i].words
       /\ tickets'[i].parent = tickets[i].parent /\ tickets'[i].title = tickets[i].title

LEMMA SameGrows ==
  ASSUME TicketsOK, UNCHANGED tickets
  PROVE  TicketsGrow
BY LenProperties DEF TicketsOK, TicketsGrow, TicketIds

LEMMA CreatedGrows ==
  ASSUME TicketsOK, NEW t \in TicketType, t.parent \in 0..Len(tickets), NEW key,
         Created(t, key)
  PROVE  /\ TicketsGrow /\ key \in 0..Len(tickets')
         /\ key # 0 => key \in 1..Len(tickets') /\ tickets'[key] = t
<1>1. tickets \in Seq(TicketType) /\ Len(tickets) \in Nat
  BY LenProperties DEF TicketsOK
<1>2. CASE UNCHANGED tickets
  <2>1. key = 0 \/ tickets' = Append(tickets, t)
    BY <1>2 DEF Created
  <2>2. Append(tickets, t) # tickets
    BY <1>1, AppendProperties
  <2>3. QED
    BY <1>1, <1>2, <2>1, <2>2, SameGrows
<1>3. CASE tickets' = Append(tickets, t)
  <2>1. /\ tickets' \in Seq(TicketType) /\ Len(tickets') = Len(tickets) + 1
        /\ \A i \in 1..Len(tickets) : tickets'[i] = tickets[i]
        /\ tickets'[Len(tickets) + 1] = t
    BY <1>1, <1>3, AppendProperties
  <2>2. key \in {0, Len(tickets) + 1}
    BY <1>3 DEF Created
  <2>3. TicketsOK'
    BY <1>1, <2>1 DEF TicketsOK, TicketIds
  <2>4. QED
    BY <1>1, <2>1, <2>2, <2>3 DEF TicketsGrow, TicketIds
<1>4. QED
  BY <1>2, <1>3 DEF Created

LEMMA NamesKept ==
  ASSUME TicketsGrow, NEW i, NEW a, Names(i, a)
  PROVE  Names(i, a)'
BY DEF TicketsGrow, Names, Among, TicketIds

LEMMA KeepsKept ==
  ASSUME TicketsGrow, NEW i, NEW a, NEW p, Keeps(i, a, p)
  PROVE  Keeps(i, a, p)'
BY NamesKept DEF TicketsGrow, Keeps, Filed, TicketIds

LEMMA TruthfulKept ==
  ASSUME TicketsGrow, NEW x, Truthful(x)
  PROVE  Truthful(x)'
BY KeepsKept DEF Truthful, TicketsGrow

(* A new entry at the head, and the oldest dropped when there are too many. *)
LEMMA StoredProperties ==
  ASSUME NEW h \in Seq(ResultType), NEW x \in ResultType
  PROVE  /\ Stored(h, x) \in Seq(ResultType) /\ Len(h) \in Nat /\ Len(Stored(h, x)) \in Nat
         /\ Len(Stored(h, x)) = (IF Len(h) + 1 > HistoryMax THEN Len(h) ELSE Len(h) + 1)
         /\ Len(Stored(h, x)) >= 1 => Stored(h, x)[1] = x
         /\ \A i \in 2..Len(Stored(h, x)) : Stored(h, x)[i] = h[i - 1]
         /\ DOMAIN Stored(h, x) = 1..Len(Stored(h, x)) /\ DOMAIN h = 1..Len(h)
<1> DEFINE all == <<x>> \o h
<1>1. /\ <<x>> \in Seq(ResultType) /\ Len(<<x>>) = 1 /\ <<x>>[1] = x
      /\ Len(h) \in Nat /\ DOMAIN h = 1..Len(h)
  BY LenProperties
<1>2. /\ all \in Seq(ResultType) /\ Len(all) = Len(h) + 1
      /\ all[1] = x /\ \A i \in 2..Len(all) : all[i] = h[i - 1]
  BY <1>1, ConcatProperties
<1>3. CASE Len(h) + 1 > HistoryMax
  <2>1. \A i \in 1..Len(h) : all[i] \in ResultType
    BY <1>1, <1>2, ElementOfSeq
  <2>2. /\ SubSeq(all, 1, Len(h)) \in Seq(ResultType)
        /\ Len(SubSeq(all, 1, Len(h))) = Len(h)
        /\ \A i \in 1..Len(h) : SubSeq(all, 1, Len(h))[i] = all[i]
    <3> HIDE DEF all
    <3>1. 1 \in Int /\ Len(h) \in Int
      BY <1>1
    <3>2. QED
      BY <1>1, <2>1, <3>1, SubSeqProperties
  <2>3. Stored(h, x) = SubSeq(all, 1, Len(h))
    BY <1>3 DEF Stored
  <2> HIDE DEF all
  <2>4. QED
    BY <1>1, <1>2, <1>3, <2>2, <2>3, LenProperties
<1>4. CASE ~(Len(h) + 1 > HistoryMax)
  <2>1. Stored(h, x) = all
    BY <1>4 DEF Stored
  <2> HIDE DEF all
  <2>2. QED
    BY <1>1, <1>2, <1>4, <2>1, LenProperties
<1>5. QED
  BY <1>3, <1>4

-----------------------------------------------------------------------------
HistInv == HistoryOK /\ HistoryComplete

(* No run enters history in this step. *)
LEMMA HistoryStays ==
  ASSUME HistInv, TicketsGrow, UNCHANGED history,
         \A q \in Runs : pc'[q] # pc[q] =>
             pc[q] \notin Recorded /\ pc'[q] \notin Recorded
  PROVE  HistInv'
<1>1. \A i \in DOMAIN history : history[i] \in ResultType /\ history[i].run \in Runs
  <2>1. history \in Seq(ResultType) /\ DOMAIN history = 1..Len(history)
    BY LenProperties DEF HistInv, HistoryOK
  <2>2. \A i \in DOMAIN history : history[i] \in ResultType
    BY <2>1, ElementOfSeq
  <2>3. QED
    BY <2>2 DEF ResultType
<1>2. HistoryOK'
  BY <1>1, TruthfulKept DEF HistInv, HistoryOK
<1>3. HistoryComplete'
  BY DEF HistInv, HistoryComplete
<1>4. QED
  BY <1>2, <1>3 DEF HistInv

LEMMA HistoryGains ==
  ASSUME HistInv, TypeOK, TicketsOK, ChildrenOK, NEW r \in Runs,
         pc[r] \notin Recorded, NEW status \in Recorded, Finish(r, status),
         UNCHANGED tickets
  PROVE  HistInv'
<1>0. PICK x : x = Result(r, status)
  OBVIOUS
<1>1. x \in ResultType /\ x.run = r
  <2>1. parentKey[r] \in Nat /\ childKeys[r] \in [Apps -> Nat]
    BY LenProperties DEF TypeOK, TicketsOK
  <2>2. QED
    BY <1>0, <2>1 DEF Result, ResultType
<1>2. Truthful(x)
  BY <1>0 DEF Truthful, Result, TypeOK, ChildrenOK
<1>3. /\ history \in Seq(ResultType) /\ history' = Stored(history, x)
      /\ pc' = [pc EXCEPT ![r] = status] /\ DOMAIN pc = Runs
  BY <1>0 DEF HistInv, HistoryOK, Finish, Goto, TypeOK
<1>4. /\ history' \in Seq(ResultType) /\ Len(history) \in Nat /\ Len(history') \in Nat
      /\ Len(history') = (IF Len(history) + 1 > HistoryMax
                          THEN Len(history) ELSE Len(history) + 1)
      /\ Len(history') >= 1 => history'[1] = x
      /\ \A i \in 2..Len(history') : history'[i] = history[i - 1]
      /\ DOMAIN history' = 1..Len(history') /\ DOMAIN history = 1..Len(history)
  <2>1. PICK s : s = Stored(history, x)
    OBVIOUS
  <2>2. /\ s \in Seq(ResultType) /\ Len(history) \in Nat /\ Len(s) \in Nat
        /\ Len(s) = (IF Len(history) + 1 > HistoryMax
                     THEN Len(history) ELSE Len(history) + 1)
        /\ Len(s) >= 1 => s[1] = x
        /\ \A i \in 2..Len(s) : s[i] = history[i - 1]
        /\ DOMAIN s = 1..Len(s) /\ DOMAIN history = 1..Len(history)
    BY <1>1, <1>3, <2>1, StoredProperties
  <2>3. QED
    BY <1>3, <2>1, <2>2
<1>5. Len(history) <= HistoryMax /\ HistoryMax \in Nat \ {0}
  BY DiagnosisAssumption DEF HistInv, HistoryComplete
<1>6. /\ \A i \in DOMAIN history : /\ history[i].run \in Runs
                                   /\ pc[history[i].run] \in Recorded
                                   /\ history[i].run # r
                                   /\ Truthful(history[i])
  <2>1. \A i \in DOMAIN history : history[i] \in ResultType
    BY <1>3, <1>4, ElementOfSeq
  <2>2. QED
    BY <2>1 DEF HistInv, HistoryOK, ResultType
<1>7. ASSUME NEW i \in DOMAIN history'
      PROVE  \/ i = 1 /\ history'[i] = x
             \/ i # 1 /\ i - 1 \in DOMAIN history /\ history'[i] = history[i - 1]
  BY <1>4, <1>7
<1>8. HistoryOK'
  <2>1. TicketsGrow
    BY SameGrows
  <2>2. \A i \in DOMAIN history' : pc'[history'[i].run] \in Recorded
    BY <1>1, <1>3, <1>6, <1>7
  <2>3. \A i \in DOMAIN history' : Truthful(history[i])'
    <3>1. SUFFICES ASSUME NEW i \in DOMAIN history'
                   PROVE  Truthful(history[i])'
      OBVIOUS
    <3>2. PICK y : y = history'[i]
      OBVIOUS
    <3>3. Truthful(y)
      BY <1>2, <1>6, <1>7, <3>2
    <3>4. Truthful(y)'
      BY <2>1, <3>3, TruthfulKept
    <3>5. QED
      BY <3>2, <3>4 DEF Truthful
  <2>4. QED
    BY <1>4, <2>2, <2>3 DEF HistoryOK
<1>9. HistoryComplete'
  <2>1. Len(history') <= HistoryMax
    BY <1>4, <1>5
  <2>2. \A i, j \in DOMAIN history' : history'[i].run = history'[j].run => i = j
    <3>1. SUFFICES ASSUME NEW i \in DOMAIN history', NEW j \in DOMAIN history',
                          history'[i].run = history'[j].run
                   PROVE  i = j
      OBVIOUS
    <3>2. i \in Int /\ j \in Int
      BY <1>4
    <3>3. \A m, n \in DOMAIN history : history[m].run = history[n].run => m = n
      BY DEF HistInv, HistoryComplete
    <3>4. QED
      BY <1>1, <1>6, <1>7, <3>1, <3>2, <3>3
  <2>3. ASSUME NEW q \in Runs, pc'[q] \in Recorded
        PROVE  \/ \E i \in DOMAIN history' : history'[i].run = q
               \/ Len(history') = HistoryMax
    <3>1. CASE q = r
      <4>1. 1 \in DOMAIN history'
        BY <1>4, <1>5
      <4>2. QED
        BY <1>1, <1>4, <3>1, <4>1
    <3>2. CASE q # r /\ Len(history) = HistoryMax
      BY <1>4, <1>5, <3>2
    <3>3. CASE q # r /\ Len(history) # HistoryMax
      <4>1. PICK n \in DOMAIN history : history[n].run = q
        BY <1>3, <2>3, <3>3 DEF HistInv, HistoryComplete
      <4>2. n + 1 \in DOMAIN history' /\ n + 1 \in 2..Len(history')
        BY <1>4, <1>5, <3>3, <4>1
      <4>3. history'[n + 1] = history[n]
        BY <1>4, <4>1, <4>2
      <4>4. QED
        BY <4>1, <4>2, <4>3
    <3>4. QED
      BY <3>1, <3>2, <3>3
  <2>4. QED
    BY <2>1, <2>2, <2>3 DEF HistoryComplete
<1>10. QED
  BY <1>8, <1>9 DEF HistInv

-----------------------------------------------------------------------------
(* What pointed to tickets before still does. *)
LEMMA PointersKept ==
  ASSUME TypeOK, TicketsGrow
  PROVE  /\ found \in [Runs -> 0..Len(tickets')]
         /\ parentKey \in [Runs -> 0..Len(tickets')]
         /\ childKeys \in [Runs -> [Apps -> 0..Len(tickets')]]
<1>1. 0..Len(tickets) \subseteq 0..Len(tickets')
  BY DEF TicketsGrow
<1>2. QED
  BY <1>1 DEF TypeOK

(* The types of all but the tickets, in the next state. *)
OtherTypes ==
  /\ now \in Nat /\ restarts \in Nat /\ closes \in Nat /\ calm \in BOOLEAN
  /\ cooldownMap \in [Keys -> Nat \cup {Never}]
  /\ pc \in [Runs -> {"idle"} \cup Waiting \cup Ended]
  /\ force \in [Runs -> BOOLEAN]
  /\ spike \in [Runs -> Spikes \cup {<<>>}]
  /\ startedAt \in [Runs -> Nat \cup {Never}]
  /\ refusedAt \in [Runs -> Nat \cup {Never}]
  /\ headline \in [Runs -> Headlines]
  /\ shape \in [Runs -> AllShapes]
  /\ \A r \in Runs : idx[r] \in 1..(Len(spike[r]) + 1)

PointerTypes ==
  /\ found \in [Runs -> 0..Len(tickets)]
  /\ parentKey \in [Runs -> 0..Len(tickets)]
  /\ childKeys \in [Runs -> [Apps -> 0..Len(tickets)]]

LEMMA TypeSplit == TypeOK => OtherTypes /\ PointerTypes
BY DEF TypeOK, OtherTypes, PointerTypes

LEMMA TypeJoin ==
  ASSUME OtherTypes', PointerTypes', TicketsOK'
  PROVE  TypeOK'
<1>1. \A i \in 1..Len(tickets') : tickets'[i] \in TicketType
  BY ElementOfSeq DEF TicketsOK
<1>2. \A i \in 1..Len(tickets') :
           /\ tickets'[i].parent \in 0..(i - 1) /\ tickets'[i].open \in BOOLEAN
           /\ tickets'[i].title \in Headlines \cup Apps
           /\ tickets'[i].about \subseteq Apps /\ tickets'[i].words \subseteq Words
  BY <1>1 DEF TicketsOK, TicketType, TicketIds
<1>3. QED
  BY <1>2 DEF OtherTypes, PointerTypes, TypeOK, TicketIds

(* A step that touches neither the tickets kept for apps nor a run about to *)
(* use what it found.                                                      *)
LEMMA ChildrenStay ==
  ASSUME ChildrenOK, TypeOK, TicketsGrow, UNCHANGED childKeys,
         \A q \in Runs : pc[q] \in Early \/ parentKey'[q] = parentKey[q],
         \A q \in Runs : pc'[q] \in Early => pc[q] \in Early,
         \A q \in Runs : pc'[q] \in InLoop =>
             \/ parentKey'[q] # 0
             \/ pc[q] \in InLoop /\ parentKey'[q] = parentKey[q],
         \A q \in Runs : pc'[q] = "fileChild" =>
             /\ pc[q] = "fileChild" /\ found'[q] = found[q]
             /\ spike'[q] = spike[q] /\ idx'[q] = idx[q]
  PROVE  ChildrenOK'
<1>1. ASSUME NEW q \in Runs
      PROVE  /\ pc'[q] \in Early => \A a \in Apps : childKeys'[q][a] = 0
             /\ pc'[q] \in InLoop => parentKey'[q] # 0
  BY DEF ChildrenOK
<1>2. ASSUME NEW q \in Runs, pc'[q] = "fileChild", found'[q] # 0
      PROVE  Names(found[q], App(q))'
  <2>1. Names(found[q], App(q)) /\ found'[q] = found[q] /\ App(q)' = App(q)
    BY <1>2 DEF ChildrenOK, App
  <2>2. PICK i, a : i = found[q] /\ a = App(q)
    OBVIOUS
  <2>3. Names(i, a)'
    BY <2>1, <2>2, NamesKept
  <2>4. QED
    BY <2>1, <2>2, <2>3 DEF Names, TicketIds
<1>3. ASSUME NEW q \in Runs, NEW a \in Apps, childKeys'[q][a] # 0
      PROVE  Keeps(childKeys[q][a], a, parentKey[q])'
  <2>1. PICK i, p : i = childKeys[q][a] /\ p = parentKey[q]
    OBVIOUS
  <2>2. Keeps(i, a, p) /\ parentKey'[q] = p /\ childKeys'[q][a] = i
    BY <1>3, <2>1 DEF ChildrenOK
  <2>3. Keeps(i, a, p)'
    BY <2>2, KeepsKept
  <2>4. QED
    BY <2>2, <2>3 DEF Keeps, Filed, Names, TicketIds
<1>4. QED
  BY <1>1, <1>2, <1>3 DEF ChildrenOK

LEMMA InitDiag ==
  ASSUME Init
  PROVE  DiagInv
<1>1. /\ tickets = <<>> /\ history = <<>> /\ Len(tickets) = 0 /\ Len(history) = 0
      /\ <<>> \in Seq(TicketType) /\ <<>> \in Seq(ResultType)
  BY EmptySeq DEF Init
<1>2. /\ DOMAIN history = {} /\ TicketIds = {}
  BY <1>1 DEF TicketIds
<1>3. \A r \in Runs : headline[r] \in Headlines
  BY DiagnosisAssumption DEF Init
<1>4. TypeOK
  <2>1. \A r \in Runs : Len(spike[r]) = 0 /\ idx[r] = 1
    BY <1>1 DEF Init
  <2>2. headline \in [Runs -> Headlines] /\ shape \in [Runs -> AllShapes]
    BY <1>3 DEF Init, AllShapes
  <2>3. /\ found \in [Runs -> 0..0] /\ parentKey \in [Runs -> 0..0]
        /\ childKeys \in [Runs -> [Apps -> 0..0]]
    BY DEF Init
  <2>4. QED
    BY <1>1, <1>2, <2>1, <2>2, <2>3 DEF Init, TypeOK
<1>5. TicketsOK /\ LoopOK /\ ChildrenOK
  BY <1>1, <1>2 DEF Init, TicketsOK, LoopOK, ChildrenOK, JiraSteps, InLoop
<1>6. HistoryOK
  BY <1>1, <1>2 DEF HistoryOK
<1>7. HistoryComplete
  BY <1>1, <1>2, DiagnosisAssumption DEF Init, HistoryComplete, Recorded
<1>8. QED
  BY <1>4, <1>5, <1>6, <1>7 DEF DiagInv

-----------------------------------------------------------------------------
(* The steps that leave Jira alone. *)

LEMMA AcceptKeeps ==
  ASSUME DiagInv, NEW r \in Runs, NEW f \in BOOLEAN, Accept(r, f)
  PROVE  DiagInv'
<1> USE DEF jiraVars
<1>1. TicketsGrow
  BY SameGrows DEF Accept, DiagInv
<1>2. TypeOK'
  <2>1. OtherTypes'
    BY TypeSplit DEF Accept, Goto, OtherTypes, DiagInv, Waiting
  <2>2. PointerTypes'
    BY DEF Accept, DiagInv, TypeOK, PointerTypes
  <2>3. QED
    BY <1>1, <2>1, <2>2, TypeJoin DEF TicketsGrow
<1>3. LoopOK'
  BY DEF Accept, Goto, LoopOK, DiagInv, TypeOK, JiraSteps
<1>4. ChildrenOK'
  BY <1>1, ChildrenStay DEF Early, InLoop, Accept, Goto, DiagInv, TypeOK
<1>5. HistInv'
  BY <1>1, HistoryStays DEF Accept, Goto, DiagInv, HistInv, TypeOK, Recorded
<1>6. QED
  BY <1>1, <1>2, <1>3, <1>4, <1>5 DEF DiagInv, HistInv, TicketsGrow

LEMMA NothingToDiagnoseKeeps ==
  ASSUME DiagInv, NEW r \in Runs, NothingToDiagnose(r)
  PROVE  DiagInv'
<1> USE DEF jiraVars, runVars
<1>0. PICK status \in {"failed", "none"} : Finish(r, status)
  BY DEF NothingToDiagnose
<1>1. TicketsGrow
  BY SameGrows DEF NothingToDiagnose, DiagInv
<1>2. TypeOK'
  <2>1. OtherTypes'
    BY <1>0, TypeSplit
       DEF NothingToDiagnose, Finish, Goto, OtherTypes, DiagInv, Ended, Recorded
  <2>2. PointerTypes'
    BY DEF NothingToDiagnose, DiagInv, TypeOK, PointerTypes
  <2>3. QED
    BY <1>1, <2>1, <2>2, TypeJoin DEF TicketsGrow
<1>3. LoopOK'
  BY <1>0 DEF NothingToDiagnose, Finish, Goto, LoopOK, DiagInv, TypeOK, JiraSteps
<1>4. ChildrenOK'
  BY <1>0, <1>1, ChildrenStay DEF Early, InLoop, NothingToDiagnose, Finish, Goto, DiagInv, TypeOK
<1>5. HistInv'
  BY <1>0, HistoryGains DEF NothingToDiagnose, DiagInv, HistInv, Recorded
<1>6. QED
  BY <1>1, <1>2, <1>3, <1>4, <1>5 DEF DiagInv, HistInv, TicketsGrow

LEMMA SuppressKeeps ==
  ASSUME DiagInv, NEW r \in Runs, NEW s \in Spikes, Suppress(r, s)
  PROVE  DiagInv'
<1> USE DEF jiraVars
<1>1. TicketsGrow
  BY SameGrows DEF Suppress, DiagInv
<1>2. /\ pc[r] = "loki" /\ idx[r] = 1 /\ Len(s) \in Nat
      /\ pc' = [pc EXCEPT ![r] = "cooldown"] /\ spike' = [spike EXCEPT ![r] = s]
      /\ refusedAt' = [refusedAt EXCEPT ![r] = now]
      /\ UNCHANGED <<now, cooldownMap, force, startedAt, headline, shape, found,
                     parentKey, idx, childKeys, restarts, tickets, closes, calm>>
  BY LenProperties, DiagnosisAssumption
     DEF Suppress, Finish, Goto, DiagInv, LoopOK
<1>3. TypeOK'
  <2>0. \A q \in Runs : idx[q] \in 1..(Len(spike'[q]) + 1)
    BY <1>2 DEF DiagInv, TypeOK
  <2>1. OtherTypes'
    BY <1>2, <2>0, TypeSplit DEF OtherTypes, DiagInv, Ended, Recorded
  <2>2. PointerTypes'
    BY <1>2 DEF DiagInv, TypeOK, PointerTypes
  <2>3. QED
    BY <1>1, <2>1, <2>2, TypeJoin DEF TicketsGrow
<1>4. LoopOK'
  BY <1>2 DEF LoopOK, DiagInv, TypeOK, JiraSteps
<1>5. ChildrenOK'
  BY <1>1, <1>2, ChildrenStay DEF Early, InLoop, DiagInv, TypeOK
<1>6. HistInv'
  BY <1>2, HistoryGains DEF Suppress, DiagInv, HistInv, Recorded
<1>7. QED
  BY <1>1, <1>3, <1>4, <1>5, <1>6 DEF DiagInv, HistInv, TicketsGrow

LEMMA StartKeeps ==
  ASSUME DiagInv, NEW r \in Runs, NEW s \in Spikes, Start(r, s)
  PROVE  DiagInv'
<1> USE DEF jiraVars
<1>1. TicketsGrow
  BY SameGrows DEF Start, DiagInv
<1>2. /\ pc[r] = "loki" /\ idx[r] = 1 /\ Len(s) \in Nat
      /\ cooldownMap' = [cooldownMap EXCEPT ![Key(s)] = now]
      /\ pc' = [pc EXCEPT ![r] = "gather"] /\ spike' = [spike EXCEPT ![r] = s]
      /\ startedAt' = [startedAt EXCEPT ![r] = now]
      /\ UNCHANGED <<now, force, refusedAt, headline, shape, found, history,
                     parentKey, idx, childKeys, restarts, tickets, closes, calm>>
  BY LenProperties, DiagnosisAssumption
     DEF Start, Armed, Goto, DiagInv, LoopOK
<1>3. TypeOK'
  <2>0. \A q \in Runs : idx[q] \in 1..(Len(spike'[q]) + 1)
    BY <1>2 DEF DiagInv, TypeOK
  <2>1. OtherTypes'
    <3>1. cooldownMap' \in [Keys -> Nat \cup {Never}] /\ startedAt' \in [Runs -> Nat \cup {Never}]
      BY <1>2 DEF DiagInv, TypeOK
    <3>2. pc' \in [Runs -> {"idle"} \cup Waiting \cup Ended]
      BY <1>2 DEF DiagInv, TypeOK, Waiting
    <3>3. spike' \in [Runs -> Spikes \cup {<<>>}]
      BY <1>2 DEF DiagInv, TypeOK
    <3>4. QED
      BY <1>2, <2>0, <3>1, <3>2, <3>3 DEF OtherTypes, DiagInv, TypeOK
  <2>2. PointerTypes'
    BY <1>2 DEF DiagInv, TypeOK, PointerTypes
  <2>3. QED
    BY <1>1, <2>1, <2>2, TypeJoin DEF TicketsGrow
<1>4. LoopOK'
  BY <1>2 DEF LoopOK, DiagInv, TypeOK, JiraSteps
<1>5. ChildrenOK'
  BY <1>1, <1>2, ChildrenStay DEF Early, InLoop, DiagInv, TypeOK
<1>6. HistInv'
  BY <1>1, <1>2, HistoryStays DEF DiagInv, HistInv, TypeOK, Recorded
<1>7. QED
  BY <1>1, <1>3, <1>4, <1>5, <1>6 DEF DiagInv, HistInv, TicketsGrow

LEMMA DiagnosedKeeps ==
  ASSUME DiagInv, NEW r \in Runs, NEW h \in Headlines, NEW q \in Shapes,
         Diagnosed(r, h, q)
  PROVE  DiagInv'
<1>1. TicketsGrow
  BY SameGrows DEF Diagnosed, DiagInv
<1>2. PICK to \in {"aborted", "findParent"} : pc' = [pc EXCEPT ![r] = to]
  BY DEF Diagnosed, Goto
<1>3. /\ pc[r] = "gather" /\ q \in AllShapes /\ calm' \in BOOLEAN
      /\ headline' = [headline EXCEPT ![r] = h] /\ shape' = [shape EXCEPT ![r] = q]
      /\ UNCHANGED <<now, cooldownMap, history, force, spike, startedAt, refusedAt,
                     found, parentKey, idx, childKeys, restarts, tickets, closes>>
  BY DiagnosisAssumption DEF Diagnosed, DiagInv, TypeOK
<1>4. TypeOK'
  <2>1. OtherTypes'
    BY <1>2, <1>3, TypeSplit DEF OtherTypes, DiagInv, Waiting, JiraSteps, Ended
  <2>2. PointerTypes'
    BY <1>3 DEF DiagInv, TypeOK, PointerTypes
  <2>3. QED
    BY <1>1, <2>1, <2>2, TypeJoin DEF TicketsGrow
<1>5. LoopOK'
  BY <1>2, <1>3 DEF LoopOK, DiagInv, TypeOK, JiraSteps
<1>6. ChildrenOK'
  BY <1>1, <1>2, <1>3, ChildrenStay DEF Early, InLoop, DiagInv, TypeOK
<1>7. HistInv'
  BY <1>1, <1>2, <1>3, HistoryStays DEF DiagInv, HistInv, TypeOK, Recorded
<1>8. QED
  BY <1>1, <1>4, <1>5, <1>6, <1>7 DEF DiagInv, HistInv, TicketsGrow

-----------------------------------------------------------------------------
(* The steps of the Jira part. *)

LEMMA SpikeFacts ==
  ASSUME NEW s \in Spikes
  PROVE  /\ Len(s) \in Nat /\ Len(s) >= 1
         /\ AppsOf(s) \subseteq Apps /\ AppsOf(Key(s)) \subseteq Apps
         /\ \A i \in 1..Len(s) : s[i] \in Apps
<1>1. s \in Seq(Apps) /\ s # <<>>
  BY DiagnosisAssumption
<1>2. /\ Len(s) \in Nat /\ Len(s) >= 1 /\ DOMAIN s = 1..Len(s)
      /\ \A i \in 1..Len(s) : s[i] \in Apps
  BY <1>1, EmptySeq, LenProperties, ElementOfSeq
<1> DEFINE n == IF Len(s) < KeyLen THEN Len(s) ELSE KeyLen
<1>3. n \in Int /\ n <= Len(s)
  BY <1>2, DiagnosisAssumption
<1>4. Key(s) = SubSeq(s, 1, n)
  BY DEF Key
<1>5. Key(s) \in Seq(Apps)
  <2> HIDE DEF n
  <2>1. \A i \in 1..n : s[i] \in Apps
    BY <1>2, <1>3
  <2>2. 1 \in Int
    OBVIOUS
  <2>3. QED
    BY <1>3, <1>4, <2>1, <2>2, SubSeqProperties
<1>6. \A i \in DOMAIN Key(s) : Key(s)[i] \in Apps
  BY <1>5, LenProperties, ElementOfSeq
<1>7. QED
  BY <1>2, <1>6 DEF AppsOf

LEMMA SearchFacts ==
  ASSUME NEW r, NEW hits \in SUBSET TicketIds, TypeOK, TicketsOK, Search(r, hits)
  PROVE  /\ \E v \in 0..Len(tickets) : /\ found' = [found EXCEPT ![r] = v]
                                       /\ v # 0 => v \in hits
         /\ calm' \in BOOLEAN
<1>1. Len(tickets) \in Nat /\ 0 \in 0..Len(tickets)
  BY LenProperties DEF TicketsOK
<1>2. hits \subseteq 0..Len(tickets)
  BY <1>1 DEF TicketIds
<1>3. \E v \in 0..Len(tickets) : found' = [found EXCEPT ![r] = v] /\ (v # 0 => v \in hits)
  BY <1>1, <1>2 DEF Search
<1>4. calm' \in BOOLEAN
  BY DEF Search, TypeOK
<1>5. QED
  BY <1>3, <1>4

LEMMA FindParentKeeps ==
  ASSUME DiagInv, NEW r \in Runs, FindParent(r)
  PROVE  DiagInv'
<1>1. TicketsGrow
  BY SameGrows DEF FindParent, DiagInv
<1>2. /\ OpenSaying(headline[r]) \in SUBSET TicketIds
      /\ Search(r, OpenSaying(headline[r])) /\ TypeOK /\ TicketsOK
  BY DEF FindParent, OpenSaying, DiagInv
<1>3. PICK v \in 0..Len(tickets) : found' = [found EXCEPT ![r] = v]
  BY <1>2, SearchFacts
<1>4. /\ pc[r] = "findParent" /\ pc' = [pc EXCEPT ![r] = "fileParent"]
      /\ calm' \in BOOLEAN
      /\ UNCHANGED <<now, cooldownMap, history, force, spike, startedAt, refusedAt,
                     headline, shape, parentKey, idx, childKeys, restarts,
                     tickets, closes>>
  BY <1>2, SearchFacts DEF FindParent, Goto
<1>5. TypeOK'
  <2>1. OtherTypes'
    BY <1>4, TypeSplit DEF OtherTypes, DiagInv, Waiting, JiraSteps
  <2>2. PointerTypes'
    BY <1>3, <1>4 DEF DiagInv, TypeOK, PointerTypes
  <2>3. QED
    BY <1>1, <2>1, <2>2, TypeJoin DEF TicketsGrow
<1>6. LoopOK'
  BY <1>4 DEF LoopOK, DiagInv, TypeOK, JiraSteps
<1>7. ChildrenOK'
  BY <1>1, <1>3, <1>4, ChildrenStay DEF Early, InLoop, DiagInv, TypeOK
<1>8. HistInv'
  BY <1>1, <1>4, HistoryStays DEF DiagInv, HistInv, TypeOK, Recorded
<1>9. QED
  BY <1>1, <1>5, <1>6, <1>7, <1>8 DEF DiagInv, HistInv, TicketsGrow

(* Both ways to get a parent key. *)
LEMMA ParentStep ==
  ASSUME DiagInv, NEW r \in Runs, pc[r] = "fileParent", TicketsGrow,
         NEW key \in 0..Len(tickets'), parentKey' = [parentKey EXCEPT ![r] = key],
         Goto(r, AfterParent(r, key)),
         UNCHANGED <<now, cooldownMap, history, force, spike, startedAt, refusedAt,
                     headline, shape, found, idx, childKeys, restarts, closes, calm>>
  PROVE  DiagInv'
<1>1. PICK to \in {"notify", "aborted", "findChild"} :
        /\ pc' = [pc EXCEPT ![r] = to]
        /\ to = "findChild" => key # 0
  BY DEF Goto, AfterParent
<1>2. spike[r] \in Spikes /\ idx[r] = 1 /\ 1 \in 1..Len(spike[r])
  BY SpikeFacts DEF DiagInv, LoopOK, JiraSteps
<1>3. TypeOK'
  <2>1. OtherTypes'
    BY <1>1, TypeSplit DEF OtherTypes, DiagInv, Waiting, JiraSteps, Ended
  <2>2. PointerTypes'
    BY PointersKept DEF DiagInv, TypeOK, PointerTypes
  <2>3. QED
    BY <2>1, <2>2, TypeJoin DEF TicketsGrow
<1>4. LoopOK'
  BY <1>1, <1>2 DEF LoopOK, DiagInv, TypeOK, JiraSteps
<1>5. ChildrenOK'
  BY <1>1, ChildrenStay DEF Early, InLoop, DiagInv, TypeOK
<1>6. HistInv'
  BY <1>1, HistoryStays DEF DiagInv, HistInv, TypeOK, Recorded
<1>7. QED
  BY <1>3, <1>4, <1>5, <1>6 DEF DiagInv, HistInv, TicketsGrow

LEMMA CommentParentKeeps ==
  ASSUME DiagInv, NEW r \in Runs, CommentParent(r)
  PROVE  DiagInv'
<1>1. TicketsGrow
  BY SameGrows DEF CommentParent, DiagInv, jiraVars
<1>2. found[r] \in 0..Len(tickets')
  BY <1>1, PointersKept DEF DiagInv
<1>3. QED
  BY <1>1, <1>2, ParentStep DEF CommentParent, jiraVars

(* The Bug that a run files. *)
LEMMA ParentTicket ==
  ASSUME DiagInv, NEW r \in Runs, CreateParent(r)
  PROVE  \E t \in TicketType, key \in {0, Len(tickets) + 1} :
           /\ t.parent = 0 /\ t.title = headline[r]
           /\ headline[r] \in t.words \cup Mangled
           /\ Created(t, key)
           /\ parentKey' = [parentKey EXCEPT ![r] = key]
           /\ Goto(r, AfterParent(r, key))
<1>1. PICK about \in {{}, AppsOf(Key(spike[r]))}, quoted \in SUBSET Quoted,
           key \in {0, Len(tickets) + 1} :
        /\ Created(Ticket(0, headline[r], about,
                          Findable({headline[r]} \cup AppsOf(spike[r]) \cup quoted)),
                   key)
        /\ parentKey' = [parentKey EXCEPT ![r] = key]
        /\ Goto(r, AfterParent(r, key))
  BY DEF CreateParent
<1>2. PICK words : words = Findable({headline[r]} \cup AppsOf(spike[r]) \cup quoted)
  OBVIOUS
<1>3. PICK t : t = Ticket(0, headline[r], about, words)
  OBVIOUS
<1>4. spike[r] \in Spikes /\ headline[r] \in Headlines
  BY DEF CreateParent, DiagInv, LoopOK, JiraSteps, TypeOK
<1>5. about \subseteq Apps /\ AppsOf(spike[r]) \subseteq Apps
  BY <1>4, SpikeFacts
<1>6. words \subseteq Words /\ headline[r] \in words \cup Mangled
  BY <1>2, <1>4, <1>5, DiagnosisAssumption DEF Words, Findable
<1>7. t \in TicketType /\ t.parent = 0 /\ t.title = headline[r] /\ t.words = words
  BY <1>3, <1>4, <1>5, <1>6 DEF Ticket, TicketType
<1>8. Created(t, key)
  BY <1>1, <1>2, <1>3
<1>9. QED
  BY <1>1, <1>6, <1>7, <1>8

LEMMA CreateParentKeeps ==
  ASSUME DiagInv, NEW r \in Runs, CreateParent(r)
  PROVE  DiagInv'
<1>1. PICK t \in TicketType, key \in {0, Len(tickets) + 1} :
        /\ t.parent = 0 /\ Created(t, key)
        /\ parentKey' = [parentKey EXCEPT ![r] = key]
        /\ Goto(r, AfterParent(r, key))
  BY ParentTicket
<1>2. TicketsGrow /\ key \in 0..Len(tickets')
  <2>1. 0 \in 0..Len(tickets) /\ TicketsOK
    BY LenProperties DEF DiagInv, TicketsOK
  <2>2. QED
    BY <1>1, <2>1, CreatedGrows
<1>3. QED
  BY <1>1, <1>2, ParentStep DEF CreateParent

LEMMA FindChildKeeps ==
  ASSUME DiagInv, NEW r \in Runs, FindChild(r)
  PROVE  DiagInv'
<1> DEFINE hits == OpenAbout(App(r), KeywordOf[App(r)])
<1>1. TicketsGrow
  BY SameGrows DEF FindChild, DiagInv
<1>2. hits \in SUBSET TicketIds /\ Search(r, hits) /\ TypeOK /\ TicketsOK
  BY DEF FindChild, OpenAbout, DiagInv
<1>3. PICK v \in 0..Len(tickets) : found' = [found EXCEPT ![r] = v] /\ (v # 0 => v \in hits)
  BY <1>2, SearchFacts
<1>4. PICK to \in {"fileChild", "aborted"} : pc' = [pc EXCEPT ![r] = to]
  BY DEF FindChild, Goto
<1>5. /\ pc[r] = "findChild" /\ calm' \in BOOLEAN
      /\ UNCHANGED <<now, cooldownMap, history, force, spike, startedAt, refusedAt,
                     headline, shape, parentKey, idx, childKeys, restarts,
                     tickets, closes>>
  BY <1>2, SearchFacts DEF FindChild
<1>6. TypeOK'
  <2>1. OtherTypes'
    BY <1>4, <1>5, TypeSplit DEF OtherTypes, DiagInv, Waiting, JiraSteps, Ended
  <2>2. PointerTypes'
    BY <1>3, <1>5 DEF DiagInv, TypeOK, PointerTypes
  <2>3. QED
    BY <1>1, <2>1, <2>2, TypeJoin DEF TicketsGrow
<1>7. LoopOK'
  BY <1>4, <1>5 DEF LoopOK, DiagInv, TypeOK, JiraSteps
<1>8. ChildrenOK'
  <2>1. v # 0 => Names(v, App(r))
    BY <1>3 DEF OpenAbout, Names
  <2>4. ASSUME NEW q \in Runs
        PROVE  /\ pc'[q] \in Early => pc[q] \in Early
               /\ pc'[q] \in InLoop => pc[q] \in InLoop
    BY <1>4, <1>5 DEF DiagInv, TypeOK, Early, InLoop
  <2>2. /\ found'[r] = v /\ \A q \in Runs : q # r => found'[q] = found[q] /\ pc'[q] = pc[q]
    BY <1>3, <1>4 DEF DiagInv, TypeOK
  <2>3. QED
    BY <1>5, <2>1, <2>2, <2>4 DEF DiagInv, ChildrenOK, Keeps, Filed, Names, App, TicketIds
<1>9. HistInv'
  BY <1>1, <1>4, <1>5, HistoryStays DEF DiagInv, HistInv, TypeOK, Recorded
<1>10. QED
  BY <1>1, <1>6, <1>7, <1>8, <1>9 DEF DiagInv, HistInv, TicketsGrow

(* Both ways to get the key of an app's ticket. *)
LEMMA ChildStep ==
  ASSUME DiagInv, NEW r \in Runs, pc[r] = "fileChild", TicketsGrow,
         NEW key \in 0..Len(tickets'), NEW app \in Apps, app = App(r),
         key # 0 => Keeps(key, app, parentKey[r])',
         KeepKey(r, key), NextApp(r),
         UNCHANGED <<now, cooldownMap, history, force, spike, startedAt, refusedAt,
                     headline, shape, found, parentKey, restarts, closes, calm>>
  PROVE  DiagInv'
<1>1. /\ spike[r] \in Spikes /\ idx[r] \in 1..Len(spike[r]) /\ Len(spike[r]) \in Nat
      /\ App(r) \in Apps
  BY SpikeFacts DEF DiagInv, LoopOK, JiraSteps, App
<1>2. PICK to \in {"notify", "findChild"} :
        /\ pc' = [pc EXCEPT ![r] = to]
        /\ to = "findChild" => idx[r] # Len(spike[r])
  BY DEF NextApp, Goto
<1>3. idx' = [idx EXCEPT ![r] = idx[r] + 1] /\ idx \in [Runs -> Nat]
  BY DEF NextApp, DiagInv, LoopOK
<1>4. PointerTypes'
  BY <1>1, PointersKept DEF DiagInv, PointerTypes, KeepKey
<1>5. TypeOK'
  <2>1. \A q \in Runs : idx'[q] \in 1..(Len(spike[q]) + 1)
    BY <1>1, <1>3 DEF DiagInv, TypeOK
  <2>2. pc' \in [Runs -> {"idle"} \cup Waiting \cup Ended]
    BY <1>2 DEF DiagInv, TypeOK, Waiting, JiraSteps
  <2>3. OtherTypes'
    BY <2>1, <2>2, TypeSplit DEF OtherTypes, DiagInv
  <2>4. QED
    BY <1>4, <2>3, TypeJoin DEF TicketsGrow
<1>6. LoopOK'
  BY <1>1, <1>2, <1>3 DEF LoopOK, DiagInv, TypeOK, JiraSteps
<1>7. ChildrenOK'
  <2>1. ASSUME NEW q \in Runs, pc'[q] = "fileChild", found[q] # 0
        PROVE  Names(found[q], App(q))'
    <3>1. q # r /\ pc[q] = "fileChild" /\ idx'[q] = idx[q]
      BY <1>2, <1>3, <2>1 DEF DiagInv, TypeOK
    <3>2. PICK i, a : i = found[q] /\ a = App(q)
      OBVIOUS
    <3>3. Names(i, a) /\ App(q)' = a /\ found'[q] = i
      BY <2>1, <3>1, <3>2 DEF DiagInv, ChildrenOK, App
    <3>4. Names(i, a)'
      BY <3>3, NamesKept
    <3>5. QED
      BY <3>3, <3>4 DEF Names, TicketIds
  <2>2. ASSUME NEW q \in Runs, NEW a \in Apps, childKeys'[q][a] # 0
        PROVE  Keeps(childKeys[q][a], a, parentKey[q])'
    <3>1. CASE q = r /\ a = app
      <4>1. childKeys'[q][a] = key
        BY <1>1, <3>1 DEF DiagInv, TypeOK, KeepKey
      <4>2. QED
        BY <2>2, <3>1, <4>1 DEF Keeps, Filed, Names, TicketIds
    <3>2. CASE ~(q = r /\ a = app)
      <4>1. childKeys'[q][a] = childKeys[q][a]
        BY <1>1, <3>2 DEF DiagInv, TypeOK, KeepKey
      <4>2. PICK i, p : i = childKeys[q][a] /\ p = parentKey[q]
        OBVIOUS
      <4>3. Keeps(i, a, p)
        BY <2>2, <4>1, <4>2 DEF DiagInv, ChildrenOK
      <4>4. Keeps(i, a, p)'
        BY <4>3, KeepsKept
      <4>5. QED
        BY <4>1, <4>2, <4>4 DEF Keeps, Filed, Names, TicketIds
    <3>3. QED
      BY <3>1, <3>2
  <2>3. ASSUME NEW q \in Runs
        PROVE  /\ pc'[q] \in Early => \A a \in Apps : childKeys'[q][a] = 0
               /\ pc'[q] \in InLoop => parentKey[q] # 0
    <3>1. /\ pc'[q] \in Early => q # r /\ pc[q] \in Early
          /\ pc'[q] \in InLoop => pc[q] \in InLoop
      BY <1>2 DEF DiagInv, TypeOK, Early, InLoop
    <3>2. q # r => childKeys'[q] = childKeys[q]
      BY DEF KeepKey, DiagInv, TypeOK
    <3>3. QED
      BY <3>1, <3>2 DEF DiagInv, ChildrenOK
  <2>4. QED
    BY <2>1, <2>2, <2>3 DEF ChildrenOK
<1>8. HistInv'
  BY <1>2, HistoryStays DEF DiagInv, HistInv, TypeOK, Recorded
<1>9. QED
  BY <1>5, <1>6, <1>7, <1>8 DEF DiagInv, HistInv, TicketsGrow

LEMMA CommentChildKeeps ==
  ASSUME DiagInv, NEW r \in Runs, CommentChild(r)
  PROVE  DiagInv'
<1>1. TicketsGrow
  BY SameGrows DEF CommentChild, DiagInv, jiraVars
<1>2. found[r] \in 0..Len(tickets')
  BY <1>1, PointersKept DEF DiagInv
<1>3. PICK key, app : key = found[r] /\ app = App(r)
  OBVIOUS
<1>4. app \in Apps
  BY <1>3, SpikeFacts DEF CommentChild, DiagInv, LoopOK, JiraSteps, App
<1>5. Keeps(key, app, parentKey[r])
  BY <1>3 DEF CommentChild, DiagInv, ChildrenOK, Keeps, InLoop
<1>6. Keeps(key, app, parentKey[r])'
  <2>1. PICK p : p = parentKey[r]
    OBVIOUS
  <2>2. Keeps(key, app, p)'
    BY <1>1, <1>5, <2>1, KeepsKept
  <2>3. parentKey'[r] = p
    BY <2>1 DEF CommentChild, jiraVars
  <2>4. QED
    BY <2>2, <2>3 DEF Keeps
<1>7. KeepKey(r, key)
  BY <1>3 DEF CommentChild
<1>8. QED
  BY <1>1, <1>2, <1>3, <1>4, <1>6, <1>7, ChildStep DEF CommentChild, jiraVars

(* The Subtask that a run files for an app. *)
LEMMA ChildTicket ==
  ASSUME DiagInv, NEW r \in Runs, CreateChild(r)
  PROVE  \E t \in TicketType, key \in {0, Len(tickets) + 1} :
           /\ t.parent = parentKey[r] /\ t.title = App(r) /\ t.about = {App(r)}
           /\ KeywordOf[App(r)] \in t.words \cup Mangled
           /\ Created(t, key)
           /\ KeepKey(r, key)
<1>1. PICK quoted \in SUBSET (Quoted \cap {headline[r]}),
           signed \in SUBSET {KeywordOf[App(r)]}, key \in {0, Len(tickets) + 1} :
        /\ Created(Ticket(parentKey[r], App(r), {App(r)},
                          signed \cup Findable({KeywordOf[App(r)], App(r)} \cup quoted)),
                   key)
        /\ KeepKey(r, key)
  BY DEF CreateChild
<1>2. PICK words :
        words = signed \cup Findable({KeywordOf[App(r)], App(r)} \cup quoted)
  OBVIOUS
<1>3. PICK t : t = Ticket(parentKey[r], App(r), {App(r)}, words)
  OBVIOUS
<1>4. App(r) \in Apps
  BY SpikeFacts DEF CreateChild, DiagInv, LoopOK, JiraSteps, App
<1>5. words \subseteq Words /\ KeywordOf[App(r)] \in words \cup Mangled
  <2>1. KeywordOf[App(r)] \in Words /\ App(r) \in Words /\ quoted \subseteq Words
    BY <1>4, DiagnosisAssumption DEF Words
  <2>2. QED
    BY <1>2, <2>1 DEF Findable
<1>6. parentKey[r] \in Nat
  BY LenProperties DEF DiagInv, TypeOK, TicketsOK
<1>7. /\ t \in TicketType /\ t.parent = parentKey[r] /\ t.title = App(r)
      /\ t.about = {App(r)} /\ t.words = words
  BY <1>3, <1>4, <1>5, <1>6 DEF Ticket, TicketType
<1>8. Created(t, key)
  BY <1>1, <1>2, <1>3
<1>9. QED
  BY <1>1, <1>5, <1>7, <1>8

LEMMA CreateChildKeeps ==
  ASSUME DiagInv, NEW r \in Runs, CreateChild(r)
  PROVE  DiagInv'
<1>1. PICK t \in TicketType, key \in {0, Len(tickets) + 1} :
        /\ t.parent = parentKey[r] /\ t.title = App(r) /\ Created(t, key)
        /\ KeepKey(r, key)
  BY ChildTicket
<1>2. TicketsOK /\ t.parent \in 0..Len(tickets)
  <2>1. parentKey[r] \in 0..Len(tickets)
    BY DEF DiagInv, TypeOK
  <2>2. QED
    BY <1>1, <2>1 DEF DiagInv
<1>3. /\ TicketsGrow /\ key \in 0..Len(tickets')
      /\ key # 0 => key \in 1..Len(tickets') /\ tickets'[key] = t
  BY <1>1, <1>2, CreatedGrows
<1>4. PICK app : app = App(r)
  OBVIOUS
<1>5. app \in Apps
  BY <1>4, SpikeFacts DEF CreateChild, DiagInv, LoopOK, JiraSteps, App
<1>6. parentKey[r] # 0 /\ parentKey'[r] = parentKey[r]
  BY DEF CreateChild, DiagInv, ChildrenOK, InLoop
<1>7. key # 0 => Keeps(key, app, parentKey[r])'
  BY <1>1, <1>3, <1>4, <1>6 DEF Keeps, Filed, TicketIds
<1>8. QED
  BY <1>1, <1>3, <1>4, <1>5, <1>7, ChildStep DEF CreateChild

-----------------------------------------------------------------------------
(* The end of a run, investigations, people, time and restarts. *)

LEMMA NotifyKeeps ==
  ASSUME DiagInv, NEW r \in Runs, Notify(r)
  PROVE  DiagInv'
<1> USE DEF jiraVars, runVars
<1>1. TicketsGrow
  BY SameGrows DEF Notify, DiagInv
<1>2. pc[r] = "notify" /\ pc' = [pc EXCEPT ![r] = "completed"]
  BY DEF Notify, Finish, Goto
<1>3. TypeOK'
  <2>1. OtherTypes'
    BY <1>2, TypeSplit DEF Notify, OtherTypes, DiagInv, Ended, Recorded
  <2>2. PointerTypes'
    BY DEF Notify, DiagInv, TypeOK, PointerTypes
  <2>3. QED
    BY <1>1, <2>1, <2>2, TypeJoin DEF TicketsGrow
<1>4. LoopOK'
  BY <1>2 DEF Notify, LoopOK, DiagInv, TypeOK, JiraSteps
<1>5. ChildrenOK'
  BY <1>1, <1>2, ChildrenStay DEF Early, InLoop, Notify, DiagInv, TypeOK
<1>6. HistInv'
  BY HistoryGains DEF Notify, DiagInv, HistInv, Recorded
<1>7. QED
  BY <1>1, <1>3, <1>4, <1>5, <1>6 DEF DiagInv, HistInv, TicketsGrow

(* An investigation begins, or ends without an entry. *)
LEMMA InvestigationStep ==
  ASSUME DiagInv, NEW r \in Runs, pc[r] \notin Recorded,
         NEW to \in {"investigate", "unrecorded"}, Goto(r, to),
         UNCHANGED <<now, cooldownMap, history, runVars, restarts, jiraVars>>
  PROVE  DiagInv'
<1> USE DEF jiraVars, runVars
<1>1. TicketsGrow
  BY SameGrows DEF DiagInv
<1>2. pc' = [pc EXCEPT ![r] = to]
  BY DEF Goto
<1>3. TypeOK'
  <2>1. OtherTypes'
    BY <1>2, TypeSplit DEF OtherTypes, DiagInv, Waiting, Ended
  <2>2. PointerTypes'
    BY DEF DiagInv, TypeOK, PointerTypes
  <2>3. QED
    BY <1>1, <2>1, <2>2, TypeJoin DEF TicketsGrow
<1>4. LoopOK'
  BY <1>2 DEF LoopOK, DiagInv, TypeOK, JiraSteps
<1>5. ChildrenOK'
  BY <1>1, <1>2, ChildrenStay DEF Early, InLoop, DiagInv, TypeOK
<1>6. HistInv'
  BY <1>1, <1>2, HistoryStays DEF DiagInv, HistInv, TypeOK, Recorded
<1>7. QED
  BY <1>1, <1>3, <1>4, <1>5, <1>6 DEF DiagInv, HistInv, TicketsGrow

LEMMA InvestigatedKeeps ==
  ASSUME DiagInv, NEW r \in Runs, Investigated(r)
  PROVE  DiagInv'
<1> USE DEF jiraVars, runVars
<1>1. CASE Goto(r, "unrecorded") /\ UNCHANGED history
  BY <1>1, InvestigationStep DEF Investigated, Recorded
<1>2. ASSUME NEW status \in {"completed", "failed"}, Finish(r, status)
      PROVE  DiagInv'
  <2>1. TicketsGrow
    BY SameGrows DEF Investigated, DiagInv
  <2>2. pc[r] = "investigate" /\ pc' = [pc EXCEPT ![r] = status]
    BY <1>2 DEF Investigated, Finish, Goto
  <2>3. TypeOK'
    <3>1. OtherTypes'
      BY <2>2, TypeSplit DEF Investigated, OtherTypes, DiagInv, Ended, Recorded
    <3>2. PointerTypes'
      BY DEF Investigated, DiagInv, TypeOK, PointerTypes
    <3>3. QED
      BY <2>1, <3>1, <3>2, TypeJoin DEF TicketsGrow
  <2>4. LoopOK'
    BY <2>2 DEF Investigated, LoopOK, DiagInv, TypeOK, JiraSteps
  <2>5. ChildrenOK'
    BY <2>1, <2>2, ChildrenStay DEF Early, InLoop, Investigated, DiagInv, TypeOK
  <2>6. HistInv'
    BY <1>2, HistoryGains DEF Investigated, DiagInv, HistInv, Recorded
  <2>7. QED
    BY <2>1, <2>3, <2>4, <2>5, <2>6 DEF DiagInv, HistInv, TicketsGrow
<1>3. QED
  BY <1>1, <1>2 DEF Investigated

LEMMA CloseTicketKeeps ==
  ASSUME DiagInv, NEW i \in TicketIds, CloseTicket(i)
  PROVE  DiagInv'
<1> USE DEF runVars
<1>1. TicketsGrow
  <2>1. /\ tickets \in Seq(TicketType) /\ i \in 1..Len(tickets) /\ Len(tickets) \in Nat
        /\ tickets[i] \in TicketType
    BY LenProperties, ElementOfSeq DEF DiagInv, TicketsOK, TicketIds
  <2>2. PICK t : t = [tickets[i] EXCEPT !.open = FALSE]
    OBVIOUS
  <2>3. /\ t \in TicketType /\ t.parent = tickets[i].parent
        /\ t.about = tickets[i].about /\ t.words = tickets[i].words
        /\ t.title = tickets[i].title
    BY <2>1, <2>2 DEF TicketType
  <2>4. tickets' = [tickets EXCEPT ![i] = t]
    BY <2>2 DEF CloseTicket
  <2>5. /\ tickets' \in Seq(TicketType) /\ Len(tickets') = Len(tickets)
        /\ \A j \in 1..Len(tickets) : tickets'[j] = IF j = i THEN t ELSE tickets[j]
    BY <2>1, <2>3, <2>4, ExceptSeq
  <2>6. TicketsOK'
    BY <2>3, <2>5 DEF DiagInv, TicketsOK, TicketIds
  <2>7. QED
    BY <2>1, <2>3, <2>5, <2>6 DEF TicketsGrow, TicketIds
<1>2. TypeOK'
  <2>1. OtherTypes'
    BY TypeSplit DEF CloseTicket, OtherTypes, DiagInv
  <2>2. PointerTypes'
    BY <1>1, PointersKept DEF CloseTicket, DiagInv, PointerTypes
  <2>3. QED
    BY <1>1, <2>1, <2>2, TypeJoin DEF TicketsGrow
<1>3. LoopOK'
  BY DEF CloseTicket, LoopOK, DiagInv
<1>4. ChildrenOK'
  BY <1>1, ChildrenStay DEF Early, InLoop, CloseTicket, DiagInv
<1>5. HistInv'
  BY <1>1, HistoryStays DEF CloseTicket, DiagInv, HistInv
<1>6. QED
  BY <1>1, <1>2, <1>3, <1>4, <1>5 DEF DiagInv, HistInv, TicketsGrow

LEMMA TickKeeps ==
  ASSUME DiagInv, Tick
  PROVE  DiagInv'
<1> USE DEF jiraVars, runVars
<1>1. TicketsGrow
  BY SameGrows DEF Tick, DiagInv
<1>2. TypeOK'
  <2>1. OtherTypes'
    BY TypeSplit DEF Tick, OtherTypes, DiagInv
  <2>2. PointerTypes'
    BY DEF Tick, DiagInv, TypeOK, PointerTypes
  <2>3. QED
    BY <1>1, <2>1, <2>2, TypeJoin DEF TicketsGrow
<1>3. LoopOK'
  BY DEF Tick, LoopOK, DiagInv
<1>4. ChildrenOK'
  BY <1>1, ChildrenStay DEF Early, InLoop, Tick, DiagInv
<1>5. HistInv'
  BY <1>1, HistoryStays DEF Tick, DiagInv, HistInv
<1>6. QED
  BY <1>1, <1>2, <1>3, <1>4, <1>5 DEF DiagInv, HistInv, TicketsGrow

LEMMA RestartKeeps ==
  ASSUME DiagInv, Restart
  PROVE  DiagInv'
<1> USE DEF jiraVars
<1>1. TicketsGrow
  BY SameGrows DEF Restart, DiagInv
<1>2. \A q \in Runs : pc'[q] \in {"idle", "lost"} /\ (pc'[q] = "idle" => pc[q] = "idle")
  BY DEF Restart
<1>3. TypeOK'
  <2>1. pc' \in [Runs -> {"idle"} \cup Waiting \cup Ended]
    BY DEF Restart, Ended
  <2>2. OtherTypes'
    BY <2>1, TypeSplit DEF Restart, OtherTypes, DiagInv
  <2>3. PointerTypes'
    BY DEF Restart, DiagInv, TypeOK, PointerTypes
  <2>4. QED
    BY <1>1, <2>2, <2>3, TypeJoin DEF TicketsGrow
<1>4. LoopOK'
  BY <1>2 DEF Restart, LoopOK, DiagInv, JiraSteps
<1>5. ChildrenOK'
  BY <1>1, <1>2, ChildrenStay DEF Early, InLoop, Restart, DiagInv
<1>6. HistoryOK' /\ HistoryComplete'
  <2>1. history' = <<>> /\ history' \in Seq(ResultType) /\ Len(history') = 0
        /\ DOMAIN history' = {}
    BY EmptySeq DEF Restart
  <2>2. HistoryOK'
    BY <2>1 DEF HistoryOK
  <2>3. HistoryComplete'
    BY <1>2, <2>1, DiagnosisAssumption DEF HistoryComplete, Recorded
  <2>4. QED
    BY <2>2, <2>3
<1>7. QED
  BY <1>1, <1>3, <1>4, <1>5, <1>6 DEF DiagInv, TicketsGrow

LEMMA DiagInductive ==
  ASSUME DiagInv, [Next]_vars
  PROVE  DiagInv'
<1>1. CASE UNCHANGED vars
  <2>1. TicketsGrow
    BY <1>1, SameGrows DEF vars, jiraVars, DiagInv
  <2>2. TypeOK'
    BY <1>1 DEF vars, runVars, jiraVars, DiagInv, TypeOK, TicketIds
  <2>3. LoopOK' /\ ChildrenOK'
    BY <1>1 DEF vars, runVars, jiraVars, DiagInv, LoopOK, ChildrenOK, Keeps, Filed,
                Names, Among, App, TicketIds
  <2>4. HistInv'
    BY <1>1, <2>1, HistoryStays DEF vars, DiagInv, HistInv
  <2>5. QED
    BY <2>1, <2>2, <2>3, <2>4 DEF DiagInv, HistInv, TicketsGrow
<1>2. CASE \E r \in Runs, f \in BOOLEAN : Accept(r, f)
  BY <1>2, AcceptKeeps
<1>3. CASE \E r \in Runs : AcceptInvestigation(r)
  BY <1>3, InvestigationStep DEF AcceptInvestigation, Recorded
<1>4. ASSUME NEW r \in Runs, RunStep(r)
      PROVE  DiagInv'
  <2>1. CASE NothingToDiagnose(r) \/ \E s \in Spikes : Suppress(r, s) \/ Start(r, s)
    BY <2>1, NothingToDiagnoseKeeps, SuppressKeeps, StartKeeps
  <2>2. CASE \E h \in Headlines, q \in Shapes : Diagnosed(r, h, q)
    BY <2>2, DiagnosedKeeps
  <2>3. CASE FindParent(r) \/ CommentParent(r) \/ CreateParent(r)
    BY <2>3, FindParentKeeps, CommentParentKeeps, CreateParentKeeps
  <2>4. CASE FindChild(r) \/ CommentChild(r) \/ CreateChild(r)
    BY <2>4, FindChildKeeps, CommentChildKeeps, CreateChildKeeps
  <2>5. CASE Notify(r) \/ Investigated(r)
    BY <2>5, NotifyKeeps, InvestigatedKeeps
  <2>6. QED
    BY <1>4, <2>1, <2>2, <2>3, <2>4, <2>5 DEF RunStep
<1>5. CASE \E i \in TicketIds : CloseTicket(i)
  BY <1>5, CloseTicketKeeps
<1>6. CASE Tick
  BY <1>6, TickKeeps
<1>7. CASE Restart
  BY <1>7, RestartKeeps
<1>8. QED
  BY <1>1, <1>2, <1>3, <1>4, <1>5, <1>6, <1>7 DEF Next

LEMMA DiagAlways == Spec => []DiagInv
<1>1. Init => DiagInv
  BY InitDiag
<1>2. DiagInv /\ [Next]_vars => DiagInv'
  BY DiagInductive
<1>3. QED
  BY <1>1, <1>2, PTL DEF Spec

(* Every variable of the pipeline keeps its type, the tickets' included. *)
THEOREM DiagnosisTypeCorrect == Spec => []TypeOK
<1>1. DiagInv => TypeOK
  BY DEF DiagInv
<1>2. QED
  BY <1>1, DiagAlways, PTL

(* History holds every recorded run once, or HistoryMax others             *)
(* (_store_history).                                                       *)
THEOREM HistoryAlwaysComplete == Spec => []HistoryComplete
<1>1. DiagInv => HistoryComplete
  BY DEF DiagInv
<1>2. QED
  BY <1>1, DiagAlways, PTL

(* What history reports as a run's tickets are tickets, and that of an app *)
(* is one filed for it under the ticket of the spike or one that the search *)
(* for its error finds, however runs interleave in the Jira part (lines    *)
(* 658-700).                                                               *)
THEOREM HistoryAlwaysTruthful == Spec => []HistoryTruthful
<1>1. DiagInv => HistoryTruthful
  BY DEF DiagInv, HistoryOK, Truthful, Keeps, Filed, Names, HistoryTruthful
<1>2. QED
  BY <1>1, DiagAlways, PTL

-----------------------------------------------------------------------------
(* Tickets are not duplicated.  Why a new ticket has no twin: the search   *)
(* that came before it found nothing, nothing was filed since, and a twin  *)
(* would have been found, because every ticket says what its search seeks. *)

InJira(r) == pc[r] \in JiraSteps

SoughtIn(t) == IF t.parent = 0 THEN t.title ELSE KeywordOf[t.title]

(* A ticket says what it is sought by, and a Subtask names its app. *)
Said(t) ==
  /\ t.parent # 0 => t.title \in Apps /\ t.about = {t.title}
  /\ SoughtIn(t) \in t.words \cup Mangled

AllSaid == \A i \in TicketIds : Said(tickets[i])

(* As long as all is calm, one run is in the Jira part ... *)
Alone == calm => \A q, r \in Runs : InJira(q) /\ InJira(r) => q = r

(* ... and a run about to file a ticket would still find nothing. *)
Unmatched(r) ==
  found[r] = 0 =>
    /\ pc[r] = "fileParent" => OpenSaying(headline[r]) = {}
    /\ pc[r] = "fileChild" => OpenAbout(App(r), KeywordOf[App(r)]) = {}

UnderParent == \A r \in Runs : pc[r] \in {"findChild", "fileChild"} => parentKey[r] # 0

TwinInv ==
  /\ AllSaid /\ Alone /\ UnderParent
  /\ calm => \A r \in Runs : Unmatched(r)
  /\ TicketsNotDuplicated

(* The Jira part of a run stays as it is, or the run is outside it. *)
SameInJira(r) ==
  InJira(r)' =>
    /\ pc'[r] = pc[r] /\ headline'[r] = headline[r] /\ found'[r] = found[r]
    /\ App(r)' = App(r) /\ parentKey'[r] = parentKey[r]

(* A search for a word finds the texts that have it. *)
LEMMA AmongItself ==
  ASSUME NEW w \in Words, NEW words, w \in words
  PROVE  Among(w, words)
BY DiagnosisAssumption DEF Among

LEMMA TicketsSame ==
  ASSUME UNCHANGED tickets
  PROVE  /\ AllSaid' = AllSaid
         /\ \A i, j : Twins(i, j)' <=> Twins(i, j)
         /\ \A i : Sought(i)' = Sought(i)
         /\ TicketIds' = TicketIds
         /\ \A w : OpenSaying(w)' = OpenSaying(w)
         /\ \A a, w : OpenAbout(a, w)' = OpenAbout(a, w)
BY DEF AllSaid, Said, SoughtIn, Twins, Sought, TicketIds, OpenSaying, OpenAbout

(* Neither tickets nor anything in the Jira part changes. *)
LEMMA TwinQuiet ==
  ASSUME TwinInv, UNCHANGED <<tickets, calm>>, \A r \in Runs : SameInJira(r)
  PROVE  TwinInv'
<1>1. AllSaid' /\ TicketsNotDuplicated'
  BY TicketsSame DEF TwinInv, TicketsNotDuplicated
<1>2. Alone'
  BY DEF TwinInv, Alone, SameInJira, InJira
<1>3. UnderParent'
  BY DEF TwinInv, UnderParent, SameInJira, InJira, JiraSteps
<1>4. ASSUME calm', NEW r \in Runs
      PROVE  Unmatched(r)'
  <2>1. Unmatched(r)
    BY <1>4 DEF TwinInv
  <2>2. CASE ~InJira(r)'
    BY <2>2 DEF Unmatched, InJira, JiraSteps
  <2>3. CASE InJira(r)'
    BY <2>1, <2>3, TicketsSame DEF SameInJira, Unmatched, OpenSaying, OpenAbout, TicketIds
  <2>4. QED
    BY <2>2, <2>3
<1>5. QED
  BY <1>1, <1>2, <1>3, <1>4 DEF TwinInv

(* A step of one run in the Jira part, or into it. *)
LEMMA TwinMove ==
  ASSUME TwinInv, NEW r \in Runs, AllSaid', TicketsNotDuplicated',
         calm' => \A q \in Runs \ {r} : ~InJira(q),
         \A q \in Runs \ {r} : pc'[q] = pc[q] /\ parentKey'[q] = parentKey[q],
         pc'[r] \in {"findChild", "fileChild"} => parentKey'[r] # 0,
         calm' => Unmatched(r)'
  PROVE  TwinInv'
<1>1. Alone'
  BY DEF Alone, InJira
<1>2. UnderParent'
  BY DEF TwinInv, UnderParent
<1>3. calm' => \A q \in Runs : Unmatched(q)'
  BY DEF Unmatched, InJira, JiraSteps
<1>4. QED
  BY <1>1, <1>2, <1>3 DEF TwinInv

LEMMA OthersOutside ==
  ASSUME TwinInv, calm, NEW r \in Runs, InJira(r)
  PROVE  \A q \in Runs \ {r} : ~InJira(q)
BY DEF TwinInv, Alone

LEMMA TicketsSameTwin ==
  ASSUME TwinInv, UNCHANGED tickets, calm' => calm
  PROVE  AllSaid' /\ TicketsNotDuplicated'
BY TicketsSame DEF TwinInv, TicketsNotDuplicated

(* What a search leaves, if nothing failed: no number without a match. *)
LEMMA SearchNone ==
  ASSUME TypeOK, NEW r \in Runs, NEW hits \in SUBSET TicketIds, Search(r, hits)
  PROVE  calm' => calm /\ (found'[r] = 0 => hits = {})
<1>1. DOMAIN found = Runs
  BY DEF TypeOK
<1>2. ASSUME NEW i \in hits, found' = [found EXCEPT ![r] = i]
      PROVE  found'[r] # 0
  BY <1>1, <1>2 DEF TicketIds
<1>3. CASE \E i \in hits : found' = [found EXCEPT ![r] = i] /\ UNCHANGED calm
  <2>1. found'[r] # 0
    BY <1>2, <1>3
  <2>2. calm' = calm
    BY <1>3
  <2>3. QED
    BY <2>1, <2>2
<1>4. CASE calm' = (calm /\ hits = {})
  <2>1. calm' => calm /\ hits = {}
    BY <1>4
  <2>2. QED
    BY <2>1
<1>5. QED
  BY <1>3, <1>4 DEF Search

LEMMA DiagnosedTwin ==
  ASSUME DiagInv, TwinInv, NEW r \in Runs, NEW h, NEW q, Diagnosed(r, h, q)
  PROVE  TwinInv'
<1>1. PICK to \in {"aborted", "findParent"} : pc' = [pc EXCEPT ![r] = to]
  BY DEF Diagnosed, Goto
<1>2. DOMAIN pc = Runs
  BY DEF DiagInv, TypeOK
<1>3. calm' => calm /\ \A o \in Runs \ {r} : ~InJira(o)
  BY DEF Diagnosed, InJira
<1>4. AllSaid' /\ TicketsNotDuplicated'
  BY <1>3, TicketsSameTwin DEF Diagnosed
<1>5. Unmatched(r)' /\ pc'[r] \notin {"findChild", "fileChild"}
  BY <1>1, <1>2 DEF Unmatched
<1>6. \A o \in Runs \ {r} : pc'[o] = pc[o] /\ parentKey'[o] = parentKey[o]
  BY <1>1, <1>2 DEF Diagnosed
<1>7. QED
  BY <1>3, <1>4, <1>5, <1>6, TwinMove

LEMMA FindParentTwin ==
  ASSUME DiagInv, TwinInv, NEW r \in Runs, FindParent(r)
  PROVE  TwinInv'
<1>1. /\ pc[r] = "findParent" /\ pc' = [pc EXCEPT ![r] = "fileParent"] /\ DOMAIN pc = Runs
      /\ UNCHANGED <<headline, parentKey, tickets>>
  BY DEF FindParent, Goto, DiagInv, TypeOK
<1>2. OpenSaying(headline[r]) \in SUBSET TicketIds /\ TypeOK
  BY DEF OpenSaying, DiagInv
<1>3. calm' => calm /\ (found'[r] = 0 => OpenSaying(headline[r]) = {})
  BY <1>2, SearchNone DEF FindParent
<1>4. AllSaid' /\ TicketsNotDuplicated'
  BY <1>1, <1>3, TicketsSameTwin
<1>5. calm' => Unmatched(r)'
  BY <1>1, <1>3 DEF Unmatched, OpenSaying, TicketIds
<1>6. calm' => \A q \in Runs \ {r} : ~InJira(q)
  BY <1>1, <1>3, OthersOutside DEF InJira, JiraSteps
<1>7. /\ \A q \in Runs \ {r} : pc'[q] = pc[q] /\ parentKey'[q] = parentKey[q]
      /\ pc'[r] \notin {"findChild", "fileChild"}
  BY <1>1
<1>8. QED
  BY <1>4, <1>5, <1>6, <1>7, TwinMove

LEMMA CommentParentTwin ==
  ASSUME DiagInv, TwinInv, NEW r \in Runs, CommentParent(r)
  PROVE  TwinInv'
<1>1. PICK to \in {"notify", "aborted", "findChild"} : pc' = [pc EXCEPT ![r] = to]
  BY DEF CommentParent, Goto, AfterParent
<1>2. /\ DOMAIN pc = Runs /\ DOMAIN parentKey = Runs /\ pc[r] = "fileParent"
      /\ found[r] # 0 /\ parentKey' = [parentKey EXCEPT ![r] = found[r]]
      /\ UNCHANGED <<tickets, calm>>
  BY DEF CommentParent, DiagInv, TypeOK, jiraVars
<1>3. AllSaid' /\ TicketsNotDuplicated'
  BY <1>2, TicketsSameTwin
<1>4. /\ Unmatched(r)' /\ parentKey'[r] # 0
      /\ \A q \in Runs \ {r} : pc'[q] = pc[q] /\ parentKey'[q] = parentKey[q]
  BY <1>1, <1>2 DEF Unmatched
<1>5. calm' => \A q \in Runs \ {r} : ~InJira(q)
  BY <1>2, OthersOutside DEF InJira, JiraSteps
<1>6. QED
  BY <1>3, <1>4, <1>5, TwinMove

(* A ticket filed after a search that found none of its kind. *)
LEMMA NewTicket ==
  ASSUME TicketsOK, AllSaid, TicketsNotDuplicated, NEW t \in TicketType, NEW key,
         Created(t, key), UNCHANGED calm, Said(t),
         calm => \A i \in TicketIds :
           /\ tickets[i].open /\ tickets[i].title = t.title
           /\ (tickets[i].parent = 0 <=> t.parent = 0)
           => SoughtIn(t) \in Mangled
  PROVE  AllSaid' /\ TicketsNotDuplicated'
<1>1. CASE UNCHANGED tickets
  BY <1>1, TicketsSame DEF TicketsNotDuplicated
<1>2. CASE tickets' = Append(tickets, t)
  <2>0. PICK n : n = Len(tickets) + 1
    OBVIOUS
  <2>1. /\ tickets \in Seq(TicketType) /\ Len(tickets) \in Nat /\ Len(tickets') = n
        /\ \A i \in 1..Len(tickets) : tickets'[i] = tickets[i]
        /\ tickets'[n] = t
    BY <1>2, <2>0, LenProperties, AppendProperties DEF TicketsOK
  <2>2. /\ TicketIds' = TicketIds \cup {n} /\ n \notin TicketIds
        /\ \A i \in TicketIds : tickets'[i] = tickets[i]
    BY <2>0, <2>1 DEF TicketIds
  <2>3. AllSaid'
    <3>1. \A i \in TicketIds' : Said(tickets'[i])
      BY <2>1, <2>2 DEF AllSaid
    <3>2. QED
      BY <3>1 DEF AllSaid, Said, SoughtIn
  <2>4. ASSUME calm, NEW i \in TicketIds, NEW j \in TicketIds, Twins(i, j)'
        PROVE  Sought(i)' \in Mangled
    <3>1. Twins(i, j) /\ Sought(i)' = Sought(i)
      BY <2>2, <2>4 DEF Twins, Sought
    <3>2. QED
      BY <2>4, <3>1 DEF TicketsNotDuplicated
  <2>5. ASSUME calm, NEW i \in TicketIds, Twins(i, n)' \/ Twins(n, i)'
        PROVE  Sought(i)' \in Mangled /\ Sought(n)' \in Mangled
    <3>1. tickets'[i] = tickets[i] /\ tickets'[n] = t
      BY <2>1, <2>2
    <3>2. /\ tickets'[i].open /\ tickets'[i].title = tickets'[n].title
          /\ (tickets'[i].parent = 0 <=> tickets'[n].parent = 0)
      BY <2>5 DEF Twins
    <3>3. /\ tickets[i].open /\ tickets[i].title = t.title
          /\ (tickets[i].parent = 0 <=> t.parent = 0)
      BY <3>1, <3>2
    <3>4. SoughtIn(t) \in Mangled
      BY <2>5, <3>3
    <3>5. Sought(i)' = SoughtIn(t) /\ Sought(n)' = SoughtIn(t)
      BY <3>1, <3>3 DEF Sought, SoughtIn
    <3>6. QED
      BY <3>4, <3>5
  <2>6. ~Twins(n, n)'
    BY DEF Twins
  <2>7. ASSUME calm, NEW i \in TicketIds', NEW j \in TicketIds', Twins(i, j)'
        PROVE  Sought(i)' \in Mangled
    <3>1. CASE i \in TicketIds /\ j \in TicketIds
      BY <2>4, <2>7, <3>1
    <3>2. CASE i = n \/ j = n
      BY <2>2, <2>5, <2>6, <2>7, <3>2
    <3>3. QED
      BY <2>2, <3>1, <3>2
  <2>8. TicketsNotDuplicated'
    BY <2>7 DEF TicketsNotDuplicated
  <2>9. QED
    BY <2>3, <2>8
<1>3. QED
  BY <1>1, <1>2 DEF Created

LEMMA CreateParentTwin ==
  ASSUME DiagInv, TwinInv, NEW r \in Runs, CreateParent(r)
  PROVE  TwinInv'
<1>1. PICK t \in TicketType, key \in {0, Len(tickets) + 1} :
        /\ t.parent = 0 /\ t.title = headline[r]
        /\ headline[r] \in t.words \cup Mangled
        /\ Created(t, key)
        /\ parentKey' = [parentKey EXCEPT ![r] = key]
        /\ Goto(r, AfterParent(r, key))
  BY ParentTicket
<1>2. /\ DOMAIN pc = Runs /\ DOMAIN parentKey = Runs /\ TicketsOK
      /\ pc[r] = "fileParent" /\ found[r] = 0 /\ UNCHANGED calm
      /\ AllSaid /\ TicketsNotDuplicated
  BY DEF CreateParent, DiagInv, TypeOK, TwinInv
<1>3. Said(t) /\ SoughtIn(t) = headline[r]
  BY <1>1 DEF Said, SoughtIn
<1>4. ASSUME calm, NEW i \in TicketIds, tickets[i].open,
             tickets[i].title = t.title, tickets[i].parent = 0
      PROVE  SoughtIn(t) \in Mangled
  <2>1. OpenSaying(headline[r]) = {}
    BY <1>2, <1>4 DEF TwinInv, Unmatched
  <2>2. headline[r] \in tickets[i].words \cup Mangled
    BY <1>1, <1>2, <1>4 DEF AllSaid, Said, SoughtIn
  <2>3. headline[r] \in Words
    BY DEF DiagInv, TypeOK, Words
  <2>4. QED
    BY <1>3, <1>4, <2>1, <2>2, <2>3, AmongItself DEF OpenSaying
<1>5. AllSaid' /\ TicketsNotDuplicated'
  BY <1>1, <1>2, <1>3, <1>4, NewTicket
<1>6. calm' => \A q \in Runs \ {r} : ~InJira(q)
  BY <1>2, OthersOutside DEF InJira, JiraSteps
<1>7. PICK to : /\ pc' = [pc EXCEPT ![r] = to]
                /\ to \in {"notify", "aborted", "findChild"}
                /\ to = "findChild" => key # 0
  <2>1. pc' = [pc EXCEPT ![r] = AfterParent(r, key)]
    BY <1>1 DEF Goto
  <2>2. /\ AfterParent(r, key) \in {"notify", "aborted", "findChild"}
        /\ AfterParent(r, key) = "findChild" => key # 0
    BY DEF AfterParent
  <2>3. QED
    BY <2>1, <2>2
<1>8. /\ Unmatched(r)' /\ (pc'[r] \in {"findChild", "fileChild"} => parentKey'[r] # 0)
      /\ \A q \in Runs \ {r} : pc'[q] = pc[q] /\ parentKey'[q] = parentKey[q]
  BY <1>1, <1>2, <1>7 DEF Unmatched
<1>9. QED
  BY <1>5, <1>6, <1>8, TwinMove

LEMMA FindChildTwin ==
  ASSUME DiagInv, TwinInv, NEW r \in Runs, FindChild(r)
  PROVE  TwinInv'
<1> DEFINE hits == OpenAbout(App(r), KeywordOf[App(r)])
<1>1. PICK to \in {"fileChild", "aborted"} : pc' = [pc EXCEPT ![r] = to]
  BY DEF FindChild, Goto
<1>2. /\ pc[r] = "findChild" /\ DOMAIN pc = Runs /\ parentKey[r] # 0
      /\ UNCHANGED <<spike, idx, parentKey, tickets>>
  BY DEF FindChild, DiagInv, TypeOK, TwinInv, UnderParent
<1>3. calm' => calm /\ (found'[r] = 0 => hits = {})
  <2>1. hits \in SUBSET TicketIds /\ TypeOK
    BY DEF OpenAbout, DiagInv
  <2>2. QED
    BY <2>1, SearchNone DEF FindChild
<1>4. AllSaid' /\ TicketsNotDuplicated'
  BY <1>2, <1>3, TicketsSameTwin
<1>5. calm' => Unmatched(r)'
  BY <1>1, <1>2, <1>3 DEF Unmatched, OpenAbout, TicketIds, App
<1>6. calm' => \A q \in Runs \ {r} : ~InJira(q)
  BY <1>2, <1>3, OthersOutside DEF InJira, JiraSteps
<1>7. \A q \in Runs \ {r} : pc'[q] = pc[q] /\ parentKey'[q] = parentKey[q]
  BY <1>1, <1>2
<1>8. QED
  BY <1>2, <1>4, <1>5, <1>6, <1>7, TwinMove

(* The run goes on to the next app, whose search is still to come. *)
LEMMA NextAppTwin ==
  ASSUME DiagInv, TwinInv, NEW r \in Runs, pc[r] = "fileChild", NextApp(r),
         AllSaid', TicketsNotDuplicated', UNCHANGED <<parentKey, calm>>
  PROVE  TwinInv'
<1>1. PICK to \in {"notify", "findChild"} : pc' = [pc EXCEPT ![r] = to]
  BY DEF NextApp, Goto
<1>2. DOMAIN pc = Runs /\ parentKey[r] # 0
  BY DEF DiagInv, TypeOK, TwinInv, UnderParent
<1>3. calm' => \A q \in Runs \ {r} : ~InJira(q)
  BY OthersOutside DEF InJira, JiraSteps
<1>4. /\ Unmatched(r)' /\ parentKey'[r] # 0
      /\ \A q \in Runs \ {r} : pc'[q] = pc[q] /\ parentKey'[q] = parentKey[q]
  BY <1>1, <1>2 DEF Unmatched
<1>5. QED
  BY <1>3, <1>4, TwinMove

LEMMA CommentChildTwin ==
  ASSUME DiagInv, TwinInv, NEW r \in Runs, CommentChild(r)
  PROVE  TwinInv'
<1>1. UNCHANGED <<tickets, calm, parentKey>>
  BY DEF CommentChild, jiraVars
<1>2. AllSaid' /\ TicketsNotDuplicated'
  BY <1>1, TicketsSameTwin
<1>3. QED
  BY <1>1, <1>2, NextAppTwin DEF CommentChild

LEMMA CreateChildTwin ==
  ASSUME DiagInv, TwinInv, NEW r \in Runs, CreateChild(r)
  PROVE  TwinInv'
<1>1. PICK t \in TicketType, key \in {0, Len(tickets) + 1} :
        /\ t.parent = parentKey[r] /\ t.title = App(r) /\ t.about = {App(r)}
        /\ KeywordOf[App(r)] \in t.words \cup Mangled
        /\ Created(t, key)
  BY ChildTicket
<1>2. /\ TicketsOK /\ AllSaid /\ TicketsNotDuplicated
      /\ pc[r] = "fileChild" /\ found[r] = 0 /\ parentKey[r] # 0
      /\ UNCHANGED <<calm, parentKey>>
  BY DEF CreateChild, DiagInv, TwinInv, UnderParent
<1>3. App(r) \in Apps
  BY SpikeFacts DEF CreateChild, DiagInv, LoopOK, JiraSteps, App
<1>4. Said(t) /\ SoughtIn(t) = KeywordOf[App(r)]
  BY <1>1, <1>2, <1>3 DEF Said, SoughtIn
<1>5. ASSUME calm, NEW i \in TicketIds, tickets[i].open,
             tickets[i].title = t.title, tickets[i].parent # 0
      PROVE  SoughtIn(t) \in Mangled
  <2>1. OpenAbout(App(r), KeywordOf[App(r)]) = {}
    BY <1>2, <1>5 DEF TwinInv, Unmatched
  <2>2. /\ KeywordOf[App(r)] \in tickets[i].words \cup Mangled
        /\ App(r) \in tickets[i].about
    BY <1>1, <1>2, <1>5 DEF AllSaid, Said, SoughtIn
  <2>3. App(r) \in Words /\ KeywordOf[App(r)] \in Words
    BY <1>3, DiagnosisAssumption DEF Words
  <2>4. QED
    BY <1>4, <1>5, <2>1, <2>2, <2>3, AmongItself DEF OpenAbout
<1>6. AllSaid' /\ TicketsNotDuplicated'
  BY <1>1, <1>2, <1>4, <1>5, NewTicket
<1>7. QED
  BY <1>2, <1>6, NextAppTwin DEF CreateChild

LEMMA CloseTicketTwin ==
  ASSUME DiagInv, TwinInv, NEW k \in TicketIds, CloseTicket(k)
  PROVE  TwinInv'
<1>1. PICK t : t = [tickets[k] EXCEPT !.open = FALSE]
  OBVIOUS
<1>2. /\ tickets \in Seq(TicketType) /\ k \in 1..Len(tickets) /\ Len(tickets) \in Nat
      /\ tickets[k] \in TicketType
  BY LenProperties, ElementOfSeq DEF DiagInv, TicketsOK, TicketIds
<1>3. /\ t \in TicketType /\ t.open = FALSE /\ t.parent = tickets[k].parent
      /\ t.title = tickets[k].title /\ t.about = tickets[k].about
      /\ t.words = tickets[k].words
  BY <1>1, <1>2 DEF TicketType
<1>4. /\ Len(tickets') = Len(tickets)
      /\ \A i \in 1..Len(tickets) : tickets'[i] = IF i = k THEN t ELSE tickets[i]
  <2>1. tickets' = [tickets EXCEPT ![k] = t]
    BY <1>1 DEF CloseTicket
  <2>2. QED
    BY <1>2, <1>3, <2>1, ExceptSeq
<1>5. /\ TicketIds' = TicketIds
      /\ \A i \in TicketIds :
           /\ tickets'[i].open => tickets[i].open
           /\ tickets'[i].parent = tickets[i].parent
           /\ tickets'[i].title = tickets[i].title
           /\ tickets'[i].about = tickets[i].about
           /\ tickets'[i].words = tickets[i].words
  BY <1>3, <1>4 DEF TicketIds
<1>6. AllSaid'
  BY <1>5 DEF TwinInv, AllSaid, Said, SoughtIn
<1>7. UNCHANGED <<pc, calm, found, headline, spike, idx, parentKey>>
  BY DEF CloseTicket, runVars
<1>8. TicketsNotDuplicated'
  BY <1>5, <1>7 DEF TwinInv, TicketsNotDuplicated, Twins, Sought
<1>9. Alone' /\ UnderParent'
  BY <1>7 DEF TwinInv, Alone, UnderParent, InJira
<1>10. ASSUME calm', NEW r \in Runs
       PROVE  Unmatched(r)'
  <2>1. Unmatched(r)
    BY <1>7, <1>10 DEF TwinInv
  <2>2. /\ OpenSaying(headline[r])' \subseteq OpenSaying(headline[r])
        /\ OpenAbout(App(r), KeywordOf[App(r)])' \subseteq OpenAbout(App(r), KeywordOf[App(r)])
    BY <1>5, <1>7 DEF OpenSaying, OpenAbout, App
  <2>3. QED
    BY <1>7, <2>1, <2>2 DEF Unmatched
<1>11. QED
  BY <1>6, <1>8, <1>9, <1>10 DEF TwinInv

(* What happens outside the Jira part. *)
LEMMA OutsideTwin ==
  ASSUME DiagInv, TwinInv, NEW r \in Runs, NEW to, to \notin JiraSteps, Goto(r, to),
         \A q \in Runs \ {r} : spike'[q] = spike[q],
         UNCHANGED <<headline, found, parentKey, idx, tickets, calm>>
  PROVE  TwinInv'
<1>1. DOMAIN pc = Runs
  BY DEF DiagInv, TypeOK
<1>2. \A q \in Runs : SameInJira(q)
  BY <1>1 DEF Goto, SameInJira, InJira, App
<1>3. QED
  BY <1>2, TwinQuiet

LEMMA RunStepTwin ==
  ASSUME DiagInv, TwinInv, NEW r \in Runs, RunStep(r)
  PROVE  TwinInv'
<1> USE DEF jiraVars, runVars
<1>1. CASE NothingToDiagnose(r)
  BY <1>1, OutsideTwin DEF NothingToDiagnose, Finish, JiraSteps
<1>2. ASSUME NEW s \in Spikes, Suppress(r, s) \/ Start(r, s)
      PROVE  TwinInv'
  <2>1. PICK to \in {"cooldown", "gather"} : Goto(r, to)
    BY <1>2 DEF Suppress, Start, Finish
  <2>2. /\ \A q \in Runs \ {r} : spike'[q] = spike[q]
        /\ UNCHANGED <<headline, found, parentKey, idx, tickets, calm>>
    BY <1>2 DEF Suppress, Start, DiagInv, TypeOK
  <2>3. QED
    BY <2>1, <2>2, OutsideTwin DEF JiraSteps
<1>3. ASSUME NEW h \in Headlines, NEW q \in Shapes, Diagnosed(r, h, q)
      PROVE  TwinInv'
  BY <1>3, DiagnosedTwin
<1>4. CASE FindParent(r) \/ CommentParent(r) \/ CreateParent(r)
  BY <1>4, FindParentTwin, CommentParentTwin, CreateParentTwin
<1>5. CASE FindChild(r) \/ CommentChild(r) \/ CreateChild(r)
  BY <1>5, FindChildTwin, CommentChildTwin, CreateChildTwin
<1>6. CASE Notify(r)
  BY <1>6, OutsideTwin DEF Notify, Finish, JiraSteps
<1>7. CASE Investigated(r)
  <2>1. PICK to \in {"completed", "failed", "unrecorded"} : Goto(r, to)
    BY <1>7 DEF Investigated, Finish
  <2>2. QED
    BY <1>7, <2>1, OutsideTwin DEF Investigated, JiraSteps
<1>8. QED
  BY <1>1, <1>2, <1>3, <1>4, <1>5, <1>6, <1>7 DEF RunStep

LEMMA TwinInductive ==
  ASSUME DiagInv, TwinInv, [Next]_vars
  PROVE  TwinInv'
<1> USE DEF jiraVars, runVars
<1>1. CASE UNCHANGED vars
  BY <1>1, TwinQuiet DEF vars, SameInJira, InJira, App
<1>2. ASSUME NEW r \in Runs, NEW f \in BOOLEAN, Accept(r, f)
      PROVE  TwinInv'
  BY <1>2, OutsideTwin DEF Accept, JiraSteps
<1>3. ASSUME NEW r \in Runs, AcceptInvestigation(r)
      PROVE  TwinInv'
  BY <1>3, OutsideTwin DEF AcceptInvestigation, JiraSteps
<1>4. ASSUME NEW i \in TicketIds, CloseTicket(i)
      PROVE  TwinInv'
  BY <1>4, CloseTicketTwin
<1>5. CASE Tick
  BY <1>5, TwinQuiet DEF Tick, SameInJira, InJira, App
<1>6. CASE Restart
  <2>1. \A r \in Runs : SameInJira(r)
    BY <1>6 DEF Restart, SameInJira, InJira, JiraSteps
  <2>2. QED
    BY <1>6, <2>1, TwinQuiet DEF Restart
<1>7. QED
  BY <1>1, <1>2, <1>3, <1>4, <1>5, <1>6, RunStepTwin DEF Next

(* Runs that follow one another, with every search answered, file no       *)
(* second ticket for a headline or for the error of an app, whatever the   *)
(* texts of the tickets quote, whichever creations fail or lose their      *)
(* answer, wherever the process dies and whoever resolves tickets          *)
(* meanwhile; unless the search could not find the first one (Mangled).    *)
THEOREM TicketsNeverDuplicated == Spec => []TicketsNotDuplicated
<1>1. Init => TwinInv
  BY DEF Init, TwinInv, AllSaid, Alone, InJira, JiraSteps, UnderParent, Unmatched,
         TicketsNotDuplicated, TicketIds
<1>2. DiagInv /\ TwinInv /\ [Next]_vars => TwinInv'
  BY TwinInductive
<1>3. TwinInv => TicketsNotDuplicated
  BY DEF TwinInv
<1>4. QED
  BY <1>1, <1>2, <1>3, DiagAlways, PTL DEF Spec
=============================================================================
