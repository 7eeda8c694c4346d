-------------------------- MODULE SupervisorMonitor --------------------------
(***************************************************************************)
(* The check of one host's supervisor workers                              *)
(* (onprem/supervisor-monitor/check-workers.sh), which cron runs every     *)
(* five minutes: read the states over ssh, start what is unhealthy, read   *)
(* again, and post a group of metrics.  A POST replaces the metrics it     *)
(* names and leaves the others of the group alone.                         *)
(***************************************************************************)
EXTENDS Integers, FiniteSets

CONSTANTS
    Workers,
    Labels,             \* pairs of app and worker name
    Blank,              \* the labels made of an empty line
    MaxWorkerChanges,   \* bound on changes not made by the check
    MaxCheckFaults      \* bound on failures of ssh and of the Pushgateway

ASSUME SupervisorAssumption ==
    MaxWorkerChanges \in Nat /\ MaxCheckFaults \in Nat

VARIABLES
    workers,        \* state of each worker
    daemon,         \* is supervisord up
    label,          \* labels of each worker
    strictExit,     \* does supervisorctl fail when a worker is not running
    check,          \* the check in progress: its step and the states read;
                    \* `moved`, history: workers that change before the push
    pushed,         \* the group on the Pushgateway
    stampOld,       \* is the time stamp of the group from an earlier check
    workerChanges, checkFaults

supervisorVars == <<workers, daemon, label, strictExit, check, pushed, stampOld,
                    workerChanges, checkFaults>>

\* One state of each kind: started, starting, down and restarted by the check
\* (FATAL, STOPPED, BACKOFF), down and left alone (EXITED, UNKNOWN), and the one
\* for whose lines parse_status prints nothing.
WorkerStates == {"RUNNING", "STARTING", "FATAL", "EXITED", "STOPPING"}
CountedUp == {"RUNNING", "STARTING"}
Unhealthy == {"FATAL"}
Parsed == WorkerStates \ {"STOPPING"}

\* The states read: a function on the workers whose lines are parsed.
NoLines == [w \in {} |-> "RUNNING"]
Checking(pc, states) == [pc |-> pc, states |-> states, moved |-> {}]
NoCheck == Checking("idle", NoLines)

SupervisorInit ==
    /\ workers = [w \in Workers |-> "RUNNING"]
    /\ daemon = TRUE
    /\ label \in [Workers -> Labels]
    /\ strictExit \in BOOLEAN
    /\ check = NoCheck
    /\ pushed = [reachable |-> TRUE, up |-> {label[w] : w \in Workers}, down |-> {}]
    /\ stampOld = FALSE
    /\ workerChanges = 0 /\ checkFaults = 0

-----------------------------------------------------------------------------
Change == workerChanges < MaxWorkerChanges /\ workerChanges' = workerChanges + 1

Moved(some) ==
    check' = IF check.pc = "push" THEN [check EXCEPT !.moved = check.moved \cup some]
             ELSE check

ChangeWorker(w, s) ==
    /\ daemon /\ Change /\ workers[w] # s
    /\ workers' = [workers EXCEPT ![w] = s]
    /\ Moved({w})
    /\ UNCHANGED <<daemon, label, strictExit, pushed, stampOld, checkFaults>>

ToggleDaemon ==
    /\ Change
    /\ daemon' = ~daemon
    /\ workers' = [w \in Workers |-> IF daemon THEN "EXITED" ELSE "RUNNING"]
    /\ Moved(Workers)
    /\ UNCHANGED <<label, strictExit, pushed, stampOld, checkFaults>>

-----------------------------------------------------------------------------
(* The check.                                                              *)

\* supervisorctl status, through ssh: an answer, or a failure of either.  Its
\* lines are parsed; without supervisord there are none.
Answer == IF daemon THEN [w \in {v \in Workers : workers[v] \in Parsed} |-> workers[w]]
          ELSE NoLines
Refused == strictExit /\ (~daemon \/ \E w \in Workers : workers[w] \notin CountedUp)
SshFails == checkFaults < MaxCheckFaults /\ checkFaults' = checkFaults + 1

\* Where the check goes on with the states it has read.
Continue(states) ==
    IF DOMAIN states = {} THEN NoCheck
    ELSE Checking(IF \E w \in DOMAIN states : states[w] \in Unhealthy
                  THEN "start" ELSE "push", states)

ReadStatus ==
    /\ check.pc = "idle"
    /\ stampOld' = TRUE
    /\ \/ ~Refused /\ check' = Continue(Answer) /\ checkFaults' = checkFaults
       \/ Refused /\ check' = [NoCheck EXCEPT !.pc = "unreachable"]
                  /\ checkFaults' = checkFaults
       \/ SshFails /\ check' = [NoCheck EXCEPT !.pc = "unreachable"]
    /\ UNCHANGED <<workers, daemon, label, strictExit, pushed, workerChanges>>

\* Mutant: the failure is not reported.
PushUnreachableSilently ==
    /\ check.pc = "unreachable" /\ check' = NoCheck
    /\ stampOld' = FALSE
    /\ UNCHANGED <<workers, daemon, label, strictExit, pushed, workerChanges,
                   checkFaults>>

\* The host is reported unreachable, now; what the group says of its workers
\* stays.
PushUnreachable ==
    /\ check.pc = "unreachable" /\ check' = NoCheck
    /\ \/ /\ pushed' = [pushed EXCEPT !.reachable = FALSE]
          /\ stampOld' = FALSE /\ checkFaults' = checkFaults
       \/ SshFails /\ UNCHANGED <<pushed, stampOld>>
    /\ UNCHANGED <<workers, daemon, label, strictExit, workerChanges>>

\* supervisorctl start, of the workers read as unhealthy: each may come up.
StartUnhealthy ==
    /\ check.pc = "start"
    /\ check' = [check EXCEPT !.pc = "recheck"]
    /\ \/ /\ daemon
          /\ \E started \in SUBSET {w \in DOMAIN check.states :
                                       /\ check.states[w] \in Unhealthy
                                       /\ workers[w] \in Parsed \ CountedUp} :
               workers' = [w \in Workers |-> IF w \in started THEN "RUNNING"
                                             ELSE workers[w]]
          /\ checkFaults' = checkFaults
       \/ ~daemon /\ UNCHANGED <<workers, checkFaults>>
       \/ SshFails /\ UNCHANGED workers
    /\ UNCHANGED <<daemon, label, strictExit, pushed, stampOld, workerChanges>>

\* Mutant: when the second status fails, the first one is pushed.
RecheckOrFirst ==
    /\ check.pc = "recheck"
    /\ \/ /\ ~Refused /\ check' = Checking("push", Answer)
          /\ checkFaults' = checkFaults
       \/ Refused /\ check' = [check EXCEPT !.pc = "push"] /\ checkFaults' = checkFaults
       \/ SshFails /\ check' = [check EXCEPT !.pc = "push"]
    /\ UNCHANGED <<workers, daemon, label, strictExit, pushed, stampOld,
                   workerChanges>>

\* The second status: a failure ends the check; no lines do not.
Recheck ==
    /\ check.pc = "recheck"
    /\ \/ /\ ~Refused /\ check' = Checking("push", Answer)
          /\ checkFaults' = checkFaults
       \/ Refused /\ check' = NoCheck /\ checkFaults' = checkFaults
       \/ SshFails /\ check' = NoCheck
    /\ UNCHANGED <<workers, daemon, label, strictExit, pushed, stampOld,
                   workerChanges>>

\* The Pushgateway refuses a group in which two workers have the same labels.
Distinct(states) ==
    \A v, w \in DOMAIN states : label[v] = label[w] => v = w

\* The series supervisor_worker_up, which replace those of the group: without
\* lines the loop reads one empty line.
Series(states) ==
    [reachable |-> TRUE,
     up |-> {label[w] : w \in {v \in DOMAIN states : states[v] \in CountedUp}},
     down |-> IF DOMAIN states = {} THEN {Blank}
              ELSE {label[w] : w \in {v \in DOMAIN states : states[v] \notin CountedUp}}]

PushStates ==
    /\ check.pc = "push" /\ check' = NoCheck
    /\ \/ /\ Distinct(check.states)
          /\ pushed' = Series(check.states)
          /\ stampOld' = FALSE /\ checkFaults' = checkFaults
       \/ ~Distinct(check.states) /\ UNCHANGED <<pushed, stampOld, checkFaults>>
       \/ SshFails /\ UNCHANGED <<pushed, stampOld>>
    /\ UNCHANGED <<workers, daemon, label, strictExit, workerChanges>>

CheckStep ==
    ReadStatus \/ PushUnreachable \/ StartUnhealthy \/ Recheck \/ PushStates

SupervisorNext ==
    \/ CheckStep
    \/ \E w \in Workers, s \in WorkerStates : ChangeWorker(w, s)
    \/ ToggleDaemon

-----------------------------------------------------------------------------
\* A worker that stays down is noticed by an alert rule sooner or later, and for
\* as long as it is down: its series is 0, or its host is unreachable, or the
\* time stamp is old again and again.  Not so one stuck in STOPPING: it has no
\* line, hence no series (check-workers.sh:26-35, 97-192; the three rules are
\* grafana/alert-rules.yml:2010, 2055, 2100).
Down(w) == workers[w] \in Parsed \ CountedUp
Noticed(w) == label[w] \in pushed.down \/ ~pushed.reachable
DownIsNoticed ==
    \A w \in Workers : <>[]Down(w) => <>[]Noticed(w) \/ <>[]stampOld

\* What is pushed for a worker is how the check left it: not what it was before
\* the check started it, nor what another worker of the same labels is, and no
\* line at all reads as not up.  A worker that is starting counts as up, one that
\* is stopping does not count, and its labels may be another's; only a worker
\* that changes while the metrics are put together may show otherwise
\* (check-workers.sh:26-35, 127-192).
GroupIsCurrent ==
    [][pushed' # pushed /\ pushed'.reachable =>
         \A w \in Workers \ check.moved : workers[w] \in Parsed =>
            (label[w] \in pushed'.up <=> workers[w] \in CountedUp)]_supervisorVars
=============================================================================
