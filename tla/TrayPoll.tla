------------------------------ MODULE TrayPoll ------------------------------
(***************************************************************************)
(* tools/tray-monitor/monitor.py: the poll thread of the Windows tray      *)
(* monitor, the refresh threads the panel starts after a user's action,    *)
(* and the settings dialog, which changes the list of profiles meanwhile.  *)
(* What is kept per profile is keyed by the profile's position in the list.*)
(* Sources (Grafana, PagerDuty) and their alerts are external; the thread  *)
(* that makes a purple or red icon flash is left out.                      *)
(***************************************************************************)
EXTENDS Naturals, Sequences

CONSTANTS
  Sources,      \* addresses a profile may have
  Alerts,       \* fingerprints
  SourceOf,     \* the source of an alert
  Severity,     \* its label severity; absent counts as a warning
  Refreshers,   \* threads of _fetch_and_rebuild
  MaxProfiles,  \* bound: length of the list of profiles
  MaxEvents,    \* bound: alerts that start or stop, edits of the profiles
  Blank         \* a profile without address

ASSUME TrayAssumption ==
  /\ SourceOf \in [Alerts -> Sources]
  /\ Severity \in [Alerts -> {"critical", "high", "warning"}]
  /\ MaxProfiles \in Nat \ {0} /\ MaxEvents \in Nat
  /\ Blank \notin Sources

Positions == 1..MaxProfiles

(* The result of a fetch, and an entry of _states; None is Unreachable.    *)
Results == [alerts : SUBSET Alerts, reachable : BOOLEAN]
Result(alerts) == [alerts |-> alerts, reachable |-> TRUE]
Unreachable == [alerts |-> {}, reachable |-> FALSE]

VARIABLES
  firing,       \* the alerts that fire and are not silenced
  profiles,     \* settings: the source of each profile
  states,       \* _states; Unreachable where there is no entry
  pc,           \* poll thread: where it is
  snap,         \* poll thread: its copy of the profiles
  at,           \* poll thread: i
  result,       \* poll thread: what the fetch returned
  flags,        \* poll thread: any_critical, any_high, any_warning, any_reachable
  previous,     \* poll thread: previous_per
  initialised,  \* poll thread: initialised
  icon, title,  \* the colour and the tooltip the poll thread chose last
  job,          \* refresh thread: where it is, its tab, source and result
  events,
  edited,       \* the list of profiles has been edited
  seen,         \* the alerts fetched in this round of the poll
  told,         \* the alerts the user was told of, or deliberately not (at
                \* the first sync, or toasts suppressed), and which have not
                \* been missing from a list the poll got since
  again,        \* a toast was shown for an alert that was told already;
                \* told is history up to the first edit of the profiles, again
                \* up to it or the first write of a refresh thread
  refreshed     \* a refresh thread has written states

pollVars == <<pc, snap, at, result, flags, previous, initialised, icon, title,
              seen, told, again>>
vars == <<firing, profiles, states, pollVars, job, events, edited,
          refreshed>>

Idle == [pc |-> "idle", tab |-> 1, source |-> Blank, result |-> Unreachable]

Init ==
  /\ firing \in SUBSET Alerts
  /\ \E n \in Positions : profiles \in [1..n -> Sources \cup {Blank}]
  /\ \A i, j \in DOMAIN profiles :
       i # j /\ profiles[i] = profiles[j] => profiles[i] = Blank
  /\ states = [i \in Positions |-> Unreachable]
  /\ pc = "sleep" /\ snap = <<>> /\ at = 1 /\ result = Unreachable /\ flags = {}
  /\ previous = [i \in Positions |-> {}] /\ initialised = {}
  /\ icon = "grey" /\ title = "starting"
  /\ job = [b \in Refreshers |-> Idle]
  /\ events = 0 /\ edited = FALSE
  /\ seen = {} /\ told = {} /\ again = FALSE /\ refreshed = FALSE

-----------------------------------------------------------------------------
(* _fetch, _fetch_pd: what the source answers at one moment, or None. *)
Answers(s) == {Unreachable, Result({a \in firing : SourceOf[a] = s})}

(* Mutant: the flags of the last round are kept. *)
FlagsKept == flags

FlagsAtStart == {}

(* The head of the loop: a copy of the list, and no flag is set. *)
PollRound ==
  /\ pc = "sleep"
  /\ pc' = "fetch" /\ snap' = profiles /\ at' = 1
  /\ flags' = FlagsAtStart /\ seen' = {}
  /\ UNCHANGED <<firing, profiles, states, result, previous,
                 initialised, icon, title, told, again, job, events, edited,
                 refreshed>>

(* A profile without address is passed over: its entry in states stays. *)
PollSkip ==
  /\ pc = "fetch" /\ at <= Len(snap) /\ snap[at] = Blank
  /\ at' = at + 1
  /\ UNCHANGED <<firing, profiles, states, pc, snap, result, flags,
                 previous, initialised, icon, title, seen, told, again, job,
                 events, edited, refreshed>>

PollFetch ==
  /\ pc = "fetch" /\ at <= Len(snap) /\ snap[at] # Blank
  /\ pc' = "write"
  /\ result' \in Answers(snap[at])
  /\ UNCHANGED <<firing, profiles, states, snap, at, flags,
                 previous, initialised, icon, title, seen, told, again, job,
                 events, edited, refreshed>>

Has(alerts, severity) == \E a \in alerts : Severity[a] = severity

(* Only the worst severity of a profile sets its flag. *)
FlagOf(alerts) ==
  IF Has(alerts, "critical") THEN {"critical"}
  ELSE IF Has(alerts, "high") THEN {"high"}
  ELSE IF alerts # {} THEN {"warning"} ELSE {}

(* Mutant: a failed fetch becomes the baseline ("the flood after every     *)
(* timeout").                                                              *)
BaselineEmptied == [previous EXCEPT ![at] = {}]

BaselineKept == previous

(* The entry is written under the lock.  A failed fetch leaves it empty    *)
(* and goes on with the next profile.                                      *)
PollWrite ==
  /\ pc = "write"
  /\ states' = [states EXCEPT ![at] = result]
  /\ IF ~result.reachable
     THEN /\ pc' = "fetch" /\ at' = at + 1
          /\ previous' = BaselineKept
          /\ UNCHANGED <<flags, seen>>
     ELSE /\ pc' = "diff"
          /\ flags' = flags \cup FlagOf(result.alerts) \cup {"reachable"}
          /\ seen' = seen \cup result.alerts
          /\ UNCHANGED <<at, previous>>
  /\ UNCHANGED <<firing, profiles, snap, result, initialised, icon,
                 title, told, again, job, events, edited, refreshed>>

(* Mutant: an alert stays in the baseline after it has stopped firing. *)
BaselineGrown(current) == previous[at] \cup current

Baseline(current) == current

(* `current` is read again from states, under the lock once more.  At the  *)
(* first sync it is the baseline; later what is new in it is toasted,      *)
(* unless toasts are suppressed: the user may pause them at any time.      *)
PollDiff ==
  /\ pc = "diff"
  /\ LET current == states[at].alerts
         new     == IF at \in initialised THEN current \ previous[at] ELSE {}
         kept    == {a \in told : SourceOf[a] = snap[at] =>
                                   a \in result.alerts \cup current}
     IN  /\ IF edited
            THEN UNCHANGED <<told, again>>
            ELSE /\ told' = kept \cup (IF at \in initialised THEN new ELSE current)
                 /\ \/ again' = (again \/ (~refreshed /\ new \cap told # {}))
                    \/ UNCHANGED again
         /\ previous' = [previous EXCEPT ![at] = Baseline(current)]
  /\ initialised' = initialised \cup {at}
  /\ pc' = "fetch" /\ at' = at + 1
  /\ UNCHANGED <<firing, profiles, states, snap, result, flags, icon, title,
                 seen, job, events, edited, refreshed>>

Colour ==
  IF "critical" \in flags THEN "purple"
  ELSE IF "high" \in flags THEN "red"
  ELSE IF "warning" \in flags THEN "orange"
  ELSE IF "reachable" \in flags THEN "green" ELSE "grey"

Tooltip ==
  IF "reachable" \notin flags THEN "unreachable"
  ELSE IF flags \cap {"critical", "warning"} = {} THEN "allClear"
  ELSE "counts"

PollShow ==
  /\ pc = "fetch" /\ at > Len(snap)
  /\ pc' = "sleep"
  /\ icon' = Colour /\ title' = Tooltip
  /\ UNCHANGED <<firing, profiles, states, snap, at, result, flags,
                 previous, initialised, seen, told, again, job, events, edited,
                 refreshed>>

-----------------------------------------------------------------------------
(* _fetch_and_rebuild: the tab and its profile are taken when it starts.   *)
RefreshStart(b, i) ==
  /\ job[b].pc = "idle"
  /\ job' = [job EXCEPT ![b] = [pc |-> "fetch", tab |-> i, source |-> profiles[i],
                                result |-> Unreachable]]
  /\ UNCHANGED <<firing, profiles, states, pollVars, events, edited,
                 refreshed>>

RefreshFetch(b) ==
  /\ job[b].pc = "fetch"
  /\ \E r \in Answers(job[b].source) :
       job' = [job EXCEPT ![b].pc = "write", ![b].result = r]
  /\ UNCHANGED <<firing, profiles, states, pollVars, events, edited,
                 refreshed>>

(* A failed fetch leaves the entry as it is. *)
RefreshWrite(b) ==
  /\ job[b].pc = "write"
  /\ job' = [job EXCEPT ![b] = Idle]
  /\ IF ~job[b].result.reachable
     THEN UNCHANGED <<states, refreshed>>
     ELSE /\ states' = [states EXCEPT ![job[b].tab] = job[b].result]
          /\ refreshed' = TRUE
  /\ UNCHANGED <<firing, profiles, pollVars, events, edited>>

-----------------------------------------------------------------------------
(* An alert starts or stops firing, or is silenced or unsilenced. *)
Change(a) ==
  /\ events < MaxEvents
  /\ events' = events + 1
  /\ firing' = IF a \in firing THEN firing \ {a} ELSE firing \cup {a}
  /\ UNCHANGED <<profiles, states, pollVars, job, edited, refreshed>>

EditProfiles(list) ==
  /\ events < MaxEvents
  /\ events' = events + 1 /\ edited' = TRUE
  /\ profiles' = list
  /\ told' = {} /\ again' = FALSE
  /\ UNCHANGED <<firing, states, pc, snap, at, result, flags, previous,
                 initialised, icon, title, seen, job, refreshed>>

(* add_profile: a blank profile is saved before the user fills it in. *)
AddProfile ==
  /\ Len(profiles) < MaxProfiles
  /\ EditProfiles(Append(profiles, Blank))

(* save_profile; two profiles with one source are not considered. *)
SaveProfile(i, s) ==
  /\ \A j \in DOMAIN profiles : profiles[j] # s
  /\ EditProfiles([profiles EXCEPT ![i] = s])

(* What follows the removed profile moves up. *)
Without(i) ==
  SubSeq(profiles, 1, i - 1) \o SubSeq(profiles, i + 1, Len(profiles))

(* Mutant: the last profile can be deleted too. *)
DeleteAny(i) == EditProfiles(Without(i))

(* delete_profile: the last profile stays. *)
DeleteProfile(i) == Len(profiles) > 1 /\ EditProfiles(Without(i))

Next ==
  \/ PollRound \/ PollSkip \/ PollFetch \/ PollWrite \/ PollDiff \/ PollShow
  \/ \E b \in Refreshers :
       \/ \E i \in DOMAIN profiles : RefreshStart(b, i)
       \/ RefreshFetch(b) \/ RefreshWrite(b)
  \/ \E a \in Alerts : Change(a)
  \/ AddProfile
  \/ \E i \in DOMAIN profiles :
       DeleteProfile(i) \/ \E s \in Sources : SaveProfile(i, s)

(* The poll thread runs for as long as the program does. *)
Spec == Init /\ [][Next]_vars

-----------------------------------------------------------------------------
(* Every variable keeps its type. *)
TypeOK ==
  /\ firing \subseteq Alerts /\ seen \subseteq Alerts /\ told \subseteq Alerts
  /\ profiles \in Seq(Sources \cup {Blank}) /\ Len(profiles) \in Positions
  /\ snap \in Seq(Sources \cup {Blank}) /\ Len(snap) \in 0..MaxProfiles
  /\ again \in BOOLEAN /\ refreshed \in BOOLEAN
  /\ states \in [Positions -> Results] /\ result \in Results
  /\ pc \in {"sleep", "fetch", "write", "diff"}
  /\ at \in 1..(MaxProfiles + 1)
  /\ pc \in {"write", "diff"} => at \in DOMAIN snap
  /\ flags \subseteq {"critical", "high", "warning", "reachable"}
  /\ previous \in [Positions -> SUBSET Alerts] /\ initialised \subseteq Positions
  /\ icon \in {"purple", "red", "orange", "green", "grey"}
  /\ title \in {"starting", "unreachable", "allClear", "counts"}
  /\ job \in [Refreshers ->
       [pc : {"idle", "fetch", "write"}, tab : Positions,
        source : Sources \cup {Blank}, result : Results]]
  /\ events \in Nat /\ edited \in BOOLEAN

(* Lines 1931-1936: as long as the list of profiles is not edited and the  *)
(* poll thread alone writes states, an alert that is in every list the     *)
(* poll gets from its source is toasted at most once and never if it was   *)
(* in the first, whatever fetches fail in between.                         *)
ToldOnce == ~edited /\ ~refreshed => ~again

(* Nobody is left untold, refresh threads or not: what the poll takes as   *)
(* known was in the first list of its profile, or toasted (or suppressed)  *)
(* when it came, and has not stopped firing since as far as the poll saw.  *)
BaselineWasTold == ~edited => \A i \in initialised : previous[i] \subseteq told

(* "Tray icon reflects worst state across all profiles" (line 1961): after *)
(* a round the colour chosen is that of the worst severity fetched in that *)
(* round, and green or grey only if nothing that was fetched fires.        *)
IconIsWorst ==
  pc = "sleep" /\ title # "starting" =>
    /\ icon = "purple" <=> Has(seen, "critical")
    /\ icon = "red" <=> Has(seen, "high") /\ ~Has(seen, "critical")
    /\ icon = "orange" <=> seen # {} /\ \A a \in seen : Severity[a] = "warning"
    /\ title = "unreachable" <=> icon = "grey"
=============================================================================
