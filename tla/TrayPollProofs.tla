--------------------------- MODULE TrayPollProofs ---------------------------
(***************************************************************************)
(* Proofs about TrayPoll: for any alerts, sources and lists of profiles,   *)
(* and any number of refresh threads.                                      *)
(***************************************************************************)
EXTENDS TrayPoll, SequenceTheorems, TLAPS

(* The actions that neither the poll thread nor the colour depends on. *)
Refresh(b) ==
  \/ \E i \in DOMAIN profiles : RefreshStart(b, i)
  \/ RefreshFetch(b) \/ RefreshWrite(b)

(* The list an edit of the profiles leaves. *)
EditedList(list) ==
  \/ Len(profiles) < MaxProfiles /\ list = Append(profiles, Blank)
  \/ \E i \in DOMAIN profiles :
       \/ Len(profiles) > 1 /\ list = Without(i)
       \/ \E s \in Sources : list = [profiles EXCEPT ![i] = s]

-----------------------------------------------------------------------------
(* Next, by what the invariants tell apart. *)
LEMMA NextCases ==
  ASSUME [Next]_vars
  PROVE  \/ PollRound \/ PollSkip \/ PollFetch \/ PollWrite \/ PollDiff
         \/ PollShow
         \/ \E b \in Refreshers : Refresh(b)
         \/ \E a \in Alerts : Change(a)
         \/ \E list : EditedList(list) /\ EditProfiles(list)
         \/ UNCHANGED vars
<1>1. CASE AddProfile
  BY <1>1 DEF AddProfile, EditedList
<1>2. ASSUME NEW i \in DOMAIN profiles, DeleteProfile(i)
      PROVE  \E list : EditedList(list) /\ EditProfiles(list)
  BY <1>2 DEF DeleteProfile, EditedList
<1>3. ASSUME NEW i \in DOMAIN profiles, NEW s \in Sources, SaveProfile(i, s)
      PROVE  \E list : EditedList(list) /\ EditProfiles(list)
  BY <1>3 DEF SaveProfile, EditedList
<1>4. QED
  BY <1>1, <1>2, <1>3 DEF Next, Refresh

LEMMA EditedListType ==
  ASSUME profiles \in Seq(Sources \cup {Blank}), Len(profiles) \in Positions,
         NEW list, EditedList(list)
  PROVE  list \in Seq(Sources \cup {Blank}) /\ Len(list) \in Positions
<1> USE TrayAssumption DEF Positions
<1>1. CASE Len(profiles) < MaxProfiles /\ list = Append(profiles, Blank)
  BY <1>1, AppendProperties
<1>2. ASSUME NEW i \in DOMAIN profiles, Len(profiles) > 1, list = Without(i)
      PROVE  list \in Seq(Sources \cup {Blank}) /\ Len(list) \in Positions
  <2> DEFINE L == SubSeq(profiles, 1, i - 1)
             R == SubSeq(profiles, i + 1, Len(profiles))
  <2>1. /\ L \in Seq(Sources \cup {Blank}) /\ Len(L) = i - 1
        /\ R \in Seq(Sources \cup {Blank}) /\ Len(R) = Len(profiles) - i
    BY <1>2, SubSeqProperties, LenProperties
  <2>2. list = L \o R
    BY <1>2 DEF Without
  <2> HIDE DEF L, R
  <2>3. list \in Seq(Sources \cup {Blank}) /\ Len(list) = Len(profiles) - 1
    BY <2>1, <2>2, ConcatProperties, LenProperties
  <2>4. QED
    BY <1>2, <2>3
<1>3. ASSUME NEW i \in DOMAIN profiles, NEW s \in Sources,
             list = [profiles EXCEPT ![i] = s]
      PROVE  list \in Seq(Sources \cup {Blank}) /\ Len(list) \in Positions
  BY <1>3, ExceptSeq
<1>4. QED
  BY <1>1, <1>2, <1>3 DEF EditedList

LEMMA AnswerType ==
  ASSUME firing \subseteq Alerts, NEW s, NEW r \in Answers(s)
  PROVE  r \in Results /\ \A a \in r.alerts : SourceOf[a] = s
<1>1. CASE r = Unreachable
  <2>1. r = [alerts |-> {}, reachable |-> FALSE]
    BY <1>1 DEF Unreachable
  <2>2. r.alerts = {}
    BY <2>1
  <2>3. QED
    BY <2>1, <2>2 DEF Results
<1>2. CASE r = Result({a \in firing : SourceOf[a] = s})
  <2> DEFINE S == {a \in firing : SourceOf[a] = s}
  <2>1. r = [alerts |-> S, reachable |-> TRUE] /\ S \in SUBSET Alerts
    BY <1>2 DEF Result
  <2>2. r.alerts = S
    BY <2>1
  <2> HIDE DEF S
  <2>3. r \in Results
    BY <2>1 DEF Results
  <2>4. QED
    BY <2>2, <2>3 DEF S
<1>3. QED
  BY <1>1, <1>2 DEF Answers
-----------------------------------------------------------------------------
LEMMA InitType == Init => TypeOK
<1> SUFFICES ASSUME Init PROVE TypeOK
  OBVIOUS
<1> USE TrayAssumption DEF Init, Positions
<1>1. Unreachable \in Results
  BY DEF Unreachable, Results
<1>2. profiles \in Seq(Sources \cup {Blank}) /\ Len(profiles) \in Positions
  <2>1. PICK n \in Positions : profiles \in [1..n -> Sources \cup {Blank}]
    OBVIOUS
  <2>2. QED
    BY <2>1, IsASeq, LenProperties
<1>3. states \in [Positions -> Results] /\ result \in Results
  BY <1>1
<1>4. job \in [Refreshers -> [pc : {"idle", "fetch", "write"}, tab : Positions,
                              source : Sources \cup {Blank}, result : Results]]
  <2>1. Idle \in [pc : {"idle", "fetch", "write"}, tab : Positions,
                  source : Sources \cup {Blank}, result : Results]
    BY <1>1 DEF Idle
  <2>2. QED
    BY <2>1
<1>5. snap \in Seq(Sources \cup {Blank}) /\ Len(snap) \in 0..MaxProfiles
  BY EmptySeq
<1>6. at \in 1..(MaxProfiles + 1) /\ events \in Nat
  OBVIOUS
<1>7. /\ firing \subseteq Alerts /\ seen \subseteq Alerts /\ told \subseteq Alerts
      /\ previous \in [Positions -> SUBSET Alerts] /\ initialised \subseteq Positions
  OBVIOUS
<1>8. QED
  BY <1>2, <1>3, <1>4, <1>5, <1>6, <1>7 DEF TypeOK

LEMMA PollRoundType == TypeOK /\ PollRound => TypeOK'
<1> SUFFICES ASSUME TypeOK, PollRound PROVE TypeOK'
  OBVIOUS
<1> USE TrayAssumption
<1>1. snap' \in Seq(Sources \cup {Blank}) /\ Len(snap') \in 0..MaxProfiles
  BY DEF TypeOK, PollRound, Positions
<1>2. at' \in 1..(MaxProfiles + 1)
  BY DEF PollRound
<1>3. QED
  BY <1>1, <1>2 DEF TypeOK, PollRound, FlagsAtStart

LEMMA PollSkipType == TypeOK /\ PollSkip => TypeOK'
<1> SUFFICES ASSUME TypeOK, PollSkip PROVE TypeOK'
  OBVIOUS
<1>1. at' \in 1..(MaxProfiles + 1)
  BY TrayAssumption DEF TypeOK, PollSkip
<1>2. QED
  BY <1>1 DEF TypeOK, PollSkip

LEMMA PollFetchType == TypeOK /\ PollFetch => TypeOK'
<1> SUFFICES ASSUME TypeOK, PollFetch PROVE TypeOK'
  OBVIOUS
<1>1. result' \in Results
  BY AnswerType DEF TypeOK, PollFetch
<1>2. at' \in DOMAIN snap'
  BY LenProperties DEF TypeOK, PollFetch
<1>3. QED
  BY <1>1, <1>2 DEF TypeOK, PollFetch

(* The position of an entry is one of the table. *)
LEMMA AtPosition ==
  ASSUME TypeOK, pc \in {"write", "diff"}
  PROVE  at \in Positions /\ at + 1 \in 1..(MaxProfiles + 1)
BY TrayAssumption, LenProperties DEF TypeOK, Positions

LEMMA PollWriteType == TypeOK /\ PollWrite => TypeOK'
<1> SUFFICES ASSUME TypeOK, PollWrite PROVE TypeOK'
  OBVIOUS
<1>1. states' \in [Positions -> Results]
  BY AtPosition DEF TypeOK, PollWrite
<1>2. result.alerts \subseteq Alerts
  BY DEF TypeOK, Results
<1>3. flags' \subseteq {"critical", "high", "warning", "reachable"}
      /\ seen' \subseteq Alerts
  BY <1>2 DEF TypeOK, PollWrite, FlagOf
<1>4. previous' \in [Positions -> SUBSET Alerts]
  BY DEF TypeOK, PollWrite, BaselineKept
<1>5. /\ pc' \in {"fetch", "diff"} /\ at' \in 1..(MaxProfiles + 1)
      /\ pc' = "diff" => at' = at
  BY AtPosition DEF TypeOK, PollWrite
<1>6. QED
  BY <1>1, <1>3, <1>4, <1>5 DEF TypeOK, PollWrite

LEMMA PollDiffType == TypeOK /\ PollDiff => TypeOK'
<1> SUFFICES ASSUME TypeOK, PollDiff PROVE TypeOK'
  OBVIOUS
<1>1. states[at].alerts \in SUBSET Alerts
  BY AtPosition DEF TypeOK, PollDiff, Results
<1>2. told' \subseteq Alerts /\ again' \in BOOLEAN
  BY <1>1 DEF TypeOK, PollDiff
<1>3. previous' \in [Positions -> SUBSET Alerts] /\ initialised' \subseteq Positions
  BY <1>1, AtPosition DEF TypeOK, PollDiff, Baseline
<1>4. at' \in 1..(MaxProfiles + 1)
  BY AtPosition DEF TypeOK, PollDiff
<1>5. QED
  BY <1>2, <1>3, <1>4 DEF TypeOK, PollDiff

LEMMA PollShowType == TypeOK /\ PollShow => TypeOK'
BY DEF TypeOK, PollShow, Colour, Tooltip

LEMMA RefreshType == TypeOK /\ (\E b \in Refreshers : Refresh(b)) => TypeOK'
<1> SUFFICES ASSUME TypeOK, NEW b \in Refreshers, Refresh(b) PROVE TypeOK'
  OBVIOUS
<1> DEFINE Jobs == [pc : {"idle", "fetch", "write"}, tab : Positions,
                    source : Sources \cup {Blank}, result : Results]
<1>1. Unreachable \in Results
  BY DEF Unreachable, Results
<1>2. job \in [Refreshers -> Jobs]
  BY DEF TypeOK
<1>3. ASSUME NEW i \in DOMAIN profiles, RefreshStart(b, i)
      PROVE  job' \in [Refreshers -> Jobs] /\ UNCHANGED <<states, refreshed>>
  <2>1. i \in Positions /\ profiles[i] \in Sources \cup {Blank}
    BY <1>3, TrayAssumption, ElementOfSeq, LenProperties DEF TypeOK, Positions
  <2>2. [pc |-> "fetch", tab |-> i, source |-> profiles[i],
         result |-> Unreachable] \in Jobs
    BY <2>1, <1>1
  <2>3. QED
    BY <1>2, <1>3, <2>2 DEF RefreshStart
<1>4. ASSUME RefreshFetch(b)
      PROVE  job' \in [Refreshers -> Jobs] /\ UNCHANGED <<states, refreshed>>
  <2>1. PICK r \in Answers(job[b].source) :
          job' = [job EXCEPT ![b].pc = "write", ![b].result = r]
    BY <1>4 DEF RefreshFetch
  <2>2. r \in Results
    BY AnswerType DEF TypeOK
  <2>3. QED
    BY <1>2, <1>4, <2>1, <2>2 DEF RefreshFetch
<1>5. ASSUME RefreshWrite(b)
      PROVE  /\ job' \in [Refreshers -> Jobs]
             /\ states' \in [Positions -> Results] /\ refreshed' \in BOOLEAN
  <2>1. Idle \in Jobs
    BY <1>1, TrayAssumption DEF Idle, Positions
  <2>2. job' \in [Refreshers -> Jobs]
    BY <1>2, <1>5, <2>1 DEF RefreshWrite
  <2>3. states' \in [Positions -> Results] /\ refreshed' \in BOOLEAN
    BY <1>2, <1>5 DEF RefreshWrite, TypeOK
  <2>4. QED
    BY <2>2, <2>3
<1>6. UNCHANGED <<firing, profiles, pollVars, events, edited>>
  BY DEF Refresh, RefreshStart, RefreshFetch, RefreshWrite
<1>7. job' \in [Refreshers -> Jobs] /\ states' \in [Positions -> Results]
      /\ refreshed' \in BOOLEAN
  BY <1>3, <1>4, <1>5 DEF Refresh, TypeOK
<1>8. QED
  BY <1>6, <1>7 DEF TypeOK, pollVars

LEMMA ChangeType == TypeOK /\ (\E a \in Alerts : Change(a)) => TypeOK'
BY DEF TypeOK, Change, pollVars

LEMMA EditType ==
  ASSUME TypeOK, NEW list, EditedList(list), EditProfiles(list)
  PROVE  TypeOK'
<1>1. list \in Seq(Sources \cup {Blank}) /\ Len(list) \in Positions
  BY EditedListType DEF TypeOK
<1>2. events' \in Nat
  BY DEF TypeOK, EditProfiles
<1>3. QED
  BY <1>1, <1>2 DEF TypeOK, EditProfiles

LEMMA TypeInductive == TypeOK /\ [Next]_vars => TypeOK'
<1> SUFFICES ASSUME TypeOK, [Next]_vars PROVE TypeOK'
  OBVIOUS
<1>1. CASE UNCHANGED vars
  BY <1>1 DEF TypeOK, vars, pollVars
<1>2. QED
  BY <1>1, NextCases, PollRoundType, PollSkipType, PollFetchType, PollWriteType,
     PollDiffType, PollShowType, RefreshType, ChangeType, EditType

(* Every variable keeps its type, whoever edits the list of profiles in    *)
(* the middle of a round (monitor.py:1913, settings.py:157).               *)
THEOREM TrayTypeCorrect == Spec => []TypeOK
BY InitType, TypeInductive, PTL DEF Spec

-----------------------------------------------------------------------------
(* The flags of the round and what it has fetched so far: a flag stands    *)
(* for an alert fetched, and the worst severity fetched has its flag.      *)
FlagsMatchSeen ==
  /\ "critical" \in flags <=> Has(seen, "critical")
  /\ "high" \in flags => Has(seen, "high")
  /\ Has(seen, "high") => "high" \in flags \/ Has(seen, "critical")
  /\ "warning" \in flags => seen # {}
  /\ seen # {} => flags \cap {"critical", "high", "warning"} # {}
  /\ "reachable" \notin flags => flags = {}

IconInv == TypeOK /\ FlagsMatchSeen /\ IconIsWorst

LEMMA HasUnion ==
  ASSUME NEW S, NEW T, NEW severity
  PROVE  Has(S \cup T, severity) <=> Has(S, severity) \/ Has(T, severity)
BY DEF Has

(* What one profile adds to the flags. *)
LEMMA FlagOfWorst ==
  ASSUME NEW S \in SUBSET Alerts
  PROVE  /\ "critical" \in FlagOf(S) <=> Has(S, "critical")
         /\ "high" \in FlagOf(S) <=> Has(S, "high") /\ ~Has(S, "critical")
         /\ "warning" \in FlagOf(S) => S # {}
         /\ S # {} => FlagOf(S) \cap {"critical", "high", "warning"} # {}
         /\ "reachable" \notin FlagOf(S)
BY DEF FlagOf, Has

LEMMA PollWriteFlags ==
  ASSUME TypeOK, FlagsMatchSeen, PollWrite
  PROVE  FlagsMatchSeen'
<1>1. CASE ~result.reachable
  BY <1>1 DEF FlagsMatchSeen, PollWrite, Has
<1>2. CASE result.reachable
  <2> DEFINE S == result.alerts
             F == FlagOf(S)
  <2>1. S \in SUBSET Alerts
    BY DEF TypeOK, Results
  <2>2. flags' = flags \cup F \cup {"reachable"} /\ seen' = seen \cup S
    BY <1>2 DEF PollWrite
  <2>3. /\ "critical" \in F <=> Has(S, "critical")
        /\ "high" \in F <=> Has(S, "high") /\ ~Has(S, "critical")
        /\ "warning" \in F => S # {}
        /\ S # {} => F \cap {"critical", "high", "warning"} # {}
    BY <2>1, FlagOfWorst
  <2>4. /\ Has(seen', "critical") <=> Has(seen, "critical") \/ Has(S, "critical")
        /\ Has(seen', "high") <=> Has(seen, "high") \/ Has(S, "high")
    BY <2>2, HasUnion
  <2> HIDE DEF S, F
  <2>5. QED
    BY <2>2, <2>3, <2>4 DEF FlagsMatchSeen
<1>3. QED
  BY <1>1, <1>2

(* At the end of a round the colour is that of the worst alert fetched. *)
LEMMA PollShowIcon ==
  ASSUME TypeOK, FlagsMatchSeen, PollShow
  PROVE  IconIsWorst'
<1>1. icon' = Colour /\ title' = Tooltip /\ seen' = seen
  BY DEF PollShow
<1>2. \A a \in seen : Severity[a] \in {"critical", "high", "warning"}
  BY TrayAssumption DEF TypeOK
<1>3. (\A a \in seen : Severity[a] = "warning")
        <=> ~Has(seen, "critical") /\ ~Has(seen, "high")
  BY <1>2 DEF Has
<1>4. Colour = "purple" <=> Has(seen, "critical")
  BY DEF Colour, FlagsMatchSeen
<1>5. Colour = "red" <=> Has(seen, "high") /\ ~Has(seen, "critical")
  BY DEF Colour, FlagsMatchSeen
<1>6. Colour = "orange" <=>
        seen # {} /\ ~Has(seen, "critical") /\ ~Has(seen, "high")
  BY DEF Colour, FlagsMatchSeen
<1>7. Tooltip = "unreachable" <=> Colour = "grey"
  BY DEF Colour, Tooltip, FlagsMatchSeen
<1>8. IconIsWorst' <=>
        (pc' = "sleep" /\ title' # "starting" =>
          /\ Colour = "purple" <=> Has(seen, "critical")
          /\ Colour = "red" <=> Has(seen, "high") /\ ~Has(seen, "critical")
          /\ Colour = "orange" <=>
               seen # {} /\ \A a \in seen : Severity[a] = "warning"
          /\ Tooltip = "unreachable" <=> Colour = "grey")
  BY <1>1 DEF IconIsWorst, Has
<1>9. QED
  BY <1>3, <1>4, <1>5, <1>6, <1>7, <1>8

LEMMA IconInductive == IconInv /\ [Next]_vars => IconInv'
<1> SUFFICES ASSUME TypeOK, FlagsMatchSeen, IconIsWorst, [Next]_vars
             PROVE  FlagsMatchSeen' /\ IconIsWorst'
  BY TypeInductive DEF IconInv
<1>1. CASE PollRound
  BY <1>1 DEF PollRound, FlagsMatchSeen, FlagsAtStart, IconIsWorst, Has
<1>2. CASE PollWrite
  BY <1>2, PollWriteFlags DEF PollWrite, IconIsWorst
<1>3. CASE PollShow
  BY <1>3, PollShowIcon DEF PollShow, FlagsMatchSeen, Has
<1>4. CASE PollSkip \/ PollFetch \/ PollDiff
  BY <1>4 DEF PollSkip, PollFetch, PollDiff, FlagsMatchSeen, IconIsWorst, Has
<1>5. ASSUME UNCHANGED <<flags, seen, pc, icon, title>>
      PROVE  FlagsMatchSeen' /\ IconIsWorst'
  BY <1>5 DEF FlagsMatchSeen, IconIsWorst, Has
<1>6. ASSUME NEW b \in Refreshers, Refresh(b)
      PROVE  UNCHANGED <<flags, seen, pc, icon, title>>
  BY <1>6 DEF Refresh, RefreshStart, RefreshFetch, RefreshWrite, pollVars
<1>7. ASSUME NEW a \in Alerts, Change(a)
      PROVE  UNCHANGED <<flags, seen, pc, icon, title>>
  BY <1>7 DEF Change, pollVars
<1>8. ASSUME NEW list, EditProfiles(list)
      PROVE  UNCHANGED <<flags, seen, pc, icon, title>>
  BY <1>8 DEF EditProfiles
<1>9. CASE UNCHANGED vars
  BY <1>5, <1>9 DEF vars, pollVars
<1>10. QED
  BY <1>1, <1>2, <1>3, <1>4, <1>5, <1>6, <1>7, <1>8, <1>9, NextCases

(* The icon after a round shows the worst severity fetched in it           *)
(* (monitor.py:1961), whatever fetches fail and whatever refresh threads   *)
(* and edits do meanwhile.                                                 *)
THEOREM IconAlwaysWorst == Spec => []IconIsWorst
<1>1. Init => IconInv
  <2>1. Init => FlagsMatchSeen /\ IconIsWorst
    BY DEF Init, FlagsMatchSeen, IconIsWorst, Has
  <2>2. QED
    BY <2>1, InitType DEF IconInv
<1>2. IconInv => IconIsWorst
  BY DEF IconInv
<1>3. QED
  BY <1>1, <1>2, IconInductive, PTL DEF Spec

-----------------------------------------------------------------------------
(* What the toasts rest on, up to the first edit of the profiles: entries, *)
(* baselines and results hold alerts of the source at their own position,  *)
(* and no two positions share a source.                                    *)
Own(i, S) == \A a \in S : i \in DOMAIN profiles /\ SourceOf[a] = profiles[i]

Distinct ==
  \A i, j \in DOMAIN profiles :
    i # j /\ profiles[i] = profiles[j] => profiles[i] = Blank

ResultOwn ==
  /\ pc # "sleep" => snap = profiles
  /\ pc \in {"write", "diff"} => Own(at, result.alerts)

JobsOwn ==
  \A b \in Refreshers : job[b].pc # "idle" =>
    /\ job[b].tab \in DOMAIN profiles /\ job[b].source = profiles[job[b].tab]
    /\ job[b].pc = "write" => Own(job[b].tab, job[b].result.alerts)

Sourced ==
  ~edited =>
    /\ Distinct /\ ResultOwn /\ JobsOwn
    /\ \A i \in Positions : Own(i, states[i].alerts) /\ Own(i, previous[i])

(* The second read of states finds what was fetched, unless a refresh      *)
(* thread wrote; then an alert the user was told of is in the baseline of  *)
(* its profile.                                                            *)
ReadBack == pc = "diff" /\ ~refreshed => states[at].alerts = result.alerts

ToldKnown ==
  ~edited /\ ~refreshed =>
    \A i \in initialised, a \in told :
      i \in DOMAIN profiles /\ SourceOf[a] = profiles[i] => a \in previous[i]

ToastInv ==
  /\ TypeOK /\ Sourced /\ ReadBack /\ ToldKnown
  /\ BaselineWasTold /\ ToldOnce

-----------------------------------------------------------------------------
LEMMA InitToast == Init => ToastInv
<1> SUFFICES ASSUME Init PROVE ToastInv
  OBVIOUS
<1>1. TypeOK
  BY InitType
<1>2. \A i \in Positions : states[i].alerts = {} /\ previous[i] = {}
  BY DEF Init, Unreachable
<1>3. Sourced
  BY <1>2 DEF Init, Idle, Sourced, Distinct, ResultOwn, JobsOwn, Own
<1>4. ReadBack /\ ToldKnown /\ BaselineWasTold /\ ToldOnce
  BY DEF Init, ReadBack, ToldKnown, BaselineWasTold, ToldOnce
<1>5. QED
  BY <1>1, <1>3, <1>4 DEF ToastInv

(* An edit ends what is claimed; every other step leaves the list alone.   *)
LEMMA EditEnds ==
  ASSUME TypeOK, NEW list, EditProfiles(list), ReadBack
  PROVE  Sourced' /\ ReadBack' /\ ToldKnown' /\ BaselineWasTold' /\ ToldOnce'
BY DEF EditProfiles, Sourced, ReadBack, ToldKnown, BaselineWasTold, ToldOnce

(* The difference of a profile and its new baseline. *)
LEMMA DiffToast ==
  ASSUME ToastInv, PollDiff
  PROVE  Sourced' /\ ReadBack' /\ ToldKnown' /\ BaselineWasTold' /\ ToldOnce'
<1>1. CASE edited
  BY <1>1 DEF PollDiff, Sourced, ReadBack, ToldKnown, BaselineWasTold, ToldOnce
<1>2. CASE ~edited
  <2> DEFINE current == states[at].alerts
             new  == IF at \in initialised THEN current \ previous[at] ELSE {}
             kept == {a \in told : SourceOf[a] = snap[at] =>
                                     a \in result.alerts \cup current}
  <2>1. /\ at \in Positions /\ at \in DOMAIN profiles /\ snap = profiles
        /\ Own(at, current) /\ pc = "diff"
    BY <1>2, AtPosition DEF ToastInv, Sourced, ResultOwn, PollDiff, TypeOK
  <2>2. /\ told' = kept \cup (IF at \in initialised THEN new ELSE current)
        /\ \/ again' = (again \/ (~refreshed /\ new \cap told # {}))
           \/ again' = again
        /\ previous' = [previous EXCEPT ![at] = current]
        /\ initialised' = initialised \cup {at}
        /\ UNCHANGED <<profiles, snap, states, job, edited, refreshed, result>>
        /\ pc' = "fetch"
    BY <1>2 DEF PollDiff, Baseline
  <2>3. /\ previous'[at] = current
        /\ \A i \in Positions : i # at => previous'[i] = previous[i]
    BY <2>1, <2>2 DEF ToastInv, TypeOK
  <2>4. initialised \subseteq Positions
    BY DEF ToastInv, TypeOK
  <2>5. \A i \in Positions : Own(i, previous[i])
    BY <1>2 DEF ToastInv, Sourced
  <2>6. at \notin initialised => new = {}
    OBVIOUS
  (* An alert of another position has another source. *)
  <2>7. ASSUME NEW i \in Positions, i # at, i \in DOMAIN profiles,
               NEW a, SourceOf[a] = profiles[i], profiles[i] # Blank
        PROVE  SourceOf[a] # snap[at]
    BY <1>2, <2>1, <2>7 DEF ToastInv, Sourced, Distinct
  <2>8. \A a \in Alerts : SourceOf[a] # Blank
    BY TrayAssumption
  <2>9. told \subseteq Alerts /\ \A i \in Positions : previous[i] \subseteq Alerts
    BY DEF ToastInv, TypeOK
  <2>10. current \subseteq told'
    <3>1. CASE at \notin initialised
      BY <2>2, <3>1
    <3>2. CASE at \in initialised
      <4>1. previous[at] \subseteq told
        BY <1>2, <3>2 DEF ToastInv, BaselineWasTold
      <4>2. current \cap previous[at] \subseteq kept
        BY <4>1
      <4>3. QED
        BY <2>2, <3>2, <4>2
    <3>3. QED
      BY <3>1, <3>2
  <2>11. BaselineWasTold'
    <3>1. ASSUME NEW i \in initialised, i # at
          PROVE  previous[i] \subseteq told'
      <4>1. previous[i] \subseteq told
        BY <1>2 DEF ToastInv, BaselineWasTold
      <4>2. ASSUME NEW a \in previous[i]
            PROVE  a \in kept
        <5>1. i \in Positions /\ i \in DOMAIN profiles /\ SourceOf[a] = profiles[i]
          BY <2>4, <2>5, <4>2 DEF Own
        <5>2. a \in Alerts /\ profiles[i] # Blank
          BY <2>8, <2>9, <4>1, <4>2, <5>1
        <5>3. SourceOf[a] # snap[at]
          BY <2>7, <3>1, <5>1, <5>2
        <5>4. QED
          BY <4>1, <4>2, <5>3
      <4>3. QED
        BY <2>2, <4>2
    <3>2. QED
      BY <2>2, <2>3, <2>4, <2>10, <3>1 DEF BaselineWasTold
  <2>12. ~refreshed => new \cap told = {}
    <3>1. SUFFICES ASSUME ~refreshed, NEW a \in new, a \in told PROVE FALSE
      OBVIOUS
    <3>2. at \in initialised /\ a \in current /\ a \notin previous[at]
      BY <3>1
    <3>3. SourceOf[a] = profiles[at]
      BY <2>1, <3>2 DEF Own
    <3>4. QED
      BY <1>2, <2>1, <3>1, <3>2, <3>3 DEF ToastInv, ToldKnown
  <2>13. ToldOnce'
    BY <1>2, <2>2, <2>12 DEF ToastInv, ToldOnce
  <2>14. ToldKnown'
    <3>1. SUFFICES ASSUME ~refreshed, NEW i \in initialised', NEW a \in told',
                          i \in DOMAIN profiles, SourceOf[a] = profiles[i]
                   PROVE  a \in previous'[i]
      BY <2>2 DEF ToldKnown
    <3>2. a \in current \/ a \in kept
      BY <2>2
    <3>3. i \in Positions
      BY <2>1, <2>2, <2>4
    <3>4. CASE i = at
      <4>1. result.alerts = current
        BY <2>1, <3>1 DEF ToastInv, ReadBack
      <4>2. a \in current
        BY <2>1, <3>1, <3>2, <3>4, <4>1
      <4>3. QED
        BY <2>3, <3>4, <4>2
    <3>5. CASE i # at
      <4>1. a \in Alerts
        <5>1. current \subseteq Alerts
          BY <2>1 DEF ToastInv, TypeOK, Results
        <5>2. QED
          BY <2>9, <3>2, <5>1
      <4>2. SourceOf[a] # profiles[at]
        BY <2>1, <2>7, <2>8, <3>1, <3>3, <3>5, <4>1
      <4>3. a \notin current
        BY <2>1, <4>2 DEF Own
      <4>4. a \in told /\ i \in initialised
        BY <2>2, <3>2, <3>5, <4>3
      <4>5. a \in previous[i]
        BY <1>2, <3>1, <4>4 DEF ToastInv, ToldKnown
      <4>6. QED
        BY <2>3, <3>3, <3>5, <4>5
    <3>6. QED
      BY <3>4, <3>5
  <2>15. Sourced' /\ ReadBack'
    <3>1. \A i \in Positions : Own(i, states[i].alerts)' /\ Own(i, previous[i])'
      <4>1. \A i \in Positions : Own(i, states[i].alerts)
        BY <1>2 DEF ToastInv, Sourced
      <4>2. QED
        BY <2>1, <2>2, <2>3, <2>5, <4>1 DEF Own
    <3>2. Distinct' /\ JobsOwn' /\ ResultOwn'
      BY <1>2, <2>1, <2>2
         DEF ToastInv, Sourced, Distinct, JobsOwn, ResultOwn, Own
    <3>3. QED
      BY <2>2, <3>1, <3>2 DEF Sourced, ReadBack
  <2>16. QED
    BY <2>11, <2>13, <2>14, <2>15
<1>3. QED
  BY <1>1, <1>2

(* A step that leaves the toasts and the baselines alone. *)
LEMMA QuietToast ==
  ASSUME ToastInv,
         UNCHANGED <<profiles, previous, initialised, told, again, edited>>,
         refreshed => refreshed'
  PROVE  ToldKnown' /\ BaselineWasTold' /\ ToldOnce'
BY DEF ToastInv, ToldKnown, BaselineWasTold, ToldOnce

LEMMA RoundToast ==
  ASSUME ToastInv, PollRound \/ PollSkip \/ PollShow
  PROVE  Sourced' /\ ReadBack'
<1>1. /\ pc' # "diff" /\ pc' # "write"
      /\ UNCHANGED <<profiles, states, previous, job, edited>>
      /\ snap' = profiles \/ (snap' = snap /\ pc # "sleep")
  BY DEF PollRound, PollSkip, PollShow
<1>2. QED
  BY <1>1 DEF ToastInv, Sourced, Distinct, ResultOwn, JobsOwn, Own, ReadBack

LEMMA FetchToast ==
  ASSUME ToastInv, PollFetch
  PROVE  Sourced' /\ ReadBack'
<1>1. /\ pc' = "write" /\ pc = "fetch" /\ at \in DOMAIN snap
      /\ result' \in Answers(snap[at])
      /\ UNCHANGED <<profiles, states, previous, job, edited, snap, at>>
  BY LenProperties DEF PollFetch, ToastInv, TypeOK
<1>2. \A a \in result'.alerts : SourceOf[a] = snap[at]
  BY <1>1, AnswerType DEF ToastInv, TypeOK
<1>3. QED
  BY <1>1, <1>2 DEF ToastInv, Sourced, Distinct, ResultOwn, JobsOwn, Own, ReadBack

LEMMA WriteToast ==
  ASSUME ToastInv, PollWrite
  PROVE  Sourced' /\ ReadBack'
<1>1. /\ pc = "write" /\ at \in Positions
      /\ states' = [states EXCEPT ![at] = result]
      /\ UNCHANGED <<profiles, previous, job, edited, snap, result>>
      /\ \/ pc' = "fetch"
         \/ pc' = "diff" /\ at' = at
  BY AtPosition DEF PollWrite, ToastInv, BaselineKept
<1>2. states'[at] = result /\ \A i \in Positions : i # at => states'[i] = states[i]
  BY <1>1 DEF ToastInv, TypeOK
<1>3. ReadBack'
  BY <1>1, <1>2 DEF ReadBack
<1>4. ASSUME ~edited
      PROVE  \A i \in Positions : Own(i, states[i].alerts)' /\ Own(i, previous[i])'
  BY <1>1, <1>2, <1>4 DEF ToastInv, Sourced, ResultOwn, Own
<1>5. Sourced'
  BY <1>1, <1>4 DEF ToastInv, Sourced, Distinct, ResultOwn, JobsOwn, Own
<1>6. QED
  BY <1>3, <1>5

LEMMA RefreshToast ==
  ASSUME ToastInv, NEW b \in Refreshers, Refresh(b)
  PROVE  /\ UNCHANGED <<profiles, pollVars, edited>>
         /\ refreshed => refreshed'
         /\ Sourced' /\ ReadBack'
<1>1. /\ UNCHANGED <<profiles, pollVars, edited>>
      /\ \A c \in Refreshers : c # b => job'[c] = job[c]
      /\ refreshed' \in BOOLEAN
      /\ refreshed => refreshed'
  BY DEF Refresh, RefreshStart, RefreshFetch, RefreshWrite, ToastInv, TypeOK
<1> SUFFICES Sourced' /\ ReadBack'
  BY <1>1
<1>2. DOMAIN job = Refreshers
  BY DEF ToastInv, TypeOK
<1>3. ASSUME NEW i \in DOMAIN profiles, RefreshStart(b, i)
      PROVE  Sourced' /\ ReadBack'
  <2>1. /\ job'[b].pc = "fetch" /\ job'[b].tab = i /\ job'[b].source = profiles[i]
        /\ UNCHANGED <<states, refreshed>>
    BY <1>2, <1>3 DEF RefreshStart
  <2>2. QED
    BY <1>1, <2>1 DEF pollVars, ToastInv, Sourced, Distinct, ResultOwn, JobsOwn,
                      Own, ReadBack
<1>4. CASE RefreshFetch(b)
  <2>1. PICK r \in Answers(job[b].source) :
          job' = [job EXCEPT ![b].pc = "write", ![b].result = r]
    BY <1>4 DEF RefreshFetch
  <2>2. \A a \in r.alerts : SourceOf[a] = job[b].source
    BY AnswerType DEF ToastInv, TypeOK
  <2>3. /\ job'[b].pc = "write" /\ job'[b].result = r
        /\ job'[b].tab = job[b].tab /\ job'[b].source = job[b].source
        /\ job[b].pc = "fetch"
        /\ UNCHANGED <<states, refreshed>>
    BY <1>2, <1>4, <2>1 DEF RefreshFetch, ToastInv, TypeOK
  <2>4. ~edited => JobsOwn'
    <3>1. ASSUME ~edited, NEW c \in Refreshers, job'[c].pc # "idle"
          PROVE  /\ job'[c].tab \in DOMAIN profiles
                 /\ job'[c].source = profiles[job'[c].tab]
                 /\ job'[c].pc = "write" =>
                      Own(job'[c].tab, job'[c].result.alerts)
      BY <1>1, <2>2, <2>3, <3>1 DEF ToastInv, Sourced, JobsOwn, Own
    <3>2. QED
      BY <1>1, <3>1 DEF JobsOwn, Own
  <2>5. QED
    BY <1>1, <2>3, <2>4 DEF pollVars, ToastInv, Sourced, Distinct, ResultOwn, Own,
                            ReadBack
<1>5. CASE RefreshWrite(b)
  <2>1. job[b].pc = "write" /\ job'[b].pc = "idle"
    BY <1>2, <1>5 DEF RefreshWrite, Idle
  <2>2. \/ UNCHANGED <<states, refreshed>>
        \/ refreshed' /\ states' = [states EXCEPT ![job[b].tab] = job[b].result]
    BY <1>5 DEF RefreshWrite
  <2>3. ReadBack'
    BY <1>1, <2>2 DEF pollVars, ToastInv, ReadBack
  <2>4. ASSUME ~edited
        PROVE  \A i \in Positions : Own(i, states[i].alerts)' /\ Own(i, previous[i])'
    <3>1. Own(job[b].tab, job[b].result.alerts) /\ job[b].tab \in Positions
      BY <2>1, <2>4 DEF ToastInv, Sourced, JobsOwn, TypeOK
    <3>2. \A i \in Positions : Own(i, states'[i].alerts)
      BY <2>2, <2>4, <3>1 DEF ToastInv, TypeOK, Sourced
    <3>3. QED
      BY <1>1, <2>4, <3>2 DEF pollVars, ToastInv, Sourced, Own
  <2>5. ~edited => JobsOwn'
    BY <1>1, <2>1 DEF ToastInv, Sourced, JobsOwn, Own
  <2>6. Sourced'
    BY <1>1, <2>4, <2>5 DEF pollVars, ToastInv, Sourced, Distinct, ResultOwn, Own
  <2>7. QED
    BY <2>3, <2>6
<1>6. QED
  BY <1>1, <1>3, <1>4, <1>5 DEF Refresh

LEMMA ToastInductive == ToastInv /\ [Next]_vars => ToastInv'
<1> SUFFICES ASSUME ToastInv, [Next]_vars
             PROVE  /\ Sourced' /\ ReadBack' /\ ToldKnown'
                    /\ BaselineWasTold' /\ ToldOnce'
  BY TypeInductive DEF ToastInv
<1>1. CASE PollRound \/ PollSkip \/ PollShow
  BY <1>1, RoundToast, QuietToast DEF PollRound, PollSkip, PollShow
<1>2. CASE PollFetch
  BY <1>2, FetchToast, QuietToast DEF PollFetch
<1>3. CASE PollWrite
  BY <1>3, WriteToast, QuietToast DEF PollWrite, BaselineKept
<1>4. CASE PollDiff
  BY <1>4, DiffToast
<1>5. ASSUME NEW b \in Refreshers, Refresh(b)
      PROVE  /\ Sourced' /\ ReadBack' /\ ToldKnown'
             /\ BaselineWasTold' /\ ToldOnce'
  BY <1>5, RefreshToast, QuietToast DEF pollVars
<1>6. ASSUME NEW list, EditedList(list), EditProfiles(list)
      PROVE  /\ Sourced' /\ ReadBack' /\ ToldKnown'
             /\ BaselineWasTold' /\ ToldOnce'
  BY <1>6, EditEnds DEF ToastInv
<1>7. ASSUME \/ \E a \in Alerts : Change(a)
             \/ UNCHANGED vars
      PROVE  /\ Sourced' /\ ReadBack' /\ ToldKnown'
             /\ BaselineWasTold' /\ ToldOnce'
  <2>1. UNCHANGED <<profiles, states, pollVars, job, edited, refreshed>>
    BY <1>7 DEF Change, vars
  <2>2. Sourced' /\ ReadBack'
    BY <2>1 DEF pollVars, ToastInv, Sourced, Distinct, ResultOwn, JobsOwn, Own,
                ReadBack
  <2>3. QED
    BY <2>1, <2>2, QuietToast DEF pollVars
<1>8. QED
  BY <1>1, <1>2, <1>3, <1>4, <1>5, <1>6, <1>7, NextCases

(* Refresh threads or not, what the poll takes as known was told before,   *)
(* as long as the list of profiles is not edited (monitor.py:1931).        *)
THEOREM BaselineAlwaysTold == Spec => []BaselineWasTold
<1>1. ToastInv => BaselineWasTold
  BY DEF ToastInv
<1>2. QED
  BY <1>1, InitToast, ToastInductive, PTL DEF Spec

(* An alert is toasted once, whatever fetches fail, as long as the poll    *)
(* thread alone writes states and profiles are not edited (monitor.py:1935). *)
THEOREM AlwaysToldOnce == Spec => []ToldOnce
<1>1. ToastInv => ToldOnce
  BY DEF ToastInv
<1>2. QED
  BY <1>1, InitToast, ToastInductive, PTL DEF Spec
=============================================================================
