---------------------------- MODULE GenusMonitor ----------------------------
(***************************************************************************)
(* The poll thread of the Genus monitor (onprem/genus-monitor/app.py).  A  *)
(* round runs ten collectors one after the other, some once per fuel.  A   *)
(* collector is a list of steps that connect, query and set gauges, and it *)
(* catches its own failures.  Prometheus scrapes the gauges at any time,   *)
(* so between any two steps.  What a gauge shows is abstracted to where    *)
(* its value comes from and to whether it was set in this round (age 0).   *)
(***************************************************************************)
EXTENDS Integers, Sequences, FiniteSets

CONSTANTS
    Fuels,          \* configured fuels, in order
    MaxGenusFaults  \* bound on failed steps and restarts

ASSUME GenusAssumption == Fuels \in Seq(STRING) /\ MaxGenusFaults \in Nat

VARIABLES
    place,          \* part of the round and step of the part; <<0, 0>>: asleep
    gauges,         \* what each gauge shows
    lost,           \* history: the places of this round that gave no value
    genusFaults

genusVars == <<place, gauges, lost, genusFaults>>

-----------------------------------------------------------------------------
(* The collectors.  A step sets a set of gauges, by one of these kinds:    *)
(*   "raise"  a failure is raised;                                         *)
(*   "zero"   a failure is read as 0 (query_single_value);                 *)
(*   "keep"   a failure is raised, and no value leaves the gauge alone.    *)
(* An inner step is in a try block of its own.                             *)

Step(kind, names) == [kind |-> kind, names |-> names, inner |-> FALSE]
Connect == Step("raise", {})
Safe(names) == Step("zero", names)
Raw(names) == Step("raise", names)
Keep(name) == Step("keep", {name})
Inner(step) == [step EXCEPT !.inner = TRUE]

\* Mutant: up is set when the connection stands.
GenusMetricsEarly ==
    <<Connect, Raw({"up"}), Safe({"hub_age"}), Safe({"replica_lag"})>>

GenusMetrics == <<Connect, Safe({"hub_age"}), Safe({"replica_lag"}), Raw({"up"})>>

CrossReference ==
    <<Connect, Raw({}), Connect,
      Raw({"sent_today", "processed_today", "unprocessed", "oldest_unprocessed"}),
      Inner(Raw({}))>>

GatewayMetrics ==
    <<Connect, Safe({"retrieved"}), Safe({"transferred"}), Safe({"pending"}),
      Safe({"failed"}), Safe({"oldest_pending"}), Keep("last_poll")>>

EwelcomeMetrics ==
    <<Connect, Safe({"created"}), Safe({"completed"}), Safe({"not_started"}),
      Safe({"downloaded"}), Safe({"failed_jobs"}), Safe({"pending_jobs"}),
      Raw({"rate"}), Raw({"rate_today"}), Inner(Raw({}))>>

\* The queue comes from Redis; the check of its sites falls back to counting
\* every job, with none as the oldest.
EpsQueue == <<Inner(Raw({})), Inner(Safe({"depth", "oldest"}))>>
EpsPricingMetrics ==
    <<Connect, Safe({"avg_hh"}), Safe({"avg_nhh"}), Safe({"last_hh"}),
      Safe({"last_nhh"})>>
    \o EpsQueue
    \o <<Keep("last_sent"), Keep("last_received"), Safe({"priced_hh"}),
         Safe({"priced_nhh"})>>

GpsPricingMetrics == <<Connect, Safe({"priced_nhh"})>>
EcontractsMetrics == <<Connect, Safe({"sent"}), Safe({"signed"})>>
EsignatureMetrics ==
    <<Connect, Safe({"sent"}), Safe({"signed"}),
      Raw({"pending_sent", "pending_viewed", "pending_reassigned"})>>
PowerstoreMetrics == <<Connect, Raw({"node_a", "node_b"})>>
UbibotMetrics == <<Connect, Keep("temperature"), Keep("humidity")>>
PrtgMetrics ==
    <<Connect, Keep("intake"), Keep("exhaust"), Keep("cpu1"), Keep("cpu2")>>

Steps == [genus |-> GenusMetrics, cross |-> CrossReference,
          gateway |-> GatewayMetrics, ewelcome |-> EwelcomeMetrics,
          eps |-> EpsPricingMetrics, gps |-> GpsPricingMetrics,
          econtracts |-> EcontractsMetrics, esignature |-> EsignatureMetrics,
          powerstore |-> PowerstoreMetrics, ubibot |-> UbibotMetrics,
          prtg |-> PrtgMetrics]

\* collect_metrics: the parts of a round, each with its own try block.
PerFuel(name) == [i \in DOMAIN Fuels |-> <<name, Fuels[i]>>]
Once(name) == <<<<name, "">>>>
Round == PerFuel("genus") \o PerFuel("cross") \o PerFuel("gateway")
         \o PerFuel("ewelcome") \o Once("eps") \o Once("gps")
         \o PerFuel("econtracts") \o Once("esignature") \o Once("powerstore")
         \o Once("ubibot") \o Once("prtg")

StepsOf(part) == Steps[part[1]]
StepAt(p) == StepsOf(Round[p[1]])[p[2]]
GaugesAt(p) == {Round[p[1]]} \X StepAt(p).names
Places == UNION {{i} \X DOMAIN StepsOf(Round[i]) : i \in DOMAIN Round}
Gauges == UNION {GaugesAt(p) : p \in Places}

\* prometheus_client shows 0 for a gauge without labels that was never set,
\* and nothing for the labels of a gauge that were never set.
Unlabelled(g) == g[1][1] \in {"eps", "esignature"}
                 /\ g[2] \notin {"priced_hh", "priced_nhh", "pending_sent",
                                 "pending_viewed", "pending_reassigned"}
Unset == [g \in Gauges |-> [from |-> IF Unlabelled(g) THEN "start" ELSE "none",
                            age |-> 1]]

GenusTypeOK ==
    /\ place \in Places \cup {<<0, 0>>}
    /\ gauges \in [Gauges -> [from : {"none", "start", "value", "failure"},
                              age : 0..1]]
    /\ lost \subseteq Places
    /\ genusFaults \in 0..MaxGenusFaults

-----------------------------------------------------------------------------
Asleep == place = <<0, 0>>

GenusInit ==
    /\ place = <<0, 0>>
    /\ gauges = Unset
    /\ lost = {}
    /\ genusFaults = 0

GenusFault == genusFaults < MaxGenusFaults /\ genusFaults' = genusFaults + 1

FirstOf(i) == IF i > Len(Round) THEN <<0, 0>> ELSE <<i, 1>>
After(p) == IF p[2] < Len(StepsOf(Round[p[1]])) THEN <<p[1], p[2] + 1>>
            ELSE FirstOf(p[1] + 1)

\* Mutant: an inner failure ends the collector.
AfterFailureOuter(p) == FirstOf(p[1] + 1)

\* A failure leaves the try block it is in: the inner one or the collector.
AfterFailure(p) ==
    LET later == {q \in Places : /\ q[1] = p[1] /\ q[2] > p[2]
                                 /\ ~StepAt(q).inner}
    IN  IF StepAt(p).inner /\ later # {}
        THEN CHOOSE q \in later : \A r \in later : q[2] <= r[2]
        ELSE FirstOf(p[1] + 1)

Show(names, from) ==
    [g \in Gauges |-> IF g \in names THEN [from |-> from, age |-> 0]
                      ELSE gauges[g]]

\* The loop wakes up.  What was set before is from an earlier round now.
StartRound ==
    /\ Asleep
    /\ place' = FirstOf(1)
    /\ gauges' = [g \in Gauges |-> [gauges[g] EXCEPT !.age = 1]]
    /\ lost' = {}
    /\ UNCHANGED genusFaults

StepWorks ==
    /\ ~Asleep
    /\ gauges' = Show(GaugesAt(place), "value")
    /\ place' = After(place)
    /\ UNCHANGED <<lost, genusFaults>>

\* query_single_value, and the fallback of the queue: 0, and on to the next.
ReadsZero ==
    /\ ~Asleep /\ StepAt(place).kind = "zero"
    /\ GenusFault
    /\ gauges' = Show(GaugesAt(place), "failure")
    /\ place' = After(place)
    /\ lost' = lost \cup {place}

\* The source has no value: the gauge keeps the last one.
HasNoValue ==
    /\ ~Asleep /\ StepAt(place).kind = "keep"
    /\ GenusFault
    /\ place' = After(place)
    /\ lost' = lost \cup {place}
    /\ UNCHANGED gauges

\* A step raises.  Of the gauges only genus_up hears of it.
Raises ==
    /\ ~Asleep /\ StepAt(place).kind \in {"raise", "keep"}
    /\ GenusFault
    /\ gauges' = Show(Gauges \cap {<<Round[place[1]], "up">>}, "failure")
    /\ place' = AfterFailure(place)
    /\ lost' = lost \cup {place}

\* The process is restarted; it answers scrapes after its first round only.
RestartMonitor ==
    /\ GenusFault
    /\ place' = <<0, 0>>
    /\ gauges' = Unset
    /\ lost' = {}

RunStep == StartRound \/ StepWorks \/ ReadsZero \/ HasNoValue \/ Raises
GenusNext == RunStep \/ RestartMonitor

-----------------------------------------------------------------------------
\* A failure stays in the block it happened in: after a round, a gauge that was
\* not set in it belongs to a part that lost a step by raising or for want of a
\* value, the gauge's own step or an earlier one, and an inner failure costs
\* inner gauges only (app.py:340-1052).
FailureContained ==
    Asleep /\ (\E g \in Gauges : gauges[g].age = 0) =>
      \A q \in Places : \A g \in GaugesAt(q) :
        gauges[g].age > 0 =>
          \E p \in lost : /\ p[1] = q[1] /\ p[2] <= q[2]
                          /\ StepAt(p).inner => StepAt(q).inner
                          /\ StepAt(p).kind # "zero"

\* Whenever genus_up is 1, what the other gauges of that Genus show is at least
\* as recent as genus_up itself, at any moment of a round (app.py:340-368).
UpMeansRecent ==
    \A g \in Gauges : \A h \in Gauges :
      g[1] = h[1] /\ g[2] = "up" /\ gauges[g].from = "value" =>
        gauges[h].age <= gauges[g].age
=============================================================================
