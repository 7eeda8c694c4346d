------------------------------ MODULE Exporters ------------------------------
(***************************************************************************)
(* The exporters that fetch their devices while Prometheus waits: UniFi    *)
(* controllers (unifi-local-exporter), Dell OS10 switches                  *)
(* (dell-os10-exporter) and weather locations (weather-exporter).  Each    *)
(* device is asked a list of requests; the controllers and the switches    *)
(* are asked all at once, the locations one after the other.  One page     *)
(* tells of every device.                                                  *)
(***************************************************************************)
EXTENDS Integers, Sequences, FiniteSets

CONSTANT Devices    \* number of devices of an exporter

ASSUME ExportersAssumption == Devices \in Nat \ {0}

VARIABLES
    exporter,       \* which of the three exporters is looked at
    fetches,        \* each device's fetch: next request, samples, outcome
    answers,        \* history: the answers of each device in this scrape
    page            \* the last page

exportersVars == <<exporter, fetches, answers, page>>

Requests == [controllers |-> <<"devices", "health", "peers">>,
             switches |-> <<"interfaces", "dell", "ietf", "openconfig">>,
             locations |-> <<"current">>]
Optional == {"peers", "dell", "ietf", "openconfig"}
Uptimes == {"dell", "ietf", "openconfig"}
Required(e) == {Requests[e][i] : i \in DOMAIN Requests[e]} \ Optional

NewFetch == [next |-> 1, samples |-> {}, ok |-> FALSE]
NoPage == [status |-> "none", success |-> {}, samples |-> {}]

ExportersInit ==
    /\ exporter \in DOMAIN Requests
    /\ fetches = [d \in 1..Devices |-> NewFetch]
    /\ answers = [d \in 1..Devices |-> {}]
    /\ page = NoPage

Fetched(d) == fetches[d].next > Len(Requests[exporter])
Request(d) == Requests[exporter][fetches[d].next]
\* asyncio.gather, or a loop.
MayAsk(d) == exporter = "locations" => \A c \in 1..(d - 1) : Fetched(c)

Over == Len(Requests[exporter]) + 1

\* The answer is what the exporter expects.  Of the uptimes one is enough; a
\* device is fine when its last required request is.
GoodAnswer(d) ==
    /\ ~Fetched(d) /\ MayAsk(d)
    /\ LET f == fetches[d]
           samples == f.samples \cup {Request(d)}
       IN  fetches' = [fetches EXCEPT ![d] =
             [next |-> IF Request(d) \in Uptimes THEN Over ELSE f.next + 1,
              samples |-> samples,
              ok |-> Required(exporter) \subseteq samples]]
    /\ answers' = [answers EXCEPT ![d] = @ \cup {<<Request(d), "good">>}]
    /\ UNCHANGED <<exporter, page>>

\* Mutant: a failure of any request fails the device.
FailedAnswerStrict(d) ==
    /\ ~Fetched(d) /\ MayAsk(d)
    /\ fetches' = [fetches EXCEPT ![d] = [@ EXCEPT !.next = Over, !.ok = FALSE]]
    /\ answers' = [answers EXCEPT ![d] = @ \cup {<<Request(d), "failed">>}]
    /\ UNCHANGED <<exporter, page>>

\* No answer, an error, or one that makes no sense to the fetch: an optional
\* request is passed over, a required one ends the fetch.  The samples of the
\* requests before it are kept.
FailedAnswer(d) ==
    /\ ~Fetched(d) /\ MayAsk(d)
    /\ fetches' = [fetches EXCEPT ![d].next =
                     IF Request(d) \in Optional THEN @ + 1 ELSE Over]
    /\ answers' = [answers EXCEPT ![d] = @ \cup {<<Request(d), "failed">>}]
    /\ UNCHANGED <<exporter, page>>

\* The fetch takes an answer whose values the page cannot be made from.
OddAnswer(d) ==
    /\ ~Fetched(d) /\ MayAsk(d) /\ Request(d) \notin Optional
    /\ LET samples == fetches[d].samples \cup {Request(d)}
       IN  fetches' = [fetches EXCEPT ![d] =
             [next |-> @.next + 1, samples |-> samples,
              ok |-> Required(exporter) \subseteq samples]]
    /\ answers' = [answers EXCEPT ![d] = @ \cup {<<Request(d), "odd">>}]
    /\ UNCHANGED <<exporter, page>>

OddTaken == \E d \in 1..Devices : \E a \in answers[d] : a[2] = "odd"

\* The page; an odd answer raises while it is made, and there is none.
Respond ==
    /\ \A d \in 1..Devices : Fetched(d)
    /\ page' = IF OddTaken THEN [NoPage EXCEPT !.status = "error"]
               ELSE [status |-> "ok",
                     success |-> {d \in 1..Devices : fetches[d].ok},
                     samples |-> UNION {{d} \X fetches[d].samples : d \in 1..Devices}]
    /\ UNCHANGED <<exporter, fetches, answers>>

\* The next scrape.
Scrape ==
    /\ page # NoPage
    /\ page' = NoPage
    /\ fetches' = [d \in 1..Devices |-> NewFetch]
    /\ answers' = [d \in 1..Devices |-> {}]
    /\ UNCHANGED exporter

ExportersNext ==
    \/ \E d \in 1..Devices : GoodAnswer(d) \/ FailedAnswer(d) \/ OddAnswer(d)
    \/ Respond
    \/ Scrape

-----------------------------------------------------------------------------
\* A failure stays with its device.  Without an odd answer there is a page; on
\* it a device is a success exactly when its required requests were answered, and
\* then it shows every answer it gave; a device that failed shows at most answers
\* of its own, of this scrape; and a switch shows an uptime if any of the three
\* sources has one.  What a failed controller shows of the requests before the
\* failure is left open: the code shows it (unifi-local-exporter app.py:117-150),
\* where its description says "no other samples" (app.py:11-13).  An odd answer
\* costs the page of every device (unifi-local-exporter app.py:120-154,
\* dell-os10-exporter app.py:113-183, weather-exporter app.py:76-120).
FailureStaysLocal ==
    page # NoPage =>
      /\ page.status = "error" => OddTaken
      /\ page.status = "ok" => \A d \in 1..Devices :
           LET good == {a[1] : a \in {b \in answers[d] : b[2] = "good"}}
               shown == {s \in page.samples : s[1] = d}
           IN
           /\ d \in page.success <=> Required(exporter) \subseteq good
           /\ shown \subseteq {d} \X good
           /\ d \in page.success => {d} \X good \subseteq shown
           /\ exporter = "switches" /\ d \in page.success
                /\ (\A u \in Uptimes : <<d, u>> \notin page.samples)
                => \A u \in Uptimes : <<u, "failed">> \in answers[d]
=============================================================================
