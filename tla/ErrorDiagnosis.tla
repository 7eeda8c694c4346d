--------------------------- MODULE ErrorDiagnosis ---------------------------
(***************************************************************************)
(* onprem/error-diagnosis/app.py: the diagnosis pipeline.  All runs share  *)
(* one event loop, so what happens between two awaits is one step; what    *)
(* they share is cooldown_map, history and the tickets kept by Jira, which *)
(* is external.  A run is one call of run_diagnosis_pipeline or of         *)
(* run_investigation, started by the Grafana webhook, by hand or by chat.  *)
(***************************************************************************)
EXTENDS Naturals, Sequences

CONSTANTS
  Runs,         \* pipeline and investigation calls
  Apps,         \* application names
  Spikes,       \* what Loki may report: rankings of the apps over 5 errors
  KeyLen,       \* apps in the cooldown key (3)
  Headlines,    \* the one-line summaries a diagnosis may have
  Keywords,     \* exception names and messages found in log lines
  KeywordOf,    \* the keyword of an app's error; the app's name if no line is found
  Quoted,       \* which words Claude's texts may repeat
  Mangled,      \* headlines and keywords that a search sends in another form
  Alike,        \* the words that a search for a word finds
  Shapes,       \* which answers of Claude are considered
  Cooldown,     \* COOLDOWN_HOURS, in ticks
  HistoryMax,   \* length of history (20)
  MaxTime,      \* bound: clock ticks
  MaxRestarts,  \* bound: restarts of the service
  MaxCloses,    \* bound: tickets resolved by people
  Never         \* no time

(* A diagnosis is usable, or `per_app` is null in it, or one app's entry   *)
(* is; an answer that is no JSON object aborts the run at once.            *)
AllShapes == {"ok", "noPerApp", "nullApp", "notDict"}

Words == Headlines \cup Keywords \cup Apps

ASSUME DiagnosisAssumption ==
  /\ Spikes \subseteq Seq(Apps) \ {<<>>}
  /\ Headlines # {}
  /\ KeyLen \in Nat \ {0}
  /\ KeywordOf \in [Apps -> Keywords \cup Apps]
  /\ Quoted \subseteq Headlines \cup Keywords \cup Apps
  /\ Mangled \subseteq Headlines \cup Keywords
  /\ Alike \in [Words -> SUBSET Words] /\ \A w \in Words : w \in Alike[w]
  /\ Shapes \subseteq AllShapes
  /\ Cooldown \in Nat \ {0}
  /\ HistoryMax \in Nat \ {0}
  /\ MaxTime \in Nat
  /\ Never \notin Nat

VARIABLES
  now,          \* time.time()
  cooldownMap,  \* cooldown_map
  history,      \* history, newest first
  pc,           \* where a run awaits, or how it ended
  force,        \* run: the argument `force`
  spike,        \* run: significant_apps
  startedAt,    \* run: when it set the cooldown
  refusedAt,    \* run: when the cooldown turned it away
  headline,     \* run: summary_one_liner
  shape,        \* run: what Claude's answer looks like
  found,        \* run: the ticket the last search returned, 0 for none
  parentKey,    \* run: parent_key, 0 for None
  idx,          \* run: position in the loop over significant_apps
  childKeys,    \* run: child_keys
  tickets,      \* Jira: the tickets, by number
  restarts, closes,
  calm          \* no two runs were in the Jira part at once, no search failed

runVars == <<force, spike, startedAt, refusedAt, headline, shape, found,
             parentKey, idx, childKeys>>
jiraVars == <<tickets, closes, calm>>
vars == <<now, cooldownMap, history, pc, runVars, restarts, jiraVars>>

Key(s) == SubSeq(s, 1, IF Len(s) < KeyLen THEN Len(s) ELSE KeyLen)
Keys == {Key(s) : s \in Spikes}
AppsOf(s) == {s[i] : i \in DOMAIN s}

JiraSteps == {"findParent", "fileParent", "findChild", "fileChild"}
Waiting == {"loki", "gather", "notify", "investigate"} \cup JiraSteps
Recorded == {"failed", "none", "cooldown", "completed"}
Ended == Recorded \cup {"aborted", "unrecorded", "lost"}

(* A ticket: the ticket it is a Subtask of (0 for a Bug), the headline or  *)
(* app its summary leads with, the apps its summary names, the words of    *)
(* its text, and whether it is still open.                                 *)
Ticket(p, title, about, words) ==
  [parent |-> p, title |-> title, about |-> about, words |-> words, open |-> TRUE]

(* The words of a text that a search for them finds.  The keyword of a     *)
(* search has its backslashes removed, its digits replaced by N and is cut *)
(* after 60 characters: with a namespace, a number or a longer line it is  *)
(* not what the text says.                                                 *)
Findable(words) == words \ Mangled

TicketIds == 1..Len(tickets)

-----------------------------------------------------------------------------
Init ==
  /\ now = 0
  /\ cooldownMap = [k \in Keys |-> Never]
  /\ history = <<>>
  /\ pc = [r \in Runs |-> "idle"]
  /\ force = [r \in Runs |-> FALSE]
  /\ spike = [r \in Runs |-> <<>>]
  /\ startedAt = [r \in Runs |-> Never]
  /\ refusedAt = [r \in Runs |-> Never]
  /\ headline = [r \in Runs |-> CHOOSE h \in Headlines : TRUE]
  /\ shape = [r \in Runs |-> "ok"]
  /\ found = [r \in Runs |-> 0]
  /\ parentKey = [r \in Runs |-> 0]
  /\ idx = [r \in Runs |-> 1]
  /\ childKeys = [r \in Runs |-> [a \in Apps |-> 0]]
  /\ tickets = <<>>
  /\ restarts = 0 /\ closes = 0
  /\ calm = TRUE

(* A step of run r that stops at step `to`. *)
Goto(r, to) == pc' = [pc EXCEPT ![r] = to]

(* result, as GET /history shows it *)
Result(r, status) ==
  [run |-> r, status |-> status, jira |-> parentKey[r],
   children |-> childKeys[r]]

(* Mutant: the oldest entry is dropped before the list is full. *)
StoredTooShort(h, x) ==
  IF Len(h) + 1 >= HistoryMax THEN SubSeq(<<x>> \o h, 1, Len(h))
                              ELSE <<x>> \o h

(* _store_history *)
Stored(h, x) ==
  IF Len(h) + 1 > HistoryMax THEN SubSeq(<<x>> \o h, 1, Len(h))
                             ELSE <<x>> \o h

(* result["status"] = status; _store_history(result); return *)
Finish(r, status) ==
  /\ Goto(r, status)
  /\ history' = Stored(history, Result(r, status))

(* The webhook (a firing alert in business hours: not forced) or POST      *)
(* /diagnose.  An alert that is ignored changes nothing.                   *)
Accept(r, f) ==
  /\ pc[r] = "idle"
  /\ Goto(r, "loki")
  /\ force' = [force EXCEPT ![r] = f]
  /\ UNCHANGED <<now, cooldownMap, history, spike, startedAt, refusedAt,
                 headline, shape, found, parentKey, idx, childKeys,
                 restarts, jiraVars>>

(* Loki fails, or reports no app with more than five errors. *)
NothingToDiagnose(r) ==
  /\ pc[r] = "loki"
  /\ \E status \in {"failed", "none"} : Finish(r, status)
  /\ UNCHANGED <<now, cooldownMap, runVars, restarts, jiraVars>>

(* Mutant: the boundary of the cooldown is taken the wrong way. *)
CoolingEarly(k) == cooldownMap[k] # Never /\ now - cooldownMap[k] + 1 < Cooldown

(* Mutant: one cooldown is kept for all keys. *)
CoolingAnyKey(k) ==
  \E j \in Keys : cooldownMap[j] # Never /\ now - cooldownMap[j] < Cooldown

(* cooldown_key in cooldown_map, and elapsed < COOLDOWN_HOURS * 3600 *)
Cooling(k) == cooldownMap[k] # Never /\ now - cooldownMap[k] < Cooldown

Suppress(r, s) ==
  /\ pc[r] = "loki"
  /\ ~force[r] /\ Cooling(Key(s))
  /\ spike' = [spike EXCEPT ![r] = s]
  /\ refusedAt' = [refusedAt EXCEPT ![r] = now]
  /\ Finish(r, "cooldown")
  /\ UNCHANGED <<now, cooldownMap, force, startedAt, headline, shape, found,
                 parentKey, idx, childKeys, restarts, jiraVars>>

(* cooldown_map[cooldown_key] = time.time() *)
Armed(k) == [cooldownMap EXCEPT ![k] = now]

(* No await lies between the check and the assignment. *)
Start(r, s) ==
  /\ pc[r] = "loki"
  /\ force[r] \/ ~Cooling(Key(s))
  /\ cooldownMap' = Armed(Key(s))
  /\ spike' = [spike EXCEPT ![r] = s]
  /\ startedAt' = [startedAt EXCEPT ![r] = now]
  /\ Goto(r, "gather")
  /\ UNCHANGED <<now, history, force, refusedAt, headline, shape, found,
                 parentKey, idx, childKeys, restarts, jiraVars>>

(* Log lines, metrics, process list, commits and Claude's answer: failures *)
(* are all replaced by texts, but an answer that is not an object ends the *)
(* run at diagnosis.get with an uncaught AttributeError.                   *)
Diagnosed(r, h, q) ==
  /\ pc[r] = "gather"
  /\ Goto(r, IF q = "notDict" THEN "aborted" ELSE "findParent")
  /\ headline' = [headline EXCEPT ![r] = h]
  /\ shape' = [shape EXCEPT ![r] = q]
  /\ calm' = (calm /\ \A o \in Runs \ {r} : pc[o] \notin JiraSteps)
  /\ UNCHANGED <<now, cooldownMap, history, force, spike, startedAt, refusedAt,
                 found, parentKey, idx, childKeys, restarts, tickets,
                 closes>>

-----------------------------------------------------------------------------
(* Jira searches the open tickets: words in the summary, words in the text. *)
(* `~` compares tokens: a search for ces finds what names ces-elec.         *)
Among(w, words) == Alike[w] \cap words # {}
OpenAbout(a, w) ==
  {i \in TicketIds : tickets[i].open /\ Among(a, tickets[i].about)
                                     /\ Among(w, tickets[i].words)}
OpenSaying(w) == {i \in TicketIds : tickets[i].open /\ Among(w, tickets[i].words)}

(* Mutant: the answer of the search is not used. *)
SearchIgnored(r, hits) == found' = [found EXCEPT ![r] = 0] /\ UNCHANGED calm

(* Mutant: a search without a result leaves the previous one in place. *)
SearchSticky(r, hits) ==
  \/ /\ \E i \in hits : found' = [found EXCEPT ![r] = i]
     /\ UNCHANGED calm
  \/ UNCHANGED found /\ calm' = (calm /\ hits = {})

(* search_existing_ticket: a match, or None, which also stands for failed. *)
Search(r, hits) ==
  \/ /\ \E i \in hits : found' = [found EXCEPT ![r] = i]
     /\ UNCHANGED calm
  \/ /\ found' = [found EXCEPT ![r] = 0]
     /\ calm' = (calm /\ hits = {})

(* Every ticket of the service has "Auto-Diagnosis" in its summary. *)
FindParent(r) ==
  /\ pc[r] = "findParent"
  /\ Search(r, OpenSaying(headline[r]))
  /\ Goto(r, "fileParent")
  /\ UNCHANGED <<now, cooldownMap, history, force, spike, startedAt, refusedAt,
                 headline, shape, parentKey, idx, childKeys, restarts,
                 tickets, closes>>

(* Where the run goes with parent key p: without one no child is filed,    *)
(* and a null per_app ends the run at per_app.get.                         *)
AfterParent(r, p) ==
  IF p = 0 THEN "notify"
  ELSE IF shape[r] = "noPerApp" THEN "aborted" ELSE "findChild"

CommentParent(r) ==
  /\ pc[r] = "fileParent" /\ found[r] # 0
  /\ parentKey' = [parentKey EXCEPT ![r] = found[r]]
  /\ Goto(r, AfterParent(r, found[r]))
  /\ UNCHANGED <<now, cooldownMap, history, force, spike, startedAt, refusedAt,
                 headline, shape, found, idx, childKeys, restarts,
                 jiraVars>>

(* Mutant: a key is returned although no ticket was created. *)
KeyAnyway(t, key) ==
  \/ tickets' = Append(tickets, t) /\ key \in {0, Len(tickets) + 1}
  \/ UNCHANGED tickets /\ key \in {0, Len(tickets) + 1}

(* create_jira_ticket returns `key`: the ticket is there and its key is    *)
(* known, or it is there but the answer was lost, or it is not there.      *)
Created(t, key) ==
  \/ tickets' = Append(tickets, t) /\ key \in {0, Len(tickets) + 1}
  \/ UNCHANGED tickets /\ key = 0

(* The description names all affected apps; the summary is Claude's line   *)
(* or, when Claude gave none, names the top three.  What else of the errors  *)
(* the text quotes is up to Claude.                                        *)
CreateParent(r) ==
  /\ pc[r] = "fileParent" /\ found[r] = 0
  /\ \E about \in {{}, AppsOf(Key(spike[r]))}, quoted \in SUBSET Quoted,
        key \in {0, Len(tickets) + 1} :
       /\ Created(Ticket(0, headline[r], about,
                         Findable({headline[r]} \cup AppsOf(spike[r]) \cup quoted)),
                  key)
       /\ parentKey' = [parentKey EXCEPT ![r] = key]
       /\ Goto(r, AfterParent(r, key))
  /\ UNCHANGED <<now, cooldownMap, history, force, spike, startedAt, refusedAt,
                 headline, shape, found, idx, childKeys, restarts,
                 closes, calm>>

App(r) == spike[r][idx[r]]

(* A null entry of per_app ends the run after the search.                  *)
FindChild(r) ==
  /\ pc[r] = "findChild"
  /\ Search(r, OpenAbout(App(r), KeywordOf[App(r)]))
  /\ \/ Goto(r, "fileChild")
     \/ shape[r] = "nullApp" /\ Goto(r, "aborted")
  /\ UNCHANGED <<now, cooldownMap, history, force, spike, startedAt, refusedAt,
                 headline, shape, parentKey, idx, childKeys, restarts, tickets,
                 closes>>

(* On to the next app of the loop, or past it. *)
NextApp(r) ==
  /\ idx' = [idx EXCEPT ![r] = @ + 1]
  /\ Goto(r, IF idx[r] = Len(spike[r]) THEN "notify" ELSE "findChild")

(* child_keys[app_name] = ... *)
KeepKey(r, key) == childKeys' = [childKeys EXCEPT ![r][App(r)] = key]

CommentChild(r) ==
  /\ pc[r] = "fileChild" /\ found[r] # 0
  /\ KeepKey(r, found[r])
  /\ NextApp(r)
  /\ UNCHANGED <<now, cooldownMap, history, force, spike, startedAt, refusedAt,
                 headline, shape, found, parentKey, restarts, jiraVars>>

(* Claude's text on the app may repeat the headline; a summary that Claude *)
(* did not give is the error's signature, which ends with the keyword as   *)
(* the search sends it, unless that is cut.  Jira refuses a Subtask of a   *)
(* Subtask.                                                                *)
CreateChild(r) ==
  /\ pc[r] = "fileChild" /\ found[r] = 0
  /\ \E quoted \in SUBSET (Quoted \cap {headline[r]}),
        signed \in SUBSET {KeywordOf[App(r)]},
        key \in {0, Len(tickets) + 1} :
       /\ Created(Ticket(parentKey[r], App(r), {App(r)},
                         signed \cup Findable({KeywordOf[App(r)], App(r)} \cup quoted)),
                  key)
       /\ tickets' # tickets => tickets[parentKey[r]].parent = 0
       /\ KeepKey(r, key)
  /\ NextApp(r)
  /\ UNCHANGED <<now, cooldownMap, history, force, spike, startedAt, refusedAt,
                 headline, shape, found, parentKey, restarts, closes,
                 calm>>

(* The Teams card is posted, or fails and is logged; the run is complete. *)
Notify(r) ==
  /\ pc[r] = "notify"
  /\ Finish(r, "completed")
  /\ UNCHANGED <<now, cooldownMap, runVars, restarts, jiraVars>>

-----------------------------------------------------------------------------
(* POST /investigate, or a Teams message. *)
AcceptInvestigation(r) ==
  /\ pc[r] = "idle"
  /\ Goto(r, "investigate")
  /\ UNCHANGED <<now, cooldownMap, history, runVars, restarts, jiraVars>>

(* Answered or failed, it enters history; without an API key it does not.  *)
Investigated(r) ==
  /\ pc[r] = "investigate"
  /\ \/ \E status \in {"completed", "failed"} : Finish(r, status)
     \/ Goto(r, "unrecorded") /\ UNCHANGED history
  /\ UNCHANGED <<now, cooldownMap, runVars, restarts, jiraVars>>

(* Somebody resolves a ticket in Jira. *)
CloseTicket(i) ==
  /\ closes < MaxCloses /\ tickets[i].open
  /\ tickets' = [tickets EXCEPT ![i].open = FALSE]
  /\ closes' = closes + 1
  /\ UNCHANGED <<now, cooldownMap, history, pc, runVars, restarts, calm>>

Tick ==
  /\ now < MaxTime
  /\ now' = now + 1
  /\ UNCHANGED <<cooldownMap, history, pc, runVars, restarts, jiraVars>>

(* The process dies: its memory goes and every unfinished run with it.     *)
Restart ==
  /\ restarts < MaxRestarts
  /\ restarts' = restarts + 1
  /\ cooldownMap' = [k \in Keys |-> Never]
  /\ history' = <<>>
  /\ pc' = [r \in Runs |-> IF pc[r] = "idle" THEN "idle" ELSE "lost"]
  /\ startedAt' = [r \in Runs |-> Never]
  /\ refusedAt' = [r \in Runs |-> Never]
  /\ UNCHANGED <<now, force, spike, headline, shape, found, parentKey,
                 idx, childKeys, jiraVars>>

RunStep(r) ==
  \/ NothingToDiagnose(r)
  \/ \E s \in Spikes : Suppress(r, s) \/ Start(r, s)
  \/ \E h \in Headlines, q \in Shapes : Diagnosed(r, h, q)
  \/ FindParent(r) \/ CommentParent(r) \/ CreateParent(r)
  \/ FindChild(r) \/ CommentChild(r) \/ CreateChild(r)
  \/ Notify(r)
  \/ Investigated(r)

Next ==
  \/ \E r \in Runs, f \in BOOLEAN : Accept(r, f)
  \/ \E r \in Runs : AcceptInvestigation(r)
  \/ \E r \in Runs : RunStep(r)
  \/ \E i \in TicketIds : CloseTicket(i)
  \/ Tick
  \/ Restart

Spec == Init /\ [][Next]_vars

-----------------------------------------------------------------------------
(* Every variable keeps its type. *)
TypeOK ==
  /\ now \in Nat /\ restarts \in Nat /\ closes \in Nat /\ calm \in BOOLEAN
  /\ cooldownMap \in [Keys -> Nat \cup {Never}]
  /\ pc \in [Runs -> {"idle"} \cup Waiting \cup Ended]
  /\ force \in [Runs -> BOOLEAN]
  /\ spike \in [Runs -> Spikes \cup {<<>>}]
  /\ startedAt \in [Runs -> Nat \cup {Never}]
  /\ refusedAt \in [Runs -> Nat \cup {Never}]
  /\ headline \in [Runs -> Headlines]
  /\ shape \in [Runs -> AllShapes]
  /\ found \in [Runs -> 0..Len(tickets)]
  /\ parentKey \in [Runs -> 0..Len(tickets)]
  /\ childKeys \in [Runs -> [Apps -> 0..Len(tickets)]]
  /\ \A r \in Runs : idx[r] \in 1..(Len(spike[r]) + 1)
  /\ \A i \in TicketIds :
       /\ tickets[i].parent \in 0..(i - 1) /\ tickets[i].open \in BOOLEAN
       /\ tickets[i].title \in Headlines \cup Apps
       /\ tickets[i].about \subseteq Apps /\ tickets[i].words \subseteq Words

Started(r) == startedAt[r] # Never
SameKey(q, r) == Key(spike[q]) = Key(spike[r])

(* Between restarts, a run that was not forced starts a diagnosis only if  *)
(* every earlier diagnosis of its key, forced or not, is COOLDOWN_HOURS    *)
(* old; overlapping runs cannot both pass the check.                       *)
CooldownKept ==
  \A q, r \in Runs :
    q # r /\ Started(q) /\ Started(r) /\ SameKey(q, r) /\ ~force[r] =>
      \/ startedAt[q] + Cooldown <= startedAt[r]
      \/ startedAt[r] < startedAt[q]
      \/ startedAt[r] = startedAt[q] /\ force[q]

(* A run is turned away only if a diagnosis of its key really started less *)
(* than COOLDOWN_HOURS before.                                             *)
SuppressionExplained ==
  \A r \in Runs : pc[r] = "cooldown" =>
    \E q \in Runs : /\ Started(q) /\ SameKey(q, r)
                    /\ startedAt[q] <= refusedAt[r]
                    /\ refusedAt[r] < startedAt[q] + Cooldown

(* GET /history holds each run once and loses a recorded run only when it  *)
(* holds HistoryMax others.                                                *)
HistoryComplete ==
  /\ Len(history) <= HistoryMax
  /\ \A i, j \in DOMAIN history : history[i].run = history[j].run => i = j
  /\ \A r \in Runs : pc[r] \in Recorded =>
       \/ \E i \in DOMAIN history : history[i].run = r
       \/ Len(history) = HistoryMax

(* The keys a completed run reports are tickets of Jira, none for an app    *)
(* without one for the spike, and the ticket for an app is one that the run *)
(* filed for it under the ticket of the spike, or one whose summary and     *)
(* text have what the search for that app and its error looks for; although *)
(* the loop over the apps interleaves with other runs and its searches fail. *)
(* That the ticket found is about the app itself, and not about one of a    *)
(* like name, is more than the search of line 381 can give.                 *)
HistoryTruthful ==
  \A i \in DOMAIN history : history[i].status = "completed" =>
    /\ history[i].jira \in 0..Len(tickets)
    /\ \A a \in Apps : history[i].children[a] # 0 =>
         /\ history[i].jira # 0
         /\ history[i].children[a] \in TicketIds
         /\ LET t == tickets[history[i].children[a]] IN
              \/ t.parent = history[i].jira /\ t.title = a
              \/ Among(a, t.about) /\ Among(KeywordOf[a], t.words)

(* The word by which the search for ticket i looks: the headline of a Bug, *)
(* the error keyword of a Subtask's app.                                   *)
Sought(i) == IF tickets[i].parent = 0 THEN tickets[i].title
                                      ELSE KeywordOf[tickets[i].title]

(* Two open tickets for one headline, or for the error of one app. *)
Twins(i, j) ==
  /\ i # j /\ tickets[i].open /\ tickets[j].open
  /\ tickets[i].parent = 0 <=> tickets[j].parent = 0
  /\ tickets[i].title = tickets[j].title

(* "creates or updates a Jira ticket" (lines 5-6): as long as no two runs  *)
(* were in the Jira part at once and no search failed, no two open Bugs    *)
(* have one headline and no two open Subtasks are for one app's error,     *)
(* save for those a search cannot find by the form of the keyword it sends.*)
TicketsNotDuplicated ==
  calm => \A i, j \in TicketIds : Twins(i, j) => Sought(i) \in Mangled
=============================================================================
