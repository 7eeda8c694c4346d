----------------------------- MODULE TeamsPoller -----------------------------
(***************************************************************************)
(* The Teams poller of onprem/error-diagnosis/app.py: a task of the event  *)
(* loop reads the newest page of a channel every few seconds, acknowledges *)
(* each new question, has it investigated and posts the answer.  Its own   *)
(* posts may go to the channel it reads, where they take places on the     *)
(* page.  The channel is external; its messages are numbered in the order  *)
(* they were posted.                                                       *)
(***************************************************************************)
EXTENDS Naturals, Sequences

CONSTANTS
    PageSize,       \* $top of the request (10)
    SameChannel,    \* whether TEAMS_REPLY_WEBHOOK_URL posts to the channel read
    Backlogs,       \* channels the service may find at its first start
    MaxPosts,       \* bound on the messages people post
    MaxFailures,    \* bound on failed polls and posts
    MaxRestarts     \* bound on restarts of the service

\* What a message is for the poller: "other" is a system message, or has no user
\* or no text (a picture); "broken" is a user's whose body is null or has null for
\* content, on which _extract_plain_text raises.
PostKinds == {"question", "other", "broken"}
Kinds == PostKinds \cup {"bot"}

ASSUME TeamsAssumption ==
    /\ PageSize \in Nat \ {0}
    /\ SameChannel \in BOOLEAN
    /\ Backlogs \subseteq Seq(PostKinds)
    /\ MaxPosts \in Nat /\ MaxFailures \in Nat /\ MaxRestarts \in Nat

VARIABLES
    channel,    \* the kinds of the messages, oldest first
    lastSeen,   \* _teams_last_seen, 0 for ""
    pc,         \* what the poller awaits
    batch,      \* what is left to investigate of new_messages
    asked,      \* history: how often each message was investigated
    newest,     \* history: the newest message investigated since the start
    fresh,      \* history: messages posted since the last successful poll
    burst,      \* history: the most of them there were at a poll
    posts, failures, restarts

vars == <<channel, lastSeen, pc, batch, asked, newest, fresh, burst, posts,
          failures, restarts>>

TypeOK ==
    /\ channel \in Seq(Kinds)
    /\ lastSeen \in 0..Len(channel)
    /\ pc \in {"sleep", "ack", "investigate", "reply"}
    /\ batch \subseteq 1..Len(channel)
    /\ pc \in {"ack", "investigate"} <=> batch # {} /\ pc # "reply"
    /\ asked \in [1..Len(channel) -> Nat]
    /\ newest \in 0..Len(channel)
    /\ fresh \in Nat /\ burst \in Nat
    /\ posts \in 0..MaxPosts /\ failures \in 0..MaxFailures
    /\ restarts \in 0..MaxRestarts

Init ==
    /\ channel \in Backlogs
    /\ lastSeen = 0
    /\ pc = "sleep"
    /\ batch = {}
    /\ asked = [m \in 1..Len(channel) |-> 0]
    /\ newest = 0
    /\ fresh = Len(channel)
    /\ burst = 0
    /\ posts = 0 /\ failures = 0 /\ restarts = 0

Fail == failures < MaxFailures /\ failures' = failures + 1

\* A message appears in the channel.
Appear(kind) ==
    /\ channel' = Append(channel, kind)
    /\ asked' = Append(asked, 0)
    /\ fresh' = fresh + 1

\* Somebody writes, or something happens that Teams reports as a message.
Post(kind) ==
    /\ posts < MaxPosts /\ posts' = posts + 1
    /\ Appear(kind)
    /\ UNCHANGED <<lastSeen, pc, batch, newest, burst, failures, restarts>>

\* The page: the newest PageSize messages.
Page == {m \in 1..Len(channel) : m + PageSize > Len(channel)}

\* Newest first, the loop stops at the last seen message if the page has it.
Unseen(m) == lastSeen \notin Page \/ m > lastSeen

\* Oldest first, the round ends with an exception at the first message whose
\* text cannot be taken; the rest of it is dropped, and the mark is set already.
Reached(m) == \A n \in Page : Unseen(n) /\ channel[n] = "broken" => m < n

\* Mutant: a round whose newest message is not a question is given up.
PollUserNewest ==
    /\ pc = "sleep"
    /\ channel # <<>> /\ channel[Len(channel)] = "question"
    /\ batch' = {m \in Page : Unseen(m) /\ Reached(m) /\ channel[m] = "question"}
    /\ lastSeen' = IF channel = <<>> THEN lastSeen ELSE Len(channel)
    /\ pc' = IF batch' = {} THEN "sleep" ELSE "ack"
    /\ fresh' = 0
    /\ burst' = IF fresh > burst THEN fresh ELSE burst
    /\ UNCHANGED <<channel, asked, newest, posts, failures, restarts>>

\* One round up to its first question: token, page, the new messages of users
\* and the new mark.  A message without text is passed over, and one on which
\* the loop ends ends it, when its turn comes, which no await precedes.
Poll ==
    /\ pc = "sleep"
    /\ batch' = {m \in Page : Unseen(m) /\ Reached(m) /\ channel[m] = "question"}
    /\ lastSeen' = IF channel = <<>> THEN lastSeen ELSE Len(channel)
    /\ pc' = IF batch' = {} THEN "sleep" ELSE "ack"
    /\ fresh' = 0
    /\ burst' = IF fresh > burst THEN fresh ELSE burst
    /\ UNCHANGED <<channel, asked, newest, posts, failures, restarts>>

\* No token, no answer, or an answer without JSON: logged, and tried again.
PollFails ==
    /\ pc = "sleep" /\ Fail
    /\ UNCHANGED <<channel, lastSeen, pc, batch, asked, newest, fresh, burst,
                   posts, restarts>>

\* _post_to_teams_webhook: a failure is logged.
Say ==
    \/ SameChannel /\ Appear("bot") /\ UNCHANGED failures
    \/ ~SameChannel /\ UNCHANGED <<channel, asked, fresh, failures>>
    \/ Fail /\ UNCHANGED <<channel, asked, fresh>>

Acknowledge ==
    /\ pc = "ack"
    /\ Say
    /\ pc' = "investigate"
    /\ UNCHANGED <<lastSeen, batch, newest, burst, posts, restarts>>

\* Mutant: newest first.
NextUpNewest(m) == m \in batch /\ \A n \in batch : n <= m

\* reversed(new_messages): oldest first.
NextUp(m) == m \in batch /\ \A n \in batch : m <= n

\* run_investigation, and the card made of its result: completed, failed and
\* raised all end in a reply.
Investigate(m) ==
    /\ pc = "investigate" /\ NextUp(m)
    /\ asked' = [asked EXCEPT ![m] = @ + 1]
    /\ newest' = m
    /\ batch' = batch \ {m}
    /\ pc' = "reply"
    /\ UNCHANGED <<channel, lastSeen, fresh, burst, posts, failures, restarts>>

\* Mutant: the mark is moved to the newest message after each answer.
ReplyMarks ==
    /\ pc = "reply"
    /\ Say
    /\ lastSeen' = Len(channel)
    /\ pc' = IF batch = {} THEN "sleep" ELSE "ack"
    /\ UNCHANGED <<batch, newest, burst, posts, restarts>>

\* Mutant: the loop does not end with the last message.
ReplyOnce ==
    /\ pc = "reply"
    /\ Say
    /\ pc' = "ack"
    /\ UNCHANGED <<lastSeen, batch, newest, burst, posts, restarts>>

Reply ==
    /\ pc = "reply"
    /\ Say
    /\ pc' = IF batch = {} THEN "sleep" ELSE "ack"
    /\ UNCHANGED <<lastSeen, batch, newest, burst, posts, restarts>>

\* The process dies; the mark was only in its memory.
Restart ==
    /\ restarts < MaxRestarts /\ restarts' = restarts + 1
    /\ lastSeen' = 0
    /\ pc' = "sleep"
    /\ batch' = {}
    /\ newest' = 0
    /\ UNCHANGED <<channel, asked, fresh, burst, posts, failures>>

Poller == \/ Poll \/ Acknowledge \/ Reply
          \/ \E m \in batch : Investigate(m)

Next ==
    \/ \E kind \in PostKinds : Post(kind)
    \/ Poller \/ PollFails
    \/ Restart

\* Every request of the task and every read of its queries has a timeout
\* (app.py:784-785, 1018, 1057, 1117, 1158), and every failure is caught.
Spec == Init /\ [][Next]_vars /\ WF_vars(Poller)

-----------------------------------------------------------------------------
Questions == {m \in 1..Len(channel) : channel[m] = "question"}

\* A message that the loop ends at comes before message m, on a page with it.
BehindBroken(m) ==
    \E n \in 1..Len(channel) : channel[n] = "broken" /\ n < m /\ m < n + PageSize

\* As long as no more messages than a page holds appear between two polls, the
\* bot's own included, and the service is not restarted, no question is passed
\* over: once the mark is beyond it, it is waiting, or was investigated, or the
\* round ended with an exception at a message less than a page before it
\* (app.py:1163-1181, 1207).
NoneLost ==
    burst <= PageSize /\ restarts = 0 =>
        \A m \in Questions : m <= lastSeen =>
            m \in batch \/ asked[m] > 0 \/ BehindBroken(m)

\* A question is investigated at most once per life of the service: the mark
\* is set before the first answer, so that a page read while answers are being
\* posted does not bring it back (app.py:1166, 1178).
OncePerLife == \A m \in 1..Len(channel) : asked[m] <= restarts + 1

\* Questions are answered in the order they were posted (app.py:1180), across
\* rounds as well.
OldestFirst ==
    [][\A m \in DOMAIN asked : asked'[m] # asked[m] => m > newest]_vars

\* With a page for every burst, no restart and no message that a round ends at
\* shortly before it, every question is answered, at whatever place of the channel
\* it is: until a restart there are at most two posts of the bot for each message
\* of people (app.py:1162-1205).
EveryQuestionAnswered ==
    \A m \in UNION {1..(3 * (Len(b) + MaxPosts)) : b \in Backlogs} :
        m \in Questions ~>
            \/ m \in DOMAIN asked /\ asked[m] > 0
            \/ BehindBroken(m) \/ burst > PageSize \/ restarts > 0
=============================================================================
