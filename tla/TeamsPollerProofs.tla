-------------------------- MODULE TeamsPollerProofs --------------------------
(***************************************************************************)
(* Proofs about TeamsPoller: for any size of the page, any channel and any *)
(* number of posts, failures and restarts.                                 *)
(***************************************************************************)
EXTENDS TeamsPoller, SequenceTheorems, TLAPS

\* What waits is new since the mark was moved, and after what was answered.
BatchBetween ==
    /\ newest <= lastSeen
    /\ \A m \in batch : m <= lastSeen /\ newest < m

\* Until a restart, the messages beyond the mark are those since the last poll.
FreshIsUnseen == restarts = 0 => fresh = Len(channel) - lastSeen

\* In this life, only what is behind the mark and does not wait was investigated.
AskedBound ==
    \A m \in 1..Len(channel) :
        /\ asked[m] <= restarts + 1
        /\ m > lastSeen \/ m \in batch => asked[m] <= restarts

PollerInv == TypeOK /\ BatchBetween /\ FreshIsUnseen /\ AskedBound /\ NoneLost

-----------------------------------------------------------------------------
\* A new message changes nothing about the others.
LEMMA AppearKeeps ==
  ASSUME TypeOK, NEW kind \in Kinds, Appear(kind)
  PROVE  /\ channel' \in Seq(Kinds) /\ Len(channel') = Len(channel) + 1
         /\ asked' \in [1..Len(channel') -> Nat]
         /\ \A m \in 1..Len(channel) : channel'[m] = channel[m] /\ asked'[m] = asked[m]
         /\ asked'[Len(channel')] = 0
         /\ fresh' = fresh + 1
<1>1. channel \in Seq(Kinds) /\ Len(channel) \in Nat
  BY LenProperties DEF TypeOK
<1>2. asked \in Seq(Nat) /\ Len(asked) = Len(channel)
  BY <1>1, IsASeq, LenProperties DEF TypeOK
<1>3. channel' = Append(channel, kind) /\ asked' = Append(asked, 0)
  BY DEF Appear
<1>4. /\ channel' \in Seq(Kinds) /\ Len(channel') = Len(channel) + 1
      /\ \A m \in 1..Len(channel) : channel'[m] = channel[m]
  BY <1>1, <1>3, AppendProperties
<1>5. /\ asked' \in Seq(Nat) /\ Len(asked') = Len(channel) + 1
      /\ \A m \in 1..Len(channel) : asked'[m] = asked[m]
      /\ asked'[Len(channel) + 1] = 0
  BY <1>2, <1>3, AppendProperties
<1>6. asked' \in [1..Len(channel') -> Nat]
  BY <1>4, <1>5, LenProperties
<1>7. QED
  BY <1>4, <1>5, <1>6 DEF Appear

\* Whatever somebody posts, the channel as it was is still there.
Grows ==
    /\ channel' \in Seq(Kinds) /\ Len(channel') \in Nat
    /\ Len(channel') \in {Len(channel), Len(channel) + 1}
    /\ asked' \in [1..Len(channel') -> Nat]
    /\ fresh' = fresh + Len(channel') - Len(channel)
    /\ \A m \in 1..Len(channel) : channel'[m] = channel[m] /\ asked'[m] = asked[m]
    /\ \A m \in 1..Len(channel') : m > Len(channel) => asked'[m] = 0

LEMMA StaysGrows ==
  ASSUME TypeOK, UNCHANGED <<channel, asked, fresh>>
  PROVE  Grows
BY LenProperties DEF TypeOK, Grows

LEMMA AppearGrows ==
  ASSUME TypeOK, NEW kind \in Kinds, Appear(kind)
  PROVE  Grows
<1>1. Len(channel) \in Nat /\ fresh \in Nat
  BY LenProperties DEF TypeOK
<1>2. QED
  BY <1>1, AppearKeeps DEF Grows

LEMMA SayGrows ==
  ASSUME TypeOK, Say
  PROVE  Grows /\ failures' \in 0..MaxFailures
<1>1. "bot" \in Kinds
  BY DEF Kinds
<1>2. Grows
  BY <1>1, StaysGrows, AppearGrows DEF Say
<1>3. QED
  BY <1>2, TeamsAssumption DEF Say, Fail, TypeOK

\* A step that neither moves the mark nor investigates.
LEMMA QuietStep ==
  ASSUME PollerInv, Grows, UNCHANGED <<lastSeen, batch, newest, burst, restarts>>,
         pc' \in {"sleep", "ack", "investigate", "reply"},
         pc' \in {"ack", "investigate"} <=> batch # {} /\ pc' # "reply",
         posts' \in 0..MaxPosts, failures' \in 0..MaxFailures
  PROVE  PollerInv'
<1>1. /\ Len(channel) \in Nat /\ Len(channel') \in Nat /\ fresh \in Nat
      /\ Len(channel) <= Len(channel') /\ lastSeen \in 0..Len(channel)
      /\ restarts \in Nat
  BY LenProperties, TeamsAssumption DEF PollerInv, TypeOK, Grows
<1>2. TypeOK'
  <2>1. /\ 1..Len(channel) \subseteq 1..Len(channel')
        /\ 0..Len(channel) \subseteq 0..Len(channel')
    BY <1>1
  <2>2. /\ lastSeen' \in 0..Len(channel') /\ newest' \in 0..Len(channel')
        /\ batch' \subseteq 1..Len(channel')
    BY <2>1 DEF PollerInv, TypeOK
  <2>3. fresh' \in Nat
    BY <1>1 DEF Grows
  <2>4. channel' \in Seq(Kinds) /\ asked' \in [1..Len(channel') -> Nat]
    BY DEF Grows
  <2>5. pc' \in {"ack", "investigate"} <=> batch' # {} /\ pc' # "reply"
    OBVIOUS
  <2>6. burst' \in Nat /\ restarts' \in 0..MaxRestarts
    BY DEF PollerInv, TypeOK
  <2>7. QED
    BY <2>2, <2>3, <2>4, <2>5, <2>6 DEF TypeOK
<1>3. BatchBetween' /\ FreshIsUnseen'
  <2>1. BatchBetween'
    BY DEF PollerInv, BatchBetween
  <2>2. lastSeen \in Nat /\ fresh' = fresh + Len(channel') - Len(channel)
    BY <1>1 DEF Grows
  <2>3. restarts = 0 => fresh = Len(channel) - lastSeen
    BY DEF PollerInv, FreshIsUnseen
  <2>4. FreshIsUnseen'
    BY <1>1, <2>2, <2>3 DEF FreshIsUnseen
  <2>5. QED
    BY <2>1, <2>4
<1>4. AskedBound'
  <2>1. ASSUME NEW m \in 1..Len(channel')
        PROVE  /\ asked'[m] <= restarts + 1
               /\ m > lastSeen \/ m \in batch => asked'[m] <= restarts
    <3>1. CASE m \in 1..Len(channel)
      BY <3>1 DEF PollerInv, AskedBound, Grows
    <3>2. CASE m > Len(channel)
      BY <1>1, <3>2 DEF Grows
    <3>3. QED
      BY <1>1, <3>1, <3>2
  <2>2. QED
    BY <2>1 DEF AskedBound
<1>5. NoneLost'
  <2>1. SUFFICES ASSUME burst <= PageSize, restarts = 0, NEW m \in 1..Len(channel'),
                        channel'[m] = "question", m <= lastSeen
                 PROVE  m \in batch \/ asked'[m] > 0 \/ BehindBroken(m)'
    BY DEF NoneLost, Questions
  <2>2. m \in 1..Len(channel) /\ channel[m] = "question" /\ asked'[m] = asked[m]
    BY <1>1, <2>1 DEF Grows
  <2>3. BehindBroken(m) => BehindBroken(m)'
    BY <1>1 DEF BehindBroken, Grows
  <2>4. QED
    BY <2>1, <2>2, <2>3 DEF PollerInv, NoneLost, Questions
<1>6. QED
  BY <1>2, <1>3, <1>4, <1>5 DEF PollerInv

-----------------------------------------------------------------------------
\* A page that lacks the last seen message has only later ones.
LEMMA UnseenIsNew ==
  ASSUME TypeOK, NEW m \in Page, Unseen(m)
  PROVE  m > lastSeen
<1>1. Len(channel) \in Nat
  BY LenProperties DEF TypeOK
<1>2. QED
  BY <1>1, TeamsAssumption DEF TypeOK, Page, Unseen

LEMMA PollKeeps ==
  ASSUME PollerInv, Poll
  PROVE  PollerInv'
<1>1. /\ Len(channel) \in Nat /\ lastSeen \in 0..Len(channel) /\ newest <= lastSeen
      /\ fresh \in Nat /\ burst \in Nat /\ restarts \in Nat /\ newest \in Nat
  BY LenProperties, TeamsAssumption DEF PollerInv, TypeOK, BatchBetween
<1>2. batch = {}
  BY DEF Poll, PollerInv, TypeOK
<1>3. lastSeen' = Len(channel)
  BY <1>1, LenProperties DEF Poll, PollerInv, TypeOK
<1>4. UNCHANGED <<channel, asked, newest, posts, failures, restarts>>
  BY DEF Poll
<1>5. \A m \in batch' : m \in 1..Len(channel) /\ m > lastSeen
  BY UnseenIsNew DEF Poll, Page, PollerInv
<1>6. fresh' = 0 /\ burst' \in Nat /\ burst <= burst' /\ fresh <= burst'
  BY <1>1 DEF Poll
<1>7. pc' = IF batch' = {} THEN "sleep" ELSE "ack"
  BY DEF Poll
<1>8. TypeOK'
  BY <1>1, <1>3, <1>4, <1>5, <1>6, <1>7 DEF PollerInv, TypeOK
<1>9. BatchBetween' /\ FreshIsUnseen'
  BY <1>1, <1>3, <1>4, <1>5, <1>6 DEF BatchBetween, FreshIsUnseen
<1>10. AskedBound'
  BY <1>1, <1>3, <1>4, <1>5 DEF PollerInv, AskedBound
<1>11. NoneLost'
  <2>1. SUFFICES ASSUME burst' <= PageSize, restarts = 0, NEW m \in 1..Len(channel),
                        channel[m] = "question"
                 PROVE  m \in batch' \/ asked[m] > 0 \/ BehindBroken(m)
    BY <1>4 DEF NoneLost, Questions, BehindBroken
  <2>2. CASE m <= lastSeen
    BY <1>1, <1>2, <1>6, <2>1, <2>2, TeamsAssumption
       DEF PollerInv, NoneLost, Questions
  <2>3. CASE m > lastSeen
    <3>1. m + PageSize > Len(channel)
      BY <1>1, <1>6, <2>1, <2>3, TeamsAssumption DEF PollerInv, FreshIsUnseen
    <3>2. m \in Page /\ Unseen(m)
      BY <1>1, <2>3, <3>1 DEF Page, Unseen
    <3>3. CASE Reached(m)
      BY <2>1, <3>2, <3>3 DEF Poll
    <3>4. CASE ~Reached(m)
      <4>1. PICK n \in Page : Unseen(n) /\ channel[n] = "broken" /\ ~(m < n)
        BY <3>4 DEF Reached
      <4>2. n # m /\ n \in 1..Len(channel) /\ n + PageSize > Len(channel)
        BY <2>1, <4>1 DEF Page
      <4>3. n < m /\ m < n + PageSize
        BY <1>1, <4>1, <4>2, TeamsAssumption
      <4>4. QED
        BY <4>1, <4>2, <4>3 DEF BehindBroken
    <3>5. QED
      BY <3>3, <3>4
  <2>4. QED
    BY <1>1, <2>2, <2>3
<1>12. QED
  BY <1>8, <1>9, <1>10, <1>11 DEF PollerInv

LEMMA InvestigateKeeps ==
  ASSUME PollerInv, NEW m \in batch, Investigate(m)
  PROVE  PollerInv'
<1>1. /\ Len(channel) \in Nat /\ m \in 1..Len(channel) /\ restarts \in Nat
      /\ batch \subseteq 1..Len(channel) /\ lastSeen \in Nat
      /\ m <= lastSeen /\ lastSeen <= Len(channel)
      /\ \A n \in batch : m <= n /\ n <= lastSeen
      /\ asked \in [1..Len(channel) -> Nat]
  BY LenProperties, TeamsAssumption
     DEF Investigate, NextUp, PollerInv, TypeOK, BatchBetween
<1>2. /\ asked' = [asked EXCEPT ![m] = @ + 1] /\ newest' = m
      /\ batch' = batch \ {m} /\ pc' = "reply"
      /\ UNCHANGED <<channel, lastSeen, fresh, burst, posts, failures, restarts>>
  BY DEF Investigate
<1>3. /\ asked'[m] = asked[m] + 1 /\ asked' \in [1..Len(channel) -> Nat]
      /\ \A n \in 1..Len(channel) : n # m => asked'[n] = asked[n]
  BY <1>1, <1>2
<1>4. TypeOK'
  BY <1>1, <1>2, <1>3 DEF PollerInv, TypeOK
<1>5. BatchBetween' /\ FreshIsUnseen'
  BY <1>1, <1>2 DEF PollerInv, BatchBetween, FreshIsUnseen
<1>6. AskedBound'
  BY <1>1, <1>2, <1>3 DEF PollerInv, AskedBound
<1>7. NoneLost'
  BY <1>1, <1>2, <1>3 DEF PollerInv, NoneLost, Questions, BehindBroken
<1>8. QED
  BY <1>4, <1>5, <1>6, <1>7 DEF PollerInv

LEMMA RestartKeeps ==
  ASSUME PollerInv, Restart
  PROVE  PollerInv'
<1>1. /\ Len(channel) \in Nat /\ restarts \in Nat /\ restarts' = restarts + 1
      /\ restarts' \in 0..MaxRestarts
  BY LenProperties, TeamsAssumption DEF PollerInv, TypeOK, Restart
<1>2. TypeOK'
  BY <1>1 DEF Restart, PollerInv, TypeOK
<1>3. BatchBetween' /\ FreshIsUnseen' /\ NoneLost'
  BY <1>1 DEF Restart, BatchBetween, FreshIsUnseen, NoneLost
<1>4. AskedBound'
  <2>1. ASSUME NEW m \in 1..Len(channel)
        PROVE  asked[m] <= restarts + 1 /\ asked[m] \in Nat
    BY DEF PollerInv, AskedBound, TypeOK
  <2>2. QED
    BY <1>1, <2>1 DEF Restart, AskedBound
<1>5. QED
  BY <1>2, <1>3, <1>4 DEF PollerInv

LEMMA InitPoller ==
  ASSUME Init
  PROVE  PollerInv
<1>1. channel \in Seq(PostKinds) /\ PostKinds \subseteq Kinds
  BY TeamsAssumption DEF Init, Kinds
<1>2. channel \in Seq(Kinds) /\ Len(channel) \in Nat
  BY <1>1, SeqMonotonic, LenProperties
<1>3. TypeOK
  BY <1>2, TeamsAssumption DEF Init, TypeOK
<1>4. BatchBetween /\ FreshIsUnseen /\ AskedBound
  BY <1>2 DEF Init, BatchBetween, FreshIsUnseen, AskedBound
<1>5. NoneLost
  BY <1>2 DEF Init, NoneLost, Questions
<1>6. QED
  BY <1>3, <1>4, <1>5 DEF PollerInv

LEMMA PostKeeps ==
  ASSUME PollerInv, NEW kind \in PostKinds, Post(kind)
  PROVE  PollerInv'
<1>1. Appear(kind) /\ kind \in Kinds /\ TypeOK
  BY DEF Post, Kinds, PollerInv
<1>2. Grows
  BY <1>1, AppearGrows
<1>3. posts' \in 0..MaxPosts /\ failures' \in 0..MaxFailures
  BY <1>1, TeamsAssumption DEF Post, TypeOK
<1>4. QED
  BY <1>1, <1>2, <1>3, QuietStep DEF Post, TypeOK

LEMMA PollFailsKeeps ==
  ASSUME PollerInv, PollFails
  PROVE  PollerInv'
<1>1. TypeOK
  BY DEF PollerInv
<1>2. Grows
  BY <1>1, StaysGrows DEF PollFails
<1>3. failures' \in 0..MaxFailures /\ posts' \in 0..MaxPosts
  BY <1>1, TeamsAssumption DEF PollFails, Fail, TypeOK
<1>4. QED
  BY <1>1, <1>2, <1>3, QuietStep DEF PollFails, TypeOK

LEMMA AcknowledgeKeeps ==
  ASSUME PollerInv, Acknowledge
  PROVE  PollerInv'
<1>1. TypeOK
  BY DEF PollerInv
<1>2. Grows /\ failures' \in 0..MaxFailures
  BY <1>1, SayGrows DEF Acknowledge
<1>3. posts' \in 0..MaxPosts /\ batch # {}
  BY <1>1 DEF Acknowledge, TypeOK
<1>4. QED
  BY <1>2, <1>3, QuietStep DEF Acknowledge

LEMMA ReplyKeeps ==
  ASSUME PollerInv, Reply
  PROVE  PollerInv'
<1>1. TypeOK
  BY DEF PollerInv
<1>2. Grows /\ failures' \in 0..MaxFailures
  BY <1>1, SayGrows DEF Reply
<1>3. posts' \in 0..MaxPosts
  BY <1>1 DEF Reply, TypeOK
<1>4. /\ pc' \in {"sleep", "ack"}
      /\ pc' = "ack" <=> batch # {}
  BY DEF Reply
<1>5. QED
  BY <1>2, <1>3, <1>4, QuietStep DEF Reply

LEMMA PollerInductive ==
  ASSUME PollerInv, [Next]_vars
  PROVE  PollerInv'
<1>1. CASE UNCHANGED vars
  BY <1>1 DEF vars, PollerInv, TypeOK, BatchBetween, FreshIsUnseen, AskedBound,
              NoneLost, Questions, BehindBroken
<1>2. CASE \E kind \in PostKinds : Post(kind)
  BY <1>2, PostKeeps
<1>3. CASE Poller
  BY <1>3, PollKeeps, AcknowledgeKeeps, ReplyKeeps, InvestigateKeeps DEF Poller
<1>4. CASE PollFails
  BY <1>4, PollFailsKeeps
<1>5. CASE Restart
  BY <1>5, RestartKeeps
<1>6. QED
  BY <1>1, <1>2, <1>3, <1>4, <1>5 DEF Next

-----------------------------------------------------------------------------
LEMMA PollerInvAlways == Spec => []PollerInv
<1>1. Init => PollerInv
  BY InitPoller
<1>2. PollerInv /\ [Next]_vars => PollerInv'
  BY PollerInductive
<1>3. QED
  BY <1>1, <1>2, PTL DEF Spec

\* The poller's variables, and what the channel holds, keep their types.
THEOREM TeamsTypeCorrect == Spec => []TypeOK
<1>1. PollerInv => TypeOK
  BY DEF PollerInv
<1>2. QED
  BY <1>1, PollerInvAlways, PTL

\* No question that a page could show is passed over, but behind a message that
\* a round ends at (app.py:1163-1181, 1207).
THEOREM QuestionsNeverLost == Spec => []NoneLost
<1>1. PollerInv => NoneLost
  BY DEF PollerInv
<1>2. QED
  BY <1>1, PollerInvAlways, PTL

\* No question is investigated twice in one life of the service
\* (app.py:1166, 1178).
THEOREM InvestigatedOncePerLife == Spec => []OncePerLife
<1>1. PollerInv => OncePerLife
  BY DEF PollerInv, AskedBound, OncePerLife
<1>2. QED
  BY <1>1, PollerInvAlways, PTL

\* What is investigated is later than all that was investigated before it.
LEMMA OnlyLaterAsked ==
  ASSUME PollerInv, [Next]_vars, NEW m \in DOMAIN asked, asked'[m] # asked[m]
  PROVE  m > newest
<1>1. TypeOK /\ m \in 1..Len(channel)
  BY DEF PollerInv, TypeOK
<1>2. ~Grows
  BY <1>1 DEF Grows
<1>3. ~UNCHANGED <<channel, asked, fresh>>
  BY <1>1, <1>2, StaysGrows
<1>4. ~\E kind \in Kinds : Appear(kind)
  BY <1>1, <1>2, AppearGrows
<1>5. ~Say
  BY <1>1, <1>2, SayGrows
<1>6. asked' # asked
  OBVIOUS
<1>7. PICK n \in batch : Investigate(n)
  BY <1>4, <1>5, <1>6
     DEF Next, vars, Post, Kinds, Poller, Poll, Acknowledge, Reply, PollFails, Restart
<1>8. m = n
  BY <1>1, <1>7 DEF Investigate, TypeOK, PollerInv
<1>9. QED
  BY <1>7, <1>8 DEF PollerInv, TypeOK, BatchBetween

\* Questions are investigated in the order they were posted, whatever rounds
\* found them (app.py:1180).
THEOREM AskedInOrder == Spec => OldestFirst
<1>1. PollerInv /\ [Next]_vars
         => [\A m \in DOMAIN asked : asked'[m] # asked[m] => m > newest]_vars
  BY OnlyLaterAsked
<1>2. QED
  BY <1>1, PollerInvAlways, PTL DEF Spec, OldestFirst
=============================================================================
