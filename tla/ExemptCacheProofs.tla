-------------------------- MODULE ExemptCacheProofs -------------------------
(***************************************************************************)
(* Proofs about ExemptCache, for any number of concurrent scrapes, any TTL *)
(* and each of the three handlers: how old an answer may be, when a body   *)
(* without rows may be served, and that answers of requests which do not   *)
(* overlap never go back.                                                  *)
(***************************************************************************)
EXTENDS ExemptCache, SequenceTheorems, TLAPS

(* A clock value a running request holds is past, and so is a stamp. *)
ClockPast ==
  /\ \A r \in Requests : start[r] <= now
  /\ cache # None => cache.at <= now

(* A content replaced before the request began is never cached for it. *)
CacheAge ==
  cache # None =>
    /\ cache.version < Version => cache.at <= log[cache.version + 1].at + cache.lag
    /\ handler # "vmBackupOverdue" => cache.lag = 0

RowsAge ==
  \A r \in Requests : pc[r] = "fill" /\ rows[r] < Version =>
    start[r] <= log[rows[r] + 1].at

(* Once filled, the cache stays, and a later request has a fallback. *)
FallbackKept ==
  /\ filled => cache # None
  /\ \A r \in Requests : pc[r] = "query" /\ primed[r] => stale[r] # None

(* Without overlap one request is in progress, and both what is cached and *)
(* what was read are at least as new as every answer.                      *)
Sequential ==
  ~overlap =>
    /\ \A q, r \in Requests : pc[q] \in Busy /\ pc[r] \in Busy => q = r
    /\ \A r \in Requests : floor[r] <= newest
    /\ cache # None => newest <= cache.version
    /\ \A r \in Requests : pc[r] = "fill" => newest <= rows[r]

(* A request is answered once. *)
Unanswered ==
  \A r \in Requests : pc[r] \in {"idle"} \cup Busy => answer[r] = None

AgeInv == TypeOK /\ Unanswered /\ ClockPast /\ CacheAge /\ RowsAge /\ AgeBounded
FallbackInv == FallbackKept /\ EmptyOnlyBeforeFirstFill
OrderInv == Sequential /\ SequentialReadsMonotonic
CacheInv == AgeInv /\ FallbackInv /\ OrderInv

-----------------------------------------------------------------------------
LEMMA LogFacts ==
  ASSUME TypeOK
  PROVE  Version \in Nat \ {0} /\ \A v \in Versions : log[v].at \in Nat
<1>1. log \in Seq([at : Nat, ids : SUBSET Ids]) /\ log # <<>>
  BY DEF TypeOK
<1>2. Len(log) \in Nat \ {0}
  BY <1>1, EmptySeq
<1>3. \A v \in 1..Len(log) : log[v] \in [at : Nat, ids : SUBSET Ids]
  BY <1>1, ElementOfSeq
<1>4. QED
  BY <1>2, <1>3 DEF Version, Versions

(* A commit adds one version, at the present time, and keeps the others. *)
LEMMA CommitFacts ==
  ASSUME TypeOK, NEW ids \in SUBSET Ids, Commit(ids)
  PROVE  /\ log' \in Seq([at : Nat, ids : SUBSET Ids]) /\ log' # <<>>
         /\ Version' = Version + 1
         /\ \A v \in Versions : log'[v] = log[v]
         /\ log'[Version + 1].at = now
<1> DEFINE e == [at |-> now, ids |-> ids]
<1>1. /\ e \in [at : Nat, ids : SUBSET Ids] /\ e.at = now
      /\ log \in Seq([at : Nat, ids : SUBSET Ids]) /\ log' = Append(log, e)
  BY DEF TypeOK, Commit
<1> HIDE DEF e
<1>2. QED
  BY <1>1 DEF Version, Versions

LEMMA InitCacheInv == Init => CacheInv
<1> SUFFICES ASSUME Init PROVE CacheInv
  OBVIOUS
<1> USE DEF Init
<1>1. Version = 1 /\ Versions = {1} /\ log \in Seq([at : Nat, ids : SUBSET Ids])
  BY DEF Version, Versions
<1>2. TypeOK
  BY <1>1 DEF TypeOK
<1>3. Unanswered /\ ClockPast /\ CacheAge /\ RowsAge /\ AgeBounded
  BY DEF Unanswered, ClockPast, CacheAge, RowsAge, AgeBounded, Sound
<1>4. FallbackInv
  BY DEF FallbackInv, FallbackKept, EmptyOnlyBeforeFirstFill
<1>5. OrderInv
  BY DEF OrderInv, Sequential, SequentialReadsMonotonic, NotBackwards, Sound, Busy
<1>6. QED
  BY <1>2, <1>3, <1>4, <1>5 DEF CacheInv, AgeInv

-----------------------------------------------------------------------------
(* The table grows: what was a version stays one, with its successor's time. *)
LEMMA CommitKeepsInv ==
  ASSUME CacheInv, NEW ids \in SUBSET Ids, Commit(ids)
  PROVE  CacheInv'
<1> USE CacheAssumption
<1>1. TypeOK
  BY DEF CacheInv, AgeInv
<1>2. /\ Version \in Nat \ {0} /\ Version' = Version + 1
      /\ \A v \in Versions : log'[v] = log[v] /\ log[v].at \in Nat
      /\ log'[Version + 1].at = now
      /\ log' \in Seq([at : Nat, ids : SUBSET Ids]) /\ log' # <<>>
  BY <1>1, LogFacts, CommitFacts
<1> Versions \subseteq Versions'
  BY <1>2 DEF Versions
<1>3. UNCHANGED <<now, handler, cache, reqVars, restarts, filled, overlap>>
  BY DEF Commit
<1>4. TypeOK'
  <2>1. cache' \in [at : Nat, lag : Nat, version : Versions'] \cup {None}
    BY <1>1, <1>2, <1>3 DEF TypeOK
  <2>2. stale' \in [Requests -> [at : Nat, lag : Nat, version : Versions'] \cup {None}]
    BY <1>1, <1>2, <1>3 DEF TypeOK, reqVars
  <2>3. answer' \in [Requests ->
          [by : {"cache", "table", "stale"}, version : Versions', lag : Nat]
            \cup {None, Answer("empty", 0, 0)}]
    BY <1>1, <1>2, <1>3 DEF TypeOK, reqVars
  <2>4. rows' \in [Requests -> Versions'] /\ newest' \in Versions'
        /\ floor' \in [Requests -> Versions']
    BY <1>1, <1>2, <1>3 DEF TypeOK, reqVars
  <2>5. QED
    BY <1>1, <1>2, <1>3, <2>1, <2>2, <2>3, <2>4 DEF TypeOK, reqVars, Answer
<1>5. Unanswered' /\ ClockPast'
  BY <1>3 DEF CacheInv, AgeInv, Unanswered, ClockPast, reqVars
<1>6. \A v \in Versions : v < Version' =>
        \/ v < Version /\ log'[v + 1] = log[v + 1]
        \/ v = Version /\ log'[v + 1].at = now
  BY <1>2 DEF Versions
<1>7. CacheAge'
  <2>1. cache # None => /\ cache.version \in Versions /\ cache.lag \in Nat
                        /\ cache.at \in Nat /\ cache.at <= now /\ now \in Nat
    BY <1>1 DEF TypeOK, CacheInv, AgeInv, ClockPast
  <2>2. QED
    BY <2>1, <1>2, <1>3, <1>6 DEF CacheInv, AgeInv, CacheAge
<1>8. RowsAge'
  BY <1>1, <1>2, <1>3, <1>6
     DEF TypeOK, CacheInv, AgeInv, ClockPast, RowsAge, reqVars
<1>9. AgeBounded'
  <2> SUFFICES ASSUME NEW r \in Requests, Sound(answer[r]),
                      answer[r].version < Version'
               PROVE  IF answer[r].by = "table"
                      THEN start[r] <= log'[answer[r].version + 1].at
                      ELSE start[r] < log'[answer[r].version + 1].at
                                        + TTL + answer[r].lag
    BY <1>3 DEF AgeBounded, reqVars, CacheInv, AgeInv
  <2>1. /\ answer[r].version \in Versions /\ answer[r].lag \in Nat
        /\ start[r] \in Nat /\ start[r] <= now /\ now \in Nat
    BY <1>1 DEF TypeOK, Sound, Answer, CacheInv, AgeInv, ClockPast
  <2>2. CASE answer[r].version = Version
    BY <2>1, <2>2, <1>2
  <2>3. CASE answer[r].version # Version
    BY <2>1, <2>3, <1>6 DEF CacheInv, AgeInv, AgeBounded
  <2>4. QED
    BY <2>2, <2>3
<1>10. FallbackInv' /\ OrderInv'
  BY <1>3 DEF CacheInv, FallbackInv, FallbackKept, EmptyOnlyBeforeFirstFill,
     OrderInv, Sequential, SequentialReadsMonotonic, NotBackwards, reqVars
<1>11. QED
  BY <1>4, <1>5, <1>7, <1>8, <1>9, <1>10 DEF CacheInv, AgeInv

(* Facts about a state that the handlers' steps below use. *)
LEMMA StateFacts ==
  ASSUME CacheInv
  PROVE  /\ Version \in Nat \ {0} /\ now \in Nat /\ TTL \in Nat \ {0}
         /\ \A v \in Versions : log[v].at \in Nat /\ v \in Nat
         /\ cache # None => /\ cache.version \in Versions
                            /\ cache.at \in Nat /\ cache.lag \in Nat
         /\ \A r \in Requests :
              /\ start[r] \in Nat /\ rows[r] \in Versions
              /\ Sound(answer[r]) => answer[r].version \in Versions
         /\ newest \in Versions
         /\ \A r \in Requests : floor[r] \in Versions
<1>1. TypeOK
  BY DEF CacheInv, AgeInv
<1>2. /\ Version \in Nat \ {0} /\ \A v \in Versions : log[v].at \in Nat
  BY <1>1, LogFacts
<1>3. \A r \in Requests : Sound(answer[r]) => answer[r].version \in Versions
  BY <1>1 DEF TypeOK, Sound, Answer
<1>4. QED
  BY <1>1, <1>2, <1>3, CacheAssumption DEF TypeOK, Versions

(* An answer given to r, that is as old as the bound allows and not older  *)
(* than any other if no requests overlapped, keeps the properties.         *)
LEMMA RespondFacts ==
  ASSUME CacheInv, NEW r \in Requests, NEW a, pc[r] \in Busy,
         a \in [by : {"cache", "table", "stale"}, version : Versions, lag : Nat]
           \cup {Answer("empty", 0, 0)},
         Respond(r, a),
         UNCHANGED <<now, log, handler, start, restarts, floor, overlap>>
  PROVE  /\ pc' \in [Requests -> {"idle", "done", "lost"} \cup Busy]
         /\ answer' \in [Requests ->
              [by : {"cache", "table", "stale"}, version : Versions, lag : Nat]
                \cup {None, Answer("empty", 0, 0)}]
         /\ answer'[r] = a
         /\ \A q \in Requests \ {r} : pc'[q] = pc[q] /\ answer'[q] = answer[q]
         /\ pc'[r] = "done"
         /\ newest' \in Versions /\ newest <= newest'
         /\ Sound(a) => a.version <= newest'
         /\ newest' \in {newest} \cup {v \in {a.version} : Sound(a)}
<1>1. TypeOK
  BY DEF CacheInv, AgeInv
<1>2. Sound(a) => a.version \in Versions
  BY DEF Sound, Answer
<1>3. pc' = [pc EXCEPT ![r] = "done"] /\ answer' = [answer EXCEPT ![r] = a]
  BY DEF Respond, Goto
<1>4. DOMAIN pc = Requests /\ DOMAIN answer = Requests
  BY <1>1 DEF TypeOK
<1>5. pc' \in [Requests -> {"idle", "done", "lost"} \cup Busy]
  BY <1>1, <1>3 DEF TypeOK
<1>6. answer' \in [Requests ->
        [by : {"cache", "table", "stale"}, version : Versions, lag : Nat]
          \cup {None, Answer("empty", 0, 0)}]
  BY <1>1, <1>3 DEF TypeOK
<1>7. /\ newest' \in {newest} \cup {v \in {a.version} : Sound(a)}
      /\ newest <= newest'
      /\ Sound(a) => a.version <= newest'
  <2>1. newest \in Nat /\ (Sound(a) => a.version \in Nat)
    BY <1>2, StateFacts
  <2>2. newest' = IF Sound(a) /\ a.version > newest THEN a.version ELSE newest
    BY DEF Respond
  <2>3. CASE Sound(a)
    <3>1. newest' = IF a.version > newest THEN a.version ELSE newest
      BY <2>2, <2>3
    <3>2. newest <= newest' /\ a.version <= newest'
          /\ newest' \in {newest, a.version}
      BY <2>1, <2>3, <3>1
    <3>3. QED
      BY <2>3, <3>2
  <2>4. CASE ~Sound(a)
    <3>1. newest' = newest
      BY <2>2, <2>4
    <3>2. QED
      BY <2>1, <2>4, <3>1
  <2>5. QED
    BY <2>3, <2>4
<1>8. newest' \in Versions
  BY <1>2, <1>7, StateFacts
<1>9. QED
  BY <1>3, <1>4, <1>5, <1>6, <1>7, <1>8

-----------------------------------------------------------------------------
LEMMA BeginKeepsInv ==
  ASSUME CacheInv, NEW r \in Requests, Begin(r)
  PROVE  CacheInv'
<1>1. TypeOK
  BY DEF CacheInv, AgeInv
<1>2. /\ pc[r] = "idle"
      /\ pc' = [pc EXCEPT ![r] = "check"]
      /\ start' = [start EXCEPT ![r] = now]
      /\ floor' = [floor EXCEPT ![r] = newest]
      /\ overlap' = (overlap \/ \E q \in Requests : pc[q] \in Busy)
      /\ UNCHANGED <<now, log, handler, cache, stale, rows, answer, restarts,
                     newest, primed, filled>>
  BY DEF Begin, Goto
<1>3. TypeOK'
  BY <1>1, <1>2 DEF TypeOK, Version, Versions, Busy
<1>4. Unanswered' /\ ClockPast'
  BY <1>1, <1>2 DEF TypeOK, CacheInv, AgeInv, Unanswered, ClockPast, Busy
<1>5. CacheAge' /\ RowsAge'
  BY <1>1, <1>2 DEF TypeOK, CacheInv, AgeInv, CacheAge, RowsAge, Version
<1>6. ~Sound(answer[r]) /\ answer[r] = None
  BY <1>2 DEF CacheInv, AgeInv, Unanswered, Sound
<1>7. AgeBounded'
  BY <1>1, <1>2, <1>6 DEF TypeOK, CacheInv, AgeInv, AgeBounded, Version, Sound
<1>8. FallbackInv'
  BY <1>1, <1>2 DEF TypeOK, CacheInv, FallbackInv, FallbackKept,
                    EmptyOnlyBeforeFirstFill
<1>9. \A q \in Requests \ {r} : pc'[q] = pc[q] /\ floor'[q] = floor[q]
  BY <1>1, <1>2 DEF TypeOK
<1>10. pc'[r] = "check" /\ floor'[r] = newest
  BY <1>1, <1>2 DEF TypeOK
<1>11. OrderInv'
  <2> SUFFICES ASSUME ~overlap' PROVE OrderInv'
    BY DEF OrderInv, Sequential, SequentialReadsMonotonic
  <2>1. ~overlap /\ \A q \in Requests : pc[q] \notin Busy
    BY <1>2
  <2>2. newest \in Nat
    BY StateFacts
  <2>3. Sequential'
    BY <1>2, <1>9, <1>10, <2>1, <2>2 DEF CacheInv, OrderInv, Sequential, Busy
  <2>4. SequentialReadsMonotonic'
    BY <1>2, <1>6, <1>9, <2>1
       DEF CacheInv, OrderInv, SequentialReadsMonotonic, NotBackwards, Sound
  <2>5. QED
    BY <2>3, <2>4 DEF OrderInv
<1>12. QED
  BY <1>3, <1>4, <1>5, <1>7, <1>8, <1>11 DEF CacheInv, AgeInv

LEMMA QueryKeepsInv ==
  ASSUME CacheInv, NEW r \in Requests, Query(r)
  PROVE  CacheInv'
<1>1. TypeOK
  BY DEF CacheInv, AgeInv
<1>2. /\ pc[r] = "query"
      /\ pc' = [pc EXCEPT ![r] = "fill"]
      /\ rows' = [rows EXCEPT ![r] = Version]
      /\ UNCHANGED <<now, log, handler, cache, start, stale, answer, restarts,
                     newest, floor, primed, filled, overlap>>
  BY DEF Query, Goto
<1>3. Version \in Versions /\ newest <= Version /\ Version \in Nat
      /\ Version' = Version /\ newest \in Nat
  BY <1>2, StateFacts DEF Versions, Version
<1>4. TypeOK'
  BY <1>1, <1>2, <1>3 DEF TypeOK, Version, Versions, Busy
<1>5. /\ pc'[r] = "fill" /\ rows'[r] = Version
      /\ \A q \in Requests \ {r} : pc'[q] = pc[q] /\ rows'[q] = rows[q]
  BY <1>1, <1>2 DEF TypeOK
<1>6. Unanswered' /\ ClockPast' /\ CacheAge' /\ AgeBounded'
  BY <1>2, <1>5 DEF CacheInv, AgeInv, Unanswered, ClockPast, CacheAge,
                    AgeBounded, Busy, Version
<1>7. RowsAge'
  BY <1>2, <1>3, <1>5 DEF CacheInv, AgeInv, RowsAge
<1>8. FallbackInv'
  BY <1>2, <1>5 DEF CacheInv, FallbackInv, FallbackKept, EmptyOnlyBeforeFirstFill
<1>9. OrderInv'
  BY <1>2, <1>3, <1>5
     DEF CacheInv, OrderInv, Sequential, SequentialReadsMonotonic, NotBackwards,
         Busy
<1>10. QED
  BY <1>4, <1>6, <1>7, <1>8, <1>9 DEF CacheInv, AgeInv

(* A hit: the entry is younger than a TTL for this request. *)
LEMMA HitKeepsInv ==
  ASSUME CacheInv, NEW r \in Requests, Check(r), Fresh(r)
  PROVE  CacheInv'
<1> DEFINE a == Answer("cache", cache.version, cache.lag)
<1>1. TypeOK
  BY DEF CacheInv, AgeInv
<1>2. /\ pc[r] = "check" /\ cache # None /\ start[r] < cache.at + TTL
      /\ Respond(r, a)
      /\ primed' = [primed EXCEPT ![r] = filled]
      /\ UNCHANGED <<now, log, handler, cache, start, stale, rows, restarts,
                     floor, filled, overlap>>
  BY DEF Check, Fresh
<1>3. /\ a \in [by : {"cache", "table", "stale"}, version : Versions, lag : Nat]
      /\ a.by = "cache" /\ a.version = cache.version /\ a.lag = cache.lag
      /\ a # Answer("empty", 0, 0)
  BY <1>2, StateFacts DEF Answer
<1>4. Sound(a)
  BY <1>2, StateFacts, CacheAssumption DEF Answer, Sound, AnsweredBy
<1> HIDE DEF a
<1>5. /\ pc' \in [Requests -> {"idle", "done", "lost"} \cup Busy]
      /\ answer' \in [Requests ->
           [by : {"cache", "table", "stale"}, version : Versions, lag : Nat]
             \cup {None, Answer("empty", 0, 0)}]
      /\ answer'[r] = a /\ pc'[r] = "done"
      /\ \A q \in Requests \ {r} : pc'[q] = pc[q] /\ answer'[q] = answer[q]
      /\ newest' \in Versions /\ newest <= newest' /\ a.version <= newest'
      /\ newest' = newest \/ newest' = a.version
  BY <1>2, <1>3, <1>4, RespondFacts DEF Busy
<1>6. Versions' = Versions /\ Version' = Version
  BY <1>2 DEF Versions, Version
<1>7. TypeOK'
  BY <1>1, <1>2, <1>5, <1>6 DEF TypeOK, Answer
<1>8. Unanswered' /\ ClockPast' /\ CacheAge' /\ RowsAge'
  BY <1>2, <1>5, <1>6
     DEF CacheInv, AgeInv, Unanswered, ClockPast, CacheAge, RowsAge, Busy
<1>9. AgeBounded'
  <2> SUFFICES ASSUME NEW q \in Requests, Sound(answer'[q])
               PROVE  /\ answer'[q].version < Version =>
                           IF answer'[q].by = "table"
                           THEN start[q] <= log[answer'[q].version + 1].at
                           ELSE start[q] < log[answer'[q].version + 1].at
                                             + TTL + answer'[q].lag
                      /\ handler # "vmBackupOverdue" => answer'[q].lag = 0
    BY <1>2, <1>6 DEF AgeBounded
  <2>1. CASE q = r
    <3>1. cache.version < Version =>
            /\ cache.version + 1 \in Versions
            /\ cache.at <= log[cache.version + 1].at + cache.lag
      BY <1>2, StateFacts DEF CacheInv, AgeInv, CacheAge, Versions
    <3>2. cache.version < Version =>
            start[r] < log[cache.version + 1].at + TTL + cache.lag
      BY <1>2, <3>1, StateFacts
    <3>3. QED
      BY <1>2, <1>3, <1>5, <2>1, <3>2 DEF CacheInv, AgeInv, CacheAge
  <2>2. CASE q # r
    BY <1>5, <2>2 DEF CacheInv, AgeInv, AgeBounded
  <2>3. QED
    BY <2>1, <2>2
<1>10. FallbackInv'
  <2>1. \A q \in Requests \ {r} : primed'[q] = primed[q]
    BY <1>1, <1>2 DEF TypeOK
  <2>2. QED
    BY <1>2, <1>3, <1>5, <2>1
       DEF CacheInv, FallbackInv, FallbackKept, EmptyOnlyBeforeFirstFill
<1>11. OrderInv'
  <2> SUFFICES ASSUME ~overlap PROVE Sequential' /\ SequentialReadsMonotonic'
    BY <1>2 DEF OrderInv, Sequential, SequentialReadsMonotonic
  <2>1. /\ newest <= cache.version /\ newest' = cache.version
        /\ \A q \in Requests : floor[q] <= newest
        /\ \A q \in Requests \ {r} : pc[q] \notin Busy
    BY <1>2, <1>3, <1>5, StateFacts DEF CacheInv, OrderInv, Sequential, Busy
  <2>2. Sequential'
    BY <1>2, <1>5, <2>1, StateFacts DEF Sequential, Busy
  <2>3. SequentialReadsMonotonic'
    BY <1>2, <1>3, <1>5, <2>1, StateFacts
       DEF CacheInv, OrderInv, SequentialReadsMonotonic, NotBackwards
  <2>4. QED
    BY <2>2, <2>3
<1>12. QED
  BY <1>7, <1>8, <1>9, <1>10, <1>11 DEF CacheInv, AgeInv

LEMMA MissKeepsInv ==
  ASSUME CacheInv, NEW r \in Requests, Check(r), ~Fresh(r)
  PROVE  CacheInv'
<1>1. TypeOK
  BY DEF CacheInv, AgeInv
<1>2. /\ pc[r] = "check"
      /\ pc' = [pc EXCEPT ![r] = "query"]
      /\ stale' = [stale EXCEPT ![r] = cache]
      /\ primed' = [primed EXCEPT ![r] = filled]
      /\ UNCHANGED <<now, log, handler, cache, start, rows, answer, restarts,
                     newest, floor, filled, overlap>>
  BY DEF Check, Goto, Snapshot
<1>3. Versions' = Versions /\ Version' = Version
  BY <1>2 DEF Versions, Version
<1>4. TypeOK'
  BY <1>1, <1>2, <1>3 DEF TypeOK, Busy, Answer
<1>5. /\ pc'[r] = "query" /\ stale'[r] = cache /\ primed'[r] = filled
      /\ \A q \in Requests \ {r} : /\ pc'[q] = pc[q] /\ stale'[q] = stale[q]
                                   /\ primed'[q] = primed[q]
  BY <1>1, <1>2 DEF TypeOK
<1>6. Unanswered' /\ ClockPast' /\ CacheAge' /\ RowsAge' /\ AgeBounded'
  BY <1>2, <1>3, <1>5
     DEF CacheInv, AgeInv, Unanswered, ClockPast, CacheAge, RowsAge, AgeBounded,
         Busy
<1>7. answer[r] = None
  BY <1>2 DEF CacheInv, AgeInv, Unanswered, Busy
<1>8. answer[r] # Answer("empty", 0, 0)
  BY <1>7, CacheAssumption DEF Answer, AnsweredBy
<1>9. FallbackInv'
  BY <1>2, <1>5, <1>8
     DEF CacheInv, FallbackInv, FallbackKept, EmptyOnlyBeforeFirstFill
<1>10. OrderInv'
  BY <1>2, <1>5
     DEF CacheInv, OrderInv, Sequential, SequentialReadsMonotonic, NotBackwards,
         Busy
<1>11. QED
  BY <1>4, <1>6, <1>9, <1>10 DEF CacheInv, AgeInv

(* The fallback is never counted as an answer from the table. *)
LEMMA QueryFailsKeepsInv ==
  ASSUME CacheInv, NEW r \in Requests, QueryFails(r)
  PROVE  CacheInv'
<1> DEFINE a == IF stale[r] = None THEN Answer("empty", 0, 0)
                ELSE Answer("stale", stale[r].version, stale[r].lag)
<1>1. TypeOK
  BY DEF CacheInv, AgeInv
<1>2. /\ pc[r] = "query" /\ Respond(r, a)
      /\ UNCHANGED <<now, log, handler, cache, start, stale, rows, restarts,
                     floor, primed, filled, overlap>>
  BY DEF QueryFails
<1>3. /\ a \in [by : {"cache", "table", "stale"}, version : Versions, lag : Nat]
           \cup {Answer("empty", 0, 0)}
      /\ stale[r] # None => a # Answer("empty", 0, 0)
      /\ ~Sound(a)
  BY <1>1 DEF TypeOK, Answer, Sound
<1> HIDE DEF a
<1>4. /\ pc' \in [Requests -> {"idle", "done", "lost"} \cup Busy]
      /\ answer' \in [Requests ->
           [by : {"cache", "table", "stale"}, version : Versions, lag : Nat]
             \cup {None, Answer("empty", 0, 0)}]
      /\ answer'[r] = a /\ pc'[r] = "done"
      /\ \A q \in Requests \ {r} : pc'[q] = pc[q] /\ answer'[q] = answer[q]
      /\ newest' = newest
  BY <1>2, <1>3, RespondFacts DEF Busy
<1>5. Versions' = Versions /\ Version' = Version
  BY <1>2 DEF Versions, Version
<1>6. TypeOK'
  BY <1>1, <1>2, <1>4, <1>5 DEF TypeOK, Answer
<1>7. Unanswered' /\ ClockPast' /\ CacheAge' /\ RowsAge'
  BY <1>2, <1>4, <1>5
     DEF CacheInv, AgeInv, Unanswered, ClockPast, CacheAge, RowsAge, Busy
<1>8. AgeBounded'
  BY <1>2, <1>3, <1>4, <1>5 DEF CacheInv, AgeInv, AgeBounded
<1>9. FallbackInv'
  BY <1>2, <1>3, <1>4
     DEF CacheInv, FallbackInv, FallbackKept, EmptyOnlyBeforeFirstFill
<1>10. OrderInv'
  BY <1>2, <1>3, <1>4
     DEF CacheInv, OrderInv, Sequential, SequentialReadsMonotonic, NotBackwards,
         Busy
<1>11. QED
  BY <1>6, <1>7, <1>8, <1>9, <1>10 DEF CacheInv, AgeInv

LEMMA FillKeepsInv ==
  ASSUME CacheInv, NEW r \in Requests, Fill(r)
  PROVE  CacheInv'
<1> DEFINE a == Answer("table", rows[r], 0)
<1>1. TypeOK
  BY DEF CacheInv, AgeInv
<1>2. /\ pc[r] = "fill" /\ Respond(r, a)
      /\ cache' = NewEntry(r) /\ filled' = TRUE
      /\ UNCHANGED <<now, log, handler, start, stale, rows, restarts, floor,
                     primed, overlap>>
  BY DEF Fill
<1>3. /\ a \in [by : {"cache", "table", "stale"}, version : Versions, lag : Nat]
      /\ a.by = "table" /\ a.version = rows[r] /\ a.lag = 0
      /\ a # Answer("empty", 0, 0)
  BY StateFacts DEF Answer
<1>4. Sound(a)
  BY StateFacts, CacheAssumption DEF Answer, Sound, AnsweredBy
<1> HIDE DEF a
<1>5. /\ pc' \in [Requests -> {"idle", "done", "lost"} \cup Busy]
      /\ answer' \in [Requests ->
           [by : {"cache", "table", "stale"}, version : Versions, lag : Nat]
             \cup {None, Answer("empty", 0, 0)}]
      /\ answer'[r] = a /\ pc'[r] = "done"
      /\ \A q \in Requests \ {r} : pc'[q] = pc[q] /\ answer'[q] = answer[q]
      /\ newest' \in Versions /\ newest <= newest' /\ a.version <= newest'
      /\ newest' = newest \/ newest' = a.version
  BY <1>2, <1>3, <1>4, RespondFacts DEF Busy
<1>6. Versions' = Versions /\ Version' = Version
  BY <1>2 DEF Versions, Version
(* The late stamp is later than `now` by exactly the lag it records. *)
<1>7. PICK late \in Nat :
        /\ cache' = Entry(start[r] + late, late, rows[r])
        /\ start[r] + late <= now
        /\ handler # "vmBackupOverdue" => late = 0
  <2>1. start[r] <= now
    BY DEF CacheInv, AgeInv, ClockPast
  <2>2. now - start[r] \in Nat /\ start[r] + (now - start[r]) <= now
        /\ start[r] + 0 <= now
    BY <2>1, StateFacts
  <2>3. CASE handler = "vmBackupOverdue"
    BY <1>2, <2>2, <2>3 DEF NewEntry
  <2>4. CASE handler # "vmBackupOverdue"
    BY <1>2, <2>2, <2>4 DEF NewEntry
  <2>5. QED
    BY <2>3, <2>4
<1>8. /\ cache' \in [at : Nat, lag : Nat, version : Versions]
      /\ cache'.at = start[r] + late /\ cache'.lag = late
      /\ cache'.version = rows[r] /\ cache' # None
  BY <1>7, StateFacts, CacheAssumption DEF Entry
<1>9. TypeOK'
  BY <1>1, <1>2, <1>5, <1>6, <1>8 DEF TypeOK, Answer
<1>10. Unanswered' /\ ClockPast' /\ RowsAge'
  BY <1>2, <1>5, <1>6, <1>7, <1>8
     DEF CacheInv, AgeInv, Unanswered, ClockPast, RowsAge, Busy
<1>11. rows[r] < Version => start[r] <= log[rows[r] + 1].at
                            /\ log[rows[r] + 1].at \in Nat
  BY <1>2, StateFacts DEF CacheInv, AgeInv, RowsAge, Versions
<1>12. CacheAge'
  BY <1>2, <1>6, <1>7, <1>8, <1>11, StateFacts DEF CacheAge
<1>13. AgeBounded'
  BY <1>2, <1>3, <1>5, <1>6, <1>11 DEF CacheInv, AgeInv, AgeBounded
<1>14. FallbackInv'
  BY <1>2, <1>3, <1>5, <1>8
     DEF CacheInv, FallbackInv, FallbackKept, EmptyOnlyBeforeFirstFill
<1>15. OrderInv'
  <2> SUFFICES ASSUME ~overlap PROVE Sequential' /\ SequentialReadsMonotonic'
    BY <1>2 DEF OrderInv, Sequential, SequentialReadsMonotonic
  <2>1. /\ newest <= rows[r] /\ newest' = rows[r]
        /\ \A q \in Requests : floor[q] <= newest
        /\ \A q \in Requests \ {r} : pc[q] \notin Busy
    BY <1>2, <1>3, <1>5, StateFacts DEF CacheInv, OrderInv, Sequential, Busy
  <2>2. Sequential'
    BY <1>2, <1>5, <1>8, <2>1, StateFacts DEF Sequential, Busy
  <2>3. SequentialReadsMonotonic'
    BY <1>2, <1>3, <1>5, <2>1, StateFacts
       DEF CacheInv, OrderInv, SequentialReadsMonotonic, NotBackwards
  <2>4. QED
    BY <2>2, <2>3
<1>16. QED
  BY <1>9, <1>10, <1>12, <1>13, <1>14, <1>15 DEF CacheInv, AgeInv

LEMMA RestartKeepsInv ==
  ASSUME CacheInv, Restart
  PROVE  CacheInv'
<1>1. TypeOK
  BY DEF CacheInv, AgeInv
<1>2. /\ cache' = None /\ filled' = FALSE /\ restarts' = restarts + 1
      /\ pc' = [r \in Requests |-> IF pc[r] \in Busy THEN "lost" ELSE pc[r]]
      /\ UNCHANGED <<now, log, handler, start, stale, rows, answer, newest,
                     floor, primed, overlap>>
  BY DEF Restart
<1>3. Versions' = Versions /\ Version' = Version
  BY <1>2 DEF Versions, Version
<1>4. TypeOK'
  <2>1. pc' \in [Requests -> {"idle", "done", "lost"} \cup Busy]
    BY <1>1, <1>2 DEF TypeOK
  <2>2. restarts' \in Nat /\ filled' \in BOOLEAN
    <3>1. restarts \in Nat
      BY <1>1 DEF TypeOK
    <3>2. restarts' = restarts + 1
      BY DEF Restart
    <3>3. filled' \in BOOLEAN
      BY <1>2, Zenon
    <3>4. QED
      BY <3>1, <3>2, <3>3
  <2>3. cache' \in [at : Nat, lag : Nat, version : Versions'] \cup {None}
    BY <1>2
  <2>4. QED
    BY <1>1, <1>2, <1>3, <2>1, <2>2, <2>3 DEF TypeOK, Answer
<1>5. \A r \in Requests : pc'[r] \notin Busy /\ (pc'[r] = "idle" => pc[r] = "idle")
  BY <1>2 DEF Busy
<1>6. Unanswered' /\ ClockPast' /\ CacheAge' /\ RowsAge' /\ AgeBounded'
  BY <1>2, <1>3, <1>5
     DEF CacheInv, AgeInv, Unanswered, ClockPast, CacheAge, RowsAge, AgeBounded,
         Busy
<1>7. FallbackInv' /\ OrderInv'
  BY <1>2, <1>5
     DEF CacheInv, FallbackInv, FallbackKept, EmptyOnlyBeforeFirstFill,
         OrderInv, Sequential, SequentialReadsMonotonic, NotBackwards, Busy
<1>8. QED
  BY <1>4, <1>6, <1>7 DEF CacheInv, AgeInv

LEMMA TickKeepsInv ==
  ASSUME CacheInv, Tick
  PROVE  CacheInv'
<1>1. TypeOK
  BY DEF CacheInv, AgeInv
<1>2. /\ now' = now + 1 /\ now \in Nat
      /\ UNCHANGED <<log, handler, cache, reqVars, restarts, filled, overlap>>
  BY StateFacts DEF Tick
<1>3. Versions' = Versions /\ Version' = Version
  BY <1>2 DEF Versions, Version
<1>4. TypeOK'
  BY <1>1, <1>2, <1>3 DEF TypeOK, reqVars, Answer
<1>5. ClockPast'
  BY <1>2, StateFacts DEF CacheInv, AgeInv, ClockPast, reqVars
<1>6. Unanswered' /\ CacheAge' /\ RowsAge' /\ AgeBounded'
  BY <1>2, <1>3
     DEF CacheInv, AgeInv, Unanswered, CacheAge, RowsAge, AgeBounded, reqVars
<1>7. FallbackInv' /\ OrderInv'
  BY <1>2
     DEF CacheInv, FallbackInv, FallbackKept, EmptyOnlyBeforeFirstFill,
         OrderInv, Sequential, SequentialReadsMonotonic, NotBackwards, reqVars
<1>8. QED
  BY <1>4, <1>5, <1>6, <1>7 DEF CacheInv, AgeInv

LEMMA StutterKeepsInv == CacheInv /\ UNCHANGED vars => CacheInv'
BY DEF vars, reqVars, CacheInv, AgeInv, FallbackInv, OrderInv, TypeOK,
       Unanswered, ClockPast, CacheAge, RowsAge, AgeBounded, FallbackKept,
       EmptyOnlyBeforeFirstFill, Sequential, SequentialReadsMonotonic,
       NotBackwards, Version, Versions

LEMMA NextCacheInv == CacheInv /\ [Next]_vars => CacheInv'
<1> SUFFICES ASSUME CacheInv, [Next]_vars PROVE CacheInv'
  OBVIOUS
<1>1. ASSUME NEW r \in Requests,
             Begin(r) \/ Check(r) \/ Query(r) \/ QueryFails(r) \/ Fill(r)
      PROVE  CacheInv'
  BY <1>1, BeginKeepsInv, HitKeepsInv, MissKeepsInv, QueryKeepsInv,
     QueryFailsKeepsInv, FillKeepsInv
<1>2. ASSUME NEW i \in Ids, SuppressAdd(i) \/ SuppressRemove(i)
      PROVE  CacheInv'
  <2>1. Table \in SUBSET Ids
    <3>1. log \in Seq([at : Nat, ids : SUBSET Ids]) /\ log # <<>>
      BY DEF CacheInv, AgeInv, TypeOK
    <3>2. Len(log) \in 1..Len(log)
      BY <3>1, EmptySeq
    <3>3. log[Len(log)] \in [at : Nat, ids : SUBSET Ids]
      BY <3>1, <3>2, ElementOfSeq
    <3>4. QED
      BY <3>3 DEF Table, Version
  <2>2. QED
    BY <1>2, <2>1, CommitKeepsInv DEF SuppressAdd, SuppressRemove
<1>3. QED
  BY <1>1, <1>2, RestartKeepsInv, TickKeepsInv, StutterKeepsInv DEF Next

LEMMA CacheCorrect == Spec => []CacheInv
BY InitCacheInv, NextCacheInv, PTL DEF Spec

(* What Prometheus is told about exemptions is never older than a TTL      *)
(* before the scrape, plus, for vm_backup_overdue, the duration of the     *)
(* query that filled the cache, however scrapes and writes interleave.     *)
THEOREM AnswersAreRecent == Spec => []AgeBounded
BY CacheCorrect, PTL DEF CacheInv, AgeInv

(* Once a cache has been filled, no later scrape of that process is told   *)
(* that nothing is exempt because the database fails.                      *)
THEOREM FallbackAvailable == Spec => []EmptyOnlyBeforeFirstFill
BY CacheCorrect, PTL DEF CacheInv, FallbackInv

(* Answers go back to an older content only after two scrapes overlapped.  *)
THEOREM SequentialScrapesMonotonic == Spec => []SequentialReadsMonotonic
BY CacheCorrect, PTL DEF CacheInv, OrderInv

(* Every variable of the cache and its requests keeps its type.            *)
THEOREM CacheTypeCorrect == Spec => []TypeOK
BY CacheCorrect, PTL DEF CacheInv, AgeInv
=============================================================================
