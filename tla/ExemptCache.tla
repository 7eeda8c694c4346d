---------------------------- MODULE ExemptCache ----------------------------
(***************************************************************************)
(* onprem/exemption-api/main.py: the three endpoints that tell Prometheus  *)
(* which hosts are exempt from an alert, each with an in-process TTL cache *)
(* before the table platform_suppressions.  Handlers run in a thread pool: *)
(* the cache is touched under a lock, the table is read outside it.        *)
(***************************************************************************)
EXTENDS Naturals, Sequences

CONSTANTS
  Requests,     \* scrapes of the endpoint
  Ids,          \* identifiers of the endpoint's category
  TTL,          \* *_EXEMPT_TTL (60 s), in ticks
  MaxTime,      \* bound: clock ticks
  MaxWrites,    \* bound: writes that change the table
  MaxRestarts,  \* bound: restarts of the service
  None          \* no cache, no answer

Handlers == {"nodeMemory", "vmPoweredOff", "vmBackupOverdue"}

AnsweredBy == {"cache", "table", "stale", "empty"}

ASSUME CacheAssumption ==
  /\ TTL \in Nat \ {0}
  /\ MaxTime \in Nat /\ MaxWrites \in Nat /\ MaxRestarts \in Nat
  /\ None \notin [at : Nat, lag : Nat, version : Nat]
  /\ None \notin [by : AnsweredBy, version : Nat, lag : Nat]

VARIABLES
  now,       \* time.monotonic()
  log,       \* the contents the table has had, with the time of each
  handler,   \* which of the three endpoints this is
  cache,     \* <handler>_cache: the stamp and the version of the table in it
  pc,        \* request: where it is
  start,     \* request: its `now`
  stale,     \* request: its `stale`
  rows,      \* request: the version of the table its query read
  answer,    \* request: how it was answered, from which version (0: no rows)
  restarts,
  newest,    \* the newest version any request was answered from
  floor,     \* request: the value of newest when it began
  primed,    \* request: a cache had been filled when it took the lock
  filled,    \* a cache has been filled since the service started
  overlap    \* two requests have been in progress at once

reqVars == <<pc, start, stale, rows, answer, newest, floor, primed>>
vars == <<now, log, handler, cache, reqVars, restarts, filled, overlap>>

Version == Len(log)
Table == log[Version].ids
Versions == 1..Version

Entry(at, lag, version) == [at |-> at, lag |-> lag, version |-> version]
Answer(by, version, lag) == [by |-> by, version |-> version, lag |-> lag]
Busy == {"check", "query", "fill"}

-----------------------------------------------------------------------------
Init ==
  /\ now = 0
  /\ log = <<[at |-> 0, ids |-> {}]>>
  /\ handler \in Handlers
  /\ cache = None
  /\ pc = [r \in Requests |-> "idle"]
  /\ start = [r \in Requests |-> 0]
  /\ stale = [r \in Requests |-> None]
  /\ rows = [r \in Requests |-> 1]
  /\ answer = [r \in Requests |-> None]
  /\ restarts = 0
  /\ newest = 1 /\ floor = [r \in Requests |-> 1]
  /\ primed = [r \in Requests |-> FALSE]
  /\ filled = FALSE
  /\ overlap = FALSE

(* Answers made from the table, directly or through the cache. *)
Sound(a) == a # None /\ a.by \in {"cache", "table"}

Goto(r, to) == pc' = [pc EXCEPT ![r] = to]

Respond(r, a) ==
  /\ Goto(r, "done")
  /\ answer' = [answer EXCEPT ![r] = a]
  /\ newest' = IF Sound(a) /\ a.version > newest THEN a.version ELSE newest

(* A thread enters the handler and reads the clock. *)
Begin(r) ==
  /\ pc[r] = "idle"
  /\ Goto(r, "check")
  /\ start' = [start EXCEPT ![r] = now]
  /\ floor' = [floor EXCEPT ![r] = newest]
  /\ overlap' = (overlap \/ \E q \in Requests : pc[q] \in Busy)
  /\ UNCHANGED <<now, log, handler, cache, stale, rows, answer, restarts,
                 newest, primed, filled>>

(* now - cached_at < TTL; a stamp may be later than `now`. *)
Fresh(r) == cache # None /\ start[r] < cache.at + TTL

(* Mutant: an entry that has been expired for a TTL is not kept as fallback. *)
SnapshotYoung(r) ==
  IF cache # None /\ start[r] < cache.at + 2 * TTL THEN cache ELSE None

(* stale = the cache, taken under the lock *)
Snapshot(r) == cache

Check(r) ==
  /\ pc[r] = "check"
  /\ primed' = [primed EXCEPT ![r] = filled]
  /\ IF Fresh(r)
     THEN /\ Respond(r, Answer("cache", cache.version, cache.lag))
          /\ UNCHANGED stale
     ELSE /\ Goto(r, "query")
          /\ stale' = [stale EXCEPT ![r] = Snapshot(r)]
          /\ UNCHANGED <<answer, newest>>
  /\ UNCHANGED <<now, log, handler, cache, start, rows, restarts, floor,
                 filled, overlap>>

(* The SELECT sees one committed state of the table. *)
Query(r) ==
  /\ pc[r] = "query"
  /\ rows' = [rows EXCEPT ![r] = Version]
  /\ Goto(r, "fill")
  /\ UNCHANGED <<now, log, handler, cache, start, stale, answer, restarts,
                 newest, floor, primed, filled, overlap>>

(* Connection, SELECT or commit fails: the snapshot, or a body without rows. *)
QueryFails(r) ==
  /\ pc[r] = "query"
  /\ Respond(r, IF stale[r] = None THEN Answer("empty", 0, 0)
                                   ELSE Answer("stale", stale[r].version, stale[r].lag))
  /\ UNCHANGED <<now, log, handler, cache, start, stale, rows, restarts,
                 floor, primed, filled, overlap>>

(* Mutant: every handler stamps the entry when it writes it. *)
NewEntryLate(r) == Entry(now, 0, rows[r])

(* Mutant: the stamp is renewed, the body is not. *)
NewEntryOldBody(r) ==
  Entry(start[r], 0, IF cache = None THEN rows[r] ELSE cache.version)

(* Mutant: the difference is taken the wrong way round. *)
NewEntrySwapped(r) ==
  LET late == IF handler = "vmBackupOverdue" THEN start[r] - now ELSE 0
  IN  Entry(start[r] + late, late, rows[r])

(* The stamp is the request's `now`; vm_backup_overdue reads the clock     *)
(* again when it writes, so its stamp is later by what the query took.     *)
NewEntry(r) ==
  LET late == IF handler = "vmBackupOverdue" THEN now - start[r] ELSE 0
  IN  Entry(start[r] + late, late, rows[r])

Fill(r) ==
  /\ pc[r] = "fill"
  /\ cache' = NewEntry(r)
  /\ filled' = TRUE
  /\ Respond(r, Answer("table", rows[r], 0))
  /\ UNCHANGED <<now, log, handler, start, stale, rows, restarts, floor,
                 primed, overlap>>

-----------------------------------------------------------------------------
(* A transaction of suppress_add or suppress_remove that changes a row.    *)
(* Refused input, a failed transaction and a row that is already as asked  *)
(* leave the table as it is.                                               *)
Commit(ids) ==
  /\ ids # Table /\ Version <= MaxWrites
  /\ log' = Append(log, [at |-> now, ids |-> ids])
  /\ UNCHANGED <<now, handler, cache, reqVars, restarts, filled, overlap>>

SuppressAdd(i) == Commit(Table \cup {i})
SuppressRemove(i) == Commit(Table \ {i})

(* The process dies with its cache and its threads; the table stays. *)
Restart ==
  /\ restarts < MaxRestarts
  /\ restarts' = restarts + 1
  /\ cache' = None /\ filled' = FALSE
  /\ pc' = [r \in Requests |-> IF pc[r] \in Busy THEN "lost" ELSE pc[r]]
  /\ UNCHANGED <<now, log, handler, start, stale, rows, answer, newest,
                 floor, primed, overlap>>

Tick ==
  /\ now < MaxTime
  /\ now' = now + 1
  /\ UNCHANGED <<log, handler, cache, reqVars, restarts, filled, overlap>>

Next ==
  \/ \E r \in Requests : \/ Begin(r) \/ Check(r) \/ Query(r) \/ QueryFails(r)
                         \/ Fill(r)
  \/ \E i \in Ids : SuppressAdd(i) \/ SuppressRemove(i)
  \/ Restart
  \/ Tick

Spec == Init /\ [][Next]_vars

-----------------------------------------------------------------------------
(* Every variable keeps its type. *)
TypeOK ==
  /\ now \in Nat /\ restarts \in Nat
  /\ filled \in BOOLEAN /\ overlap \in BOOLEAN
  /\ handler \in Handlers
  /\ log \in Seq([at : Nat, ids : SUBSET Ids]) /\ log # <<>>
  /\ cache \in [at : Nat, lag : Nat, version : Versions] \cup {None}
  /\ pc \in [Requests -> {"idle", "done", "lost"} \cup Busy]
  /\ start \in [Requests -> Nat]
  /\ stale \in [Requests -> [at : Nat, lag : Nat, version : Versions] \cup {None}]
  /\ rows \in [Requests -> Versions]
  /\ answer \in [Requests ->
       [by : {"cache", "table", "stale"}, version : Versions, lag : Nat]
         \cup {None, Answer("empty", 0, 0)}]
  /\ newest \in Versions /\ floor \in [Requests -> Versions]
  /\ primed \in [Requests -> BOOLEAN]

(* The age of what Prometheus is told (lines 304-309, 360, 471): a request *)
(* answered from the cache gets a content that was replaced, if at all,    *)
(* less than a TTL before the request; in the handler that stamps late the *)
(* duration of the query that filled the cache comes on top.  A request    *)
(* that queries gets a content that was current after it began.            *)
AgeBounded ==
  \A r \in Requests : LET a == answer[r] IN
    Sound(a) =>
      /\ a.version < Version =>
           IF a.by = "table" THEN start[r] <= log[a.version + 1].at
                             ELSE start[r] < log[a.version + 1].at + TTL + a.lag
      /\ handler # "vmBackupOverdue" => a.lag = 0

(* "that is unavoidable when the DB has never been reachable and there is  *)
(* no prior cache" (lines 342-343): a body without rows, which un-         *)
(* suppresses every host, is served only if nothing was cached when the    *)
(* request took the lock; an expired entry stays usable however old it is. *)
EmptyOnlyBeforeFirstFill ==
  \A r \in Requests : answer[r] = Answer("empty", 0, 0) => ~primed[r]

(* A request that begins after another was answered from the table is not  *)
(* answered from an older content of it.                                   *)
NotBackwards(r) == Sound(answer[r]) => floor[r] <= answer[r].version

(* As long as no two requests have overlapped, answers never go back.      *)
SequentialReadsMonotonic == ~overlap => \A r \in Requests : NotBackwards(r)

(* "Two threads may both reach here on expiry; the duplicate query is      *)
(* harmless" (line 323): so answers would not go back either when they do. *)
DuplicateQueryHarmless == \A r \in Requests : NotBackwards(r)
=============================================================================
