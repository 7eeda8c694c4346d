# Verification of the monitoring plugin

TLA+ models of the programs of this repository that keep state, talk to
services that fail, or run concurrently; TLC configurations that check them on
small instances; and proofs, checked by TLAPS, of what holds for every instance.
Paths below are relative to the repository (`src/`).

## The system

The repository builds a monitoring stack: images of Grafana, Prometheus and
Loki, services that collect metrics on premises, a service that diagnoses error
spikes, and a Windows tray program that shows the alerts.

| Component | State | Operations | Interacts with |
|---|---|---|---|
| Alert-rule provisioner (`images/grafana/provision-alerts.py`, `entrypoint.sh`) | local sets of one run; the Grafana database | migrate, probe, list folders and rules, create folders, upsert rules, delete stale rules | Grafana's API and database, operators in the UI, container restarts |
| Error diagnosis (`onprem/error-diagnosis/app.py`) | `cooldown_map`, `history`, `_teams_last_seen` in memory | webhook, manual run, investigation, Teams polling | Loki, Prometheus, MySQL, GitHub, Claude, Jira, Teams |
| Exemption API, suppressions (`onprem/exemption-api/main.py`) | table `platform_suppressions`; three in-process caches | three metrics endpoints, suppress add / remove | Postgres, Prometheus |
| Exemption API, ping registry | tables `ping_targets`, `ping_sources`; groups on the Pushgateway | add, save, remove, import, script configuration | firewall scripts, Pushgateway, UniFi exporter |
| Exemption API, other pages | one table each | one SQL statement each | Postgres |
| Tray monitor (`tools/tray-monitor`) | `_states`, poll thread's baselines, `settings.json`, flash thread | poll, refresh, edit profiles, silence, maintenance | Grafana, PagerDuty, the user |
| Firewall ping script (`onprem/firewall-scripts/site-ping.py`) | none between runs | fetch, register, ping, push | exemption API, Pushgateway |
| vCenter service discovery (`onprem/vcenter-sd/main.py`) | two files, one Pushgateway group | poll | vCenter, Prometheus, exemption API |
| Supervisor monitor (`onprem/supervisor-monitor/check-workers.sh`) | one Pushgateway group per host | check, restart, recheck, push | hosts over ssh, Pushgateway |
| Genus monitor (`onprem/genus-monitor/app.py`) | gauges, table `genus_file_status` | ten collectors a round | MySQL, SQL Server, Redis, Postgres, Prometheus |
| File gateway (`onprem/file-gateway/app.py`) | files | head, get, put, delete, list | S3 clients |
| Exporters (UniFi local, Dell OS10, weather) | one scrape's fetches | scrape | controllers, switches, a weather service, Prometheus |
| UniFi cloud and PowerStore exporters, status lambda | none | scrape | cloud services |
| Dashboards, rules, configuration, deployment scripts | - | - | - |

What is hard in it, and what makes each part correct:

* **Provisioner.** Some thirty requests per start, each of which may fail or be
  carried out with its answer lost, while people edit rules and containers are
  replaced. Correct: after a run the database holds the file's rules; a failure
  never costs a rule the file names; a run ends.
* **Error diagnosis.** Overlapping pipelines share a cooldown and Jira across
  awaits; answers of Claude are of any shape; the process may die. Correct: the
  cooldown admits one diagnosis per key and period and refuses only because of
  one; history is complete and true; tickets are not duplicated.
* **Suppression caches.** A thread pool, a cache filled outside its lock, a
  database that fails. Correct: what Prometheus is told is recent, does not go
  back, and is never empty while something is known.
* **Tray monitor.** A poll thread, refresh threads and the settings dialog share
  state keyed by list position. Correct: a new alert is toasted once, and the
  icon shows the worst severity.
* **Teams poller.** One task reads a page of a channel, marks it as seen and
  spends minutes on each question, while people and its own replies fill the
  next page. Correct: no question is passed over or asked twice, and they are
  taken in order.
* **Ping registry.** Scripts that push late, a handler that deletes groups inside
  an open transaction, a registry written by operators, imports and scripts.
  Correct: what is left on the Pushgateway has a known reason, what is
  configured is reported, and what an operator chose is kept.
* **vCenter service discovery.** Two passes over machines that change between
  them, two files and a group replaced one after the other. Correct: a complete
  poll publishes every machine once.
* **Supervisor monitor.** A check may fail between any two of its steps.
  Correct: a worker that stays down is noticed.
* **Genus monitor.** Some sixty queries a round, each of which may fail, scraped
  at any time; a table copied from two databases. Correct: a failure costs what
  hangs on it and no more, and `genus_up` never vouches for older values.
* **File gateway.** Four worker processes share the directories without locks
  (`Dockerfile:14`): PUTs of one key overwrite one file in place at the same
  time, and GETs and LISTs read what they leave half done. Correct: an
  acknowledged object is kept, a complete body is the announced one, a listing is
  complete.
* **Flashing icon.** Three kinds of threads, a flag and an event. Correct: the
  icon settles on the worst alert.
* **Exporters.** Many devices, many requests each, one page. Correct: a failure
  stays with its device.

## Modules

| Module | Models |
|---|---|
| `RuleSync` | abstract: the declarative contract of the provisioner |
| `AlertProvision` | provisioner, Grafana's database, UI edits, restarts |
| `ErrorDiagnosis` | pipeline, investigations, cooldown, history, Jira |
| `TeamsPoller` | the poller of the error diagnosis and the channel it reads |
| `ExemptCache` | the three cached endpoints, writes of the suppressions, restarts |
| `PingRegistry` | ping tables and handlers, firewall scripts, Pushgateway |
| `TrayPoll` | poll thread, refresh threads, profile edits |
| `FlashLoop` | threads that paint the tray icon |
| `ObjectStore` | abstract: what the file gateway promises of objects and bodies |
| `FileGateway` | worker processes, objects, streamed bodies, listings, crashes |
| `GenusMonitor` | a round of the Genus monitor and what its gauges show |
| `GenusFiles` | the table of file statuses |
| `VcenterSd` | a poll of the vCenter service discovery |
| `SupervisorMonitor` | the check of one host |
| `Exporters` | a scrape of the UniFi local, Dell OS10 and weather exporters |
| `MC...` | the constants of one instance of each; `MCOnPremJobs` instead combines `GenusMonitor`, `GenusFiles`, `VcenterSd`, `SupervisorMonitor`, `FlashLoop` and `Exporters` |
| `...Proofs` | the theorems about the module of that name |

Programs that meet are composed in one module: firewall scripts, exemption API
and Pushgateway in `PingRegistry`; provisioner, Grafana and its users in
`AlertProvision`; poll and refresh threads in `TrayPoll`. The six programs of
`MCOnPremJobs` share nothing with each other, so a behaviour is one of them:
`program` is chosen by `Init`, and the variables of the others keep their
initial values.

### AlertProvision

`yaml` is the rules file of the running image, `rules`, `folders` and `locked`
the Grafana database (`locked`: rules with provenance "file"). `pc` says what
the script does next; `known`, `existing`, `yamlUids`, `todo`, `pending` and
`stale` are the script's own variables (`_folder_map`, `existing`, `yaml_uids`,
the two loops and the last one). One action is one request: `Migrate`,
`ProbeHealth`, `ListFolders`, `ListRules`, `UseFolder` / `CreateFolder` /
`SkipGroup` (the three outcomes of `_ensure_folder`), `UpsertRule`,
`FindStale`, `DeleteStale`, `Finish`. `_request` turns every failure into a
status, so each action has a failing disjunct, and where a write may have been
carried out with its answer lost, both databases are possible. What a rule says
is a model value; the order of the file is left open, which allows more than
the file's order. A group in the file without rules is not distinguished from no group.
`FolderFaults` tells whether requests about folders may fail: the contract holds
only if they do not.

### ErrorDiagnosis

A run is one call of `run_diagnosis_pipeline` or `run_investigation`. The
service has one event loop, so the code between two awaits is one action, and
`pc` names the await a run is at. `spike` is `significant_apps`, a sequence,
because the cooldown key is its prefix. Jira is a sequence of tickets with the
headline or app it is filed for (`title`), the apps in the summary, the words in
the text, the parent and whether it is open; a search returns any matching
ticket or, when it fails, none. Jira's `~` compares words and not whole texts, so
that a search for `ces` also finds what says `ces-elec`: `Alike[w]` is the set of
the words that a search for `w` finds, `w` among them. The service searches for a keyword in another
form than the ticket's text may have it (backslashes removed, digits replaced,
cut): `Mangled` is the set of the words that happens to, and a ticket is found
by its `Findable` words only. `calm` records
that no two runs were in the Jira part at once and no search has failed;
`startedAt` and `refusedAt` record when a run set the cooldown or was turned
away. The gathering of logs, metrics and commits changes nothing and never
fails the run, so it is one action with Claude's answer (`Diagnosed`), whose
shapes are those the code tells apart, one of which aborts the run.

### ExemptCache

The three handlers are the same code but for the stamp; `handler` is chosen once,
since each has its own cache. The table is a log of contents with the time of
each, so a body is a version of it. A request reads the clock (`Begin`), looks
at the cache under the lock (`Check`), queries (`Query`, `QueryFails`) and
writes the entry under the lock (`Fill`); other threads, commits, ticks and a
restart come in between. `newest`, `floor`, `primed`, `filled` and `overlap`
record what has been answered and what was known when a request began.

### TrayPoll

One action per stretch of the poll thread between a fetch, a lock and the next
(`PollRound`, `PollSkip`, `PollFetch`, `PollWrite`, `PollDiff`, `PollShow`), the
three stretches of a refresh thread, and `AddProfile`, `SaveProfile`,
`DeleteProfile` of `settings.py`, which may happen between any two. `states`,
`previous` and `initialised` are keyed by position as in the code. `seen`,
`told`, `again`, `edited` and `refreshed` record what the properties speak of.
Muted alerts and maintenance only change the wording of the tooltip and are
left out. `icon` is the colour the poll thread chose; `FlashLoop` is about what
becomes of it.

### TeamsPoller

`channel` is the channel, a message being its kind: a question, one that the
loop passes over (without text, or not from a user), a broken one, from whose
body no text can be extracted (`_extract_plain_text` raises, `app.py:1181`), or one of
the bot's. A round ends at the first broken message it comes to, with the mark
already beyond all of them (`Reached`). `lastSeen` is
`_teams_last_seen` (0 for the empty string), `batch` what is left of
`new_messages`, `pc` the await the task is at. `Poll` is one round up to its
first question: page, loop to the last seen message, new mark. Each question is
two posts around an investigation (`Acknowledge`, `Investigate`, `Reply`), and
with `SameChannel` the posts appear on the page. `asked`, `newest`, `fresh` and
`burst` are history: how often a message was investigated, the newest one, and
whether more than a page came between two polls.

### PingRegistry

`targets` is `ping_targets` keyed by address and site filter, `registry` is
`ping_sources`, `groups` the Pushgateway. The API is asked by one operator at a
time; `request` is a save or removal in progress, whose groups in `doomed` are
deleted one by one (`DeleteGroup`, each may fail) before `CommitSave` or
`EndRemove`. `RestartApi` rolls back a save and keeps a removal. A run of a script
fetches (`FetchConfig`), registers its site if it got nothing (`Register`),
fetches again and pushes one group per target (`PushTarget`); two runs of a site
may overlap. `excused` holds the groups left behind for a reason the code has;
`chosen` and `blind` what operators chose and which sites registered unseeing.

### FileGateway

uvicorn runs four workers over the same directories (`Dockerfile:14`). Within one,
the handlers are plain functions on its event loop, so a worker is in one PUT at
most (`put[w]`); what it does is half done for the others. A key names an inode,
`data` holds its blocks, each marked with the body it belongs to, so that a torn or
mixed object can be told from a whole one. `BeginPut` truncates, also under the
hands of other writers; `WriteBlock` writes at the writer's own place, which may
leave a hole; `EndPut`, `PutFails` and `Crash` end it. `Delete` takes the name away
at any time. A GET is `Stat` (the size), `Headers` (the ETag, from a second look at the
file), `OpenFile` (the name is resolved a third time) and `ReadBlock`, and each may
meet another file than the one before. A LIST collects the names (`BeginList`),
looks at each (`Walk`, in any order) and once more at those it shows (`EndList`).
The model is more liberal than the code in that a GET or a LIST never keeps a
worker from another request.

History variables say what the properties must except, each for what the code
really allows: a key is `unsettled` when its last PUT failed, was cut off, or met
a DELETE or a PUT of *another* body; a retry of the same body in another worker
leaves it settled, and the properties hold for it. A GET is `disturbed` when a PUT
of its key was under way at its `Stat` or has begun since, `torn` when its headers
were made of an object that was being put or unsettled.

`ObjectStore` is what a client may rely on: any number of PUTs are under way, an
object is damaged while it is being put, and when the last of its PUTs is
acknowledged it is whole if they all put one body and nothing broke. A GET
promises what the object was when its headers went out, and keeps that promise
unless a PUT of the same object overlapped it. There are no inodes, blocks, folders
or LISTs in it. `StoreSpec` maps the files to it: `ObjectOf`, `WriteOf` and `GetOf`.

### GenusMonitor, GenusFiles

A collector is a sequence of steps, each with the gauges it sets, what a failure
does (raised, read as 0, or no value) and whether it is in a try block of its
own; `place` is where the round is. A gauge is abstracted to where its value is
from and whether it was set in this round. `GenusFiles` is the cross reference:
files of the last week from MySQL, those Genus knows, and an upsert of the newest
of them.

### VcenterSd, SupervisorMonitor, FlashLoop, Exporters

`VcenterSd`: `poll` is the poll in progress with the sets its two passes made;
a file is opened (cut) and written in two steps; machines change at any time and
a failure or restart may come between any two steps. `SupervisorMonitor`: what
ssh answers depends on the workers, on supervisord and on whether
`supervisorctl status` exits with an error when a worker is down (`strictExit`, both
conventions exist), and has no line for a worker in a state `parse_status` does
not know, which is STOPPING (`Parsed`); labels of two workers may be the same; `moved` records the
workers that change after the check has looked for the last time. `FlashLoop`: program
counters of flash threads, the flag, the event and the colour. `Exporters`: the
requests of each device in their order, each answered, failed, or answered with
something the page cannot be made of. `PROJECT.json` maps the shared definitions
of `Exporters` to one of the three programs each.

## Runs

| Run | Checks | Bounds |
|---|---|---|
| `provision_faults` | `TypeOK`, `CleanRunSyncs`, `DeletionExplained` | 3 rules, 2 bodies, 2 groups and folders, 1 UI edit, every request may fail; all databases and files as initial states |
| `provision_sync` | `SyncSpec` (refinement), `RunEnds` (liveness) | 2 rules, restarts with any new file, folder requests succeed |
| `provision_skip` | `OnlyUnnamedDeleted` is violated | as above, folder requests fail |
| `diagnosis_gate` | `CooldownKept`, `SuppressionExplained`, `HistoryComplete` | 3 runs, 3 rankings with 2 keys, cooldown 2 of 3 ticks, history of 2, 1 restart |
| `diagnosis_jira` | `TypeOK`, `HistoryTruthful`, `TicketsNotDuplicated` | 2 runs, 2 apps, one of whose searches finds both, 1 mangled keyword, 1 ticket resolved by hand, all usable shapes of an answer; 11.0 million states |
| `exempt_scrapes` | `TypeOK`, `AgeBounded`, `EmptyOnlyBeforeFirstFill`, `SequentialReadsMonotonic` | 3 requests, TTL 2 of 4 ticks, 2 writes, 1 restart |
| `exempt_race` | `DuplicateQueryHarmless` is violated | 3 requests, 1 write |
| `tray_rounds` | `TypeOK`, `ToldOnce`, `BaselineWasTold`, `IconIsWorst` | 2 profiles, 3 alerts, 1 refresh thread, 2 events (an alert, a silence or an edit); any number of rounds |
| `teams_page` | `TypeOK`, `NoneLost`, `OldestFirst` (action), `EveryQuestionAnswered` (liveness) | page of 3, a backlog, 3 posts of 3 kinds, the bot in the same channel, 1 failure, 1 restart; all places of the channel |
| `ping_registry` | `TypeOK`, `LeftoversExplained`, `SettingsKept`, `EventuallyReported` (liveness) | 1 firewall with 2 overlapping runs, 2 sources, 2 names, 2 filters, 2 requests, 1 fault |
| `gateway_streams` | `AckedKept`, `BodyIsDescribed`, `ListingComplete`, `StoreSpec` (refinement) | 2 workers, 2 keys (1 nested), bodies of 1 and 2 blocks, 3 PUTs, 1 DELETE, 1 crash, 1 GET or LISTs; workers are symmetric; 1.06 million states |
| `onprem_jobs` | `FailureContained`, `UpMeansRecent`, `PublishedAgrees`, `FailureStaysLocal`; `ProcessedForGood`, `GroupIsCurrent` (actions); `TableCatchesUp`, `DownIsNoticed`, `IconSettles` (liveness) | 1 fuel, 2 faults; 3 files, 2 newest; 2 machines, 2 changes, 1 fault; 2 workers, 2 changes, 2 faults; 2 flash threads, 2 changes, 2 toggles; 2 devices |

Why the bounds are enough. Runs of the provisioner only meet through the
database, and every database is an initial state, so one run from each of them
(`provision_faults`) covers any history; two rules in one group and one in
another tell a skipped group from the other. In `diagnosis_gate` a third run is
needed for one that starts, one that is refused and one that pushes the history
over its limit; a cooldown of two ticks distinguishes before, at and after its end.
In `diagnosis_jira` two runs suffice for every interference of one search with
another creation. In `exempt_scrapes` two requests race and a third observes;
the TTL fits twice into the clock, so an entry expires and is replaced. In
`tray_rounds` an alert can end and start again, and both a profile's and another
one's list change; the rounds themselves are not bounded. In `teams_page` one
question's two replies and one more message fill the page, so the mark can be
anywhere on it or off it. In `ping_registry` one run can push between the fetch
and the deletion of another's target, which takes two requests (add, remove or
move) and, for a deletion that fails, one fault. In `gateway_streams` a body of
two blocks can be torn, and two workers can mix their blocks in one file, leave a
hole in it, or retry one body while a third PUT follows; the limits `Big` and
`MaxKeys` fall between the cases. A GET and a LIST only read, so they need not
meet each other but only the writers: the constraint `GetOrList` follows one of them
at a time, and stops when a GET has been answered, since nothing depends on it any
more. It follows a GET of one key only, which for it is like the other, and a LIST, or
the body of a disturbed GET, through two of the three PUTs. In `onprem_jobs` two failures of a
round are one inside a block and one outside; a third file is beyond the newest
two; two workers can have one label; two flash threads are one too many.

Deadlock is not checked where a bound ends all behaviours (restarts, requests
and runs are used up); `tray_rounds`, whose poll thread never stops, checks it.

### What the violations show

* `provision_skip`: "Delete rules that exist in Grafana but are no longer in the
  YAML" (`provision-alerts.py:221`). A group whose folder cannot be resolved is
  skipped before its rules enter `yaml_uids`; they then look stale and are
  deleted. `DeletionExplained` says that this is the only way to lose a rule.
* `exempt_race`: "the duplicate query is harmless" (`main.py:323`). The slower
  query overwrites the newer entry, for up to a TTL.

### Known weaknesses

Where the code does less than one might wish, the properties say under what
condition they hold, or in what form. None of these is a property of a run.

* Error diagnosis: the cooldown key is the order of the three noisiest apps
  (`app.py:547`), so the same apps in another order are diagnosed again, whatever
  "the same alert" of `.env.example:106` suggests. The search for a child
  ticket (`app.py:665`) can return the parent, and since `summary ~ "app"` (`app.py:381`)
  compares words, also the ticket of another app: `KNOWN_APPS` (`app.py:725-734`) has
  ces and ces-elec, dds and dds-elec, portal-gas and portal-gas-admin.
  `HistoryTruthful` therefore promises a ticket the search can return, and not one
  about the app. A run that ends with an uncaught exception after the cooldown was
  set (`app.py:623`) leaves no history and suppresses retries.
  `TicketsNotDuplicated` needs `calm`:
  overlapping runs both search before either creates, and a failed search counts
  as no ticket. It also excepts the tickets sought by a `Mangled` word: before the
  search backslashes are removed from the keyword without a space, and it is cut
  after 60 characters (`app.py:378`), and the digits of a message are already
  replaced (`app.py:368`), while the log lines are filed as they are
  (`app.py:675-687`). The check for an existing ticket (`app.py:664`) then finds
  none, and every diagnosis of such an error files another.
* Teams: more than a page between two polls is lost, and the bot's own replies
  take places on the page; after a restart the page is investigated again. A
  message whose text cannot be extracted (`app.py:1181`) raises out of the loop
  (`app.py:1207`) after the mark was set (`app.py:1178`): the questions after it on that
  page are never answered (`BehindBroken`). `NoneLost`, `EveryQuestionAnswered` and
  `OncePerLife` are worded accordingly.
* Tray: `ToldOnce` needs `~refreshed`: a delayed refresh thread writes an older
  list between the poll's write and its second read, and the alerts missing from
  it are toasted again. It also needs `~edited`: after a deletion a profile is
  compared with its neighbour's baseline. The tooltip says "All clear" while
  alerts of severity high are active (`monitor.py:2015`). Pausing the flashing
  paints the icon red even when nothing is critical, until the next poll; flash
  threads that start between a stop and the end of another accumulate.
* Ping registry: a failed deletion, a rename in place, a source given up and a
  late push leave a group that reports for ever; these are the values of
  `excused`. A run that could not fetch registers its site over the operator's
  choice. The label "all" in a list of sites makes every script ping the target.
* vCenter: a refused PUT goes unnoticed, and the group is absent until the next
  poll; a reader may see a cut file in the middle of one.
* Supervisor: where `supervisorctl status` fails because a worker is down, the
  host is reported unreachable and nothing is restarted. EXITED workers are
  reported down and not started. Two workers with the same labels make the
  Pushgateway refuse the whole report; the stamp of the last check is then old,
  which is what `DownIsNoticed` falls back on. A worker in STOPPING has no line after
  `parse_status` (`check-workers.sh:26-35`), hence no series: one that is stuck there is
  not noticed by anybody, and if it shares its labels with a running one the report
  goes through and says up for both. The metric's HELP says "1 if the supervisor worker is
  RUNNING, 0 otherwise" (`check-workers.sh:156`); STARTING counts as up too (`:168`).
* Genus: a query that fails reads as 0 while `genus_up` stays 1; temperatures
  keep their last value; a row that leaves the newest fifty as "waiting" stays so
  (`TableCatchesUp` speaks of the newest). MySQL and Postgres have no timeout for a
  query (`app.py:265-282`), so one that never returns stops the only poll loop for
  good; `TableCatchesUp` assumes that passes go on being completed.
* File gateway: a PUT that fails has already destroyed the old object; PUTs of two
  bodies under one key in two workers may leave a mixture, acknowledged to both
  clients; a GET during a PUT may bring a complete body that its ETag does not
  describe, and a LIST during a DELETE fails (`app.py:443`); `IsTruncated` is always false, and folders that sort after the last listed
  file are left out; the ETag of a listing is not that of a HEAD.
* Exporters: an answer of the wrong shape makes the whole scrape fail, and
  with it every device (`FailureStaysLocal` makes an exception for it). A controller
  that fails shows the samples of the requests before (`unifi-local-exporter/app.py:117-150`)
  with success 0, where the description says "no other samples" (`app.py:11-13`);
  `FailureStaysLocal` leaves open what a failed device shows, as long as it is its own.

## Fairness

* `AlertProvision`: weak fairness of the script's own steps. It is a single
  process, every request has a timeout (3 s for a probe, 15 s otherwise) and
  every failure is caught. Nothing is assumed of Grafana, which may never come
  up, of people, or of restarts, whose number is bounded.
* `TeamsPoller`: weak fairness of the poller's task: every request and every read of
  its queries has a timeout (MySQL `app.py:784-785`, Claude 1018, token 1057, webhook
  1117, page 1158) and every failure is caught.
* `PingRegistry`: weak fairness of the handler's deletions and of each run of a
  script: cron starts it again and again, and its requests have timeouts.
* `MCOnPremJobs`: weak fairness of the start of the supervisor check (`ReadStatus`),
  which cron repeats, while a check once begun may hang in ssh or curl for ever; of the poll
  thread's and the menu's painting, and of each flash thread, since the tray monitor
  polls for ever and threads of one process are all scheduled. The passes of the
  Genus monitor have none: its queries may hang.

Failures are bounded and never fair; people, machines and workers change
when they like.

## Proofs

All theorems are for arbitrary constants that satisfy the named assumptions of
the modules (`ProvisionAssumption`, `DiagnosisAssumption`, `CacheAssumption`,
`TrayAssumption`, `TeamsAssumption`, `PingAssumption`, `GatewayAssumption`,
`VcenterAssumption`, `ExportersAssumption`, `GenusAssumption`, `FilesAssumption`,
`SupervisorAssumption`, `FlashAssumption`), which TLC also evaluates on every
instance it checks. They type the constants and bounds and keep model values
apart; none restricts what the code does.

* `AlertProvisionProofs`
  * `TypeCorrect`: `TypeOK` is inductive.
  * `DeletionsAreExplained`: what the script deletes is in `stale`, and a rule
    of the file that is in `stale` must have been in a group that was skipped.
    The inductive invariant says where every rule of the file is during a run:
    named, pending, in a group still to do, or in a skipped one.
  * `CleanRunsSync`: while the run is clean, every rule already handled has the
    file's body, and what else the database holds was in the listing.
  * `RefinesRuleSync`: without folder faults nothing is skipped, so each step is
    `Apply`, `Edit`, `Deploy` or a stutter of `RuleSync`.
* `ErrorDiagnosisProofs`
  * `CooldownAlwaysKept` and `SuppressionAlwaysExplained`. The properties speak of
    pairs of runs and are not inductive; the strengthening ties the map to the
    runs: the entry of a key is the start time of the last run that started with
    it, and no start lies in the future. Since no await lies between check and
    assignment, the number of overlapping runs does not matter.
  * `DiagnosisTypeCorrect`, `HistoryAlwaysComplete`, `HistoryAlwaysTruthful`, from
    `DiagInv`: the tickets are well formed (a parent is an earlier ticket), a run
    in the Jira part holds the numbers of tickets that exist, each child it holds was
    filed by it under its parent or matches the app's search (`ChildrenOK`), and what
    history holds was recorded, each run once. That tickets only grow and keep their texts
    (`TicketsGrow`) carries this over the steps of other runs.
  * `TicketsNeverDuplicated`. That no twins exist says nothing of what the next
    creation adds, so `TwinInv` also says that while the run is `calm` at most one
    run is in the Jira part (`Alone`), that a ticket's text has the findable words
    it was filed for (`AllSaid`), and that a run about to create a ticket has none
    it could have found (`Unmatched`): its search was answered and no other run
    has filed since.
* `ExemptCacheProofs`: `CacheInv` = types, `Unanswered` (a request in progress has
  no answer), `ClockPast`, `CacheAge` and `RowsAge` (how long before a stamp the content
  may have been replaced), `FallbackKept` (once filled the cache stays) and
  `Sequential` (without overlap one request is in progress, and cache and rows
  are at least as new as every answer). It gives `AnswersAreRecent`,
  `FallbackAvailable`, `SequentialScrapesMonotonic` and `CacheTypeCorrect`.
* `TrayPollProofs`: `TrayTypeCorrect`, `IconAlwaysWorst`, `BaselineAlwaysTold`,
  `AlwaysToldOnce`. The strengthenings say what each local variable of the poll
  thread still has to do with `states` and `seen` at each of its steps, and that,
  until the list is edited, the entries of a profile hold alerts of its own source.
* `TeamsPollerProofs`: `TeamsTypeCorrect`, `QuestionsNeverLost`,
  `InvestigatedOncePerLife`, `AskedInOrder` (an action property). The
  strengthening: the batch is increasing and lies between the newest message asked
  and the mark (`BatchBetween`), what is beyond the mark is unseen (`FreshIsUnseen`)
  and what is beyond the newest was not asked (`AskedBound`). A poll drops only what
  comes after a broken message of the page.
* `PingRegistryProofs`: `PingTypeCorrect`, `SettingsAlwaysKept`,
  `LeftoversAlwaysExplained`. The last is inductive with the types: every action
  that makes a group's target disappear dooms or excuses the group, and a push of a
  run that had fetched the target before is excused.
* `FileGatewayProofs`: `GatewayTypeCorrect`, `AcknowledgedPutsKept`,
  `CompleteBodiesDescribed`, `ListingsComplete`, for any number of workers. None of the
  properties says what is in a file that several workers are writing; `GatewayInv` does. No
  two keys have one inode (`OwnInodes`), and an open PUT writes no other object's
  (`PutNames`); the PUTs of a settled key put one body (`OneBody`), of which every block
  is there already or ahead of one of the writers (`Filling`), so that when
  the last of them ends the object is whole (`Settled`) although another's truncation
  came in between. `Sound` says what a reader has and will find if no PUT comes: the size,
  the ETag's file and the open inode are then one and the same. `ListInv`: what is due
  has been found or is still to be found.
  * `RefinesObjectStore`: a block written to an object that is damaged anyway, a LIST,
    the opening of a file and a block read are stutters of the store, every other step is
    the store's step of that name; a crash is `BreakPut` with some GETs cut. A PUT is clean
    in the store exactly while its key is settled (`WritesAre`), and spoils
    only the readers of its own object, which takes `OwnInodes` and that inodes are never
    used again.
* `OnPremJobsProofs`: `PolledAlwaysAgrees`, whose invariant says what each step of
  a vCenter poll has read and written of the machines that did not move, and
  `FailuresAlwaysStayLocal`, whose invariant ties each fetch to the answers of its
  device and the page to the fetches. Further, one program after the other:
  * `FailuresAlwaysContained` and `UpAlwaysRecent` of the Genus monitor, for any
    sequence of fuels. The collectors are concrete lists of steps, so the proofs
    rest on lemmas about places in a round (the next place, the first one of a
    collector, what lies before). `RoundInv` says in the middle of a round what
    `FailureContained` says at its end: every gauge of an earlier place was set or is
    explained by a lost step, unless the round has not begun. `UpInv` adds that
    while a collector is at work the gauges of its earlier steps are of this round
    (`SetSoFar`), so that the last one, `up`, cannot be newer than those it vouches
    for.
  * `ProcessedStays`: the rows do not say what a pass is about to write, so
    `TableInv` adds that a pass about to write knows of every processed row of its
    window, and knows of nothing that is not processed.
  * `GroupAlwaysCurrent`: `GroupInv` ties the states the check holds to the
    workers, but for those that have moved since, and says that supervisord being
    down means every worker is, which a check without any line relies on.
  * `RunningAlwaysHasThread`: the property is inductive with the domain of `flashers`.

Every safety invariant, action property and refinement that a run checks is
proved. Three theorems are not repeated by a run: `GatewayTypeCorrect`;
`InvestigatedOncePerLife`, which in a run follows from `OldestFirst`; and
`RunningAlwaysHasThread`, without which `IconSettles` would fail. Only
model-checked are the liveness properties (`RunEnds`, `EveryQuestionAnswered`,
`EventuallyReported`, `TableCatchesUp`, `DownIsNoticed`, `IconSettles`), since
fairness and ENABLED are out of the prover's reach. The two statements that runs
find violated are, of course, not theorems.

## Not modelled

* Exemption API, other pages: each endpoint is one SQL statement in one
  transaction, or reads files and pages; there is nothing to interleave.
* Tray monitor, silences and panel: one request each, whose effect is `Change` of
  `TrayPoll`; the settings file is written by one call.
* UniFi cloud exporter and status lambda: stateless conversions of one answer.
  PowerStore exporter: an upstream Go program, of which the repository holds a few
  files.
* Dashboards, alert rules, configuration, deployment scripts: no program of this
  repository's own runs there, or it runs once.
* In the modelled parts: prompt texts, message formats, HTML pages, units,
  signature checking.

`PROJECT.json` lists every part with its reason, and the hazards no property covers.

## Plan

Done: the modules, runs and proofs above. Left, in this order: an abstract
specification of the ping registry (a target is probed from its addition to its
removal) that `PingRegistry` implements without faults; one of the error
diagnosis (a key is diagnosed at most once per period, and a ticket per app);
type invariants of the six programs of `MCOnPremJobs` as theorems; a larger
instance of `teams_page` with two restarts.
