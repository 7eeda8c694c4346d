---------------------------- MODULE PingRegistry ----------------------------
(***************************************************************************)
(* The ping registry of the exemption API (onprem/exemption-api/main.py),  *)
(* the ping script on the firewalls (onprem/firewall-scripts/site-ping.py) *)
(* and the Pushgateway between them.                                       *)
(*                                                                         *)
(* Operators keep two tables: the targets, by address and site filter, and *)
(* the sources, by site.  Cron starts the script of a site again and again *)
(* and runs may overlap.  A run fetches its configuration, registers its   *)
(* site if it got none, pings each target and pushes a group per target.   *)
(* The Pushgateway keeps a group until somebody deletes it, which the API  *)
(* does best effort when a target is removed or moved.                     *)
(***************************************************************************)
EXTENDS Integers, FiniteSets, TLC

CONSTANTS
    Sites,      \* host names of the firewalls
    Slots,      \* runs of one site's script that may overlap
    Sources,    \* labels of probe sources; a host name is one of them
    All,        \* the label "all" in a site filter
    Ips,        \* addresses of targets
    Names,      \* names of targets
    Filters,    \* the site filters in use: sets of labels
    None,       \* no row
    MaxEdits,   \* bound on the operators' requests
    MaxFaults   \* bound on failed requests and restarts

ASSUME PingAssumption ==
    /\ Sites \subseteq Sources /\ All \notin Sources
    /\ Filters \subseteq SUBSET (Sources \cup {All})
    /\ None \notin Names \cup Sources
    /\ MaxEdits \in Nat /\ MaxFaults \in Nat

VARIABLES
    targets,    \* table ping_targets: the name at each key
    registry,   \* table ping_sources: source and interface of each site
    groups,     \* groups of job site_ping on the Pushgateway
    runs,       \* the runs of the scripts
    request,    \* the operator's request in progress
    excused,    \* history: groups left behind for a known reason
    chosen,     \* history: what operators last chose for a site
    blind,      \* history: sites that registered without having seen the table
    edits, faults

vars == <<targets, registry, groups, runs, request, excused, chosen, blind,
          edits, faults>>

Keys == Ips \X Filters
Groups == Sources \X Names
RunIds == Sites \X Slots
\* A row of ping_sources; interface tells a chosen source_ip from NULL.
SourceRow == [source : Sources, interface : BOOLEAN]
NoRow == [source |-> None, interface |-> FALSE]

IdleRun == [pc |-> "idle", source |-> None, todo |-> {}]
NoRequest == [kind |-> "none", doomed |-> {}, old |-> None, key |-> None,
              name |-> None]

RunRecord == [pc : {"idle", "absent", "failed", "again", "push"},
              source : Sources \cup {None}, todo : SUBSET Names]
Requests == [kind : {"none", "save", "remove"}, doomed : SUBSET Groups,
             old : Keys \cup {None}, key : Keys \cup {None},
             name : Names \cup {None}]

TypeOK ==
    /\ targets \in [Keys -> Names \cup {None}]
    /\ registry \in [Sites -> SourceRow \cup {NoRow}]
    /\ groups \subseteq Groups /\ excused \subseteq Groups
    /\ runs \in [RunIds -> RunRecord]
    /\ \A r \in RunIds :
         runs[r].pc = "push" => runs[r].source # None /\ runs[r].todo # {}
    /\ request \in Requests
    /\ request.kind = "save" =>
         request.old \in Keys /\ request.key \in Keys /\ request.name \in Names
    /\ chosen \in [Sites -> SourceRow \cup {NoRow}]
    /\ blind \subseteq Sites
    /\ edits \in 0..MaxEdits /\ faults \in 0..MaxFaults

Registered(site) == registry[site] # NoRow
RegisteredSources == {registry[s].source : s \in {t \in Sites : Registered(t)}}

\* Mutant: the filter is compared as a whole, not split at its commas.
CoversWhole(filter, source) == filter = {All} \/ filter = {source}

Covers(filter, source) == filter = {All} \/ source \in filter

\* ping_targets_script: the names a script is given for its source.
ScriptTargets(table, source) ==
    {table[k] : k \in {j \in Keys : table[j] # None /\ Covers(j[2], source)}}

\* ping_metrics: the series ping_target_configured, one per label of a filter.
ConfiguredSeries ==
    UNION {k[2] \X {targets[k]} : k \in {j \in Keys : targets[j] # None}}

\* A group some script of the present tables pushes.
Configured(table, rows, g) ==
    /\ \E s \in Sites : rows[s].source = g[1]
    /\ g[2] \in ScriptTargets(table, g[1])

Init ==
    /\ targets \in [Keys -> Names \cup {None}]
    /\ registry \in [Sites -> SourceRow \cup {NoRow}]
    /\ groups = {} /\ excused = {}
    /\ runs = [r \in RunIds |-> IdleRun]
    /\ request = NoRequest
    /\ chosen = registry
    /\ blind = {}
    /\ edits = 0 /\ faults = 0

Fault == faults < MaxFaults /\ faults' = faults + 1

\* What is left behind: the excuse of a group ends when the group is deleted.
Excuse(more) == excused' = (excused \cup more) \cap groups'
GroupsNamed(n) == {g \in groups : g[2] = n}
GroupsFrom(source) == {g \in groups : g[1] = source}

-----------------------------------------------------------------------------
(* The operators' requests.                                                *)

Edit == request.kind = "none" /\ edits < MaxEdits /\ edits' = edits + 1

\* The upsert of a target: a name it replaces keeps its groups.
Upsert(table, key, name) == [table EXCEPT ![key] = name]
Replaced(table, key, name) ==
    IF table[key] \in {None, name} THEN {} ELSE GroupsNamed(table[key])

\* ping_add, and ping_save of a row whose key stays.
AddTarget(key, name) ==
    /\ Edit
    /\ targets' = Upsert(targets, key, name)
    /\ groups' = groups
    /\ Excuse(Replaced(targets, key, name))
    /\ UNCHANGED <<registry, runs, request, chosen, blind, faults>>

\* Mutant: the groups of the new name are deleted.
BeginSaveNewName(old, key, name) ==
    /\ Edit /\ old # key
    /\ request' = [kind |-> "save", old |-> old, key |-> key, name |-> name,
                   doomed |-> RegisteredSources \X {name}]
    /\ UNCHANGED <<targets, registry, groups, runs, excused, chosen, blind,
                   faults>>

\* ping_save of a row that moves: the sources and the old name are read and
\* the row deleted in a transaction that stays open over the deletions.
BeginSave(old, key, name) ==
    /\ Edit /\ old # key
    /\ request' = [kind |-> "save", old |-> old, key |-> key, name |-> name,
                   doomed |-> IF targets[old] = None THEN {}
                              ELSE RegisteredSources \X {targets[old]}]
    /\ UNCHANGED <<targets, registry, groups, runs, excused, chosen, blind,
                   faults>>

\* The upsert and the commit.
CommitSave ==
    /\ request.kind = "save" /\ request.doomed = {}
    /\ groups' = groups
    /\ LET table == [targets EXCEPT ![request.old] = None] IN
         /\ targets' = Upsert(table, request.key, request.name)
         /\ Excuse(Replaced(table, request.key, request.name))
    /\ request' = NoRequest
    /\ UNCHANGED <<registry, runs, chosen, blind, edits, faults>>

\* ping_remove: the row is gone before the groups are deleted.
BeginRemove(key) ==
    /\ Edit /\ targets[key] # None
    /\ targets' = [targets EXCEPT ![key] = None]
    /\ request' = [NoRequest EXCEPT
                     !.kind = "remove",
                     !.doomed = RegisteredSources \X {targets[key]}]
    /\ UNCHANGED <<registry, groups, runs, excused, chosen, blind, faults>>

EndRemove ==
    /\ request.kind = "remove" /\ request.doomed = {}
    /\ request' = NoRequest
    /\ UNCHANGED <<targets, registry, groups, runs, excused, chosen, blind,
                   edits, faults>>

\* _pushgateway_delete: best effort, the next one follows whatever happened.
DeleteGroup(g) ==
    /\ g \in request.doomed
    /\ request' = [request EXCEPT !.doomed = @ \ {g}]
    /\ \/ groups' = groups \ {g} /\ Excuse({}) /\ faults' = faults
       \/ groups' = groups /\ Excuse({g}) /\ Fault
    /\ UNCHANGED <<targets, registry, runs, chosen, blind, edits>>

\* The API dies: an open transaction is rolled back, a removal is committed.
RestartApi ==
    /\ request.kind # "none" /\ Fault
    /\ request' = NoRequest
    /\ groups' = groups
    /\ Excuse(request.doomed)
    /\ UNCHANGED <<targets, registry, runs, chosen, blind, edits>>

\* The upsert of a source: groups of the source given up stay.
SetSource(rows, site, row) == [rows EXCEPT ![site] = row]
GivenUp(rows) ==
    UNION {GroupsFrom(registry[s].source) :
             s \in {t \in Sites : rows[t].source # registry[t].source}}

\* ping_sources_add, by an operator.
AddSource(site, row) ==
    /\ Edit
    /\ registry' = SetSource(registry, site, row)
    /\ chosen' = [chosen EXCEPT ![site] = row]
    /\ groups' = groups
    /\ Excuse(GivenUp(registry'))
    /\ UNCHANGED <<targets, runs, request, blind, faults>>

\* ping_sources_remove.
RemoveSource(site) ==
    /\ Edit
    /\ registry' = SetSource(registry, site, NoRow)
    /\ chosen' = [chosen EXCEPT ![site] = NoRow]
    /\ groups' = groups
    /\ Excuse(GivenUp(registry'))
    /\ UNCHANGED <<targets, runs, request, blind, faults>>

\* Mutant: ON CONFLICT DO UPDATE.
ImportedOver(rows, seen) ==
    [s \in Sites |-> IF s \in seen THEN [source |-> s, interface |-> FALSE]
                     ELSE rows[s]]

\* The import leaves the rows that exist alone.
Imported(rows, seen) ==
    [s \in Sites |-> IF s \in seen /\ rows[s] = NoRow
                     THEN [source |-> s, interface |-> FALSE] ELSE rows[s]]

\* ping_sources_import_unifi; seen is what the two UniFi exporters list, each
\* of which may be down (_get_unifi_sites).
ImportSources(seen) ==
    /\ Edit /\ seen # {}
    /\ registry' = Imported(registry, seen)
    /\ chosen' = [s \in Sites |-> IF Registered(s) THEN chosen[s] ELSE registry'[s]]
    /\ groups' = groups
    /\ Excuse(GivenUp(registry'))
    /\ UNCHANGED <<targets, runs, request, blind, faults>>

-----------------------------------------------------------------------------
(* The script of a site.                                                   *)

\* The answer of the API to a run.
Config(site) ==
    [pc |-> "push", source |-> registry[site].source,
     todo |-> ScriptTargets(targets, registry[site].source)]
\* A run without targets ends at once.
Ended(run) == IF run.pc = "push" /\ run.todo = {} THEN IdleRun ELSE run

\* fetch_config: 404 and every failure give None.  The pc keeps the reason
\* apart, which the script does not.
FetchConfig(r) ==
    LET site == r[1] IN
    /\ runs[r].pc = "idle"
    /\ \/ /\ Registered(site)
          /\ runs' = [runs EXCEPT ![r] = Ended(Config(site))]
          /\ UNCHANGED <<blind, faults>>
       \/ /\ ~Registered(site)
          /\ runs' = [runs EXCEPT ![r].pc = "absent"]
          /\ UNCHANGED <<blind, faults>>
       \/ /\ Fault
          /\ runs' = [runs EXCEPT ![r].pc = "failed"]
          /\ blind' = blind \cup {site}
    /\ UNCHANGED <<targets, registry, groups, request, excused, chosen, edits>>

\* register: the upsert of the site under its own name.
Register(r) ==
    LET site == r[1]
        Own == SetSource(registry, site, [source |-> site, interface |-> FALSE])
    IN
    /\ runs[r].pc \in {"absent", "failed"}
    /\ groups' = groups
    /\ \/ /\ registry' = Own
          /\ \/ runs' = [runs EXCEPT ![r].pc = "again"] /\ faults' = faults
             \/ runs' = [runs EXCEPT ![r] = IdleRun] /\ Fault
       \/ /\ registry' = registry
          /\ runs' = [runs EXCEPT ![r] = IdleRun] /\ Fault
    /\ blind' = IF Registered(site) THEN blind \cup {site} ELSE blind
    /\ Excuse(GivenUp(registry'))
    /\ UNCHANGED <<targets, request, chosen, edits>>

\* Mutant: the second answer is used without looking at it.
FetchAgainUnchecked(r) ==
    /\ runs[r].pc = "again"
    /\ runs' = [runs EXCEPT ![r] = Config(r[1])]
    /\ UNCHANGED <<targets, registry, groups, request, excused, chosen, blind,
                   edits, faults>>

\* The second fetch_config; without an answer the run ends.
FetchAgain(r) ==
    LET site == r[1] IN
    /\ runs[r].pc = "again"
    /\ \/ /\ Registered(site)
          /\ runs' = [runs EXCEPT ![r] = Ended(Config(site))]
          /\ faults' = faults
       \/ /\ ~Registered(site)
          /\ runs' = [runs EXCEPT ![r] = IdleRun]
          /\ faults' = faults
       \/ Fault /\ runs' = [runs EXCEPT ![r] = IdleRun]
    /\ UNCHANGED <<targets, registry, groups, request, excused, chosen, blind,
                   edits>>

\* A push that comes too late: the target is gone or about to go.
TooLate(g) ==
    \/ ~Configured(targets, registry, g)
    \/ request.kind = "save" /\ targets[request.old] = g[2]

Pushed(run, name) == Ended([run EXCEPT !.todo = @ \ {name}])

\* ping_target: push one group; a failed push is printed.
PushTarget(r, name) ==
    LET g == <<runs[r].source, name>> IN
    /\ runs[r].pc = "push" /\ name \in runs[r].todo
    /\ runs' = [runs EXCEPT ![r] = Pushed(runs[r], name)]
    /\ \/ /\ groups' = groups \cup {g} /\ faults' = faults
          /\ Excuse(IF TooLate(g) THEN {g} ELSE {})
       \/ groups' = groups /\ Fault /\ Excuse({})
    /\ UNCHANGED <<targets, registry, request, chosen, blind, edits>>

-----------------------------------------------------------------------------
Operator ==
    \/ \E key \in Keys, name \in Names : AddTarget(key, name)
    \/ \E old, key \in Keys, name \in Names : BeginSave(old, key, name)
    \/ \E key \in Keys : BeginRemove(key)
    \/ \E site \in Sites, row \in SourceRow : AddSource(site, row)
    \/ \E site \in Sites : RemoveSource(site)
    \/ \E seen \in SUBSET Sites : ImportSources(seen)

Handler ==
    \/ CommitSave
    \/ EndRemove
    \/ \E g \in Groups : DeleteGroup(g)

Script(r) ==
    \/ FetchConfig(r)
    \/ Register(r)
    \/ FetchAgain(r)
    \/ \E name \in Names : PushTarget(r, name)

Next == Operator \/ Handler \/ RestartApi \/ \E r \in RunIds : Script(r)

\* Cron starts every script again and again, its requests have timeouts, and
\* so have the deletions of a handler.
Fairness == WF_vars(Handler) /\ \A r \in RunIds : WF_vars(Script(r))

Spec == Init /\ [][Next]_vars /\ Fairness

-----------------------------------------------------------------------------
\* A group without a configured target is about to be deleted, or was left
\* behind for a reason the code has: its deletion failed or was cut off, its
\* target was renamed in place, its source was given up, or a run that had
\* fetched the target before pushed after the deletion (main.py:1090, 1132).
LeftoversExplained ==
    \A g \in groups : \/ Configured(targets, registry, g)
                      \/ g \in request.doomed
                      \/ g \in excused

\* What an operator chose for a site stays, unless a run of that site failed to
\* fetch its configuration, or fetched it before the site was registered: such
\* a run registers the site again (site-ping.py:61, main.py:897, 924).
SettingsKept ==
    \A s \in Sites : chosen[s] # NoRow /\ registry[s] # chosen[s] => s \in blind

\* Once edits and failures have ended, every configured series of a registered
\* source is and stays on the Pushgateway (site-ping.py:135, main.py:821):
\* deletions for one target do not silence another of the same name for good.
EventuallyReported ==
    <>[](\A g \in ConfiguredSeries : g[1] \in RegisteredSources => g \in groups)
=============================================================================
