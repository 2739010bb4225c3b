# A TLA+ model of k8s-netchecker-server

The server receives the reports that netchecker agents POST from the nodes of a
Kubernetes cluster, keeps the latest of each agent in a persistent storage (the
Kubernetes API server, or etcd), and tells users which agents have not reported
(`absent`) or not in time (`outdated`). Prometheus counters are kept on the side.

All of it runs in goroutines that share Go maps without a lock, around calls to
other servers that may fail after they have been carried out, in a process that
may be replaced at any time. That is what the model is about. The specifications
here are written from the code; paths are those of the repository.

## 1. Inventory

| component | source | state | operations | modelled in |
|---|---|---|---|---|
| Kubernetes storage | `pkg/utils/storer_k8s.go` | `NcAgentCache`; the Agent resources at the API server | `UpdateAgents`, `GetAgents`, `GetSingleAgent`, `CheckAgents`, `CleanCacheOnDemand`, `AgentCache` | `K8sAgentStorage` |
| etcd storage | `pkg/utils/storer_etcd.go` | none in memory; in etcd a directory per agent, a record per uptime, each with a TTL | the same, of which `CleanCacheOnDemand` does nothing | `EtcdAgentStorage`, `EtcdRecords` |
| Agents API client | `pkg/extensions/client` | none | `Create`, `Get`, `List`, `Update` (`Delete` is never called); creation of the definition and of the client | `K8sAgentStorage`, `StartUp` |
| pod list | `pkg/utils/k8s.go` | none | `Pods`, set-up | both storages, `StartUp` |
| HTTP handlers | `pkg/utils/handler.go` | the locals of each request's goroutine | `UpdateAgents`, `ConnectivityCheck`, the `CleanCache` wrapper | both storages, `K8sServer`, `EtcdServer` |
| collector | `CollectAgentsMetrics` in `handler.go` | its place in its loop | one endless loop with a branch per mode | `K8sServer`, `EtcdServer` |
| metrics | `pkg/utils/metrics.go` | `NcAgentMetrics`; the counters in the Prometheus registry | `NewAgentMetrics`, `UpdateAgentBaseMetrics`, `UpdateAgentProbeMetrics` | `AgentMetrics` (counters) |
| request processing | `pkg/utils/utils.go` | the sticky error | `ProcessRequest`, `ProcessResponse` | by its outcome |
| start-up | `cmd/server.go`, `config.go`, the constructors | how far it has come; the resource's definition | flags, ping, connection, creation of the definition, listener | `StartUp` |

How they interact (Kubernetes mode, then etcd mode):

    agents --POST--> Handler.UpdateAgents --> UpdateAgents --Get/Create/Update--> API server
                        |                        '--> NcAgentCache
                        '--> NewAgentMetrics, UpdateAgentBaseMetrics --> NcAgentMetrics
    users --GET--> CleanCache wrapper --Pods--> API server
                        |  '--> purge of NcAgentCache
                        '--> CheckAgents / GetAgents / GetSingleAgent --Get/List--> API server
    collector (every check-interval) --reads NcAgentCache--> UpdateAgentBaseMetrics

    agents --POST--> Handler.UpdateAgents --> UpdateAgents --Get/Delete/Set--> etcd
                        '--> NewAgentMetrics, UpdateAgentBaseMetrics --> NcAgentMetrics
    users --GET--> CheckAgents / GetAgents / GetSingleAgent --Get--> etcd, --Pods--> API server
    collector (every check-interval) --CheckAgents--> UpdateAgentBaseMetrics

What is hard, and what makes each part correct:

- *Storage.* Get-then-write is not atomic and is guarded by ResourceVersion only;
  a write may be done and its answer lost; a failed write is answered by 200 all
  the same. Correct means: no report is overwritten by a handler that has not
  seen it, and the cache holds nothing that was not persisted.
- *Check.* It lists the pods, fetches the agents one by one and reads the clock
  in between, while reports arrive. Correct means: a verdict, when there is one,
  agrees with the reports persisted when the check was asked for (the README's
  two criteria).
- *Metrics.* Entries are copied out of a map, changed and put back by handlers
  and collector at once. Correct means: reports are counted once, errors are
  counted when and only when an agent was silent, and nobody uses an entry that
  is not there.
- *etcd.* Directory and record are written one after the other and expire apart;
  every error but one is only logged, and that one ends the process under all
  other requests; a record is never overwritten; what is shown is decoded into
  one variable. Correct means: no stored report is forgotten before its time, no
  record stays for ever, and what is shown is the latest there is.
- *Start.* Nothing is tried twice; each failure ends the process, and what it has
  left behind is met by the next one. Correct means: it gets up all the same.

`PROJECT.json` lists the hazards one by one, each at its line.

## 2. Modules

**`ConditionalStore`** is the abstract specification of optimistic concurrency: a
register per key; a client that looks becomes a holder, any write empties the
set of holders, and only a holder may write. It says nothing of versions,
requests or failures.

**`K8sAgentStorage`** models the storage with its handlers. A goroutine is a
record with a `pc` (`post[p]`, `get[r]`); each call to the API server and each
access to the cache is one action:

| code | actions |
|---|---|
| `UpdateAgents` 93-104: decode and stamp | `ReceiveReport` |
| 107-118, `Get` | `GetAgent` |
| 123, `CleanCacheOnDemand(nil)` | `ListPods`, `PurgeBeforeCreate` |
| 124, `Create`; 128, `Update` | `CreateAgent`, `UpdateAgent` (both by `Write`) |
| 136, the cache | `CacheReport` |
| router and wrapper, `handler.go` 55-58 and 125-131 | `Request`, `ListPodsForCleanCache`, `CleanCache` |
| `ConnectivityCheck`, `CheckAgents` | `CountCache`, `ListPodsToCheck`, `FetchAgent`, `JudgeAgent`, `AnswerCheck` |
| `GetAgents`, `GetSingleAgent` | the same names |

`Write` has the three outcomes a client can meet: done and answered, done with
its answer lost, not done. The client returns an empty `Agent` in the last two,
and the code caches that: `ZeroSpec`. A spec is reduced to the time of receipt
and the interval, which is all the code looks at. `Overlap` says whether one
agent may have two reports under way, as an agent that gives up on one and sends
the next has; `Faults` says whether calls to the API server fail. `accepted` and
`asked` are history variables: every report ever persisted, and what had been
persisted when a request arrived. `Crash` stands for the end of the process at
any step, whether its pod is replaced or the Go runtime finds concurrent access
to a map, and for its new start.

**`AgentMetrics`** models the metrics map and the registry. An entry is reduced
to the label that its counters have and to `ErrorsFromLastReport`; the copying
and the putting back of `UpdateAgentBaseMetrics` are two actions. The registered
counters belong to labels and outlive entries.

**`K8sServer`** composes the two as `handler.go` does: `StoreThenMeasure` joins
the end of the storage's part of a POST with the begin of the metrics' part,
`ServeMalformed` is the POST that cannot be decoded and still reaches the
metrics, and the collector is modelled lookup by lookup (`Visit`, `FindMetrics`,
`ReadAge`, `ReadInterval`, `Compare`, `MeasureError`), because it indexes the
live maps anew for each.

**`ForgetfulStore`** is the abstract specification of a time to live: a key holds
a set of entries, each stamped when it came in; an entry may be stored late,
and it may be lost only when its time is over. It says nothing of directories,
requests, or when a due entry really goes.

**`EtcdAgentStorage`** models the etcd storage with its handlers. Again each
request to etcd and to the API server is one action:

| code | actions |
|---|---|
| `UpdateAgents` 176-190: decode and stamp | `ReceiveReport` |
| `checkOrCreateAgentTree` 156-158, `Get` | `GetTree` (an error other than KeyNotFound: `Exit`) |
| 159-164, a plain key in the way is deleted | `Unlink` |
| `createOrUpdateAgentTree`, `PrevNoExist` | `CreateTree` |
| `createOrUpdateAgentTree`, `PrevExist`, `Refresh` | `RefreshTree` |
| `UpdateAgents` 195-209, the record, `PrevNoExist` | `StoreRecord` |
| router | `Request`, `Close` |
| `getAgents` under `GetAgents`, `GetSingleAgent`, `CheckAgents` | `Fetch` |
| `CheckAgents` 275-290 and `ConnectivityCheck` | `Check` |
| `Fatalf`, any other end of the process; the new start | `Exit`, `Crash`; `Start` |

A node of etcd is nothing, a plain key, or a directory with the second at which
it is due and its records; `Tick` and `Expire` are etcd's clock. A record is
reduced to its name (the uptime), the stamp of its report and the second at which
it is due. Every request named in `Failing` may fail, done or not done as far as
that makes a difference; an answer that is lost is one of the cases. The uptime of a
report is a field of its payload that the agent has measured: `ReceiveReport` takes
any of `Uptimes` at any time, so that reports come late, out of order, again, after
a restart of their agent, or from a pod that has been deleted since.
`known` and `asked` are history variables: what has become of each agent's
reports, and what had become of them when a request arrived. They leave out
reports of uptime 0, which the code stores and never shows.

**`EtcdServer`** composes it with `AgentMetrics`: `StoreThenMeasure` and
`ServeMalformed` as in `K8sServer`, and the other branch of the collector, which
fetches the tree (`FetchTree`), lists the pods (`FindAbsent`), and goes through
the absent ones while reports go on (`VisitAbsent`, `MeasureError`). `KeepOrLose`
says what the end of a process takes with it. `received` and `reset` are history
variables: how many POSTs have got through the storage, and of whom the last report
was counted with no error of the pod in the making then, nor begun since.

**`EtcdRecords`** takes apart what `Fetch` does in one step: the loops of
`getAgents` over directories and records, in any order, with one variable to
decode into. Maps and the arrays of slices are objects in a heap, since a copied
struct shares them and `encoding/json` decodes into what it finds there. Whether
an array has room is left open, as `append` leaves it.

**`StartUp`** takes apart what `Start` and `Restart` do in one step: `main` and the
constructors of either mode, in the processes of two pods that share the
definition of the agents' resource; `Fail` is a step that ends its process.

**`MCK8sAgentStorage`**, **`MCK8sServer`**, **`MCEtcdAgentStorage`**,
**`MCEtcdServer`**, **`MCEtcdRecords`**, **`MCStartUp`** give the constants their
values for TLC. **`K8sAgentStorageProofs`**, **`K8sHistoryProofs`**,
**`K8sServerProofs`**, **`EtcdAgentStorageProofs`**, **`EtcdServerProofs`**,
**`EtcdRecordsProofs`** and **`StartUpProofs`** hold the proofs, and
**`OperatorProofs`** the lemmas on maxima, sums and sequences that they share.

Definitions commented "variant to be rejected" are mutations of the code's
definitions, one for each property, that TLC must find out.

## 3. What is checked

Passing runs:

| run | instance | shows |
|---|---|---|
| `storage_faults` | 1 agent, 2 POSTs at once, a check, failures, overlap | `TypeOK`, `CacheAccepted`, `UnlistedIsFresh`, `AbsentMeansNever`, and `ImplementsConditionalStore` (refinement) |
| `storage_one_at_a_time` | 1 agent with intervals 0, 1 and 2, failures, no overlap | `OutdatedMeansSilent`, `CacheFollowsStore` |
| `storage_reliable` | 2 agents, 2 POSTs at once, overlap, no failures, dump and single agent | `StoredUnlessOvertaken`, `DumpIsComplete` |
| `server_counts` | 1 agent, POST, GET and collector, failures | `ServerTypeOK`, `MetricsAreThere`, `ErrorMeansSilent` |
| `server_catches_up` | 1 agent with intervals 0 and 1, POST, collector, undecodable requests, fairness | `ReportsCounted`, `CatchesUp` (liveness) |
| `etcd_storage` | 1 agent, 2 POSTs at once, a check or dump, a plain key in the way, the pod deleted, all requests but fetch and refresh failing, uptimes 1 and 2 in any order | `TypeOK`, `AbsentMeansSilent`, `UnlistedHasReported`, `DumpNotBehind`, and `ImplementsForgetfulStore` (refinement) |
| `etcd_server` | 1 agent whose pod may be deleted, POST and collector, undecodable requests, all requests of a POST but the refresh failing, fairness | `ServerTypeOK`, `ErrorMeansExpired`, `ReportsCounted`, `SilenceIsNoticed` and `RecordsArePurged` (liveness) |
| `etcd_records` | 2 agents with up to 3 records each, some not JSON | `LatestIsShown`, `DumpCoversRecord` |
| `start_up` | the servers of 2 pods, both modes, 3 failures, fairness | `ServesOnResource`, `GetsUpAgain` (liveness) |

Runs that end in a violation, each of a statement of the repository:

| run | statement | what the code does |
|---|---|---|
| `failed_update` | `doc/metrics.md`: the error counter | after a failed write the cached interval is 0 and silence is never counted |
| `lost_report` | README: the TTL is the period of obsolescence | a report that meets a record of its uptime is answered by 200 and not stored; its agent is absent within the period |
| `merged_dump` | README: an agent's data record | records are decoded into one variable and share maps and arrays: an agent is shown with hosts and results of others |

Statements that the code does not keep either, and that are stated but not run,
being variations on the same themes or within reach of a plain test:

- `MessageCountsPods`, `SingleIsFoundOr404` (`K8sAgentStorage`): "All %v pods
  successfully reported back" counts the cache before the check; the 404 of
  `GetSingleAgent` is unreachable, an empty 200 is sent.
- `OutdatedMeansSilent` with `Overlap = TRUE`: the stamp precedes the fetch, so two
  overlapping reports may be persisted in the wrong order and a live agent is
  outdated. The passing run has `Overlap = FALSE`.
- `ErrorOnlyIfSilent` (`K8sServer`): age and interval are looked up apart, and a
  purge in between makes an error out of a fresh report. `ErrorMeansSilent`, which
  exempts an entry that was missing, holds.
- A report answered by 200 need not be stored, even if nothing fails: when two
  reports of an agent overlap, the one whose handler is overtaken between
  `Get` and `Update` is refused (409), and that is logged. `StoredUnlessOvertaken`
  says that this is the only case.
- `SilenceIsCounted` (`K8sServer`): an error found before a report may be booked
  after it, so that the next silence is counted late. It shows with two reports, a
  clock up to 5 and no failures.
- `CountsAreAttributed` (`K8sServer`): an undecodable request is counted as a
  report of nobody.

Properties that hold under a condition, and what happens otherwise:

- With `"fetch"` in `Failing`, `AbsentMeansSilent`, `DumpNotBehind` and
  `ErrorMeansExpired` fail: without the tree every pod is absent, and the
  collector counts an error for each.
- With `"refresh"` in `Failing`, these and `ImplementsForgetfulStore` fail: the
  record is put under a directory that expires before it.
- With `"pods"` in `Failing`, `SilenceIsNoticed` fails: the collector may never
  learn of anyone.
- `DumpNotBehind` compares uptimes, as the code does. After a restart of the agent
  a record from before it, of a greater uptime, hides the new ones until it
  expires, and the property lets it. So does `LatestIsShown`.
- `SilenceIsNoticed` lets off the silences that the code does not count. When the
  collector has copied a pod's metrics entry out of the map and a report is counted
  before it puts the entry back, the reset of `ErrorsFromLastReport` is lost
  (`metrics.go:176-185`); and when the pod has reported since the list of absent pods
  was made, it is charged with an error all the same (`handler.go:154`). In either
  case the entry stands at one error after the report, `handler.go:156` finds it
  counted, and no error is counted for the next silence, until another report. The
  history variable `reset` is FALSE of the pod then. In Kubernetes mode the next
  silence is counted late (`SilenceIsCounted`).
- `ErrorMeansSilent` speaks of the interval that the collector has compared the age
  with. It gets that from a lookup of its own (`handler.go:141`), so that it may be a
  younger report's. `server_counts` has one interval other than the 0 of an empty
  entry; the theorem is for any.
- `CatchesUp` asks nothing for an agent whose report gave the interval 0, which no
  check of the code rejects: none of its silences is counted.
- `RecordsArePurged` is about records. A directory that comes to be by the put of
  a record, because the one before has just expired, has no TTL: it stays empty
  until the agent's next report, for ever if there is none.

In etcd mode at most one error is counted between two reports, and it takes a silence
of a TTL; which silences get none is said above. The `reporting_interval * 2` of
`doc/metrics.md` describes the Kubernetes mode.

### Bounds

- `MaxTime`: the clock. Two intervals and a second more must pass after a report
  for it to be outdated, and an interval more for a second error to be counted:
  3 to 5 with an interval of 1.
- `MaxVersion` (2): writes of one resource. One creates it; the second is an
  update that can be overtaken.
- `MaxReports` (2), `MaxMalformed` (0 or 1): requests of one process, so that
  failing writes do not go on for ever. A reset and a lost reset need two.
- One agent suffices where a property speaks of one agent: agents meet only in
  the maps and in `pods`. Two are there where a purge by one agent's POST can
  strike another's entry (`storage_reliable`).
- `TTL` (1 or 2) and `MaxTime` (3 or 4): in the etcd runs, no report comes in
  from then on; handlers that are still at work finish before the clock runs on,
  and the last GET request comes a second later, when a record put at the
  beginning is past its time. That `RecordsArePurged` says of a
  directory that it becomes empty in the end rests on the first of these; of a single record, what
  makes it go is its time to live. The clock goes on until all that has a TTL is gone, so that
  every expiry happens. With a TTL of 2 a directory may be refreshed, and a record
  be put, in the second before either expires.
- `Uptimes` (1, or 1 and 2) and `Deletable`: the uptimes that reports give, and the
  pods that may be deleted. Two uptimes are enough for a report that repeats one,
  follows a lower or a higher one; one uptime, in `etcd_server`, where what counts is
  whether there is a record. Uptime 0 is in `etcd_records` and in the proofs.
- `Intervals`: 0 is an agent that gives none. Two others, in
  `storage_one_at_a_time`, are an agent that changes its interval; the theorems are
  for any.
- `Leftover`, `Failing`: where a plain key lies in the way, and which requests may
  fail. `etcd_storage` lets all requests of a POST but the refresh, and the pod
  list, fail, `etcd_server` all requests of a POST but the refresh.
- `MaxRecords` (3), in `etcd_records` `Uptimes` from 0 to 2, two agents: a record that is overtaken,
  one that is not shown (0), one that is decoded after another agent's.
  `Payloads` differ in hosts and in the number of results, null included.
- `MaxTrouble` (3): failures and ends of the two servers' processes together. One
  suffices to lose the answer to the creation, two to strike both servers.
- `SYMMETRY` is used where only safety is checked and no action tells agents or
  handlers apart.
- Deadlock is checked wherever the process goes on for ever. It is not in
  `etcd_records`, where the call returns, and `start_up`, which ends where the
  listener is up.

### Fairness

`FairServerSpec` assumes weak fairness of each running POST handler, of each
running GET handler and of the collector: the Go scheduler runs every runnable
goroutine, `time.Sleep` ends and the calls to the API server return (client-go
ends a call whose connection breaks). Nothing is assumed of agents, users, pods,
the clock or crashes: `CatchesUp` needs none of them.

`EtcdServer!FairServerSpec` assumes of etcd that time passes and that it purges
what is due, and of the process the same as above. It has no fairness of `Start`:
both liveness properties speak of what is to happen while the process is up, or
of etcd alone. `SilenceIsNoticed` needs the collector and the clock, and
`RecordsArePurged` only etcd.

`StartUp!FairSpec` assumes that a process goes on and that Kubernetes starts one
that has ended (the pods belong to a Deployment). That `GetsUpAgain` must hold
after finitely many failures is `MaxTrouble`; nothing is up for good if failures
never end.

### Assumptions of the model

- The clock of the server only advances. (README.md:44 knows of the trouble with
  one that is set.)
- Names of agent pods are not used again, as those of a DaemonSet are not.
- The API server is linearizable, and an Agent resource is written by the server
  only. It refuses an update without a ResourceVersion, as it does for custom
  resources.
- A conversion of +Inf or NaN to `int` yields the least integer, as on amd64: the age
  over the interval 0 is either.
- etcd (v2 keys API) is linearizable: `Get` asks for a quorum. A conditional `Set`
  or `Delete` is atomic; a key is purged within the second at which it is due; a
  directory goes with what is in it; a key put under a missing directory makes it,
  without a TTL.
- An agent gives the same name in the URL, which the metrics go by, as in the
  payload, which the etcd storage goes by.
- Nothing is assumed of the uptime and the interval that a report gives, nor of the
  order in which reports come, nor that their pod still exists.
- The TTL is positive (`-report-ttl 0` sets none at all), and one server writes
  the tree.
- `encoding/json` decodes an object into the map that it finds, and an array into
  the backing array that it finds as long as that has room.
- The definition of the agents' resource is not deleted.

## 4. What is proved

Every invariant that a passing run checks is proved for all values of the constants, and
so are both refinements; the assumptions, where there are any, are those under
which the run checks it too.

| theorem | states | assumes | module |
|---|---|---|---|
| `TypeCorrect` | `TypeOK` | | `K8sAgentStorageProofs` |
| `CacheIsAccepted` | `CacheAccepted` | | |
| `AbsentIsNever` | `AbsentMeansNever` | | |
| `UnlistedAreFresh` | `UnlistedIsFresh` | | |
| `StorageImplementsConditionalStore` | refinement | | |
| `CacheFollows` | `CacheFollowsStore` | no overlap | `K8sHistoryProofs` |
| `OutdatedIsSilent` | `OutdatedMeansSilent` | no overlap | |
| `AnswerMeansStored` | `StoredUnlessOvertaken` | no faults | |
| `DumpShowsAll` | `DumpIsComplete` | no faults | |
| `ServerRunsStorage` | `ServerSpec => Spec` | | `K8sServerProofs` |
| `ServerTypeCorrect` | `ServerTypeOK` | | |
| `MetricsAlwaysThere` | `MetricsAreThere` | | |
| `EveryReportCounted` | `ReportsCounted` | | |
| `ErrorIsSilence` | `ErrorMeansSilent` | | |
| `TypeCorrect` | `TypeOK`, and what uptimes, stamps and names of handlers are | | `EtcdAgentStorageProofs` |
| `StorageImplementsForgetfulStore` | refinement | `"refresh" \notin Failing` | |
| `UnlistedReported` | `UnlistedHasReported` | | |
| `DumpsAreNotBehind` | `DumpNotBehind` | neither `"fetch"` nor `"refresh"` fails | |
| `AbsentAreSilent` | `AbsentMeansSilent` | the same | |
| `ServerRunsStorage` | `ServerSpec => Spec` | | `EtcdServerProofs` |
| `ServerTypeCorrect` | `ServerTypeOK` | | |
| `MetricsAlwaysThere` | no entry is missing | | |
| `EveryReportCounted` | `ReportsCounted` | | |
| `ErrorIsExpired` | `ErrorMeansExpired` | neither `"fetch"` nor `"refresh"` fails | |
| `LatestShown` | `LatestIsShown` | | `EtcdRecordsProofs` |
| `DumpCovers` | `DumpCoversRecord` | | |
| `UpMeansResource` | `ServesOnResource` | | `StartUpProofs` |

Agents are a finite set; handlers, intervals, labels, times to live and bounds are
arbitrary, within the assumptions that the modules name (`AgentsAssumption` and
so on), which TLC evaluates in each run. "No overlap" and "no faults" are
`Overlap = FALSE` and `Faults = FALSE`: what they exclude is what
`failed_update` and the hazards show to matter. Without them the statements are
false, as two reports of an agent may overtake each other, and an answer lost to
the server makes it cache nothing.

### The Kubernetes storage

- `TypeCorrect`. The types are inductive once it is said whose name a busy handler
  has; one lemma per group of actions.
- `CacheIsAccepted`. Not inductive by itself: what is cached was in
  `post[p].result` before and in the store before that, so that the strengthening
  says of all three that they are persisted reports.
- `AbsentIsNever`, `UnlistedAreFresh`: the verdict of a check. The invariant speaks
  of the check while it is under way: of the agents already judged, of the one
  whose answer has been fetched and not judged, and of the clock, which is not
  before the time at which the check was asked for.
- `StorageImplementsConditionalStore`. Init maps to Init, every action to a
  `Reserve`, a `Commit`, a `Release` or a stutter. The invariant needed is that no
  handler knows a version beyond the store's.
- `CacheFollows`. First that no two handlers have the same agent (`OneAtATime`),
  which is what `Overlap = FALSE` makes of `ReceiveReport`. Then `OrderInv`: the
  stored report is the latest ever accepted (`LatestStored`), the one being served
  is no earlier than any accepted (`Timely`), and what a handler is about to
  cache is what is stored, or empty (`ResultStored`).
- `OutdatedIsSilent`. Since the store holds the latest report, the one that a check
  judges is no earlier than any it knew of when it was asked for (`SilentOK`), and
  what is overdue stays so as the clock goes on.
- `AnswerMeansStored`. A handler carries the version that it found to its write, and
  the resource is never older than that (`CarriesInv`). As no call fails, a write is
  refused only if the resource has a later version by then, and versions only grow.
- `DumpShowsAll`. An accepted report is never unaccepted, and an agent that has one
  has a resource, which `List` returns.

### The server in Kubernetes mode

- `ServerRunsStorage`: metrics and collector never disturb the storage, so that each
  theorem above holds of the whole server.
- `MetricsAlwaysThere`: entries are only added while the process lives, and whoever
  uses one has found or made it before.
- `EveryReportCounted`. The invariant `CountInv`: whoever is at the metrics of a POST
  has done with the storage and counts a report, the collector counts errors, those
  at the metrics are finitely many, and their number with the sum of the counters is
  the number of POSTs received. That a sum grows by one with one of its numbers is
  `SumGrows` of `OperatorProofs`.
- `ErrorIsSilence`. The last step of a POST sets the cache entry and the time of the
  answer together, and every other step only takes entries away. So an entry that is
  not empty dates from the last answer (`LastIsCached`), and the age that the
  collector has read is the time since then (`AgeOK`), whatever has happened to the
  entry in the meantime. This holds with overlapping reports, too.

### The etcd storage

- `TypeCorrect`. `TypeOK` alone is not inductive: a step replaces a node of the tree
  only if the handler under way works for an agent (`Working`), and that no stamp is
  ahead of the clock (`InTime`) is what the theorems below rest on.
- `StorageImplementsForgetfulStore`. A report is safe until its time is over if its
  record is, and if the directory of the record does not expire before it. `Lives`
  says so of each record: it is due no sooner than a TTL after its report came in,
  and its directory, if it has a TTL, no sooner either. `SeenTo` says of a handler
  that is past its directory that, if one with a TTL is there, it lives a TTL from
  the stamp of the handler's report, so that the record may be put. No other handler
  shortens that: `CreateTree` is refused when anything is there, and `RefreshTree`
  only moves the end on. A directory that expires before the put takes no report
  with it, and the one that the put makes has no TTL.
- `UnlistedReported`. `Recent` says that no record is overdue or due later than a TTL
  after its agent's last put; `Honest`, of a request under way, that whom it has seen
  had such a put, and that whom it calls absent is who it has not seen.
- `DumpsAreNotBehind`, `AbsentAreSilent`. Beside the invariants above: the latest stored
  report, with its stamp and its uptime, is a record of the tree until its time is over
  (`Stamped`), and so is the one that a request knew of when it came, as long as it has
  not fetched the tree (`Awaited`); what is fetched shows no lower uptime.

### The server in etcd mode

- `ServerRunsStorage`, `ServerTypeCorrect`, `MetricsAlwaysThere` and
  `EveryReportCounted` go as in Kubernetes mode.
- `ErrorIsExpired`. `CollectInv` follows the collector from its waking up: whom it has
  not seen in the tree, whom it found absent and for whom it is counting an error have
  no report that was known then and is within its time to live. It enters when the
  tree is fetched, where a living report would have a record (`Stamped` of the
  storage), and stays because the clock does not go back.

### The decoding of etcd's records

`EtcdRecordsProofs` needs one invariant for its two theorems. `LoopInv` says where
the two loops are; `HeapInv`, the typing part, that no reference dangles (Go sees to that, and no run
checks it); `DumpInv` what the agents done
with, and the maximum so far, show. That later decoding does not spoil this, though it
writes into maps and arrays which others share, is `Grown`: a map only gains hosts, an
array keeps its length, so that a spec that carries the hosts and the number of results
of its record (`Carries`) goes on doing so. Nothing is said of what the shared cells
contain: that is what `merged_dump` refutes.

### Start-up

`UpMeansResource`: the inductive part is that whoever is past the creation has the
definition.

### Operators

The maximum of a set, a fold and a sequence are opaque to the provers. `OperatorProofs`
derives what is needed of them from their definitions: a sum is a recursion over a set
that shrinks, and that it has a solution, that the sum of naught is naught and that it
grows with its numbers is shown on the least counterexample, for there is no induction
theorem to cite.

### Model-checked only

The liveness properties `CatchesUp`, `SilenceIsNoticed`, `RecordsArePurged` and
`GetsUpAgain`: fairness speaks of ENABLED, which is out of the prover's reach. The
properties that the code does not have (`failed_update`, `lost_report`, `merged_dump`)
are refuted by TLC.

## 5. Not modelled, and why

- `UpdateAgentProbeMetrics`: gauges that repeat the report; nothing reads them
  back. `/ping` and `/metrics` change nothing.
- The payload of a report (probe results, addresses) other than in `EtcdRecords`,
  the text of JSON, logging, the middleware.
- A call to etcd or to the API server that never returns: the code sets no
  deadline but that of the ping. It holds nothing that another request needs; in
  the safety runs a handler that stops is a behaviour of the model.
- Uptime 0 in the histories of the etcd storage: such a report is stored and not
  shown, and nothing is promised of it.
- `AgentCacheUpdate` and `SetKubeClient`, which only the tests call; `ToJson`,
  `ToYaml` and `Delete`, which nothing calls.
- Vendored code, manifests and scripts.

## 6. Plan

Done: the storage of either mode under its handlers, with its abstract
specification and the proof of the refinement; metrics and collector in either
mode, composed with it; the decoding of etcd's records; start-up. What is left:

1. A module of the lemmas on `AgentMetrics` for both servers' proofs, which repeat
   them.
2. The gauges of the probes in `AgentMetrics`: two overlapping reports of a node
   may leave them mixed.
3. A server clock that can be set (README.md:44), in Kubernetes mode.
