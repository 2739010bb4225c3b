------------------------------ MODULE K8sServer ------------------------------
(***************************************************************************)
(* The server in Kubernetes mode: the storage with its HTTP handlers       *)
(* (K8sAgentStorage), the metrics (AgentMetrics), and what joins them in   *)
(* pkg/utils/handler.go: Handler.UpdateAgents, which counts a report after *)
(* it was stored, and CollectAgentsMetrics, the goroutine that wakes up    *)
(* now and then, walks the storage's live cache map and counts an error    *)
(* for an agent that has fallen silent.                                    *)
(***************************************************************************)
EXTENDS K8sAgentStorage, FiniteSetsExt

CONSTANTS Labels,          \* values of the metrics' label "agent"
          NoLabel,         \* the label of a spec that names no node
          LabelOf,         \* LabelOf[a]: the label of the reports of a
          Collector,       \* the goroutine of CollectAgentsMetrics
          MaxReports,      \* bound on the reports served by one process
          MaxMalformed     \* bound on the requests that cannot be decoded

ASSUME LabelsAssumption == IsFiniteSet(Labels) /\ NoLabel \in Labels
ASSUME LabelOfAssumption == LabelOf \in [Agents -> Labels \ {NoLabel}]
ASSUME CollectorAssumption == Collector \notin Posters
ASSUME ReportBoundsAssumption == MaxReports \in Nat /\ MaxMalformed \in Nat

VARIABLES metrics, reports, errors, task,
          collect,    \* the locals of the collector
          received,   \* history: how many POSTs this process has stored
                      \* or refused
          malformed,  \* history: undecodable requests received so far
          answered,   \* history: answered[a], when the latest report of a
                      \* came in of those that were stored
          sinceLast   \* history: sinceLast[a], how many errors the collector
                      \* found since the last report was cached

M == INSTANCE AgentMetrics WITH Updaters <- Posters \cup {Collector}

history == <<received, malformed, answered, sinceLast>>

serverVars == <<vars, metrics, reports, errors, task, collect, history>>

-----------------------------------------------------------------------------
(* Data.                                                                   *)

CollectPcs == {"sleep", "range", "found", "age", "interval", "compare", "count"}

Asleep == [pc |-> "sleep", name |-> NoAgent, start |-> {}, visited |-> {},
           age |-> 0, every |-> 0, at |-> 0, heard |-> 0]

\* at, heard (history): when the age was read, and the last answer until then.
Collects == [pc : CollectPcs, name : Agents \cup {NoAgent},
             start : SUBSET Agents, visited : SUBSET Agents,
             age : Int, every : Nat, at : 0..MaxTime, heard : 0..MaxTime]

\* What the map index of NcAgentCache yields: the zero spec for no entry.
Lookup(a) == IF a \in DOMAIN cache THEN cache[a] ELSE ZeroSpec

\* From the zero time a Duration saturates, at some 292 years: any number
\* above what the clock, the intervals and the counters reach.
Saturated == 1000000000

\* Seconds since LastUpdated.
Age(spec) == IF spec.at = 0 THEN Saturated ELSE now - spec.at

\* Variant to be rejected: an error is found once until the next report.
TooManyMissedOnce(age, interval, counted) ==
    interval # 0 /\ counted = 0 /\ age \div interval > 1

\* int(age / interval) > ErrorsFromLastReport + 1.  Division by the zero interval
\* gives +Inf, or NaN for an age of 0, and both convert to the least int on amd64.
TooManyMissed(age, interval, counted) ==
    interval # 0 /\ age \div interval > counted + 1

Serving(a) == {p \in Posters : post[p].name = a \/ task[p].name = a}

\* An entry deleted from the map and put back is a new one to a range over it.
ForgetDeleted == collect' = [collect EXCEPT !.start = @ \cap DOMAIN cache',
                                            !.visited = @ \cap DOMAIN cache']

-----------------------------------------------------------------------------
(* POST, around the storage's part.                                        *)

ServeReport(p, a, i) ==
    /\ ~M!Busy(p)
    /\ Overlap \/ Serving(a) = {}
    /\ received + Cardinality({q \in Posters : post[q].pc # "idle"}) < MaxReports
    /\ ReceiveReport(p, a, i)
    /\ UNCHANGED <<metrics, reports, errors, task, collect, history>>

\* A body that is cut short or is not JSON is answered by 500 and not stored,
\* yet the handler goes on with the empty spec that it gets back.
ServeMalformed(p, a) ==
    /\ post[p].pc = "idle"
    /\ ~M!Busy(p)
    /\ phase[a] # "future"
    /\ Overlap \/ Serving(a) = {}
    /\ malformed < MaxMalformed
    /\ malformed' = malformed + 1
    /\ received' = received + 1
    /\ M!BeginReport(p, a, NoLabel)
    /\ UNCHANGED <<vars, metrics, reports, errors, collect, answered, sinceLast>>

\* Steps within the storage that do not end the storage's part of a POST.
StorageStep(p) ==
    /\ GetAgent(p) \/ ListPods(p) \/ PurgeBeforeCreate(p) \/ CreateAgent(p)
       \/ UpdateAgent(p)
    /\ ForgetDeleted
    /\ UNCHANGED <<metrics, reports, errors, task, history>>

\* The storage returns, and the handler turns to the metrics.
StoreThenMeasure(p) ==
    LET a == post[p].name
    IN  /\ CacheReport(p)
        /\ M!BeginReport(p, a, LabelOf[a])
        /\ received' = received + 1
        /\ answered' = [answered EXCEPT ![a] = post[p].data.at]
        /\ sinceLast' = [sinceLast EXCEPT ![a] = 0]
        /\ UNCHANGED <<metrics, reports, errors, collect, malformed>>

MeasureReport(p) ==
    /\ M!UpdateMetrics(p)
    /\ UNCHANGED <<vars, collect, history>>

\* Variant to be rejected: the purge drops the metrics as well, as the line
\* commented out in CleanCacheOnDemand would.
ReadAndPurgeMetrics(r) ==
    /\ Get(r)
    /\ ForgetDeleted
    /\ metrics' = [a \in DOMAIN metrics \cap
                           (IF get[r].pc = "purge" THEN get[r].pods ELSE Agents)
                       |-> metrics[a]]
    /\ UNCHANGED <<reports, errors, task, history>>

\* The GET endpoints do not touch the metrics.
Read(r) ==
    /\ Get(r)
    /\ ForgetDeleted
    /\ UNCHANGED <<metrics, reports, errors, task, history>>

-----------------------------------------------------------------------------
(* CollectAgentsMetrics.                                                   *)

WakeUp ==
    /\ collect.pc = "sleep"
    /\ collect' = [Asleep EXCEPT !.pc = "range", !.start = DOMAIN cache]
    /\ UNCHANGED <<vars, metrics, reports, errors, task, history>>

\* The range statement over the live map: an entry put meanwhile may be met or
\* not.
Visit(a) ==
    /\ collect.pc = "range"
    /\ a \in DOMAIN cache \ collect.visited
    /\ collect' = [collect EXCEPT !.pc = "found", !.name = a,
                                  !.visited = @ \cup {a}]
    /\ UNCHANGED <<vars, metrics, reports, errors, task, history>>

\* Agents without metrics are passed over.
FindMetrics ==
    /\ collect.pc = "found"
    /\ collect' = [collect EXCEPT
                      !.pc = IF collect.name \in DOMAIN metrics THEN "age"
                                                                ELSE "range"]
    /\ UNCHANGED <<vars, metrics, reports, errors, task, history>>

\* The map is indexed anew for LastUpdated,
ReadAge ==
    /\ collect.pc = "age"
    /\ collect' = [collect EXCEPT !.pc = "interval", !.at = now,
                                  !.age = Age(Lookup(collect.name)),
                                  !.heard = answered[collect.name]]
    /\ UNCHANGED <<vars, metrics, reports, errors, task, history>>

\* and again for ReportInterval.
ReadInterval ==
    /\ collect.pc = "interval"
    /\ collect' = [collect EXCEPT !.pc = "compare",
                                  !.every = Lookup(collect.name).interval]
    /\ UNCHANGED <<vars, metrics, reports, errors, task, history>>

NextAgent == collect' = [collect EXCEPT !.pc = "range", !.name = NoAgent,
                                        !.age = 0, !.every = 0, !.at = 0,
                                        !.heard = 0]

Missed == TooManyMissed(collect.age, collect.every, metrics[collect.name].errors)

Compare ==
    /\ collect.pc = "compare"
    /\ \/ /\ Missed
          /\ collect' = [collect EXCEPT !.pc = "count"]
          /\ M!BeginError(Collector, collect.name)
          /\ sinceLast' = [sinceLast EXCEPT ![collect.name] = @ + 1]
       \/ /\ ~Missed
          /\ NextAgent
          /\ UNCHANGED <<task, sinceLast>>
    /\ UNCHANGED <<vars, metrics, reports, errors, received, malformed, answered>>

MeasureError ==
    /\ collect.pc = "count"
    /\ M!UpdateMetrics(Collector)
    /\ IF task[Collector].pc = "write" THEN NextAgent ELSE UNCHANGED collect
    /\ UNCHANGED <<vars, history>>

\* The range is over when whatever was there from the start to the end was met.
FallAsleep ==
    /\ collect.pc = "range"
    /\ collect.start \subseteq collect.visited
    /\ collect' = Asleep
    /\ UNCHANGED <<vars, metrics, reports, errors, task, history>>

-----------------------------------------------------------------------------
(* The whole server.                                                       *)

OutsideWorld ==
    /\ World
    /\ UNCHANGED <<metrics, reports, errors, task, collect, history>>

\* The metrics, the registry included, are lost with the process.
Restart ==
    /\ Crash
    /\ metrics' = [a \in {} |-> M!NoEntry]
    /\ reports' = [l \in Labels |-> 0]
    /\ errors' = [l \in Labels |-> 0]
    /\ task' = [u \in Posters \cup {Collector} |-> M!IdleTask]
    /\ collect' = Asleep
    /\ received' = 0
    /\ answered' = [a \in Agents |-> 0]
    /\ sinceLast' = [a \in Agents |-> 0]
    /\ UNCHANGED malformed

ServerInit == /\ Init
              /\ M!InitMetrics
              /\ collect = Asleep
              /\ received = 0
              /\ malformed = 0
              /\ answered = [a \in Agents |-> 0]
              /\ sinceLast = [a \in Agents |-> 0]

Handle(p) == StorageStep(p) \/ StoreThenMeasure(p) \/ MeasureReport(p)

Collect == \/ WakeUp
           \/ \E a \in Agents : Visit(a)
           \/ FindMetrics
           \/ ReadAge
           \/ ReadInterval
           \/ Compare
           \/ MeasureError
           \/ FallAsleep

ServerNext == \/ OutsideWorld
              \/ \E p \in Posters, a \in Agents, i \in Intervals : ServeReport(p, a, i)
              \/ \E p \in Posters, a \in Agents : ServeMalformed(p, a)
              \/ \E p \in Posters : Handle(p)
              \/ \E r \in Readers : Read(r)
              \/ Collect
              \/ Restart

ServerSpec == ServerInit /\ [][ServerNext]_serverVars

\* Go schedules every runnable goroutine, sleep and API calls return, and a
\* handler goes on by itself.  Nothing obliges agents or users to do anything.
FairServerSpec == /\ ServerSpec
                  /\ \A p \in Posters : WF_serverVars(Handle(p))
                  /\ \A r \in Readers : WF_serverVars(Read(r) /\ get[r].pc # "idle")
                  /\ WF_serverVars(Collect)

-----------------------------------------------------------------------------
(* Properties.                                                             *)

\* Every variable holds what its comment says.
ServerTypeOK ==
    /\ TypeOK
    /\ M!MetricsTypeOK
    /\ collect \in Collects
    /\ received \in Nat
    /\ malformed \in Nat
    /\ answered \in [Agents -> 0..MaxTime]
    /\ sinceLast \in [Agents -> Nat]

\* Whoever is about to index the metrics finds an entry there, although no lock
\* is held and the purge of the cache runs at the same time: the counters of a
\* missing entry are nil, and using them ends the process.
MetricsAreThere ==
    /\ \A u \in Posters \cup {Collector} :
          task[u].pc \in {"read", "write"} => task[u].name \in DOMAIN metrics
    /\ collect.pc \in {"age", "interval", "compare", "count"} =>
          collect.name \in DOMAIN metrics

\* Every POST that the process has got through its storage is counted exactly
\* once, under some label, whatever the other handlers and the collector do in
\* between and although each report makes its agent a new entry.
ReportsCounted ==
    MapThenSumSet(LAMBDA l : reports[l], Labels)
      + Cardinality({p \in Posters : M!Busy(p)}) = received

\* When its age was read, no report of the agent had been answered for two of
\* the intervals that the age was then compared with.
Silent == collect.every # 0 /\ collect.at - collect.heard >= 2 * collect.every

\* An error is counted only for an agent that was silent, unless its cache entry
\* was missing or empty when its age was read (a purge or a failed write; then
\* the error may be made up).  The interval is that of the entry as it was found
\* by a third lookup (handler.go:141), perhaps a younger report's than the age.
ErrorMeansSilent ==
    collect.pc = "count" /\ collect.age # Saturated => Silent

\* The errors counted lag behind the intervals that a cached agent has missed.
Behind(a) ==
    /\ a \in DOMAIN cache \cap DOMAIN metrics
    /\ store[a].spec.interval # 0
    /\ (now - store[a].spec.at) \div store[a].spec.interval > metrics[a].errors + 1

\* The collector catches up with every agent that misses its intervals, until
\* it has counted them all, the agent reports or its entry is purged: "This
\* counter is incremented when agent does not report within reporting_interval
\* * 2 timeframe" (doc/metrics.md).  Kept as long as no write fails, for agents
\* that promise to report at all: without an interval none is counted.
CatchesUp == \A a \in Agents : Behind(a) ~> ~Behind(a)

-----------------------------------------------------------------------------
(* Statements of the repository that the code does not keep.               *)

\* "This counter is incremented when agent does not report within
\* reporting_interval * 2 timeframe" (doc/metrics.md), and not otherwise.
ErrorOnlyIfSilent == collect.pc = "count" => Silent

\* The same sentence: when the collector compares the age of the report that is
\* cached, no later one of the agent is being served, and the agent has missed
\* more intervals since than errors were found, then it counts one.
SilenceIsCounted ==
    [][LET a == collect.name
       IN  /\ collect.pc = "compare"
           /\ collect'.pc # "compare"
           /\ Serving(a) = {}
           /\ collect.age = collect.at - Lookup(a).at
           /\ collect.every = Lookup(a).interval
           /\ TooManyMissed(collect.age, collect.every, sinceLast[a])
           => collect'.pc \in {"count", "sleep"}]_serverVars

\* "Number of total reports from every agent (agents separated by label)"
\* (doc/metrics.md): nothing is counted under the label of no agent.
CountsAreAttributed == reports[NoLabel] = 0 /\ errors[NoLabel] = 0

=============================================================================
