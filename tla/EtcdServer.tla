------------------------------ MODULE EtcdServer ------------------------------
(***************************************************************************)
(* The server in etcd mode: the storage with its HTTP handlers             *)
(* (EtcdAgentStorage), the metrics (AgentMetrics), and what joins them in  *)
(* pkg/utils/handler.go: Handler.UpdateAgents, which counts a report after *)
(* the storage has had it, and CollectAgentsMetrics, which asks the        *)
(* storage now and then for the absent agents and counts an error for      *)
(* those of whom it has counted none since their last report.              *)
(***************************************************************************)
EXTENDS EtcdAgentStorage

CONSTANTS Labels,       \* values of the metrics' label "agent"
          NoLabel,      \* the label of a spec that names no node
          LabelOf,      \* LabelOf[a]: the label of the reports of a
          Collector,    \* the goroutine of CollectAgentsMetrics
          MaxReports    \* bound on the POSTs served by one process

ASSUME LabelsAssumption == IsFiniteSet(Labels) /\ NoLabel \in Labels
ASSUME LabelOfAssumption == LabelOf \in [Agents -> Labels \ {NoLabel}]
ASSUME CollectorAssumption == Collector \notin Posters
ASSUME MaxReportsAssumption == MaxReports \in Nat

VARIABLES metrics, reports, errors, task,
          collect,     \* the locals of the collector
          received,    \* history: how many POSTs this process has accepted
                       \* or refused
          reset        \* history: reset[a], has a report of a been counted, and
                       \* was no error of a in the making then or begun since

M == INSTANCE AgentMetrics WITH Updaters <- Posters \cup {Collector}

measured == <<metrics, reports, errors, task>>

history == <<received, reset>>

serverVars == <<vars, measured, collect, history>>

-----------------------------------------------------------------------------
(* Data.                                                                   *)

\* As a history, collect.stored keeps the reports known when it woke up.
Asleep == [pc |-> "sleep", seen |-> NothingSeen, absent |-> {},
           stored |-> NothingSeen]

Collects == [pc : {"sleep", "fetch", "pods", "range"}, seen : [Agents -> Nat],
             absent : SUBSET Agents, stored : [Agents -> Nat]]

\* The metrics, the registry included, are lost with the process.
KeepOrLose == IF up' THEN UNCHANGED <<measured, collect, history>>
              ELSE /\ metrics' = [a \in {} |-> M!NoEntry]
                   /\ reports' = [l \in Labels |-> 0]
                   /\ errors' = [l \in Labels |-> 0]
                   /\ task' = [u \in Posters \cup {Collector} |-> M!IdleTask]
                   /\ collect' = Asleep
                   /\ received' = 0
                   /\ reset' = [a \in Agents |-> FALSE]

-----------------------------------------------------------------------------
(* POST, around the storage's part.                                        *)

CanServe(p) ==
    /\ ~M!Busy(p)
    /\ received + Cardinality({q \in Posters : post[q].pc # "idle"}) < MaxReports

ServeReport(p, a, u) ==
    /\ CanServe(p)
    /\ ReceiveReport(p, a, u)
    /\ UNCHANGED <<measured, collect, history>>

\* A body that cannot be decoded is answered by 500 and not stored, yet the
\* handler goes on with the empty spec that it gets back.
ServeMalformed(p, a) ==
    /\ up
    /\ CanServe(p)
    /\ post[p].pc = "idle"
    /\ received' = received + 1
    /\ M!BeginReport(p, a, NoLabel)
    /\ UNCHANGED <<vars, metrics, reports, errors, collect, reset>>

\* The directory's part of a POST, which may end the process.
DirectoryStep(p) ==
    /\ GetTree(p) \/ Unlink(p) \/ CreateTree(p) \/ RefreshTree(p)
    /\ KeepOrLose

\* The storage returns, and the handler turns to the metrics.
StoreThenMeasure(p) ==
    LET a == post[p].name
    IN  /\ StoreRecord(p)
        /\ M!BeginReport(p, a, LabelOf[a])
        /\ received' = received + 1
        /\ UNCHANGED <<metrics, reports, errors, collect, reset>>

\* Is the collector about to count an error of a?
Counting(a) == M!Busy(Collector) /\ task[Collector].name = a

MeasureReport(p) ==
    /\ M!UpdateMetrics(p)
    /\ reset' = IF task[p].pc = "write"
                THEN [reset EXCEPT ![task[p].name] = ~Counting(task[p].name)]
                ELSE reset
    /\ UNCHANGED <<vars, collect, received>>

-----------------------------------------------------------------------------
(* CollectAgentsMetrics, the branch for etcd.                              *)

WakeUp ==
    /\ up
    /\ collect.pc = "sleep"
    /\ collect' = [Asleep EXCEPT !.pc = "fetch",
                                 !.stored = [a \in Agents |-> known[a].stored]]
    /\ UNCHANGED <<vars, measured, history>>

\* CheckAgents, as in Fetch and Check.
FetchTree ==
    /\ collect.pc = "fetch"
    /\ \E seen \in {[a \in Agents |-> Latest(a)]}
                     \cup (IF "fetch" \in Failing THEN {NothingSeen} ELSE {}) :
          collect' = [collect EXCEPT !.pc = "pods", !.seen = seen]
    /\ UNCHANGED <<vars, measured, history>>

\* Without the pods, no agent is known to be absent.
FindAbsent ==
    /\ collect.pc = "pods"
    /\ \/ collect' = [collect EXCEPT !.pc = "range",
                                     !.absent = {a \in pods : collect.seen[a] = 0}]
       \/ "pods" \in Failing /\ collect' = [collect EXCEPT !.pc = "range"]
    /\ UNCHANGED <<vars, measured, history>>

\* Variant to be rejected: an error is counted only if one was before.
UncountedAfterFirst(a) == a \in DOMAIN metrics /\ metrics[a].errors > 0

\* One error is counted until the next report.
Uncounted(a) == a \in DOMAIN metrics /\ metrics[a].errors = 0

VisitAbsent(a) ==
    /\ collect.pc = "range"
    /\ ~M!Busy(Collector)
    /\ a \in collect.absent
    /\ collect' = [collect EXCEPT !.absent = @ \ {a}]
    /\ IF Uncounted(a) THEN /\ M!BeginError(Collector, a)
                            /\ reset' = [reset EXCEPT ![a] = FALSE]
                       ELSE UNCHANGED <<task, reset>>
    /\ UNCHANGED <<vars, metrics, reports, errors, received>>

MeasureError ==
    /\ M!UpdateMetrics(Collector)
    /\ UNCHANGED <<vars, collect, history>>

FallAsleep ==
    /\ collect.pc = "range"
    /\ ~M!Busy(Collector)
    /\ collect.absent = {}
    /\ collect' = Asleep
    /\ UNCHANGED <<vars, measured, history>>

-----------------------------------------------------------------------------
(* The whole server.                                                       *)

Pass == Tick /\ UNCHANGED <<measured, collect, history>>

Purge == Expire /\ UNCHANGED <<measured, collect, history>>

Change == /\ \E a \in Agents : PodStop(a)
          /\ UNCHANGED <<measured, collect, history>>

\* The GET endpoints do not touch the metrics.
Read(r) == /\ Ask(r) \/ Answer(r)
           /\ UNCHANGED <<measured, collect, history>>

Run == (Start \/ Crash) /\ KeepOrLose

ServerInit == /\ Init
              /\ M!InitMetrics
              /\ collect = Asleep
              /\ received = 0
              /\ reset = [a \in Agents |-> FALSE]

Handle(p) == DirectoryStep(p) \/ StoreThenMeasure(p) \/ MeasureReport(p)

Collect == \/ WakeUp
           \/ FetchTree
           \/ FindAbsent
           \/ \E a \in Agents : VisitAbsent(a)
           \/ MeasureError
           \/ FallAsleep

ServerNext == \/ Pass
              \/ Purge
              \/ Change
              \/ \E p \in Posters, a \in Agents, u \in Uptimes : ServeReport(p, a, u)
              \/ \E p \in Posters, a \in Agents : ServeMalformed(p, a)
              \/ \E p \in Posters : Handle(p)
              \/ \E r \in Readers : Read(r)
              \/ Collect
              \/ Run

ServerSpec == ServerInit /\ [][ServerNext]_serverVars

\* Time passes, etcd purges what is due and answers requests, sleep returns, and
\* Go schedules the goroutines.  Nothing obliges agents to report.
FairServerSpec == /\ ServerSpec
                  /\ WF_serverVars(Pass)
                  /\ WF_serverVars(Purge)
                  /\ \A p \in Posters : WF_serverVars(Handle(p))
                  /\ WF_serverVars(Collect)

-----------------------------------------------------------------------------
(* Properties.                                                             *)

\* Every variable holds what its comment says.
ServerTypeOK ==
    /\ TypeOK
    /\ M!MetricsTypeOK
    /\ collect \in Collects
    /\ received \in Nat
    /\ reset \in [Agents -> BOOLEAN]

\* The collector counts an error only for an agent of whose reports that were
\* stored when it woke up none is within its time to live, although directory
\* and record are written, refreshed and purged while it collects.  Kept as
\* long as neither the fetch of the tree nor the refresh of a directory fails.
ErrorMeansExpired ==
    M!Busy(Collector) =>
        LET stamp == collect.stored[task[Collector].name]
        IN  stamp # 0 => stamp + TTL <= now

\* Every POST that the process has got through its storage is counted exactly
\* once, under some label, whatever the collector does in between, although
\* every report makes its agent a new entry, and also if no record was put.
ReportsCounted ==
    MapThenSumSet(LAMBDA l : reports[l], Labels)
      + Cardinality({p \in Posters : M!Busy(p)}) = received

\* Nothing is left in etcd of a pod, and no error was counted since its report.
Unnoticed(a) == /\ up
                /\ a \in pods
                /\ reset[a]
                /\ Latest(a) = 0

\* A pod that has reported and then falls silent for the time to live gets an
\* error, unless it reports, stops or the server ends before.  Kept as long as
\* the pods can be listed.  Let off is a silence after a report that was counted
\* while an error of the pod was in the making, or was followed by an error that
\* the collector owed to a list from before it: that error stays on the pod's
\* entry, and the collector counts no other one until the next report.
SilenceIsNoticed == \A a \in Agents : Unnoticed(a) ~> ~Unnoticed(a)

===============================================================================
