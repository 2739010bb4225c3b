-------------------------- MODULE EtcdServerProofs --------------------------
(* Theorems about the whole server in etcd mode, for any agents, handlers,  *)
(* labels, times to live, bounds and failures.                              *)
EXTENDS EtcdServer, EtcdAgentStorageProofs

-----------------------------------------------------------------------------
(* The server runs the storage.                                             *)

\* What the collector does leaves the storage alone.
LEMMA CollectLeavesStorage == ASSUME Collect PROVE UNCHANGED vars
  BY DEF Collect, WakeUp, FetchTree, FindAbsent, VisitAbsent, MeasureError,
         FallAsleep

\* A step of a POST handler is one of the storage's, or leaves it alone.
LEMMA HandleStep ==
    ASSUME NEW p \in Posters, Handle(p) PROVE Serve(p) \/ UNCHANGED vars
<1>1. CASE DirectoryStep(p)
  BY <1>1 DEF DirectoryStep, Serve
<1>2. CASE StoreThenMeasure(p)
  BY <1>2 DEF StoreThenMeasure, Serve
<1>3. CASE MeasureReport(p)
  BY <1>3 DEF MeasureReport
<1>4. QED
  BY <1>1, <1>2, <1>3 DEF Handle

\* Every step of the server is a step of the storage or leaves it alone.
LEMMA ServerStep == ASSUME [ServerNext]_serverVars PROVE [Next]_vars
<1>1. CASE Pass \/ Purge \/ Change
  BY <1>1 DEF Pass, Purge, Change, World, Next
<1>2. ASSUME NEW p \in Posters, NEW a \in Agents, NEW u \in Uptimes,
             ServeReport(p, a, u)
      PROVE  Next
  BY <1>2 DEF ServeReport, Next
<1>3. ASSUME NEW p \in Posters, NEW a \in Agents, ServeMalformed(p, a)
      PROVE  UNCHANGED vars
  BY <1>3 DEF ServeMalformed
<1>4. ASSUME NEW p \in Posters, Handle(p) PROVE [Next]_vars
  BY <1>4, HandleStep DEF Next
<1>5. ASSUME NEW r \in Readers, Read(r) PROVE Next
  BY <1>5 DEF Read, Next
<1>6. CASE Collect
  BY <1>6, CollectLeavesStorage
<1>7. CASE Run
  BY <1>7 DEF Run, Next
<1>8. CASE UNCHANGED serverVars
  BY <1>8 DEF serverVars
<1>9. QED
  BY <1>1, <1>2, <1>3, <1>4, <1>5, <1>6, <1>7, <1>8 DEF ServerNext

\* Metrics and collector never disturb the storage: a behaviour of the server is
\* one of the storage under its handlers, and what is proved of that one holds.
THEOREM ServerRunsStorage == ServerSpec => Spec
<1>1. ServerInit => Init
  BY DEF ServerInit
<1>2. [ServerNext]_serverVars => [Next]_vars
  BY ServerStep
<1>3. QED
  BY <1>1, <1>2, PTL DEF ServerSpec, Spec

-----------------------------------------------------------------------------
(* Types of the metrics, and that entries are there.  An entry is used some   *)
(* steps after it was found or made; no step but the end of the process       *)
(* takes one out of the map.                                                  *)

Updaters == Posters \cup {Collector}

\* A goroutine that is updating the metrics of an agent has that agent's name
\* and, past the making of the entry, that entry.
TaskOK(u) ==
    /\ M!Busy(u) => task[u].name \in Agents
    /\ task[u].pc \in {"read", "write"} => task[u].name \in DOMAIN metrics

MetricsInv == M!MetricsTypeOK /\ \A u \in Updaters : TaskOK(u)

HistoryInv == received \in Nat /\ reset \in [Agents -> BOOLEAN]

ServerInv == MetricsInv /\ collect \in Collects /\ HistoryInv

\* What the history keeps of one agent's last report.
LEMMA ResetOnce ==
    ASSUME reset \in [Agents -> BOOLEAN], NEW a, NEW b \in BOOLEAN,
           reset' = [reset EXCEPT ![a] = b]
    PROVE  reset' \in [Agents -> BOOLEAN]
  OBVIOUS

\* The idle records have their types.
LEMMA IdleMetricsTypes == M!NoEntry \in M!Entries /\ M!IdleTask \in M!Tasks
  BY LabelsAssumption DEF M!NoEntry, M!Entries, M!IdleTask, M!Tasks

\* Putting an entry keeps the others.
LEMMA SetEntry ==
    ASSUME M!MetricsTypeOK, NEW a \in Agents, NEW e \in M!Entries, M!Set(a, e)
    PROVE  /\ DOMAIN metrics' = DOMAIN metrics \cup {a}
           /\ DOMAIN metrics' \subseteq Agents
           /\ metrics' \in [DOMAIN metrics' -> M!Entries]
  BY DEF M!MetricsTypeOK, M!Set

\* One task changes, the map may grow: the tasks of the others stay right.
LEMMA OneTask ==
    ASSUME MetricsInv, NEW u \in Updaters, NEW t \in M!Tasks,
           task' = [task EXCEPT ![u] = t],
           DOMAIN metrics \subseteq DOMAIN metrics',
           DOMAIN metrics' \subseteq Agents,
           metrics' \in [DOMAIN metrics' -> M!Entries],
           reports' \in [Labels -> Nat], errors' \in [Labels -> Nat],
           t.pc # "idle" => t.name \in Agents,
           t.pc \in {"read", "write"} => t.name \in DOMAIN metrics'
    PROVE  MetricsInv'
<1>1. task \in [Updaters -> M!Tasks]
  BY DEF MetricsInv, M!MetricsTypeOK, Updaters
<1>2. task' \in [Updaters -> M!Tasks] /\ task'[u] = t
  BY <1>1
<1>3. \A v \in Updaters \ {u} : task'[v] = task[v]
  BY <1>1
<1>4. M!MetricsTypeOK'
  BY <1>2 DEF M!MetricsTypeOK, Updaters
<1>5. ASSUME NEW v \in Updaters PROVE TaskOK(v)'
  BY <1>2, <1>3 DEF MetricsInv, TaskOK, M!Busy
<1>6. QED
  BY <1>4, <1>5 DEF MetricsInv

\* Beginning to count a report keeps the metrics right.
LEMMA BeginReportInv ==
    ASSUME MetricsInv, NEW u \in Updaters, NEW a \in Agents, NEW l \in Labels,
           M!BeginReport(u, a, l), UNCHANGED <<metrics, reports, errors>>
    PROVE  MetricsInv'
<1> DEFINE t == [M!IdleTask EXCEPT !.pc = "new", !.name = a, !.label = l]
<1>1. t \in M!Tasks /\ t.pc = "new" /\ t.name = a
  BY IdleMetricsTypes DEF M!IdleTask, M!Tasks
<1>2. task' = [task EXCEPT ![u] = t]
  BY DEF M!BeginReport
<1> HIDE DEF t
<1>3. QED
  BY <1>1, <1>2, OneTask DEF MetricsInv, M!MetricsTypeOK

\* So does beginning to count an error for an agent that has an entry.
LEMMA BeginErrorInv ==
    ASSUME MetricsInv, NEW u \in Updaters, NEW a \in Agents, a \in DOMAIN metrics,
           M!BeginError(u, a), UNCHANGED <<metrics, reports, errors>>
    PROVE  MetricsInv'
<1> DEFINE t == [M!IdleTask EXCEPT !.pc = "read", !.name = a, !.kind = "error"]
<1>1. t \in M!Tasks /\ t.pc = "read" /\ t.name = a
  BY IdleMetricsTypes DEF M!IdleTask, M!Tasks
<1>2. task' = [task EXCEPT ![u] = t]
  BY DEF M!BeginError
<1> HIDE DEF t
<1>3. QED
  BY <1>1, <1>2, OneTask DEF MetricsInv, M!MetricsTypeOK

\* Each step of an update keeps the metrics right and loses no entry.
LEMMA UpdateInv ==
    ASSUME MetricsInv, NEW u \in Updaters, M!UpdateMetrics(u)
    PROVE  MetricsInv' /\ DOMAIN metrics \subseteq DOMAIN metrics'
<1>1. /\ task \in [Updaters -> M!Tasks] /\ task[u] \in M!Tasks
      /\ metrics \in [DOMAIN metrics -> M!Entries]
      /\ DOMAIN metrics \subseteq Agents
      /\ reports \in [Labels -> Nat] /\ errors \in [Labels -> Nat]
  BY DEF MetricsInv, M!MetricsTypeOK, Updaters
<1>2. /\ task[u].pc # "idle" => task[u].name \in Agents
      /\ task[u].pc \in {"read", "write"} => task[u].name \in DOMAIN metrics
  BY DEF MetricsInv, TaskOK, M!Busy
<1>3. CASE M!NewAgentMetrics(u)
  <2> DEFINE t == [task[u] EXCEPT !.pc = "read"]
             e == [label |-> task[u].label, errors |-> 0]
  <2>1. t \in M!Tasks /\ t.pc = "read" /\ t.name = task[u].name
    BY <1>1 DEF M!Tasks
  <2>2. task[u].name \in Agents
    BY <1>2, <1>3 DEF M!NewAgentMetrics
  <2>3. e \in M!Entries
    BY <1>1 DEF M!Tasks, M!Entries
  <2>4. task' = [task EXCEPT ![u] = t]
    BY <1>3 DEF M!NewAgentMetrics
  <2>5. M!Set(task[u].name, e) /\ UNCHANGED <<reports, errors>>
    BY <1>3 DEF M!NewAgentMetrics
  <2> HIDE DEF t, e
  <2>6. /\ DOMAIN metrics' = DOMAIN metrics \cup {task[u].name}
        /\ DOMAIN metrics' \subseteq Agents
        /\ metrics' \in [DOMAIN metrics' -> M!Entries]
    BY <2>2, <2>3, <2>5, SetEntry DEF MetricsInv
  <2>7. QED
    BY <1>1, <2>1, <2>2, <2>4, <2>5, <2>6, OneTask
<1>4. CASE M!ReadMetrics(u)
  <2> DEFINE t == [task[u] EXCEPT !.pc = "write", !.copy = metrics[task[u].name]]
  <2>1. task[u].name \in DOMAIN metrics /\ task[u].name \in Agents
    BY <1>1, <1>2, <1>4 DEF M!ReadMetrics
  <2>2. metrics[task[u].name] \in M!Entries
    BY <1>1, <2>1
  <2>3. t \in M!Tasks /\ t.pc = "write" /\ t.name = task[u].name
    BY <1>1, <2>2 DEF M!Tasks
  <2>4. task' = [task EXCEPT ![u] = t] /\ UNCHANGED <<metrics, reports, errors>>
    BY <1>1, <1>4 DEF M!ReadMetrics
  <2> HIDE DEF t
  <2>5. QED
    BY <1>1, <2>1, <2>3, <2>4, OneTask
<1>5. CASE M!WriteMetrics(u)
  <2>1. task[u].name \in Agents /\ task[u].copy \in M!Entries
    BY <1>1, <1>2, <1>5 DEF M!WriteMetrics, M!Tasks
  <2>2. task[u].copy.label \in Labels /\ task[u].copy.errors \in Nat
    BY <2>1 DEF M!Entries
  <2>3. task' = [task EXCEPT ![u] = M!IdleTask] /\ M!IdleTask.pc = "idle"
    BY <1>5 DEF M!WriteMetrics, M!IdleTask
  <2>4. PICK e \in M!Entries : /\ M!Set(task[u].name, e)
                               /\ reports' \in [Labels -> Nat]
                               /\ errors' \in [Labels -> Nat]
    <3>1. CASE M!CountReport(u)
      <4>1. [task[u].copy EXCEPT !.errors = 0] \in M!Entries
        BY <2>1 DEF M!Entries
      <4>2. reports' \in [Labels -> Nat] /\ errors' \in [Labels -> Nat]
        BY <1>1, <2>2, <3>1 DEF M!CountReport
      <4>3. QED
        BY <3>1, <4>1, <4>2 DEF M!CountReport
    <3>2. CASE M!CountError(u)
      <4>1. [task[u].copy EXCEPT !.errors = @ + 1] \in M!Entries
        BY <2>1 DEF M!Entries
      <4>2. reports' \in [Labels -> Nat] /\ errors' \in [Labels -> Nat]
        BY <1>1, <2>2, <3>2 DEF M!CountError
      <4>3. QED
        BY <3>2, <4>1, <4>2 DEF M!CountError
    <3>3. QED
      BY <1>5, <3>1, <3>2 DEF M!WriteMetrics
  <2>5. /\ DOMAIN metrics' = DOMAIN metrics \cup {task[u].name}
        /\ DOMAIN metrics' \subseteq Agents
        /\ metrics' \in [DOMAIN metrics' -> M!Entries]
    BY <2>1, <2>4, SetEntry DEF MetricsInv
  <2>6. QED
    BY <2>3, <2>4, <2>5, IdleMetricsTypes, OneTask
<1>6. QED
  BY <1>3, <1>4, <1>5 DEF M!UpdateMetrics

-----------------------------------------------------------------------------
(* The steps of the server keep the invariant.                               *)

\* The collector's record between two turns has its type.
LEMMA AsleepType == Asleep \in Collects
  BY DEF Asleep, Collects, NothingSeen

\* What leaves metrics, collector and count alone keeps the invariant.
LEMMA ServerStays ==
    ASSUME ServerInv, UNCHANGED <<measured, collect, history>>
    PROVE  ServerInv'
<1>1. MetricsInv'
  BY DEF ServerInv, MetricsInv, M!MetricsTypeOK, TaskOK, M!Busy, measured
<1>2. collect' = collect /\ HistoryInv'
  BY DEF ServerInv, HistoryInv, history
<1>3. QED
  BY <1>1, <1>2 DEF ServerInv

\* The metrics and the collector of a new process.
LEMMA FreshMetrics ==
    ASSUME M!InitMetrics PROVE MetricsInv
<1>1. /\ M!IdleTask.pc = "idle"
      /\ \A u \in Updaters : task[u] = M!IdleTask
  BY DEF M!InitMetrics, M!IdleTask, Updaters
<1>2. M!MetricsTypeOK
  BY IdleMetricsTypes DEF M!InitMetrics, M!MetricsTypeOK
<1>3. \A u \in Updaters : TaskOK(u)
  BY <1>1 DEF TaskOK, M!Busy
<1>4. QED
  BY <1>2, <1>3 DEF MetricsInv

\* Nothing of it is kept when the process ends, and all of it otherwise.
LEMMA KeepOrLoseInv == ASSUME ServerInv, KeepOrLose PROVE ServerInv'
<1>1. CASE up'
  BY <1>1, ServerStays DEF KeepOrLose
<1>2. CASE ~ up'
  <2>1. /\ metrics' = [a \in {} |-> M!NoEntry]
        /\ reports' = [l \in Labels |-> 0]
        /\ errors' = [l \in Labels |-> 0]
        /\ task' = [u \in Updaters |-> M!IdleTask]
        /\ collect' = Asleep
        /\ received' = 0
        /\ reset' = [a \in Agents |-> FALSE]
    BY <1>2 DEF KeepOrLose, Updaters
  <2>2. M!MetricsTypeOK'
    BY <2>1, IdleMetricsTypes DEF M!MetricsTypeOK, Updaters
  <2>3. \A u \in Updaters : TaskOK(u)'
    BY <2>1 DEF TaskOK, M!Busy, M!IdleTask
  <2>4. HistoryInv'
    BY <2>1 DEF HistoryInv
  <2>5. QED
    BY <2>1, <2>2, <2>3, <2>4, AsleepType DEF ServerInv, MetricsInv
<1>3. QED
  BY <1>1, <1>2

\* A POST keeps the invariant.
LEMMA HandleInv ==
    ASSUME TypeInv, ServerInv, NEW p \in Posters, Handle(p) PROVE ServerInv'
<1>0. MetricsInv /\ p \in Updaters
  BY DEF ServerInv, Updaters
<1>1. CASE DirectoryStep(p)
  BY <1>1, KeepOrLoseInv DEF DirectoryStep
<1>2. CASE StoreThenMeasure(p)
  <2>1. PICK a \in Agents : a = post[p].name
    BY <1>2, WorkingNode DEF StoreThenMeasure, StoreRecord
  <2>2. LabelOf[a] \in Labels
    BY LabelOfAssumption
  <2>3. /\ M!BeginReport(p, a, LabelOf[a])
        /\ UNCHANGED <<metrics, reports, errors, collect, reset>>
        /\ received' = received + 1
    BY <1>2, <2>1 DEF StoreThenMeasure
  <2>4. MetricsInv'
    BY <1>0, <2>2, <2>3, BeginReportInv
  <2>5. QED
    BY <2>3, <2>4 DEF ServerInv, HistoryInv
<1>3. CASE MeasureReport(p)
  <2>1. M!UpdateMetrics(p) /\ UNCHANGED <<collect, received>>
    BY <1>3 DEF MeasureReport
  <2>2. MetricsInv'
    BY <1>0, <2>1, UpdateInv
  <2>3. reset \in [Agents -> BOOLEAN]
    BY DEF ServerInv, HistoryInv
  <2>4. \/ reset' = reset
        \/ \E b \in BOOLEAN : reset' = [reset EXCEPT ![task[p].name] = b]
    BY <1>3, Zenon DEF MeasureReport
  <2>5. reset' \in [Agents -> BOOLEAN]
    BY <2>3, <2>4, ResetOnce
  <2>6. QED
    BY <2>1, <2>2, <2>5 DEF ServerInv, HistoryInv
<1>4. QED
  BY <1>1, <1>2, <1>3 DEF Handle

\* The collector keeps it.
LEMMA CollectKeeps ==
    ASSUME TypeInv, ServerInv, Collect PROVE ServerInv'
<1>0. /\ MetricsInv /\ collect \in Collects /\ Collector \in Updaters
      /\ received \in Nat /\ reset \in [Agents -> BOOLEAN]
  BY DEF ServerInv, HistoryInv, Updaters
<1>1. ASSUME collect' \in Collects, UNCHANGED measured, HistoryInv'
      PROVE  ServerInv'
  <2>1. MetricsInv'
    BY <1>0, <1>1 DEF MetricsInv, M!MetricsTypeOK, TaskOK, M!Busy, measured
  <2>2. QED
    BY <1>1, <2>1 DEF ServerInv
<1>a. ASSUME UNCHANGED history PROVE HistoryInv'
  BY <1>0, <1>a DEF HistoryInv, history
<1>2. CASE WakeUp
  <2> DEFINE s == [a \in Agents |-> known[a].stored]
             c == [Asleep EXCEPT !.pc = "fetch", !.stored = s]
  <2>1. s \in [Agents -> Nat]
    BY AgentNumbers
  <2>2. c \in Collects
    BY <2>1, AsleepType DEF Collects
  <2>3. QED
    BY <1>1, <1>a, <1>2, <2>2 DEF WakeUp
<1>3. CASE FetchTree
  <2>1. PICK s \in [Agents -> Nat] : collect' = [collect EXCEPT !.pc = "pods", !.seen = s]
    BY <1>3, LatestTypes, IdleTypes DEF FetchTree
  <2>2. collect' \in Collects
    BY <1>0, <2>1 DEF Collects
  <2>3. QED
    BY <1>1, <1>a, <1>3, <2>2 DEF FetchTree
<1>4. CASE FindAbsent
  <2>1. pods \subseteq Agents
    BY DEF TypeInv, TypeOK
  <2>2. PICK s \in SUBSET Agents :
           \/ collect' = [collect EXCEPT !.pc = "range", !.absent = s]
           \/ collect' = [collect EXCEPT !.pc = "range"]
    BY <1>4, <2>1 DEF FindAbsent
  <2>3. collect' \in Collects
    BY <1>0, <2>2 DEF Collects
  <2>4. QED
    BY <1>1, <1>a, <1>4, <2>3 DEF FindAbsent
<1>5. ASSUME NEW a \in Agents, VisitAbsent(a) PROVE ServerInv'
  <2>1. collect' \in Collects
    BY <1>0, <1>5 DEF VisitAbsent, Collects
  <2>2. CASE Uncounted(a)
    <3>1. /\ a \in DOMAIN metrics /\ M!BeginError(Collector, a)
          /\ UNCHANGED <<metrics, reports, errors, received>>
          /\ reset' = [reset EXCEPT ![a] = FALSE]
      BY <1>5, <2>2 DEF VisitAbsent, Uncounted
    <3>2. MetricsInv'
      BY <1>0, <3>1, BeginErrorInv
    <3>3. reset' \in [Agents -> BOOLEAN]
      BY <1>0, <3>1, ResetOnce
    <3>4. QED
      BY <1>0, <2>1, <3>1, <3>2, <3>3 DEF ServerInv, HistoryInv
  <2>3. CASE ~ Uncounted(a)
    BY <1>1, <1>a, <1>5, <2>1, <2>3 DEF VisitAbsent, measured, history
  <2>4. QED
    BY <2>2, <2>3
<1>6. CASE MeasureError
  <2>1. M!UpdateMetrics(Collector) /\ UNCHANGED <<collect, history>>
    BY <1>6 DEF MeasureError
  <2>2. QED
    BY <1>0, <1>a, <2>1, UpdateInv DEF ServerInv
<1>7. CASE FallAsleep
  BY <1>1, <1>a, <1>7, AsleepType DEF FallAsleep
<1>8. QED
  BY <1>2, <1>3, <1>4, <1>5, <1>6, <1>7 DEF Collect

\* Every step of the server keeps it.
LEMMA ServerInvKept ==
    ASSUME TypeInv, ServerInv, [ServerNext]_serverVars PROVE ServerInv'
<1>1. CASE Pass \/ Purge \/ Change
  BY <1>1, ServerStays DEF Pass, Purge, Change
<1>2. ASSUME NEW p \in Posters, NEW a \in Agents, NEW u \in Uptimes,
             ServeReport(p, a, u)
      PROVE  ServerInv'
  BY <1>2, ServerStays DEF ServeReport
<1>3. ASSUME NEW p \in Posters, NEW a \in Agents, ServeMalformed(p, a)
      PROVE  ServerInv'
  <2>1. /\ M!BeginReport(p, a, NoLabel) /\ received' = received + 1
        /\ UNCHANGED <<metrics, reports, errors, collect, reset>>
    BY <1>3 DEF ServeMalformed
  <2>2. MetricsInv'
    BY <2>1, LabelsAssumption, BeginReportInv DEF ServerInv, Updaters
  <2>3. QED
    BY <2>1, <2>2 DEF ServerInv, HistoryInv
<1>4. ASSUME NEW p \in Posters, Handle(p) PROVE ServerInv'
  BY <1>4, HandleInv
<1>5. ASSUME NEW r \in Readers, Read(r) PROVE ServerInv'
  BY <1>5, ServerStays DEF Read
<1>6. CASE Collect
  BY <1>6, CollectKeeps
<1>7. CASE Run
  BY <1>7, KeepOrLoseInv DEF Run
<1>8. CASE UNCHANGED serverVars
  BY <1>8, ServerStays DEF serverVars
<1>9. QED
  BY <1>1, <1>2, <1>3, <1>4, <1>5, <1>6, <1>7, <1>8 DEF ServerNext

LEMMA ServerInvInitially == ASSUME ServerInit PROVE ServerInv
  BY FreshMetrics, AsleepType DEF ServerInit, ServerInv, HistoryInv

\* The invariant holds, beside the types of the storage.
LEMMA ServerInvariance == ServerSpec => [](TypeInv /\ ServerInv)
<1>1. ServerInit => TypeInv /\ ServerInv
  BY TypesInitially, ServerInvInitially DEF ServerInit
<1>2. TypeInv /\ ServerInv /\ [ServerNext]_serverVars => TypeInv' /\ ServerInv'
  BY ServerStep, TypesKept, ServerInvKept
<1>3. QED
  BY <1>1, <1>2, PTL DEF ServerSpec

\* Every variable of storage, metrics and collector holds what its comment
\* says, whatever the constants.
THEOREM ServerTypeCorrect == ServerSpec => []ServerTypeOK
<1>1. TypeInv /\ ServerInv => ServerTypeOK
  BY DEF TypeInv, ServerInv, MetricsInv, HistoryInv, ServerTypeOK
<1>2. QED
  BY <1>1, ServerInvariance, PTL

\* Whoever is about to index the metrics finds an entry there.
EntriesAreThere == \A u \in Updaters : task[u].pc \in {"read", "write"} =>
                                            task[u].name \in DOMAIN metrics

\* No goroutine ever indexes the metrics for an agent that has no entry, although
\* none of them holds a lock: entries are lost only with the process.
THEOREM MetricsAlwaysThere == ServerSpec => []EntriesAreThere
<1>1. ServerInv => EntriesAreThere
  BY DEF ServerInv, MetricsInv, TaskOK, EntriesAreThere
<1>2. QED
  BY <1>1, ServerInvariance, PTL

-----------------------------------------------------------------------------
(* Counts.  A POST that has got through its storage is counted or still at    *)
(* its metrics.  The sum of the counters grows by one exactly when one of the *)
(* handlers has done with them; the collector counts errors and no reports.   *)

InMetrics == {p \in Posters : M!Busy(p)}

CountInv ==
    /\ \A p \in InMetrics : post[p].pc = "idle" /\ task[p].kind = "report"
    /\ M!Busy(Collector) => task[Collector].kind = "error"
    /\ IsFiniteSet(InMetrics)
    /\ SumOf(reports, Labels) + Cardinality(InMetrics) = received

\* Both summands are numbers.
LEMMA CountNumbers ==
    ASSUME ServerInv, CountInv
    PROVE  SumOf(reports, Labels) \in Nat /\ Cardinality(InMetrics) \in Nat
<1>1. reports \in [Labels -> Nat]
  BY DEF ServerInv, MetricsInv, M!MetricsTypeOK
<1> DEFINE f2 == [reports EXCEPT ![NoLabel] = @ + 1]
<1>2. f2 = [reports EXCEPT ![NoLabel] = @ + 1]
  OBVIOUS
<1> HIDE DEF f2
<1>3. SumOf(reports, Labels) \in Nat
  BY <1>1, <1>2, LabelsAssumption, SumGrows
<1>4. QED
  BY <1>3, FS_CardinalityType DEF CountInv

\* The count stays while no counter changes and nobody comes or goes.
LEMMA CountStays ==
    ASSUME CountInv, UNCHANGED <<reports, received>>,
           \A p \in Posters : task'[p] = task[p],
           M!Busy(Collector)' => task'[Collector].kind = "error",
           \A p \in InMetrics : post'[p] = post[p]
    PROVE  CountInv'
<1>1. InMetrics' = InMetrics
  BY DEF InMetrics, M!Busy
<1>2. \A p \in InMetrics : p \in Posters
  BY DEF InMetrics
<1>3. QED
  BY <1>1, <1>2 DEF CountInv

\* A POST gets through its storage.
LEMMA CountJoins ==
    ASSUME ServerInv, CountInv, NEW p \in Posters, ~ M!Busy(p),
           NEW a, NEW l, M!BeginReport(p, a, l),
           reports' = reports, received' = received + 1,
           post'[p].pc = "idle", \A q \in Posters \ {p} : post'[q] = post[q]
    PROVE  CountInv'
<1>1. /\ task \in [Updaters -> M!Tasks] /\ p \in Updaters
      /\ p # Collector /\ Collector \in Updaters
  BY CollectorAssumption DEF ServerInv, MetricsInv, M!MetricsTypeOK, Updaters
<1>2. /\ task'[p].pc = "new" /\ task'[p].kind = "report"
      /\ \A u \in Updaters \ {p} : task'[u] = task[u]
  BY <1>1 DEF M!BeginReport, M!IdleTask
<1>3. InMetrics' = InMetrics \cup {p} /\ p \notin InMetrics
  BY <1>2 DEF InMetrics, M!Busy, Updaters
<1>4. IsFiniteSet(InMetrics') /\ Cardinality(InMetrics') = Cardinality(InMetrics) + 1
  BY <1>3, FS_AddElement DEF CountInv
<1>5. SumOf(reports', Labels) + Cardinality(InMetrics') = received'
  BY <1>4, CountNumbers DEF CountInv
<1>6. \A q \in InMetrics' : post'[q].pc = "idle" /\ task'[q].kind = "report"
  BY <1>2, <1>3 DEF CountInv, InMetrics, Updaters
<1>7. M!Busy(Collector)' => task'[Collector].kind = "error"
  BY <1>1, <1>2 DEF CountInv, M!Busy
<1>8. QED
  BY <1>4, <1>5, <1>6, <1>7 DEF CountInv

\* A POST is counted, or it comes one step nearer to that.
LEMMA CountLeaves ==
    ASSUME ServerInv, CountInv, NEW p \in Posters, M!UpdateMetrics(p),
           UNCHANGED <<post, received>>
    PROVE  CountInv'
<1>1. /\ task \in [Updaters -> M!Tasks] /\ p \in Updaters /\ task[p] \in M!Tasks
      /\ p # Collector /\ Collector \in Updaters
      /\ reports \in [Labels -> Nat]
  BY CollectorAssumption DEF ServerInv, MetricsInv, M!MetricsTypeOK, Updaters
<1>2. p \in InMetrics /\ task[p].kind = "report"
  <2>1. M!Busy(p)
    BY DEF M!UpdateMetrics, M!NewAgentMetrics, M!ReadMetrics, M!WriteMetrics, M!Busy
  <2>2. QED
    BY <2>1 DEF InMetrics, CountInv
<1>3. \A u \in Updaters \ {p} : task'[u] = task[u]
  BY <1>1 DEF M!UpdateMetrics, M!NewAgentMetrics, M!ReadMetrics, M!WriteMetrics
<1>4. M!Busy(Collector)' => task'[Collector].kind = "error"
  BY <1>1, <1>3 DEF CountInv, M!Busy
<1>5. CASE M!NewAgentMetrics(p) \/ M!ReadMetrics(p)
  <2>1. UNCHANGED reports /\ task'[p].pc # "idle" /\ task'[p].kind = "report"
    <3>1. CASE M!NewAgentMetrics(p)
      BY <1>1, <1>2, <3>1 DEF M!NewAgentMetrics, M!Tasks
    <3>2. CASE M!ReadMetrics(p)
      <4> DEFINE t == [task[p] EXCEPT !.pc = "write",
                                       !.copy = metrics[task[p].name]]
      <4>1. task'[p] = t
        BY <1>1, <3>2 DEF M!ReadMetrics
      <4>2. t.pc = "write" /\ t.kind = task[p].kind
        BY <1>1 DEF M!Tasks
      <4>3. QED
        BY <1>2, <3>2, <4>1, <4>2 DEF M!ReadMetrics
    <3>3. QED
      BY <1>5, <3>1, <3>2
  <2>2. InMetrics' = InMetrics
    BY <1>2, <1>3, <2>1 DEF InMetrics, M!Busy, Updaters
  <2>3. \A q \in InMetrics : post'[q].pc = "idle" /\ task'[q].kind = "report"
    BY <1>3, <2>1 DEF CountInv, InMetrics, Updaters
  <2>4. QED
    BY <1>4, <2>1, <2>2, <2>3 DEF CountInv
<1>6. CASE M!WriteMetrics(p)
  <2> DEFINE l == task[p].copy.label
  <2>1. l \in Labels
    BY <1>1 DEF M!Tasks, M!Entries
  <2>2. reports' = [reports EXCEPT ![l] = @ + 1]
    BY <1>2, <1>6 DEF M!WriteMetrics, M!CountReport, M!CountError
  <2> HIDE DEF l
  <2>3. SumOf(reports', Labels) = SumOf(reports, Labels) + 1
    BY <1>1, <2>1, <2>2, LabelsAssumption, SumGrows
  <2>4. task'[p].pc = "idle"
    BY <1>1, <1>6 DEF M!WriteMetrics, M!IdleTask
  <2>5. InMetrics' = InMetrics \ {p}
    BY <1>3, <2>4 DEF InMetrics, M!Busy, Updaters
  <2>6. IsFiniteSet(InMetrics') /\ Cardinality(InMetrics') = Cardinality(InMetrics) - 1
    BY <1>2, <2>5, FS_RemoveElement DEF CountInv
  <2>7. SumOf(reports', Labels) + Cardinality(InMetrics') = received'
    BY <2>3, <2>6, CountNumbers DEF CountInv
  <2>8. \A q \in InMetrics' : post'[q].pc = "idle" /\ task'[q].kind = "report"
    BY <1>3, <2>5 DEF CountInv, InMetrics, Updaters
  <2>9. QED
    BY <1>4, <2>6, <2>7, <2>8 DEF CountInv
<1>7. QED
  BY <1>5, <1>6 DEF M!UpdateMetrics

\* The collector counts errors.
LEMMA CollectorCounts ==
    ASSUME ServerInv, CountInv, UNCHANGED <<post, received>>,
           \/ M!UpdateMetrics(Collector)
           \/ /\ reports' = reports
              /\ \/ UNCHANGED task
                 \/ \E a \in Agents : M!BeginError(Collector, a)
    PROVE  CountInv'
<1>1. /\ task \in [Updaters -> M!Tasks] /\ Collector \notin Posters
      /\ Collector \in Updaters /\ task[Collector] \in M!Tasks
  BY CollectorAssumption DEF ServerInv, MetricsInv, M!MetricsTypeOK, Updaters
<1> DEFINE Aside == /\ \A u \in Updaters \ {Collector} : task'[u] = task[u]
                    /\ \/ task'[Collector].pc = "idle"
                       \/ task'[Collector].kind = "error"
                    /\ UNCHANGED reports
<1>2. Aside
  <2>1. CASE UNCHANGED task /\ UNCHANGED reports
    BY <2>1 DEF CountInv, M!Busy
  <2>2. ASSUME NEW a \in Agents, M!BeginError(Collector, a), UNCHANGED reports
        PROVE  Aside
    BY <1>1, <2>2 DEF M!BeginError, M!IdleTask
  <2>3. CASE M!UpdateMetrics(Collector)
    <3>1. M!Busy(Collector)
      BY <2>3 DEF M!UpdateMetrics, M!NewAgentMetrics, M!ReadMetrics,
                  M!WriteMetrics, M!Busy
    <3>2. task[Collector].kind = "error"
      BY <3>1 DEF CountInv
    <3>3. CASE M!NewAgentMetrics(Collector)
      BY <1>1, <3>2, <3>3 DEF M!NewAgentMetrics, M!Tasks
    <3>4. CASE M!ReadMetrics(Collector)
      BY <1>1, <3>2, <3>4 DEF M!ReadMetrics, M!Tasks
    <3>5. CASE M!WriteMetrics(Collector)
      BY <1>1, <3>2, <3>5 DEF M!WriteMetrics, M!CountReport, M!CountError, M!IdleTask
    <3>6. QED
      BY <2>3, <3>3, <3>4, <3>5 DEF M!UpdateMetrics
  <2>4. QED
    BY <2>1, <2>2, <2>3
<1>3. \A p \in Posters : task'[p] = task[p]
  BY <1>1, <1>2 DEF Updaters
<1>4. QED
  BY <1>2, <1>3, CountStays DEF M!Busy

\* A new process has counted nothing.
LEMMA NothingCounted ==
    /\ reports = [l \in Labels |-> 0]
    /\ received = 0
    /\ task = [u \in Updaters |-> M!IdleTask]
    => CountInv
<1> SUFFICES ASSUME reports = [l \in Labels |-> 0], received = 0,
                    task = [u \in Updaters |-> M!IdleTask]
             PROVE  CountInv
  OBVIOUS
<1>1. \A u \in Updaters : ~ M!Busy(u)
  BY DEF M!Busy, M!IdleTask
<1>2. InMetrics = {} /\ ~ M!Busy(Collector)
  BY <1>1 DEF InMetrics, Updaters
<1>3. IsFiniteSet(InMetrics) /\ Cardinality(InMetrics) = 0
  BY <1>2, FS_EmptySet
<1>4. SumOf(reports, Labels) = 0
  BY LabelsAssumption, SumOfZeros
<1>5. QED
  BY <1>2, <1>3, <1>4 DEF CountInv

\* Counters and handlers survive or are lost together.
LEMMA KeepOrLoseCount ==
    ASSUME CountInv, KeepOrLose, up' => \A p \in InMetrics : post'[p] = post[p]
    PROVE  CountInv'
<1>1. CASE up'
  BY <1>1, CountStays DEF KeepOrLose, measured, history, CountInv, M!Busy
<1>2. CASE ~ up'
  <2>1. /\ reports' = [l \in Labels |-> 0] /\ received' = 0
        /\ task' = [u \in Updaters |-> M!IdleTask]
    BY <1>2 DEF KeepOrLose, Updaters
  <2>2. (/\ reports = [l \in Labels |-> 0]
         /\ received = 0
         /\ task = [u \in Updaters |-> M!IdleTask]
         => CountInv)'
    BY NothingCounted, PTL
  <2>3. QED
    BY <2>1, <2>2
<1>3. QED
  BY <1>1, <1>2

\* The storage's part of one POST leaves those of the others alone.
LEMMA OtherPosts ==
    ASSUME TypeInv, NEW p \in Posters,
           GetTree(p) \/ Unlink(p) \/ CreateTree(p) \/ RefreshTree(p), up'
    PROVE  \A q \in Posters \ {p} : post'[q] = post[q]
<1>1. ~ Exit
  BY DEF Exit
<1>2. GetTree(p) \/ Unlink(p) \/ CreateTree(p) \/ RefreshTree(p)
         => \E pc : Proceed(p, pc)
  BY <1>1 DEF GetTree, Unlink, CreateTree, RefreshTree
<1>3. QED
  BY <1>2 DEF Proceed, TypeInv, TypeOK

\* A POST keeps the count.
LEMMA HandleCount ==
    ASSUME TypeInv, ServerInv, CountInv, NEW p \in Posters, Handle(p)
    PROVE  CountInv'
<1>1. CASE DirectoryStep(p)
  <2>1. post[p].pc # "idle"
    BY <1>1 DEF DirectoryStep, GetTree, Unlink, CreateTree, RefreshTree
  <2>2. p \notin InMetrics /\ InMetrics \subseteq Posters
    BY <2>1 DEF CountInv, InMetrics
  <2>3. QED
    BY <1>1, <2>2, OtherPosts, KeepOrLoseCount DEF DirectoryStep
<1>2. CASE StoreThenMeasure(p)
  <2>1. /\ post[p].pc = "record" /\ post' = [post EXCEPT ![p] = IdlePost]
        /\ M!BeginReport(p, post[p].name, LabelOf[post[p].name])
        /\ reports' = reports /\ received' = received + 1
    BY <1>2 DEF StoreThenMeasure, StoreRecord
  <2>2. post'[p].pc = "idle" /\ \A q \in Posters \ {p} : post'[q] = post[q]
    BY <2>1 DEF IdlePost, TypeInv, TypeOK
  <2>3. ~ M!Busy(p)
    BY <2>1 DEF CountInv, InMetrics
  <2>4. QED
    BY <2>1, <2>2, <2>3, CountJoins
<1>3. CASE MeasureReport(p)
  BY <1>3, CountLeaves DEF MeasureReport, vars
<1>4. QED
  BY <1>1, <1>2, <1>3 DEF Handle

\* So does the collector.
LEMMA CollectCount == ASSUME ServerInv, CountInv, Collect PROVE CountInv'
<1>1. UNCHANGED post
  BY CollectLeavesStorage DEF vars
<1>2. CASE MeasureError
  BY <1>1, <1>2, CollectorCounts DEF MeasureError, history
<1>3. ASSUME NEW a \in Agents, VisitAbsent(a) PROVE CountInv'
  BY <1>1, <1>3, CollectorCounts DEF VisitAbsent
<1>4. CASE WakeUp \/ FetchTree \/ FindAbsent \/ FallAsleep
  BY <1>1, <1>4, CollectorCounts DEF WakeUp, FetchTree, FindAbsent, FallAsleep,
                                          measured, history
<1>5. QED
  BY <1>2, <1>3, <1>4 DEF Collect

\* Every step of the server keeps it.
LEMMA CountKept ==
    ASSUME TypeInv, ServerInv, CountInv, [ServerNext]_serverVars PROVE CountInv'
<1>1. ASSUME UNCHANGED <<measured, history, post>> PROVE CountInv'
  BY <1>1, CountStays DEF measured, history, CountInv, M!Busy
<1>2. CASE Pass \/ Purge \/ Change
  <2>1. UNCHANGED post
    BY <1>2 DEF Pass, Purge, Change, Tick, Expire, ExpireRecord, ExpireDirectory,
                PodStop
  <2>2. QED
    BY <1>1, <1>2, <2>1 DEF Pass, Purge, Change
<1>3. ASSUME NEW p \in Posters, NEW a \in Agents, NEW u \in Uptimes,
             ServeReport(p, a, u)
      PROVE  CountInv'
  <2>1. p \notin InMetrics /\ InMetrics \subseteq Posters
    BY <1>3 DEF ServeReport, CanServe, InMetrics
  <2>2. \A q \in Posters \ {p} : post'[q] = post[q]
    BY <1>3 DEF ServeReport, ReceiveReport, TypeInv, TypeOK
  <2>3. QED
    BY <1>3, <2>1, <2>2, CountStays DEF ServeReport, measured, history, CountInv,
                                        M!Busy
<1>4. ASSUME NEW p \in Posters, NEW a \in Agents, ServeMalformed(p, a)
      PROVE  CountInv'
  <2>1. /\ ~ M!Busy(p) /\ M!BeginReport(p, a, NoLabel)
        /\ reports' = reports /\ received' = received + 1
        /\ post[p].pc = "idle" /\ UNCHANGED post
    BY <1>4 DEF ServeMalformed, CanServe, vars
  <2>2. QED
    BY <2>1, CountJoins
<1>5. ASSUME NEW p \in Posters, Handle(p) PROVE CountInv'
  BY <1>5, HandleCount
<1>6. ASSUME NEW r \in Readers, Read(r) PROVE CountInv'
  <2>1. UNCHANGED post
    BY <1>6 DEF Read, Ask, Answer, Request, Fetch, Check, Close
  <2>2. QED
    BY <1>1, <1>6, <2>1 DEF Read
<1>7. CASE Collect
  BY <1>7, CollectCount
<1>8. CASE Run
  <2>1. up' => UNCHANGED post
    BY <1>8 DEF Run, Start, Crash, Exit
  <2>2. QED
    BY <1>8, <2>1, KeepOrLoseCount DEF Run
<1>9. CASE UNCHANGED serverVars
  BY <1>1, <1>9 DEF serverVars, vars
<1>10. QED
  BY <1>2, <1>3, <1>4, <1>5, <1>6, <1>7, <1>8, <1>9 DEF ServerNext

\* Every POST that the process has got through its storage, put or refused, is
\* counted once under some label or is just about to be, for any number of
\* concurrent handlers, which share entries and counters without a lock.
THEOREM EveryReportCounted == ServerSpec => []ReportsCounted
<1>1. ServerInit => CountInv
  BY NothingCounted DEF ServerInit, M!InitMetrics, Updaters
<1>2. TypeInv /\ ServerInv /\ CountInv /\ [ServerNext]_serverVars => CountInv'
  BY CountKept
<1>3. CountInv => ReportsCounted
  BY DEF CountInv, ReportsCounted, InMetrics, SumOf
<1>4. QED
  BY <1>1, <1>2, <1>3, ServerInvariance, PTL DEF ServerSpec

-----------------------------------------------------------------------------
(* Errors.  From the fetch of the tree to the counting of an error the       *)
(* collector goes by what it has seen: that is right as long as of an agent   *)
(* not seen every report that was stored when the collector woke up has lived *)
(* its time, and that an agent stays this way since time does not go back.    *)

\* Each report of a that was stored when the collector woke up has had its time.
Outlived(a) == collect.stored[a] # 0 => collect.stored[a] + TTL <= now

CollectInv ==
    /\ \A a \in Agents : collect.stored[a] <= known[a].stored
    /\ collect.pc = "pods" =>
          \A a \in Agents : collect.seen[a] = 0 => Outlived(a)
    /\ collect.pc # "range" => collect.absent = {} /\ ~ M!Busy(Collector)
    /\ \A a \in collect.absent : Outlived(a)
    /\ M!Busy(Collector) => Outlived(task[Collector].name)

\* While the collector does not move, nothing of this is lost.
LEMMA CollectWaits ==
    ASSUME AllInv, ServerInv, CollectInv, [Next]_vars,
           UNCHANGED collect, task'[Collector] = task[Collector]
    PROVE  CollectInv'
<1>1. /\ collect.stored \in [Agents -> Nat] /\ collect.absent \subseteq Agents
      /\ M!Busy(Collector) => task[Collector].name \in Agents
  BY DEF ServerInv, MetricsInv, TaskOK, Updaters, Collects
<1>2. ASSUME NEW a \in Agents
      PROVE  /\ collect'.stored[a] <= known'[a].stored
             /\ Outlived(a) => Outlived(a)'
  <2>1. /\ now \in Nat /\ TTL \in Nat /\ known[a].stored \in Nat
        /\ now <= now' /\ now' \in Nat
        /\ known[a].stored <= known'[a].stored /\ known'[a].stored \in Nat
    BY AgentNumbers, KnownGrows DEF AllInv
  <2>2. QED
    BY <1>1, <2>1 DEF CollectInv, Outlived
<1>3. M!Busy(Collector)' = M!Busy(Collector)
  BY DEF M!Busy
<1>4. collect.pc = "pods" => \A a \in Agents : collect.seen[a] = 0 => Outlived(a)'
  BY <1>2 DEF CollectInv
<1>5. \A a \in collect.absent : Outlived(a)'
  BY <1>1, <1>2 DEF CollectInv
<1>6. M!Busy(Collector) => Outlived(task[Collector].name)'
  <2>1. SUFFICES ASSUME M!Busy(Collector) PROVE Outlived(task[Collector].name)'
    OBVIOUS
  <2>2. PICK a \in Agents : a = task[Collector].name
    BY <1>1, <2>1
  <2>3. Outlived(a)' /\ task'[Collector].name = a
    BY <1>2, <2>1, <2>2 DEF CollectInv
  <2>4. QED
    BY <2>2, <2>3 DEF Outlived
<1>7. QED
  BY <1>2, <1>3, <1>4, <1>5, <1>6 DEF CollectInv, Outlived

\* Nothing is known of a collector that has not woken up.
LEMMA CollectSleeps ==
    ASSUME AllInv', collect' = Asleep, ~ M!Busy(Collector)'
    PROVE  CollectInv'
<1>1. \A a \in Agents : known'[a].stored \in Nat
  BY DEF AllInv, TypeInv, TypeOK, Knowledge
<1>2. /\ collect'.pc = "sleep" /\ collect'.absent = {}
      /\ \A a \in Agents : collect'.stored[a] = 0
  BY DEF Asleep, NothingSeen
<1>3. QED
  BY <1>1, <1>2 DEF CollectInv

LEMMA KeepOrLoseCollect ==
    ASSUME AllInv, AllInv', ServerInv, CollectInv, [Next]_vars, KeepOrLose
    PROVE  CollectInv'
<1>1. CASE up'
  BY <1>1, CollectWaits DEF KeepOrLose, measured
<1>2. CASE ~ up'
  <2>1. task'[Collector] = M!IdleTask
    BY <1>2 DEF KeepOrLose
  <2>2. ~ M!Busy(Collector)'
    BY <2>1 DEF M!Busy, M!IdleTask
  <2>3. QED
    BY <1>2, <2>2, CollectSleeps DEF KeepOrLose
<1>3. QED
  BY <1>1, <1>2

\* A task of another goroutine leaves the collector's alone.
LEMMA OthersTasks ==
    ASSUME ServerInv, NEW p \in Posters,
           \/ M!UpdateMetrics(p)
           \/ \E a \in Agents, l \in Labels : M!BeginReport(p, a, l)
    PROVE  task'[Collector] = task[Collector]
<1>1. p # Collector /\ task \in [Updaters -> M!Tasks] /\ Collector \in Updaters
  BY CollectorAssumption DEF ServerInv, MetricsInv, M!MetricsTypeOK, Updaters
<1>2. CASE M!UpdateMetrics(p)
  BY <1>1, <1>2 DEF M!UpdateMetrics, M!NewAgentMetrics, M!ReadMetrics, M!WriteMetrics
<1>3. ASSUME NEW a \in Agents, NEW l \in Labels, M!BeginReport(p, a, l)
      PROVE  task'[Collector] = task[Collector]
  BY <1>1, <1>3 DEF M!BeginReport
<1>4. QED
  BY <1>2, <1>3

\* An agent that is not there when the tree is fetched is silent: the latest of
\* its stored reports would otherwise still have a record with a positive uptime.
LEMMA UnseenIsOutlived ==
    ASSUME AllInv, ServerInv, CollectInv, NEW a \in Agents, Latest(a) = 0
    PROVE  Outlived(a)
<1>1. /\ now \in Nat /\ TTL \in Nat /\ TTL > 0 /\ known[a].stored \in Nat
      /\ \A x \in tree[a].records : x.uptime \in Uptimes /\ x.uptime \in Nat
      /\ collect.stored[a] \in Nat
      /\ collect.stored[a] <= known[a].stored
  BY AgentNumbers DEF AllInv, ServerInv, Collects, CollectInv
<1>2. \A x \in tree[a].records : x.uptime = 0
  BY <1>1, LatestIsMax
<1>3. ~ (known[a].stored # 0 /\ now < known[a].stored + TTL)
  BY <1>2 DEF AllInv, LatestInv, Stamped
<1>4. QED
  BY <1>1, <1>3 DEF Outlived

\* The collector's own steps.
LEMMA CollectSteps ==
    ASSUME AllInv, AllInv', ServerInv, CollectInv, Collect, "fetch" \notin Failing
    PROVE  CollectInv'
<1>0. /\ collect \in Collects /\ task \in [Updaters -> M!Tasks] /\ Collector \in Updaters
      /\ M!Busy(Collector) => task[Collector].name \in Agents
  BY DEF ServerInv, MetricsInv, M!MetricsTypeOK, TaskOK, Updaters
<1>1. UNCHANGED vars
  BY CollectLeavesStorage
<1>2. UNCHANGED <<now, known>>
  BY <1>1 DEF vars
<1>3. ASSUME UNCHANGED task
      PROVE  /\ M!Busy(Collector)' = M!Busy(Collector)
             /\ task'[Collector].name = task[Collector].name
  BY <1>3 DEF M!Busy
<1>4. CASE WakeUp
  <2> DEFINE s == [a \in Agents |-> known[a].stored]
  <2>1. collect' = [Asleep EXCEPT !.pc = "fetch", !.stored = s]
    BY <1>4 DEF WakeUp
  <2>2. collect'.pc = "fetch" /\ collect'.absent = {} /\ collect'.stored = s
    BY <2>1 DEF Asleep
  <2>3. ~ M!Busy(Collector) /\ UNCHANGED task
    BY <1>4 DEF WakeUp, CollectInv, measured
  <2>4. \A a \in Agents : known[a].stored \in Nat
    BY AgentNumbers DEF AllInv
  <2>5. \A a \in Agents : collect'.stored[a] <= known'[a].stored
    BY <1>2, <2>2, <2>4
  <2>6. QED
    BY <1>3, <2>2, <2>3, <2>5 DEF CollectInv
<1>5. CASE FetchTree
  <2>1. /\ collect' = [collect EXCEPT !.pc = "pods",
                                      !.seen = [a \in Agents |-> Latest(a)]]
        /\ UNCHANGED task /\ collect.pc = "fetch"
    BY <1>5 DEF FetchTree, measured
  <2>2. /\ collect'.pc = "pods" /\ collect'.absent = collect.absent
        /\ collect'.stored = collect.stored
        /\ \A a \in Agents : collect'.seen[a] = Latest(a)
    BY <1>0, <2>1 DEF Collects
  <2>3. \A a \in Agents : collect'.seen[a] = 0 => Outlived(a)'
    BY <1>2, <2>2, UnseenIsOutlived DEF Outlived
  <2>4. QED
    BY <1>2, <1>3, <2>1, <2>2, <2>3 DEF CollectInv
<1>6. CASE FindAbsent
  <2>1. pods \subseteq Agents
    BY DEF AllInv, TypeInv, TypeOK
  <2>2. /\ UNCHANGED task /\ collect.pc = "pods"
        /\ ~ M!Busy(Collector) /\ collect.absent = {}
    BY <1>6 DEF FindAbsent, measured, CollectInv
  <2>3. /\ collect'.pc = "range" /\ collect'.stored = collect.stored
        /\ \/ collect'.absent = {a \in pods : collect.seen[a] = 0}
           \/ collect'.absent = {}
    BY <1>0, <1>6, <2>2 DEF FindAbsent, Collects
  <2>4. \A a \in collect'.absent : Outlived(a)'
    BY <1>2, <2>1, <2>2, <2>3 DEF CollectInv, Outlived
  <2>5. QED
    BY <1>2, <1>3, <2>2, <2>3, <2>4 DEF CollectInv
<1>7. ASSUME NEW a \in Agents, VisitAbsent(a) PROVE CollectInv'
  <2>1. /\ collect' = [collect EXCEPT !.absent = @ \ {a}]
        /\ collect.pc = "range" /\ a \in collect.absent /\ ~ M!Busy(Collector)
        /\ UNCHANGED task \/ M!BeginError(Collector, a)
    BY <1>7 DEF VisitAbsent
  <2>2. /\ collect'.pc = "range" /\ collect'.stored = collect.stored
        /\ collect'.absent = collect.absent \ {a}
    BY <1>0, <2>1 DEF Collects
  <2>3. \A b \in collect.absent : Outlived(b)'
    BY <1>2, <2>2 DEF CollectInv, Outlived
  <2>4. M!Busy(Collector)' => Outlived(task[Collector].name)'
    <3>1. CASE UNCHANGED task
      BY <1>3, <2>1, <3>1
    <3>2. CASE M!BeginError(Collector, a)
      <4>1. task'[Collector].name = a
        BY <1>0, <3>2 DEF M!BeginError, M!IdleTask
      <4>2. QED
        BY <2>1, <2>3, <4>1 DEF Outlived
    <3>3. QED
      BY <2>1, <3>1, <3>2
  <2>5. QED
    BY <1>2, <2>2, <2>3, <2>4 DEF CollectInv
<1>8. CASE MeasureError
  <2>1. UNCHANGED collect /\ M!UpdateMetrics(Collector)
    BY <1>8 DEF MeasureError
  <2>2. M!Busy(Collector)
    BY <2>1 DEF M!UpdateMetrics, M!NewAgentMetrics, M!ReadMetrics, M!WriteMetrics, M!Busy
  <2>3. \/ task'[Collector].name = task[Collector].name
        \/ task'[Collector] = M!IdleTask
    <3>1. task[Collector] \in M!Tasks
      BY <1>0
    <3>2. QED
      BY <1>0, <2>1, <3>1 DEF M!UpdateMetrics, M!NewAgentMetrics, M!ReadMetrics,
                              M!WriteMetrics, M!Tasks
  <2>4. M!Busy(Collector)' => task'[Collector].name = task[Collector].name
    BY <2>3 DEF M!Busy, M!IdleTask
  <2>5. \A a \in collect.absent : Outlived(a)'
    BY <1>2, <2>1 DEF CollectInv, Outlived
  <2>6. Outlived(task[Collector].name)
    BY <2>2 DEF CollectInv
  <2>7. collect.pc = "range"
    BY <2>2 DEF CollectInv
  <2>8. QED
    BY <1>2, <2>1, <2>4, <2>5, <2>6, <2>7 DEF CollectInv, Outlived
<1>9. CASE FallAsleep
  BY <1>3, <1>9, CollectSleeps DEF FallAsleep, measured
<1>10. QED
  BY <1>4, <1>5, <1>6, <1>7, <1>8, <1>9 DEF Collect

\* All steps of the server.
LEMMA CollectInvKept ==
    ASSUME AllInv, AllInv', ServerInv, CollectInv, [ServerNext]_serverVars,
           "fetch" \notin Failing
    PROVE  CollectInv'
<1>0. [Next]_vars
  BY ServerStep
<1>1. CASE Pass \/ Purge \/ Change
  BY <1>0, <1>1, CollectWaits DEF Pass, Purge, Change, measured
<1>2. ASSUME NEW p \in Posters, NEW a \in Agents, NEW u \in Uptimes,
             ServeReport(p, a, u)
      PROVE  CollectInv'
  BY <1>0, <1>2, CollectWaits DEF ServeReport, measured
<1>3. ASSUME NEW p \in Posters, NEW a \in Agents, ServeMalformed(p, a)
      PROVE  CollectInv'
  <2>1. task'[Collector] = task[Collector]
    BY <1>3, OthersTasks, LabelsAssumption DEF ServeMalformed
  <2>2. QED
    BY <1>0, <1>3, <2>1, CollectWaits DEF ServeMalformed
<1>4. ASSUME NEW p \in Posters, Handle(p) PROVE CollectInv'
  <2>1. CASE DirectoryStep(p)
    BY <1>0, <2>1, KeepOrLoseCollect DEF DirectoryStep
  <2>2. CASE StoreThenMeasure(p)
    <3>1. PICK a \in Agents : a = post[p].name
      BY <2>2, WorkingNode DEF StoreThenMeasure, StoreRecord, AllInv
    <3>2. M!BeginReport(p, a, LabelOf[a]) /\ UNCHANGED collect /\ LabelOf[a] \in Labels
      BY <2>2, <3>1, LabelOfAssumption DEF StoreThenMeasure
    <3>3. QED
      BY <1>0, <3>2, OthersTasks, CollectWaits
  <2>3. CASE MeasureReport(p)
    BY <1>0, <2>3, OthersTasks, CollectWaits DEF MeasureReport
  <2>4. QED
    BY <1>4, <2>1, <2>2, <2>3 DEF Handle
<1>5. ASSUME NEW r \in Readers, Read(r) PROVE CollectInv'
  BY <1>0, <1>5, CollectWaits DEF Read, measured
<1>6. CASE Collect
  BY <1>6, CollectSteps
<1>7. CASE Run
  BY <1>0, <1>7, KeepOrLoseCollect DEF Run
<1>8. CASE UNCHANGED serverVars
  BY <1>0, <1>8, CollectWaits DEF serverVars, measured
<1>9. QED
  BY <1>1, <1>2, <1>3, <1>4, <1>5, <1>6, <1>7, <1>8 DEF ServerNext

LEMMA CollectInvInitially == ASSUME ServerInit PROVE CollectInv
<1>1. /\ collect.pc = "sleep" /\ collect.absent = {}
      /\ \A a \in Agents : collect.stored[a] = 0 /\ known[a].stored = 0
  BY DEF ServerInit, Asleep, NothingSeen, Init, NothingKnown
<1>2. ~ M!Busy(Collector)
  BY DEF ServerInit, M!InitMetrics, M!Busy, M!IdleTask
<1>3. QED
  BY <1>1, <1>2 DEF CollectInv

\* The collector counts an error only for an agent of whose reports that were
\* stored when it woke up none is within its time to live, whichever handlers
\* write, refresh and restart while it collects, as long as the tree can be
\* fetched and the directories can be refreshed.
THEOREM ErrorIsExpired ==
    ASSUME "refresh" \notin Failing, "fetch" \notin Failing
    PROVE  ServerSpec => []ErrorMeansExpired
<1> DEFINE Inv == AllInv /\ ServerInv /\ CollectInv
<1>1. ServerInit => Inv
  BY TypesInitially, LifeInitially, HonestInitially, LatestInitially,
     ServerInvInitially, CollectInvInitially DEF AllInv, ServerInit
<1>2. Inv /\ [ServerNext]_serverVars => Inv'
  <2> SUFFICES ASSUME Inv, [ServerNext]_serverVars PROVE Inv'
    OBVIOUS
  <2>1. AllInv'
    BY ServerStep, AllInductive
  <2>2. ServerInv' /\ CollectInv'
    BY <2>1, ServerInvKept, CollectInvKept DEF AllInv
  <2>3. QED
    BY <2>1, <2>2
<1>3. Inv => ErrorMeansExpired
  BY DEF CollectInv, Outlived, ErrorMeansExpired
<1>4. QED
  BY <1>1, <1>2, <1>3, PTL DEF ServerSpec

===============================================================================
