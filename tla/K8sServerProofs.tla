--------------------------- MODULE K8sServerProofs ---------------------------
(* Theorems about the whole server in Kubernetes mode, for any agents,       *)
(* handlers, labels, bounds and failures.                                    *)
EXTENDS K8sServer, K8sHistoryProofs, OperatorProofs

------------------------------------------------------------------------------
(* The server runs the storage.                                              *)

\* What the collector does leaves the storage alone.
LEMMA CollectLeavesStorage == ASSUME Collect PROVE UNCHANGED vars
  BY DEF Collect, WakeUp, Visit, FindMetrics, ReadAge, ReadInterval, Compare,
         MeasureError, FallAsleep

\* A step of a POST handler is a step of the storage's part, or leaves it alone.
LEMMA HandleStep ==
    ASSUME NEW p \in Posters, Handle(p) PROVE Post(p) \/ UNCHANGED vars
<1>1. CASE StorageStep(p)
  BY <1>1 DEF StorageStep, Post
<1>2. CASE StoreThenMeasure(p)
  BY <1>2 DEF StoreThenMeasure, Post
<1>3. CASE MeasureReport(p)
  BY <1>3 DEF MeasureReport
<1>4. QED
  BY <1>1, <1>2, <1>3 DEF Handle

\* Every step of the server is a step of the storage or leaves it alone.
LEMMA ServerStep == ASSUME [ServerNext]_serverVars PROVE [Next]_vars
<1>1. CASE OutsideWorld
  BY <1>1 DEF OutsideWorld, Next
<1>2. ASSUME NEW p \in Posters, NEW a \in Agents, NEW i \in Intervals,
             ServeReport(p, a, i)
      PROVE  Next
  BY <1>2 DEF ServeReport, Post, Next
<1>3. ASSUME NEW p \in Posters, NEW a \in Agents, ServeMalformed(p, a)
      PROVE  UNCHANGED vars
  BY <1>3 DEF ServeMalformed
<1>4. ASSUME NEW p \in Posters, Handle(p) PROVE [Next]_vars
  BY <1>4, HandleStep DEF Next
<1>5. ASSUME NEW r \in Readers, Read(r) PROVE Next
  BY <1>5 DEF Read, Next
<1>6. CASE Collect
  BY <1>6, CollectLeavesStorage
<1>7. CASE Restart
  BY <1>7 DEF Restart, Next
<1>8. CASE UNCHANGED serverVars
  BY <1>8 DEF serverVars
<1>9. QED
  BY <1>1, <1>2, <1>3, <1>4, <1>5, <1>6, <1>7, <1>8 DEF ServerNext

\* Metrics and collector never disturb the storage: a behaviour of the server is
\* one of the storage under its handlers, and what is proved of that one holds.
THEOREM ServerRunsStorage == ServerSpec => Spec
<1>1. ServerInit => Init
  BY DEF ServerInit
<1>2. [ServerNext]_serverVars => [Next]_vars
  BY ServerStep
<1>3. QED
  BY <1>1, <1>2, PTL DEF ServerSpec, Spec

------------------------------------------------------------------------------
(* Types of the metrics, and that entries are there.  An entry is used some    *)
(* steps after it was found or made; what is needed in between is that the map *)
(* never loses one.                                                            *)

Updaters == Posters \cup {Collector}

\* A goroutine that is updating the metrics of an agent has that agent's name
\* and, past the making of the entry, that entry.
TaskOK(u) ==
    /\ M!Busy(u) => task[u].name \in Agents
    /\ task[u].pc \in {"read", "write"} => task[u].name \in DOMAIN metrics

MetricsInv == M!MetricsTypeOK /\ \A u \in Updaters : TaskOK(u)

\* The agent that the collector is busy with has an entry.
CollectOK ==
    /\ collect.pc = "found" => collect.name \in Agents
    /\ collect.pc \in {"age", "interval", "compare", "count"} =>
           collect.name \in Agents /\ collect.name \in DOMAIN metrics

HistoryTypes == /\ received \in Nat
                /\ malformed \in Nat
                /\ answered \in [Agents -> 0..MaxTime]
                /\ sinceLast \in [Agents -> Nat]

ServerInv == /\ MetricsInv
             /\ collect \in Collects
             /\ CollectOK
             /\ HistoryTypes

\* The idle records have their types.
LEMMA IdleMetricsTypes == M!NoEntry \in M!Entries /\ M!IdleTask \in M!Tasks
  BY LabelsAssumption DEF M!NoEntry, M!Entries, M!IdleTask, M!Tasks

\* Putting an entry keeps the others.
LEMMA SetEntry ==
    ASSUME M!MetricsTypeOK, NEW a \in Agents, NEW e \in M!Entries, M!Set(a, e)
    PROVE  /\ DOMAIN metrics' = DOMAIN metrics \cup {a}
           /\ DOMAIN metrics' \subseteq Agents
           /\ metrics' \in [DOMAIN metrics' -> M!Entries]
  BY DEF M!MetricsTypeOK, M!Set

\* One task changes, the map may grow: the tasks of the others stay right.
LEMMA OneTask ==
    ASSUME MetricsInv, NEW u \in Updaters, NEW t \in M!Tasks,
           task' = [task EXCEPT ![u] = t],
           DOMAIN metrics \subseteq DOMAIN metrics',
           DOMAIN metrics' \subseteq Agents,
           metrics' \in [DOMAIN metrics' -> M!Entries],
           reports' \in [Labels -> Nat], errors' \in [Labels -> Nat],
           t.pc # "idle" => t.name \in Agents,
           t.pc \in {"read", "write"} => t.name \in DOMAIN metrics'
    PROVE  MetricsInv'
<1>1. task \in [Updaters -> M!Tasks]
  BY DEF MetricsInv, M!MetricsTypeOK, Updaters
<1>2. task' \in [Updaters -> M!Tasks] /\ task'[u] = t
  BY <1>1
<1>3. \A v \in Updaters \ {u} : task'[v] = task[v]
  BY <1>1
<1>4. M!MetricsTypeOK'
  BY <1>2 DEF M!MetricsTypeOK, Updaters
<1>5. ASSUME NEW v \in Updaters PROVE TaskOK(v)'
  BY <1>2, <1>3 DEF MetricsInv, TaskOK, M!Busy
<1>6. QED
  BY <1>4, <1>5 DEF MetricsInv

\* Beginning to count a report keeps the metrics right.
LEMMA BeginReportInv ==
    ASSUME MetricsInv, NEW u \in Updaters, NEW a \in Agents, NEW l \in Labels,
           M!BeginReport(u, a, l), UNCHANGED <<metrics, reports, errors>>
    PROVE  MetricsInv'
<1> DEFINE t == [M!IdleTask EXCEPT !.pc = "new", !.name = a, !.label = l]
<1>1. t \in M!Tasks /\ t.pc = "new" /\ t.name = a
  BY IdleMetricsTypes DEF M!IdleTask, M!Tasks
<1>2. task' = [task EXCEPT ![u] = t]
  BY DEF M!BeginReport
<1> HIDE DEF t
<1>3. QED
  BY <1>1, <1>2, OneTask DEF MetricsInv, M!MetricsTypeOK

\* So does beginning to count an error for an agent that has an entry.
LEMMA BeginErrorInv ==
    ASSUME MetricsInv, NEW u \in Updaters, NEW a \in Agents, a \in DOMAIN metrics,
           M!BeginError(u, a), UNCHANGED <<metrics, reports, errors>>
    PROVE  MetricsInv'
<1> DEFINE t == [M!IdleTask EXCEPT !.pc = "read", !.name = a, !.kind = "error"]
<1>1. t \in M!Tasks /\ t.pc = "read" /\ t.name = a
  BY IdleMetricsTypes DEF M!IdleTask, M!Tasks
<1>2. task' = [task EXCEPT ![u] = t]
  BY DEF M!BeginError
<1> HIDE DEF t
<1>3. QED
  BY <1>1, <1>2, OneTask DEF MetricsInv, M!MetricsTypeOK

\* Each step of an update keeps the metrics right and loses no entry.
LEMMA UpdateInv ==
    ASSUME MetricsInv, NEW u \in Updaters, M!UpdateMetrics(u)
    PROVE  MetricsInv' /\ DOMAIN metrics \subseteq DOMAIN metrics'
<1>1. /\ task \in [Updaters -> M!Tasks] /\ task[u] \in M!Tasks
      /\ metrics \in [DOMAIN metrics -> M!Entries]
      /\ DOMAIN metrics \subseteq Agents
      /\ reports \in [Labels -> Nat] /\ errors \in [Labels -> Nat]
  BY DEF MetricsInv, M!MetricsTypeOK, Updaters
<1>2. /\ task[u].pc # "idle" => task[u].name \in Agents
      /\ task[u].pc \in {"read", "write"} => task[u].name \in DOMAIN metrics
  BY DEF MetricsInv, TaskOK, M!Busy
<1>3. CASE M!NewAgentMetrics(u)
  <2> DEFINE t == [task[u] EXCEPT !.pc = "read"]
             e == [label |-> task[u].label, errors |-> 0]
  <2>1. t \in M!Tasks /\ t.pc = "read" /\ t.name = task[u].name
    BY <1>1 DEF M!Tasks
  <2>2. task[u].name \in Agents
    BY <1>2, <1>3 DEF M!NewAgentMetrics
  <2>3. e \in M!Entries
    BY <1>1 DEF M!Tasks, M!Entries
  <2>4. task' = [task EXCEPT ![u] = t]
    BY <1>3 DEF M!NewAgentMetrics
  <2>5. M!Set(task[u].name, e) /\ UNCHANGED <<reports, errors>>
    BY <1>3 DEF M!NewAgentMetrics
  <2> HIDE DEF t, e
  <2>6. /\ DOMAIN metrics' = DOMAIN metrics \cup {task[u].name}
        /\ DOMAIN metrics' \subseteq Agents
        /\ metrics' \in [DOMAIN metrics' -> M!Entries]
    BY <2>2, <2>3, <2>5, SetEntry DEF MetricsInv
  <2>7. QED
    BY <1>1, <2>1, <2>2, <2>4, <2>5, <2>6, OneTask
<1>4. CASE M!ReadMetrics(u)
  <2> DEFINE t == [task[u] EXCEPT !.pc = "write", !.copy = metrics[task[u].name]]
  <2>1. task[u].name \in DOMAIN metrics /\ task[u].name \in Agents
    BY <1>1, <1>2, <1>4 DEF M!ReadMetrics
  <2>2. metrics[task[u].name] \in M!Entries
    BY <1>1, <2>1
  <2>3. t \in M!Tasks /\ t.pc = "write" /\ t.name = task[u].name
    BY <1>1, <2>2 DEF M!Tasks
  <2>4. task' = [task EXCEPT ![u] = t] /\ UNCHANGED <<metrics, reports, errors>>
    BY <1>1, <1>4 DEF M!ReadMetrics
  <2> HIDE DEF t
  <2>5. QED
    BY <1>1, <2>1, <2>3, <2>4, OneTask
<1>5. CASE M!WriteMetrics(u)
  <2>1. task[u].name \in Agents /\ task[u].copy \in M!Entries
    BY <1>1, <1>2, <1>5 DEF M!WriteMetrics, M!Tasks
  <2>2. task[u].copy.label \in Labels /\ task[u].copy.errors \in Nat
    BY <2>1 DEF M!Entries
  <2>3. task' = [task EXCEPT ![u] = M!IdleTask] /\ M!IdleTask.pc = "idle"
    BY <1>5 DEF M!WriteMetrics, M!IdleTask
  <2>4. PICK e \in M!Entries : /\ M!Set(task[u].name, e)
                               /\ reports' \in [Labels -> Nat]
                               /\ errors' \in [Labels -> Nat]
    <3>1. CASE M!CountReport(u)
      <4>1. [task[u].copy EXCEPT !.errors = 0] \in M!Entries
        BY <2>1 DEF M!Entries
      <4>2. reports' \in [Labels -> Nat] /\ errors' \in [Labels -> Nat]
        BY <1>1, <2>2, <3>1 DEF M!CountReport
      <4>3. QED
        BY <3>1, <4>1, <4>2 DEF M!CountReport
    <3>2. CASE M!CountError(u)
      <4>1. [task[u].copy EXCEPT !.errors = @ + 1] \in M!Entries
        BY <2>1 DEF M!Entries
      <4>2. reports' \in [Labels -> Nat] /\ errors' \in [Labels -> Nat]
        BY <1>1, <2>2, <3>2 DEF M!CountError
      <4>3. QED
        BY <3>2, <4>1, <4>2 DEF M!CountError
    <3>3. QED
      BY <1>5, <3>1, <3>2 DEF M!WriteMetrics
  <2>5. /\ DOMAIN metrics' = DOMAIN metrics \cup {task[u].name}
        /\ DOMAIN metrics' \subseteq Agents
        /\ metrics' \in [DOMAIN metrics' -> M!Entries]
    BY <2>1, <2>4, SetEntry DEF MetricsInv
  <2>6. QED
    BY <2>3, <2>4, <2>5, IdleMetricsTypes, OneTask
<1>6. QED
  BY <1>3, <1>4, <1>5 DEF M!UpdateMetrics

------------------------------------------------------------------------------
(* The steps of the server keep the invariant.                               *)

\* The fields of the collector's record keep their types one by one.
LEMMA CollectFields ==
    ASSUME NEW c \in Collects
    PROVE  /\ \A v \in CollectPcs : [c EXCEPT !.pc = v] \in Collects
           /\ \A v \in Agents \cup {NoAgent} : [c EXCEPT !.name = v] \in Collects
           /\ \A v \in SUBSET Agents : [c EXCEPT !.start = v] \in Collects
           /\ \A v \in SUBSET Agents : [c EXCEPT !.visited = v] \in Collects
           /\ \A v \in Int : [c EXCEPT !.age = v] \in Collects
           /\ \A v \in Nat : [c EXCEPT !.every = v] \in Collects
           /\ \A v \in 0..MaxTime : [c EXCEPT !.at = v] \in Collects
           /\ \A v \in 0..MaxTime : [c EXCEPT !.heard = v] \in Collects
  BY DEF Collects

\* The collector's record between two turns has its type.
LEMMA AsleepType == Asleep \in Collects /\ Asleep.pc = "sleep"
<1>1. 0 \in 0..MaxTime
  BY BoundsAssumption
<1>2. QED
  BY <1>1 DEF Asleep, Collects, CollectPcs

\* What only storage steps change leaves the metrics' part of the invariant.
LEMMA MetricsStay ==
    ASSUME MetricsInv, UNCHANGED <<metrics, reports, errors, task>>
    PROVE  MetricsInv'
  BY DEF MetricsInv, M!MetricsTypeOK, TaskOK, M!Busy

\* A collector that does not move stays right while entries are only added.
LEMMA CollectStays ==
    ASSUME CollectOK, DOMAIN metrics \subseteq DOMAIN metrics',
           collect'.pc = collect.pc, collect'.name = collect.name
    PROVE  CollectOK'
  BY DEF CollectOK

\* A purge of the cache leaves the collector's record its type.
LEMMA ForgetTypes ==
    ASSUME collect \in Collects, ForgetDeleted
    PROVE  /\ collect' \in Collects
           /\ collect'.pc = collect.pc /\ collect'.name = collect.name
<1> DEFINE c1 == [collect EXCEPT !.start = collect.start \cap DOMAIN cache']
           c2 == [c1 EXCEPT !.visited = c1.visited \cap DOMAIN cache']
<1>1. collect.start \in SUBSET Agents /\ collect.visited \in SUBSET Agents
  BY DEF Collects
<1>2. collect' = c2
  BY DEF ForgetDeleted, Collects
<1>3. c1 \in Collects /\ c1.visited = collect.visited
  BY <1>1, CollectFields DEF Collects
<1>4. c1.pc = collect.pc /\ c1.name = collect.name
  BY DEF Collects
<1> HIDE DEF c1
<1>5. c2 \in Collects /\ c2.pc = c1.pc /\ c2.name = c1.name
  BY <1>1, <1>3, CollectFields DEF Collects
<1>6. QED
  BY <1>2, <1>4, <1>5

\* A POST keeps the invariant.
LEMMA HandleInv ==
    ASSUME TypeInv, ServerInv, NEW p \in Posters, Handle(p) PROVE ServerInv'
<1>0. /\ MetricsInv /\ collect \in Collects /\ CollectOK /\ HistoryTypes
      /\ p \in Updaters
  BY DEF ServerInv, Updaters
<1>1. CASE StorageStep(p)
  <2>1. ForgetDeleted /\ UNCHANGED <<metrics, reports, errors, task, history>>
    BY <1>1 DEF StorageStep
  <2>2. MetricsInv' /\ HistoryTypes'
    BY <1>0, <2>1, MetricsStay DEF HistoryTypes, history
  <2>3. collect' \in Collects /\ CollectOK'
    BY <1>0, <2>1, ForgetTypes, CollectStays
  <2>4. QED
    BY <2>2, <2>3 DEF ServerInv
<1>2. CASE StoreThenMeasure(p)
  <2>1. post[p].pc = "cache"
    BY <1>2 DEF StoreThenMeasure, CacheReport, Return
  <2>2. PICK a \in Agents : a = post[p].name
    BY <2>1 DEF TypeInv, Named, Working
  <2>3. LabelOf[a] \in Labels
    BY LabelOfAssumption
  <2>4. /\ M!BeginReport(p, a, LabelOf[a])
        /\ UNCHANGED <<metrics, reports, errors>>
        /\ UNCHANGED <<collect, malformed>>
        /\ received' = received + 1
        /\ answered' = [answered EXCEPT ![a] = post[p].data.at]
        /\ sinceLast' = [sinceLast EXCEPT ![a] = 0]
    BY <1>2, <2>2 DEF StoreThenMeasure
  <2>5. MetricsInv'
    BY <1>0, <2>3, <2>4, BeginReportInv
  <2>6. post[p].data.at \in 0..MaxTime
    <3>1. post[p].data \in AgentSpecs
      BY <2>1 DEF TypeInv, Named, Working
    <3>2. post[p].data.at \in 1..MaxTime
      BY <3>1 DEF AgentSpecs
    <3>3. QED
      BY <3>2, BoundsAssumption
  <2>7. HistoryTypes'
    BY <1>0, <2>4, <2>6 DEF HistoryTypes
  <2>8. collect' \in Collects /\ CollectOK'
    BY <1>0, <2>4, CollectStays
  <2>9. QED
    BY <2>5, <2>7, <2>8 DEF ServerInv
<1>3. CASE MeasureReport(p)
  <2>1. M!UpdateMetrics(p) /\ UNCHANGED <<collect, history>>
    BY <1>3 DEF MeasureReport
  <2>2. MetricsInv' /\ DOMAIN metrics \subseteq DOMAIN metrics'
    BY <1>0, <2>1, UpdateInv
  <2>3. HistoryTypes'
    BY <1>0, <2>1 DEF HistoryTypes, history
  <2>4. collect' \in Collects /\ CollectOK'
    BY <1>0, <2>1, <2>2, CollectStays
  <2>5. QED
    BY <2>2, <2>3, <2>4 DEF ServerInv
<1>4. QED
  BY <1>1, <1>2, <1>3 DEF Handle

\* What the index of the cache yields has numbers in it.
LEMMA LookupTypes ==
    ASSUME TypeInv, NEW a
    PROVE  Lookup(a).at \in Int /\ Lookup(a).interval \in Nat
<1>1. Lookup(a) \in Specs
  BY IdleTypes DEF Lookup, TypeInv, TypeOK
<1>2. CASE Lookup(a) = ZeroSpec
  BY <1>2 DEF ZeroSpec
<1>3. CASE Lookup(a) \in AgentSpecs
  <2>1. Lookup(a).interval \in Nat
    BY <1>3, IntervalsAssumption DEF AgentSpecs
  <2>2. QED
    BY <1>3, <2>1, SpecNumbers
<1>4. QED
  BY <1>1, <1>2, <1>3 DEF Specs

\* A turn of the collector keeps the invariant.
LEMMA CollectInv == ASSUME TypeInv, ServerInv, Collect PROVE ServerInv'
<1>0. /\ MetricsInv /\ collect \in Collects /\ CollectOK /\ HistoryTypes
      /\ Collector \in Updaters /\ DOMAIN cache \subseteq Agents
      /\ now \in 0..MaxTime
  BY DEF ServerInv, Updaters, TypeInv, TypeOK
<1>1. ASSUME UNCHANGED <<metrics, reports, errors, task, history>>,
             collect' \in Collects, CollectOK'
      PROVE  ServerInv'
  BY <1>0, <1>1, MetricsStay DEF ServerInv, HistoryTypes, history
<1>2. CASE WakeUp
  <2> DEFINE c1 == [Asleep EXCEPT !.pc = "range"]
             c2 == [c1 EXCEPT !.start = DOMAIN cache]
  <2>1. collect' = c2 /\ UNCHANGED <<metrics, reports, errors, task, history>>
    BY <1>2 DEF WakeUp, Asleep
  <2>2. c1 \in Collects /\ c1.pc = "range"
    BY AsleepType, CollectFields DEF CollectPcs, Collects
  <2> HIDE DEF c1
  <2>3. c2 \in Collects /\ c2.pc = "range"
    BY <1>0, <2>2, CollectFields DEF Collects
  <2>4. QED
    BY <1>1, <2>1, <2>3 DEF CollectOK
<1>3. ASSUME NEW a \in Agents, Visit(a) PROVE ServerInv'
  <2> DEFINE c1 == [collect EXCEPT !.pc = "found"]
             c2 == [c1 EXCEPT !.name = a]
             c3 == [c2 EXCEPT !.visited = collect.visited \cup {a}]
  <2>1. collect' = c3 /\ UNCHANGED <<metrics, reports, errors, task, history>>
    BY <1>3 DEF Visit
  <2>2. collect.visited \cup {a} \in SUBSET Agents
    BY <1>0 DEF Collects
  <2>3. c1 \in Collects /\ c1.pc = "found"
    <3>1. c1 \in Collects
      BY <1>0, CollectFields DEF CollectPcs
    <3>2. QED
      BY <1>0, <3>1 DEF Collects
  <2> HIDE DEF c1
  <2>4. c2 \in Collects /\ c2.name = a /\ c2.pc = "found"
    BY <2>3, CollectFields DEF Collects
  <2> HIDE DEF c2
  <2>5. c3 \in Collects /\ c3.name = a /\ c3.pc = "found"
    BY <2>2, <2>4, CollectFields DEF Collects
  <2>6. CollectOK'
    BY <2>1, <2>5 DEF CollectOK
  <2>7. QED
    BY <1>1, <2>1, <2>5, <2>6
<1>31. CASE FindMetrics
  <2> DEFINE pc == IF collect.name \in DOMAIN metrics THEN "age" ELSE "range"
             c1 == [collect EXCEPT !.pc = pc]
  <2>1. collect' = c1 /\ UNCHANGED <<metrics, reports, errors, task, history>>
    BY <1>31 DEF FindMetrics
  <2>2. pc \in CollectPcs
    BY DEF CollectPcs
  <2>3. c1 \in Collects /\ c1.name = collect.name /\ c1.pc = pc
    BY <1>0, <2>2, CollectFields DEF Collects
  <2>4. collect.name \in Agents
    BY <1>0, <1>31 DEF FindMetrics, CollectOK
  <2>5. CollectOK'
    BY <2>1, <2>3, <2>4 DEF CollectOK
  <2>6. QED
    BY <1>1, <2>1, <2>3, <2>5
<1>4. CASE ReadAge
  <2> DEFINE age == Age(Lookup(collect.name))
             c1 == [collect EXCEPT !.pc = "interval"]
             c2 == [c1 EXCEPT !.at = now]
             c3 == [c2 EXCEPT !.age = age]
             c4 == [c3 EXCEPT !.heard = answered[collect.name]]
  <2>1. collect' = c4 /\ UNCHANGED <<metrics, reports, errors, task, history>>
    BY <1>4 DEF ReadAge
  <2>2. collect.name \in Agents /\ collect.name \in DOMAIN metrics
    BY <1>0, <1>4 DEF ReadAge, CollectOK
  <2>3. answered[collect.name] \in 0..MaxTime
    BY <1>0, <2>2 DEF HistoryTypes
  <2>4. age \in Int
    <3>1. Lookup(collect.name).at \in Int
      BY LookupTypes
    <3>2. now \in Int
      BY <1>0
    <3>3. QED
      BY <3>1, <3>2 DEF Age, Saturated
  <2> HIDE DEF age
  <2>5. c1 \in Collects /\ c1.pc = "interval" /\ c1.name = collect.name
    <3>1. c1 \in Collects
      BY <1>0, CollectFields DEF CollectPcs
    <3>2. QED
      BY <1>0, <3>1 DEF Collects
  <2> HIDE DEF c1
  <2>6. c2 \in Collects /\ c2.pc = "interval" /\ c2.name = collect.name
    BY <1>0, <2>5, CollectFields DEF Collects
  <2> HIDE DEF c2
  <2>7. c3 \in Collects /\ c3.pc = "interval" /\ c3.name = collect.name
    BY <2>4, <2>6, CollectFields DEF Collects
  <2> HIDE DEF c3
  <2>8. c4 \in Collects /\ c4.pc = "interval" /\ c4.name = collect.name
    BY <2>3, <2>7, CollectFields DEF Collects
  <2>9. CollectOK'
    BY <2>1, <2>2, <2>8 DEF CollectOK
  <2>10. QED
    BY <1>1, <2>1, <2>8, <2>9
<1>41. CASE ReadInterval
  <2> DEFINE every == Lookup(collect.name).interval
             c1 == [collect EXCEPT !.pc = "compare"]
             c2 == [c1 EXCEPT !.every = every]
  <2>1. collect' = c2 /\ UNCHANGED <<metrics, reports, errors, task, history>>
    BY <1>41 DEF ReadInterval
  <2>2. collect.name \in Agents /\ collect.name \in DOMAIN metrics
    BY <1>0, <1>41 DEF ReadInterval, CollectOK
  <2>3. every \in Nat
    BY LookupTypes
  <2> HIDE DEF every
  <2>4. c1 \in Collects /\ c1.pc = "compare" /\ c1.name = collect.name
    <3>1. c1 \in Collects
      BY <1>0, CollectFields DEF CollectPcs
    <3>2. QED
      BY <1>0, <3>1 DEF Collects
  <2> HIDE DEF c1
  <2>5. c2 \in Collects /\ c2.pc = "compare" /\ c2.name = collect.name
    BY <2>3, <2>4, CollectFields DEF Collects
  <2>6. CollectOK'
    BY <2>1, <2>2, <2>5 DEF CollectOK
  <2>7. QED
    BY <1>1, <2>1, <2>5, <2>6
<1>5. ASSUME NextAgent PROVE collect' \in Collects /\ CollectOK'
  <2> DEFINE c1 == [collect EXCEPT !.pc = "range"]
             c2 == [c1 EXCEPT !.name = NoAgent]
             c3 == [c2 EXCEPT !.age = 0]
             c4 == [c3 EXCEPT !.every = 0]
             c5 == [c4 EXCEPT !.at = 0]
             c6 == [c5 EXCEPT !.heard = 0]
  <2>1. collect' = c6
    BY <1>5 DEF NextAgent
  <2>2. 0 \in 0..MaxTime /\ 0 \in Int
    BY BoundsAssumption
  <2>3. c1 \in Collects /\ c1.pc = "range"
    <3>1. c1 \in Collects
      BY <1>0, CollectFields DEF CollectPcs
    <3>2. QED
      BY <1>0, <3>1 DEF Collects
  <2> HIDE DEF c1
  <2>4. c2 \in Collects /\ c2.pc = "range"
    BY <2>3, CollectFields DEF Collects
  <2> HIDE DEF c2
  <2>5. c3 \in Collects /\ c3.pc = "range"
    BY <2>2, <2>4, CollectFields DEF Collects
  <2> HIDE DEF c3
  <2>6. c4 \in Collects /\ c4.pc = "range"
    BY <2>2, <2>5, CollectFields DEF Collects
  <2> HIDE DEF c4
  <2>7. c5 \in Collects /\ c5.pc = "range"
    BY <2>2, <2>6, CollectFields DEF Collects
  <2> HIDE DEF c5
  <2>8. c6 \in Collects /\ c6.pc = "range"
    BY <2>2, <2>7, CollectFields DEF Collects
  <2>9. QED
    BY <2>1, <2>8 DEF CollectOK
<1>6. CASE Compare
  <2>0. UNCHANGED <<metrics, reports, errors, received, malformed, answered>>
    BY <1>6 DEF Compare
  <2>1. collect.name \in Agents /\ collect.name \in DOMAIN metrics
    BY <1>0, <1>6 DEF Compare, CollectOK
  <2>2. CASE /\ collect' = [collect EXCEPT !.pc = "count"]
             /\ M!BeginError(Collector, collect.name)
             /\ sinceLast' = [sinceLast EXCEPT ![collect.name] = @ + 1]
    <3>1. MetricsInv'
      BY <1>0, <2>0, <2>1, <2>2, BeginErrorInv
    <3>2. HistoryTypes'
      BY <1>0, <2>0, <2>1, <2>2 DEF HistoryTypes
    <3>3. collect' \in Collects /\ collect'.name = collect.name
      <4>1. collect' \in Collects
        BY <1>0, <2>2, CollectFields DEF CollectPcs
      <4>2. QED
        BY <1>0, <2>2, <4>1 DEF Collects
    <3>4. CollectOK'
      BY <2>0, <2>1, <3>3 DEF CollectOK
    <3>5. QED
      BY <3>1, <3>2, <3>3, <3>4 DEF ServerInv
  <2>3. CASE NextAgent /\ UNCHANGED <<task, sinceLast>>
    BY <1>0, <1>1, <1>5, <2>0, <2>3 DEF history
  <2>4. QED
    BY <1>6, <2>2, <2>3 DEF Compare
<1>7. CASE MeasureError
  <2>1. M!UpdateMetrics(Collector) /\ UNCHANGED history
    BY <1>7 DEF MeasureError
  <2>2. MetricsInv' /\ DOMAIN metrics \subseteq DOMAIN metrics'
    BY <1>0, <2>1, UpdateInv
  <2>3. collect' \in Collects /\ CollectOK'
    BY <1>0, <1>5, <1>7, <2>2, CollectStays DEF MeasureError
  <2>4. QED
    BY <1>0, <2>1, <2>2, <2>3 DEF ServerInv, HistoryTypes, history
<1>8. CASE FallAsleep
  BY <1>1, <1>8, AsleepType DEF FallAsleep, CollectOK
<1>9. QED
  BY <1>2, <1>3, <1>31, <1>4, <1>41, <1>6, <1>7, <1>8 DEF Collect

\* A new process begins with right metrics.
LEMMA InitialMetrics ==
    ASSUME metrics = [a \in {} |-> M!NoEntry],
           reports = [l \in Labels |-> 0], errors = [l \in Labels |-> 0],
           task = [u \in Updaters |-> M!IdleTask], collect = Asleep
    PROVE  MetricsInv /\ collect \in Collects /\ CollectOK
<1>1. M!MetricsTypeOK
  BY IdleMetricsTypes DEF M!MetricsTypeOK, Updaters
<1>2. \A u \in Updaters : TaskOK(u)
  BY DEF TaskOK, M!Busy, M!IdleTask
<1>3. collect \in Collects /\ CollectOK
  BY AsleepType DEF CollectOK
<1>4. QED
  BY <1>1, <1>2, <1>3 DEF MetricsInv

\* Every step of the server keeps the invariant.
LEMMA ServerStepInv ==
    ASSUME TypeInv, ServerInv, [ServerNext]_serverVars PROVE ServerInv'
<1>0. /\ MetricsInv /\ collect \in Collects /\ CollectOK /\ HistoryTypes
  BY DEF ServerInv
<1>1. ASSUME UNCHANGED <<metrics, reports, errors, task, collect, history>>
      PROVE  ServerInv'
  BY <1>0, <1>1, MetricsStay, CollectStays DEF ServerInv, HistoryTypes, history
<1>2. CASE OutsideWorld
  BY <1>1, <1>2 DEF OutsideWorld
<1>3. ASSUME NEW p \in Posters, NEW a \in Agents, NEW i \in Intervals,
             ServeReport(p, a, i)
      PROVE  ServerInv'
  BY <1>1, <1>3 DEF ServeReport
<1>4. ASSUME NEW p \in Posters, NEW a \in Agents, ServeMalformed(p, a)
      PROVE  ServerInv'
  <2>1. /\ M!BeginReport(p, a, NoLabel)
        /\ UNCHANGED <<metrics, reports, errors>>
        /\ UNCHANGED <<collect, answered, sinceLast>>
        /\ malformed' = malformed + 1 /\ received' = received + 1
    BY <1>4 DEF ServeMalformed
  <2>2. p \in Updaters /\ NoLabel \in Labels
    BY LabelsAssumption DEF Updaters
  <2>3. MetricsInv'
    BY <1>0, <2>1, <2>2, BeginReportInv
  <2>4. HistoryTypes'
    BY <1>0, <2>1 DEF HistoryTypes
  <2>5. collect' \in Collects /\ CollectOK'
    BY <1>0, <2>1, CollectStays
  <2>6. QED
    BY <2>3, <2>4, <2>5 DEF ServerInv
<1>5. ASSUME NEW p \in Posters, Handle(p) PROVE ServerInv'
  BY <1>5, HandleInv
<1>6. ASSUME NEW r \in Readers, Read(r) PROVE ServerInv'
  <2>1. ForgetDeleted /\ UNCHANGED <<metrics, reports, errors, task, history>>
    BY <1>6 DEF Read
  <2>2. MetricsInv' /\ HistoryTypes'
    BY <1>0, <2>1, MetricsStay DEF HistoryTypes, history
  <2>3. collect' \in Collects /\ CollectOK'
    BY <1>0, <2>1, ForgetTypes, CollectStays
  <2>4. QED
    BY <2>2, <2>3 DEF ServerInv
<1>7. CASE Collect
  BY <1>7, CollectInv
<1>8. CASE Restart
  <2>1. MetricsInv' /\ collect' \in Collects /\ CollectOK'
    <3>1. M!MetricsTypeOK'
      BY <1>8, IdleMetricsTypes DEF Restart, M!MetricsTypeOK, Updaters
    <3>2. \A u \in Updaters : TaskOK(u)'
      BY <1>8 DEF Restart, TaskOK, M!Busy, M!IdleTask, Updaters
    <3>3. collect' \in Collects /\ CollectOK'
      BY <1>8, AsleepType DEF Restart, CollectOK
    <3>4. QED
      BY <3>1, <3>2, <3>3 DEF MetricsInv
  <2>2. HistoryTypes'
    BY <1>0, <1>8, BoundsAssumption DEF Restart, HistoryTypes
  <2>3. QED
    BY <2>1, <2>2 DEF ServerInv
<1>9. CASE UNCHANGED serverVars
  BY <1>1, <1>9 DEF serverVars
<1>10. QED
  BY <1>2, <1>3, <1>4, <1>5, <1>6, <1>7, <1>8, <1>9 DEF ServerNext

\* The invariant holds, beside the types of the storage.
LEMMA ServerInvariance == ServerSpec => [](TypeInv /\ ServerInv)
<1>1. ServerInit => ServerInv
  BY InitialMetrics, BoundsAssumption
     DEF ServerInit, M!InitMetrics, ServerInv, HistoryTypes, Updaters
<1>2. TypeInv /\ ServerInv /\ [ServerNext]_serverVars => ServerInv'
  BY ServerStepInv
<1>3. ServerSpec => []TypeInv
  BY ServerRunsStorage, TypeInvariance, PTL
<1>4. QED
  BY <1>1, <1>2, <1>3, PTL DEF ServerSpec

\* Every variable of storage, metrics and collector holds what its comment
\* says, whatever the constants.
THEOREM ServerTypeCorrect == ServerSpec => []ServerTypeOK
<1>1. TypeInv /\ ServerInv => ServerTypeOK
  BY DEF TypeInv, ServerInv, MetricsInv, HistoryTypes, ServerTypeOK
<1>2. QED
  BY <1>1, ServerInvariance, PTL

\* Nobody ever indexes the metrics for an agent that has no entry, for any
\* number of handlers: no lock is needed for that, since no entry is deleted.
THEOREM MetricsAlwaysThere == ServerSpec => []MetricsAreThere
<1>1. ServerInv => MetricsAreThere
  BY DEF ServerInv, MetricsInv, TaskOK, CollectOK, MetricsAreThere, Updaters
<1>2. QED
  BY <1>1, ServerInvariance, PTL

------------------------------------------------------------------------------
(* Counts.  A POST that has got through its storage is counted or still at    *)
(* its metrics.  The sum of the counters grows by one exactly when one of the *)
(* handlers has done with them; the collector counts errors and no reports.   *)

InMetrics == {p \in Posters : M!Busy(p)}

CountInv ==
    /\ \A p \in InMetrics : post[p].pc = "idle" /\ task[p].kind = "report"
    /\ M!Busy(Collector) => task[Collector].kind = "error"
    /\ IsFiniteSet(InMetrics)
    /\ SumOf(reports, Labels) + Cardinality(InMetrics) = received

\* Both summands are numbers.
LEMMA CountNumbers ==
    ASSUME ServerInv, CountInv
    PROVE  SumOf(reports, Labels) \in Nat /\ Cardinality(InMetrics) \in Nat
<1>1. reports \in [Labels -> Nat]
  BY DEF ServerInv, MetricsInv, M!MetricsTypeOK
<1> DEFINE f2 == [reports EXCEPT ![NoLabel] = @ + 1]
<1>2. f2 = [reports EXCEPT ![NoLabel] = @ + 1]
  OBVIOUS
<1> HIDE DEF f2
<1>3. SumOf(reports, Labels) \in Nat
  BY <1>1, <1>2, LabelsAssumption, SumGrows
<1>4. QED
  BY <1>3, FS_CardinalityType DEF CountInv

\* The count stays while no counter changes and nobody comes or goes.
LEMMA CountStays ==
    ASSUME CountInv, UNCHANGED <<reports, received>>,
           \A p \in Posters : task'[p] = task[p],
           M!Busy(Collector)' => task'[Collector].kind = "error",
           \A p \in InMetrics : post'[p] = post[p]
    PROVE  CountInv'
<1>1. InMetrics' = InMetrics
  BY DEF InMetrics, M!Busy
<1>2. \A p \in InMetrics : p \in Posters
  BY DEF InMetrics
<1>3. QED
  BY <1>1, <1>2 DEF CountInv

\* A POST gets through its storage.
LEMMA CountJoins ==
    ASSUME ServerInv, CountInv, NEW p \in Posters, ~ M!Busy(p),
           NEW a, NEW l, M!BeginReport(p, a, l),
           reports' = reports, received' = received + 1,
           post'[p].pc = "idle", \A q \in Posters \ {p} : post'[q] = post[q]
    PROVE  CountInv'
<1>1. /\ task \in [Updaters -> M!Tasks] /\ p \in Updaters
      /\ p # Collector /\ Collector \in Updaters
  BY CollectorAssumption DEF ServerInv, MetricsInv, M!MetricsTypeOK, Updaters
<1>2. /\ task'[p].pc = "new" /\ task'[p].kind = "report"
      /\ \A u \in Updaters \ {p} : task'[u] = task[u]
  BY <1>1 DEF M!BeginReport, M!IdleTask
<1>3. InMetrics' = InMetrics \cup {p} /\ p \notin InMetrics
  BY <1>2 DEF InMetrics, M!Busy, Updaters
<1>4. IsFiniteSet(InMetrics') /\ Cardinality(InMetrics') = Cardinality(InMetrics) + 1
  BY <1>3, FS_AddElement DEF CountInv
<1>5. SumOf(reports', Labels) + Cardinality(InMetrics') = received'
  BY <1>4, CountNumbers DEF CountInv
<1>6. \A q \in InMetrics' : post'[q].pc = "idle" /\ task'[q].kind = "report"
  BY <1>2, <1>3 DEF CountInv, InMetrics, Updaters
<1>7. M!Busy(Collector)' => task'[Collector].kind = "error"
  BY <1>1, <1>2 DEF CountInv, M!Busy
<1>8. QED
  BY <1>4, <1>5, <1>6, <1>7 DEF CountInv

\* A POST is counted, or it comes one step nearer to that.
LEMMA CountLeaves ==
    ASSUME ServerInv, CountInv, NEW p \in Posters, M!UpdateMetrics(p),
           UNCHANGED <<post, received>>
    PROVE  CountInv'
<1>1. /\ task \in [Updaters -> M!Tasks] /\ p \in Updaters /\ task[p] \in M!Tasks
      /\ p # Collector /\ Collector \in Updaters
      /\ reports \in [Labels -> Nat]
  BY CollectorAssumption DEF ServerInv, MetricsInv, M!MetricsTypeOK, Updaters
<1>2. p \in InMetrics /\ task[p].kind = "report"
  <2>1. M!Busy(p)
    BY DEF M!UpdateMetrics, M!NewAgentMetrics, M!ReadMetrics, M!WriteMetrics, M!Busy
  <2>2. QED
    BY <2>1 DEF InMetrics, CountInv
<1>3. \A u \in Updaters \ {p} : task'[u] = task[u]
  BY <1>1 DEF M!UpdateMetrics, M!NewAgentMetrics, M!ReadMetrics, M!WriteMetrics
<1>4. M!Busy(Collector)' => task'[Collector].kind = "error"
  BY <1>1, <1>3 DEF CountInv, M!Busy
<1>5. CASE M!NewAgentMetrics(p) \/ M!ReadMetrics(p)
  <2>1. UNCHANGED reports /\ task'[p].pc # "idle" /\ task'[p].kind = "report"
    <3>1. CASE M!NewAgentMetrics(p)
      BY <1>1, <1>2, <3>1 DEF M!NewAgentMetrics, M!Tasks
    <3>2. CASE M!ReadMetrics(p)
      <4> DEFINE t == [task[p] EXCEPT !.pc = "write",
                                       !.copy = metrics[task[p].name]]
      <4>1. task'[p] = t
        BY <1>1, <3>2 DEF M!ReadMetrics
      <4>2. t.pc = "write" /\ t.kind = task[p].kind
        BY <1>1 DEF M!Tasks
      <4>3. QED
        BY <1>2, <3>2, <4>1, <4>2 DEF M!ReadMetrics
    <3>3. QED
      BY <1>5, <3>1, <3>2
  <2>2. InMetrics' = InMetrics
    BY <1>2, <1>3, <2>1 DEF InMetrics, M!Busy, Updaters
  <2>3. \A q \in InMetrics : post'[q].pc = "idle" /\ task'[q].kind = "report"
    BY <1>3, <2>1 DEF CountInv, InMetrics, Updaters
  <2>4. QED
    BY <1>4, <2>1, <2>2, <2>3 DEF CountInv
<1>6. CASE M!WriteMetrics(p)
  <2> DEFINE l == task[p].copy.label
  <2>1. l \in Labels
    BY <1>1 DEF M!Tasks, M!Entries
  <2>2. reports' = [reports EXCEPT ![l] = @ + 1]
    BY <1>2, <1>6 DEF M!WriteMetrics, M!CountReport, M!CountError
  <2> HIDE DEF l
  <2>3. SumOf(reports', Labels) = SumOf(reports, Labels) + 1
    BY <1>1, <2>1, <2>2, LabelsAssumption, SumGrows
  <2>4. task'[p].pc = "idle"
    BY <1>1, <1>6 DEF M!WriteMetrics, M!IdleTask
  <2>5. InMetrics' = InMetrics \ {p}
    BY <1>3, <2>4 DEF InMetrics, M!Busy, Updaters
  <2>6. IsFiniteSet(InMetrics') /\ Cardinality(InMetrics') = Cardinality(InMetrics) - 1
    BY <1>2, <2>5, FS_RemoveElement DEF CountInv
  <2>7. SumOf(reports', Labels) + Cardinality(InMetrics') = received'
    BY <2>3, <2>6, CountNumbers DEF CountInv
  <2>8. \A q \in InMetrics' : post'[q].pc = "idle" /\ task'[q].kind = "report"
    BY <1>3, <2>5 DEF CountInv, InMetrics, Updaters
  <2>9. QED
    BY <1>4, <2>6, <2>7, <2>8 DEF CountInv
<1>7. QED
  BY <1>5, <1>6 DEF M!UpdateMetrics

\* The collector counts errors.
LEMMA CollectorCounts ==
    ASSUME ServerInv, CountInv, UNCHANGED <<post, received>>,
           \/ M!UpdateMetrics(Collector)
           \/ /\ reports' = reports
              /\ \/ UNCHANGED task
                 \/ \E a \in Agents : M!BeginError(Collector, a)
    PROVE  CountInv'
<1>1. /\ task \in [Updaters -> M!Tasks] /\ Collector \notin Posters
      /\ Collector \in Updaters /\ task[Collector] \in M!Tasks
  BY CollectorAssumption DEF ServerInv, MetricsInv, M!MetricsTypeOK, Updaters
<1> DEFINE Aside == /\ \A u \in Updaters \ {Collector} : task'[u] = task[u]
                    /\ \/ task'[Collector].pc = "idle"
                       \/ task'[Collector].kind = "error"
                    /\ UNCHANGED reports
<1>2. Aside
  <2>1. CASE UNCHANGED task /\ UNCHANGED reports
    BY <2>1 DEF CountInv, M!Busy
  <2>2. ASSUME NEW a \in Agents, M!BeginError(Collector, a), UNCHANGED reports
        PROVE  Aside
    BY <1>1, <2>2 DEF M!BeginError, M!IdleTask
  <2>3. CASE M!UpdateMetrics(Collector)
    <3>1. M!Busy(Collector)
      BY <2>3 DEF M!UpdateMetrics, M!NewAgentMetrics, M!ReadMetrics,
                  M!WriteMetrics, M!Busy
    <3>2. task[Collector].kind = "error"
      BY <3>1 DEF CountInv
    <3>3. CASE M!NewAgentMetrics(Collector)
      BY <1>1, <3>2, <3>3 DEF M!NewAgentMetrics, M!Tasks
    <3>4. CASE M!ReadMetrics(Collector)
      BY <1>1, <3>2, <3>4 DEF M!ReadMetrics, M!Tasks
    <3>5. CASE M!WriteMetrics(Collector)
      BY <1>1, <3>2, <3>5 DEF M!WriteMetrics, M!CountReport, M!CountError, M!IdleTask
    <3>6. QED
      BY <2>3, <3>3, <3>4, <3>5 DEF M!UpdateMetrics
  <2>4. QED
    BY <2>1, <2>2, <2>3
<1>3. \A p \in Posters : task'[p] = task[p]
  BY <1>1, <1>2 DEF Updaters
<1>4. QED
  BY <1>2, <1>3, CountStays DEF M!Busy

\* A new process has counted nothing.
LEMMA NothingCounted ==
    /\ reports = [l \in Labels |-> 0]
    /\ received = 0
    /\ task = [u \in Updaters |-> M!IdleTask]
    => CountInv
<1> SUFFICES ASSUME reports = [l \in Labels |-> 0], received = 0,
                    task = [u \in Updaters |-> M!IdleTask]
             PROVE  CountInv
  OBVIOUS
<1>1. \A u \in Updaters : ~ M!Busy(u)
  BY DEF M!Busy, M!IdleTask
<1>2. InMetrics = {} /\ ~ M!Busy(Collector)
  BY <1>1 DEF InMetrics, Updaters
<1>3. IsFiniteSet(InMetrics) /\ Cardinality(InMetrics) = 0
  BY <1>2, FS_EmptySet
<1>4. SumOf(reports, Labels) = 0
  BY LabelsAssumption, SumOfZeros
<1>5. QED
  BY <1>2, <1>3, <1>4 DEF CountInv

\* The GET endpoints leave the POST handlers alone.
LEMMA ReadersLeavePosts == ASSUME NEW r \in Readers, Get(r) PROVE UNCHANGED post
  BY DEF Get, Request, ListPodsForCleanCache, CleanCache, CountCache, ListPodsToCheck,
         FetchAgent, JudgeAgent, AnswerCheck, GetAgents, GetSingleAgent, Close

\* A POST keeps the count.
LEMMA HandleCount ==
    ASSUME TypeInv, ServerInv, CountInv, NEW p \in Posters, Handle(p)
    PROVE  CountInv'
<1>1. CASE StorageStep(p)
  <2>1. Post(p) /\ post[p].pc # "idle"
    BY <1>1 DEF StorageStep, Post, GetAgent, ListPods, PurgeBeforeCreate, CreateAgent,
                UpdateAgent
  <2>2. p \notin InMetrics /\ InMetrics \subseteq Posters
    BY <2>1 DEF CountInv, InMetrics
  <2>3. \A q \in Posters \ {p} : post'[q] = post[q]
    BY <2>1, OnlyPosterMoves
  <2>4. UNCHANGED <<reports, task, received>>
    BY <1>1 DEF StorageStep, history
  <2>5. QED
    BY <2>2, <2>3, <2>4, CountStays DEF CountInv, M!Busy
<1>2. CASE StoreThenMeasure(p)
  <2>1. /\ CacheReport(p) /\ post[p].pc = "cache"
        /\ M!BeginReport(p, post[p].name, LabelOf[post[p].name])
        /\ reports' = reports /\ received' = received + 1
    BY <1>2 DEF StoreThenMeasure, CacheReport, Return
  <2>2. post'[p].pc = "idle" /\ \A q \in Posters \ {p} : post'[q] = post[q]
    BY <2>1, OnlyPosterMoves, ReturnFields DEF Post, IdlePost
  <2>3. ~ M!Busy(p)
    BY <2>1 DEF CountInv, InMetrics
  <2>4. QED
    BY <2>1, <2>2, <2>3, CountJoins
<1>3. CASE MeasureReport(p)
  BY <1>3, CountLeaves DEF MeasureReport, vars, history
<1>4. QED
  BY <1>1, <1>2, <1>3 DEF Handle

\* So does the collector.
LEMMA CollectCount == ASSUME ServerInv, CountInv, Collect PROVE CountInv'
<1>1. UNCHANGED post
  BY CollectLeavesStorage DEF vars
<1>2. CASE MeasureError
  BY <1>1, <1>2, CollectorCounts DEF MeasureError, history
<1>3. CASE Compare
  <2>1. UNCHANGED <<reports, received>>
    BY <1>3 DEF Compare
  <2>2. CASE UNCHANGED task
    BY <1>1, <2>1, <2>2, CollectorCounts
  <2>3. CASE M!BeginError(Collector, collect.name)
    <3>1. collect.name \in Agents
      BY <1>3 DEF Compare, ServerInv, CollectOK
    <3>2. QED
      BY <1>1, <2>1, <2>3, <3>1, CollectorCounts
  <2>4. QED
    BY <1>3, <2>2, <2>3 DEF Compare
<1>4. CASE WakeUp \/ FindMetrics \/ ReadAge \/ ReadInterval \/ FallAsleep
  BY <1>1, <1>4, CollectorCounts
     DEF WakeUp, FindMetrics, ReadAge, ReadInterval, FallAsleep, history
<1>5. ASSUME NEW a \in Agents, Visit(a) PROVE CountInv'
  BY <1>1, <1>5, CollectorCounts DEF Visit, history
<1>6. QED
  BY <1>2, <1>3, <1>4, <1>5 DEF Collect

\* Every step of the server keeps it.
LEMMA CountKept ==
    ASSUME TypeInv, ServerInv, CountInv, [ServerNext]_serverVars PROVE CountInv'
<1>1. ASSUME UNCHANGED <<reports, task, received, post>> PROVE CountInv'
  BY <1>1, CountStays DEF CountInv, M!Busy
<1>2. CASE OutsideWorld
  BY <1>1, <1>2 DEF OutsideWorld, World, Tick, PodStart, PodStop, history
<1>3. ASSUME NEW p \in Posters, NEW a \in Agents, NEW i \in Intervals,
             ServeReport(p, a, i)
      PROVE  CountInv'
  <2>1. p \notin InMetrics /\ InMetrics \subseteq Posters
    BY <1>3 DEF ServeReport, InMetrics
  <2>2. \A q \in Posters \ {p} : post'[q] = post[q]
    BY <1>3, OnlyPosterMoves DEF ServeReport, Post
  <2>3. UNCHANGED <<reports, task, received>>
    BY <1>3 DEF ServeReport, history
  <2>4. QED
    BY <2>1, <2>2, <2>3, CountStays DEF CountInv, M!Busy
<1>4. ASSUME NEW p \in Posters, NEW a \in Agents, ServeMalformed(p, a)
      PROVE  CountInv'
  <2>1. /\ ~ M!Busy(p) /\ M!BeginReport(p, a, NoLabel)
        /\ reports' = reports /\ received' = received + 1
        /\ post[p].pc = "idle" /\ UNCHANGED post
    BY <1>4 DEF ServeMalformed, vars
  <2>2. QED
    BY <2>1, CountJoins
<1>5. ASSUME NEW p \in Posters, Handle(p) PROVE CountInv'
  BY <1>5, HandleCount
<1>6. ASSUME NEW r \in Readers, Read(r) PROVE CountInv'
  <2>1. UNCHANGED post
    BY <1>6, ReadersLeavePosts DEF Read
  <2>2. QED
    BY <1>1, <1>6, <2>1 DEF Read, history
<1>7. CASE Collect
  BY <1>7, CollectCount
<1>8. CASE Restart
  <2>1. (/\ reports = [l \in Labels |-> 0]
         /\ received = 0
         /\ task = [u \in Updaters |-> M!IdleTask]
         => CountInv)'
    BY NothingCounted, PTL
  <2>2. QED
    BY <1>8, <2>1 DEF Restart, Updaters
<1>9. CASE UNCHANGED serverVars
  BY <1>1, <1>9 DEF serverVars, vars, history
<1>10. QED
  BY <1>2, <1>3, <1>4, <1>5, <1>6, <1>7, <1>8, <1>9 DEF ServerNext

\* Every POST that the process has got through its storage, stored or refused, is
\* counted once under some label or is just about to be, for any number of
\* concurrent handlers, which share entries and counters without a lock.
THEOREM EveryReportCounted == ServerSpec => []ReportsCounted
<1>1. ServerInit => CountInv
  BY NothingCounted DEF ServerInit, M!InitMetrics, Updaters
<1>2. TypeInv /\ ServerInv /\ CountInv /\ [ServerNext]_serverVars => CountInv'
  BY CountKept
<1>3. CountInv => ReportsCounted
  BY DEF CountInv, ReportsCounted, InMetrics, SumOf
<1>4. QED
  BY <1>1, <1>2, <1>3, ServerInvariance, PTL DEF ServerSpec

------------------------------------------------------------------------------
(* Errors.  What the collector measures is the age of a cache entry, and an    *)
(* entry that is not empty carries the time of the last report answered: both  *)
(* are set in the storage's last step of a POST, and a purge or a restart only *)
(* takes entries away.                                                         *)

\* The result of a write is the report itself or empty.
ResultIsReport == \A p \in Posters : post[p].pc = "cache" =>
                      post[p].result \in {post[p].data, ZeroSpec}

\* No report of a cached agent was answered after the one that is cached.
LastIsCached == \A a \in DOMAIN cache :
                    cache[a].at # 0 => answered[a] = cache[a].at

\* The collector's age is at most the time since the last answer.
AgeOK == /\ collect.pc \in {"interval", "compare", "count"}
         /\ collect.age # Saturated
         => collect.age = collect.at - collect.heard

SilenceInv == LastIsCached /\ AgeOK /\ ErrorMeansSilent

\* The storage's steps keep the results right.
LEMMA ResultStep ==
    ASSUME TypeInv, ResultIsReport, [Next]_vars PROVE ResultIsReport'
<1>1. CASE UNCHANGED post
  BY <1>1 DEF ResultIsReport
<1>2. CASE World
  BY <1>1, <1>2 DEF World, Tick, PodStart, PodStop
<1>3. ASSUME NEW r \in Readers, Get(r) PROVE ResultIsReport'
  BY <1>1, <1>3 DEF Get, Request, ListPodsForCleanCache, CleanCache, CountCache,
                    ListPodsToCheck, FetchAgent, JudgeAgent, AnswerCheck,
                    GetAgents, GetSingleAgent, Close
<1>4. CASE Crash
  BY <1>4 DEF Crash, ResultIsReport, IdlePost
<1>5. ASSUME NEW p \in Posters, Post(p) PROVE ResultIsReport'
  <2>1. \A q \in Posters \ {p} : post'[q] = post[q]
    BY <1>5, OnlyPosterMoves
  <2>2. CASE post'[p].pc # "cache"
    BY <2>1, <2>2 DEF ResultIsReport
  <2>3. CASE CreateAgent(p) \/ UpdateAgent(p)
    BY <2>1, <2>3, WriteFields DEF ResultIsReport, Refused, CarriedOut
  <2>4. QED
    BY <1>5, <2>2, <2>3, PostSteps, ReceiveFields, PrepareFields, ReturnFields
       DEF IdlePost
<1>6. CASE UNCHANGED vars
  BY <1>1, <1>6 DEF vars
<1>7. QED
  BY <1>2, <1>3, <1>4, <1>5, <1>6 DEF Next

\* The results are right throughout.
LEMMA ResultInvariance == Spec => []ResultIsReport
<1>1. Init => ResultIsReport
  BY DEF Init, ResultIsReport, IdlePost
<1>2. TypeInv /\ ResultIsReport /\ [Next]_vars => ResultIsReport'
  BY ResultStep
<1>3. QED
  BY <1>1, <1>2, TypeInvariance, PTL DEF Spec

\* An integral quotient above one means an age of two intervals.
LEMMA TwoIntervals ==
    ASSUME NEW age \in Int, NEW interval \in Nat \ {0}, NEW counted \in Nat,
           age \div interval > counted + 1
    PROVE  age >= 2 * interval
<1> DEFINE q == age \div interval
<1>1. q \in Int /\ interval * q <= age
  OBVIOUS
<1>2. q >= 2
  BY <1>1
<1> HIDE DEF q
<1>3. interval * q >= interval * 2
  BY <1>1, <1>2
<1>4. QED
  BY <1>1, <1>3

\* Entries that are only taken away leave the cache in accordance with the
\* answers, and a collector that does not move keeps its age.
LEMMA SilenceStays ==
    ASSUME SilenceInv, DOMAIN cache' \subseteq DOMAIN cache,
           \A a \in DOMAIN cache' : cache'[a] = cache[a],
           UNCHANGED answered,
           collect'.pc = collect.pc, collect'.age = collect.age,
           collect'.at = collect.at, collect'.heard = collect.heard,
           collect'.every = collect.every
    PROVE  SilenceInv'
<1>1. LastIsCached'
  BY DEF SilenceInv, LastIsCached
<1>2. AgeOK' /\ ErrorMeansSilent'
  BY DEF SilenceInv, AgeOK, ErrorMeansSilent, Silent
<1>3. QED
  BY <1>1, <1>2 DEF SilenceInv

\* The collector's record but for what it has met.
LEMMA ForgetFields ==
    ASSUME collect \in Collects, ForgetDeleted
    PROVE  /\ collect'.pc = collect.pc /\ collect'.age = collect.age
           /\ collect'.at = collect.at /\ collect'.heard = collect.heard
           /\ collect'.every = collect.every
  BY DEF ForgetDeleted, Collects

\* The steps of the storage's handlers, but for the last of a POST, only take
\* entries away.
LEMMA OnlyPurges ==
    ASSUME \/ \E p \in Posters : \/ GetAgent(p) \/ ListPods(p)
                                 \/ PurgeBeforeCreate(p)
                                 \/ CreateAgent(p) \/ UpdateAgent(p)
           \/ \E r \in Readers : Get(r)
    PROVE  /\ DOMAIN cache' \subseteq DOMAIN cache
           /\ \A a \in DOMAIN cache' : cache'[a] = cache[a]
<1>1. CASE UNCHANGED cache
  BY <1>1
<1>2. ASSUME NEW pods, Purge(pods)
      PROVE  /\ DOMAIN cache' \subseteq DOMAIN cache
             /\ \A a \in DOMAIN cache' : cache'[a] = cache[a]
  BY <1>2 DEF Purge
<1>3. ASSUME NEW p \in Posters,
             GetAgent(p) \/ ListPods(p) \/ CreateAgent(p) \/ UpdateAgent(p)
      PROVE  UNCHANGED cache
  BY <1>3 DEF GetAgent, ListPods, CreateAgent, UpdateAgent
<1>4. ASSUME NEW p \in Posters, PurgeBeforeCreate(p)
      PROVE  Purge(post[p].pods)
  BY <1>4 DEF PurgeBeforeCreate
<1>5. ASSUME NEW r \in Readers, Get(r)
      PROVE  UNCHANGED cache \/ Purge(get[r].pods)
  <2>1. CleanCache(r) => Purge(get[r].pods)
    BY DEF CleanCache
  <2>2. ~CleanCache(r) => cache' = cache
    BY <1>5, ZenonT(30)
       DEF Get, Request, ListPodsForCleanCache, CountCache, ListPodsToCheck,
           FetchAgent, JudgeAgent, AnswerCheck, GetAgents, GetSingleAgent, Close
  <2>3. QED
    BY <2>1, <2>2
<1>6. QED
  BY <1>1, <1>2, <1>3, <1>4, <1>5

\* A POST keeps it: answer and cache entry change together.
LEMMA HandleSilence ==
    ASSUME TypeInv, ServerInv, ResultIsReport, SilenceInv,
           NEW p \in Posters, Handle(p)
    PROVE  SilenceInv'
<1>0. collect \in Collects /\ answered \in [Agents -> 0..MaxTime]
  BY DEF ServerInv, HistoryTypes
<1>1. CASE StorageStep(p)
  <2>1. ForgetDeleted /\ UNCHANGED answered
    BY <1>1 DEF StorageStep, history
  <2>2. /\ DOMAIN cache' \subseteq DOMAIN cache
        /\ \A a \in DOMAIN cache' : cache'[a] = cache[a]
    BY <1>1, OnlyPurges DEF StorageStep
  <2>3. QED
    BY <1>0, <2>1, <2>2, ForgetFields, SilenceStays
<1>2. CASE StoreThenMeasure(p)
  <2>1. PICK a \in Agents : a = post[p].name
    BY <1>2, ReturnFields DEF StoreThenMeasure
  <2>2. /\ post[p].pc = "cache" /\ Put(a, post[p].result)
        /\ answered' = [answered EXCEPT ![a] = post[p].data.at]
        /\ UNCHANGED collect
    BY <1>2, <2>1 DEF StoreThenMeasure, CacheReport, Return
  <2>3. post[p].result \in {post[p].data, ZeroSpec}
    BY <2>2 DEF ResultIsReport
  <2>4. /\ DOMAIN cache' = DOMAIN cache \cup {a}
        /\ cache'[a] = post[p].result
        /\ \A b \in DOMAIN cache \ {a} : cache'[b] = cache[b]
    BY <2>2 DEF Put
  <2>5. DOMAIN cache \subseteq Agents
    BY DEF TypeInv, TypeOK
  <2>6. cache'[a].at # 0 => answered'[a] = cache'[a].at
    BY <1>0, <2>2, <2>3, <2>4 DEF ZeroSpec
  <2>7. LastIsCached'
    BY <1>0, <2>2, <2>4, <2>5, <2>6 DEF SilenceInv, LastIsCached
  <2>8. AgeOK' /\ ErrorMeansSilent'
    BY <2>2 DEF SilenceInv, AgeOK, ErrorMeansSilent, Silent
  <2>9. QED
    BY <2>7, <2>8 DEF SilenceInv
<1>3. CASE MeasureReport(p)
  BY <1>3, SilenceStays DEF MeasureReport, history, vars
<1>4. QED
  BY <1>1, <1>2, <1>3 DEF Handle

\* A turn of the collector keeps it: the age is read off the cache, and an error
\* found only if that age is two intervals or more.
LEMMA CollectSilence ==
    ASSUME TypeInv, ServerInv, SilenceInv, Collect PROVE SilenceInv'
<1>0. /\ collect \in Collects /\ CollectOK
      /\ answered \in [Agents -> 0..MaxTime]
      /\ DOMAIN cache \subseteq Agents /\ cache \in [DOMAIN cache -> Specs]
      /\ now \in Int
      /\ M!MetricsTypeOK
  BY BoundsAssumption DEF ServerInv, MetricsInv, HistoryTypes, TypeInv, TypeOK
<1>1. UNCHANGED <<cache, answered>> /\ LastIsCached'
  <2>1. UNCHANGED cache
    BY CollectLeavesStorage DEF vars
  <2>2. WakeUp => UNCHANGED answered
    BY DEF WakeUp, history
  <2>3. \A a \in Agents : Visit(a) => UNCHANGED answered
    BY DEF Visit, history
  <2>4. FindMetrics \/ ReadAge \/ ReadInterval => UNCHANGED answered
    BY DEF FindMetrics, ReadAge, ReadInterval, history
  <2>5. Compare => UNCHANGED answered
    BY DEF Compare
  <2>6. MeasureError \/ FallAsleep => UNCHANGED answered
    BY DEF MeasureError, FallAsleep, history
  <2>7. UNCHANGED answered
    BY <2>2, <2>3, <2>4, <2>5, <2>6 DEF Collect
  <2>8. QED
    BY <2>1, <2>7 DEF SilenceInv, LastIsCached
<1>2. ASSUME collect'.pc \notin {"interval", "compare", "count"} PROVE SilenceInv'
  BY <1>1, <1>2 DEF SilenceInv, AgeOK, ErrorMeansSilent
<1>3. CASE WakeUp \/ FallAsleep
  <2>1. CASE FallAsleep
    BY <1>2, <2>1 DEF FallAsleep, Asleep
  <2>2. CASE WakeUp
    <3> DEFINE awake == [Asleep EXCEPT !.pc = "range"]
    <3>1. awake \in Collects /\ awake.pc = "range"
      BY AsleepType, CollectFields DEF CollectPcs, Collects
    <3>2. collect' = [awake EXCEPT !.start = DOMAIN cache]
      BY <2>2 DEF WakeUp
    <3> HIDE DEF awake
    <3>3. collect'.pc = "range"
      BY <3>1, <3>2 DEF Collects
    <3>4. QED
      BY <1>2, <3>3
  <2>3. QED
    BY <1>3, <2>1, <2>2
<1>4. ASSUME NEW a \in Agents, Visit(a) PROVE SilenceInv'
  <2>1. collect'.pc = "found"
    BY <1>0, <1>4 DEF Visit, Collects
  <2>2. QED
    BY <1>2, <2>1
<1>41. CASE FindMetrics
  <2>1. collect'.pc \in {"age", "range"}
    BY <1>0, <1>41 DEF FindMetrics, Collects
  <2>2. QED
    BY <1>2, <2>1
<1>5. CASE ReadAge
  <2>1. PICK a \in Agents : a = collect.name
    BY <1>0, <1>5 DEF ReadAge, CollectOK
  <2>2. /\ collect'.pc = "interval" /\ collect'.at = now
        /\ collect'.age = Age(Lookup(a)) /\ collect'.heard = answered[a]
    BY <1>0, <1>5, <2>1 DEF ReadAge, Collects
  <2>3. Age(Lookup(a)) # Saturated => Age(Lookup(a)) = now - answered[a]
    <3>1. CASE Lookup(a).at = 0
      BY <3>1 DEF Age
    <3>2. CASE Lookup(a).at # 0
      <4>1. a \in DOMAIN cache /\ Lookup(a) = cache[a]
        BY <3>2 DEF Lookup, ZeroSpec
      <4>2. answered[a] = Lookup(a).at
        BY <3>2, <4>1 DEF SilenceInv, LastIsCached
      <4>3. QED
        BY <3>2, <4>2 DEF Age
    <3>3. QED
      BY <3>1, <3>2
  <2>4. AgeOK'
    BY <2>2, <2>3 DEF AgeOK
  <2>5. ErrorMeansSilent'
    BY <2>2 DEF ErrorMeansSilent
  <2>6. QED
    BY <1>1, <2>4, <2>5 DEF SilenceInv
<1>51. CASE ReadInterval
  <2>1. /\ collect.pc = "interval" /\ collect'.pc = "compare"
        /\ collect'.age = collect.age
        /\ collect'.at = collect.at /\ collect'.heard = collect.heard
    BY <1>0, <1>51 DEF ReadInterval, Collects
  <2>2. AgeOK' /\ ErrorMeansSilent'
    BY <2>1 DEF SilenceInv, AgeOK, ErrorMeansSilent
  <2>3. QED
    BY <1>1, <2>2 DEF SilenceInv
<1>6. CASE Compare
  <2>1. CASE Missed /\ collect' = [collect EXCEPT !.pc = "count"]
    <3>1. /\ collect'.pc = "count" /\ collect'.age = collect.age
          /\ collect'.at = collect.at /\ collect'.heard = collect.heard
          /\ collect'.every = collect.every
      BY <1>0, <2>1 DEF Collects
    <3>2. AgeOK'
      BY <1>6, <3>1 DEF Compare, SilenceInv, AgeOK
    <3>3. collect.age \in Int /\ collect.every \in Nat \ {0}
      BY <1>0, <2>1 DEF Missed, TooManyMissed, Collects
    <3>4. metrics[collect.name].errors \in Nat
      <4>1. collect.name \in DOMAIN metrics
        BY <1>0, <1>6 DEF Compare, CollectOK
      <4>2. metrics[collect.name] \in M!Entries
        BY <1>0, <4>1 DEF M!MetricsTypeOK
      <4>3. QED
        BY <4>2 DEF M!Entries
    <3>5. collect.age \div collect.every > metrics[collect.name].errors + 1
      BY <2>1 DEF Missed, TooManyMissed
    <3>6. collect.age >= 2 * collect.every
      BY <3>3, <3>4, <3>5, TwoIntervals
    <3>7. ErrorMeansSilent'
      BY <1>6, <3>1, <3>3, <3>6
         DEF Compare, SilenceInv, AgeOK, ErrorMeansSilent, Silent
    <3>8. QED
      BY <1>1, <3>2, <3>7 DEF SilenceInv
  <2>2. CASE NextAgent
    <3>1. collect'.pc = "range"
      BY <1>0, <2>2 DEF NextAgent, Collects
    <3>2. QED
      BY <1>2, <3>1
  <2>3. QED
    BY <1>6, <2>1, <2>2 DEF Compare
<1>7. CASE MeasureError
  <2>1. CASE UNCHANGED collect
    BY <1>1, <2>1 DEF SilenceInv, AgeOK, ErrorMeansSilent, Silent
  <2>2. CASE NextAgent
    <3>1. collect'.pc = "range"
      BY <1>0, <2>2 DEF NextAgent, Collects
    <3>2. QED
      BY <1>2, <3>1
  <2>3. QED
    BY <1>7, <2>1, <2>2 DEF MeasureError
<1>8. QED
  BY <1>3, <1>4, <1>41, <1>5, <1>51, <1>6, <1>7 DEF Collect

\* Every step of the server keeps it.
LEMMA SilenceStep ==
    ASSUME TypeInv, ServerInv, ResultIsReport, SilenceInv, [ServerNext]_serverVars
    PROVE  SilenceInv'
<1>0. collect \in Collects
  BY DEF ServerInv
<1>1. CASE UNCHANGED <<cache, answered, collect>>
  BY <1>1, SilenceStays
<1>2. CASE OutsideWorld
  BY <1>1, <1>2 DEF OutsideWorld, World, Tick, PodStart, PodStop, history
<1>3. ASSUME NEW p \in Posters, NEW a \in Agents, NEW i \in Intervals,
             ServeReport(p, a, i)
      PROVE  SilenceInv'
  BY <1>1, <1>3 DEF ServeReport, ReceiveReport, history
<1>4. ASSUME NEW p \in Posters, NEW a \in Agents, ServeMalformed(p, a)
      PROVE  SilenceInv'
  BY <1>1, <1>4 DEF ServeMalformed, vars
<1>5. ASSUME NEW p \in Posters, Handle(p) PROVE SilenceInv'
  BY <1>5, HandleSilence
<1>6. ASSUME NEW r \in Readers, Read(r) PROVE SilenceInv'
  <2>1. Get(r) /\ ForgetDeleted /\ UNCHANGED answered
    BY <1>6 DEF Read, history
  <2>2. /\ DOMAIN cache' \subseteq DOMAIN cache
        /\ \A a \in DOMAIN cache' : cache'[a] = cache[a]
    BY <2>1, OnlyPurges
  <2>3. QED
    BY <1>0, <2>1, <2>2, ForgetFields, SilenceStays
<1>7. CASE Collect
  BY <1>7, CollectSilence
<1>8. CASE Restart
  BY <1>8 DEF Restart, Crash, EmptyCache, Asleep, SilenceInv, LastIsCached, AgeOK,
              ErrorMeansSilent
<1>9. CASE UNCHANGED serverVars
  BY <1>1, <1>9 DEF serverVars, vars, history
<1>10. QED
  BY <1>2, <1>3, <1>4, <1>5, <1>6, <1>7, <1>8, <1>9 DEF ServerNext

\* The collector counts an error only for an agent of which no report had been
\* answered for two of the intervals compared with when its age was read, unless
\* its cache entry was missing or empty then: however reports, purges and restarts fall
\* between the steps of its walk over the live map, and also when reports of one
\* agent overlap.
THEOREM ErrorIsSilence == ServerSpec => []ErrorMeansSilent
<1>1. ServerInit => SilenceInv
  BY DEF ServerInit, Init, EmptyCache, Asleep, SilenceInv, LastIsCached, AgeOK,
         ErrorMeansSilent
<1>2. TypeInv /\ ServerInv /\ ResultIsReport /\ SilenceInv /\ [ServerNext]_serverVars
         => SilenceInv'
  BY SilenceStep
<1>3. ServerSpec => []ResultIsReport
  BY ServerRunsStorage, ResultInvariance, PTL
<1>4. SilenceInv => ErrorMeansSilent
  BY DEF SilenceInv
<1>5. QED
  BY <1>1, <1>2, <1>3, <1>4, ServerInvariance, PTL DEF ServerSpec

==============================================================================
