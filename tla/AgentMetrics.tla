----------------------------- MODULE AgentMetrics -----------------------------
(***************************************************************************)
(* The Prometheus counters of the agents, pkg/utils/metrics.go, and the    *)
(* NcAgentMetrics map of the Handler.  UpdateAgentBaseMetrics copies an    *)
(* entry out of the map, counts, and puts the copy back; the goroutines of *)
(* POST handlers and the collector do so at the same time with no lock, so *)
(* the copying and the putting back are separate actions.                  *)
(*                                                                         *)
(* The counters themselves live in the Prometheus registry under their     *)
(* label.  They outlive an entry of the map: registering them again yields *)
(* the existing ones.                                                      *)
(***************************************************************************)
EXTENDS Integers

CONSTANTS Agents,     \* the keys of the map
          NoAgent,    \* the name in the record of an idle updater
          Updaters,   \* the goroutines that update the metrics
          Labels,     \* values of the label "agent"
          NoLabel     \* "-private_network", from a spec that names no node

VARIABLES metrics,    \* Handler.Metrics, a Go map
          reports,    \* reports[l]: ncagent_report_count_total under l
          errors,     \* errors[l]: ncagent_error_count_total under l
          task        \* task[u]: what the updater u is doing

metricsVars == <<metrics, reports, errors, task>>

\* What is modelled of an AgentMetrics: its counters, which are those of a
\* label, and ErrorsFromLastReport.
Entries == [label : Labels, errors : Nat]

NoEntry == [label |-> NoLabel, errors |-> 0]

IdleTask == [pc |-> "idle", kind |-> "report", name |-> NoAgent,
             label |-> NoLabel, copy |-> NoEntry]

Tasks == [pc : {"idle", "new", "read", "write"}, kind : {"report", "error"},
          name : Agents \cup {NoAgent}, label : Labels, copy : Entries]

Busy(u) == task[u].pc # "idle"

Set(a, entry) == metrics' = [b \in DOMAIN metrics \cup {a} |->
                                IF b = a THEN entry ELSE metrics[b]]

\* A POST handler turns to the metrics, with the label of the spec it was given.
BeginReport(u, a, l) ==
    task' = [task EXCEPT ![u] = [IdleTask EXCEPT !.pc = "new", !.name = a,
                                                 !.label = l]]

\* The collector turns to the metrics to count an error.
BeginError(u, a) ==
    task' = [task EXCEPT ![u] = [IdleTask EXCEPT !.pc = "read", !.name = a,
                                                 !.kind = "error"]]

\* Variant to be rejected: the entry's new counters take the place of the
\* ones that were registered before.
NewAgentMetricsReplacing(u) ==
    LET l == task[u].label
    IN  /\ task[u].pc = "new"
        /\ Set(task[u].name, [label |-> l, errors |-> 0])
        /\ task' = [task EXCEPT ![u].pc = "read"]
        /\ reports' = [reports EXCEPT ![l] = 0]
        /\ errors' = [errors EXCEPT ![l] = 0]

\* Every report gives the agent a new entry, with the label's own counters.
NewAgentMetrics(u) ==
    /\ task[u].pc = "new"
    /\ Set(task[u].name, [label |-> task[u].label, errors |-> 0])
    /\ task' = [task EXCEPT ![u].pc = "read"]
    /\ UNCHANGED <<reports, errors>>

\* UpdateAgentBaseMetrics, first line.
ReadMetrics(u) ==
    /\ task[u].pc = "read"
    /\ task' = [task EXCEPT ![u].pc = "write", ![u].copy = metrics[task[u].name]]
    /\ UNCHANGED <<metrics, reports, errors>>

CountReport(u) ==
    LET entry == task[u].copy
    IN  /\ task[u].kind = "report"
        /\ reports' = [reports EXCEPT ![entry.label] = @ + 1]
        /\ Set(task[u].name, [entry EXCEPT !.errors = 0])
        /\ UNCHANGED errors

CountError(u) ==
    LET entry == task[u].copy
    IN  /\ task[u].kind = "error"
        /\ errors' = [errors EXCEPT ![entry.label] = @ + 1]
        /\ Set(task[u].name, [entry EXCEPT !.errors = @ + 1])
        /\ UNCHANGED reports

\* UpdateAgentBaseMetrics, the rest: count, and put the copy back.
WriteMetrics(u) ==
    /\ task[u].pc = "write"
    /\ CountReport(u) \/ CountError(u)
    /\ task' = [task EXCEPT ![u] = IdleTask]

UpdateMetrics(u) == NewAgentMetrics(u) \/ ReadMetrics(u) \/ WriteMetrics(u)

\* The map and the registry of a new process.
InitMetrics == /\ metrics = [a \in {} |-> NoEntry]
               /\ reports = [l \in Labels |-> 0]
               /\ errors = [l \in Labels |-> 0]
               /\ task = [u \in Updaters |-> IdleTask]

MetricsTypeOK ==
    /\ DOMAIN metrics \subseteq Agents
    /\ metrics \in [DOMAIN metrics -> Entries]
    /\ reports \in [Labels -> Nat]
    /\ errors \in [Labels -> Nat]
    /\ task \in [Updaters -> Tasks]

===============================================================================
