---------------------------- MODULE MCEtcdRecords ----------------------------
(* The instance of EtcdRecords that TLC checks.                             *)
EXTENDS EtcdRecords, TLC

CONSTANTS h1, h2

\* No host and no result, one of two hosts with one or two results.
FewPayloads == {[hosts |-> NoMap, probes |-> 0],
                [hosts |-> {h1}, probes |-> 1],
                [hosts |-> {h2}, probes |-> 2]}

Symmetry == Permutations(Agents)

===============================================================================
