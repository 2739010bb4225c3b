----------------------------- MODULE MCK8sServer -----------------------------
(* The instance of K8sServer that TLC checks.                               *)
EXTENDS K8sServer

CONSTANTS a1, l1, none

\* One agent on one node.
OneAgent == {a1}
OneNode == {l1, none}
NodeOfOne == [a \in OneAgent |-> l1]

==============================================================================
