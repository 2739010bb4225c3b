----------------------------- MODULE MCEtcdServer -----------------------------
(* The instance of EtcdServer that TLC checks.                              *)
EXTENDS EtcdServer

CONSTANTS a1, l1, none

\* One agent on one node.
OneAgent == {a1}
OneNode == {l1, none}
NodeOfOne == [a \in OneAgent |-> l1]

===============================================================================
