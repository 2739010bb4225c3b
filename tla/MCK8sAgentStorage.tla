-------------------------- MODULE MCK8sAgentStorage --------------------------
(* The instance of K8sAgentStorage that TLC checks.                         *)
EXTENDS K8sAgentStorage, TLC

\* Pods, and the goroutines of one kind, are interchangeable.
Symmetry == Permutations(Agents) \cup Permutations(Posters)

==============================================================================
