-------------------------- MODULE MCEtcdAgentStorage --------------------------
(* The instance of EtcdAgentStorage that TLC checks.                        *)
EXTENDS EtcdAgentStorage, TLC

\* Handlers of one kind are told apart by nothing, where no liveness is checked.
Symmetry == Permutations(Posters)

===============================================================================
