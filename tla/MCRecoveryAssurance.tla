------------------------ MODULE MCRecoveryAssurance -------------------------
(* Instances of RecoveryAssurance for TLC. *)
EXTENDS RecoveryAssurance, TLC

\* docker-compose.real.yml: the worker and the API are separate containers.
OwnProcess == [t \in Threads |-> t]

AllStages == <<"startup", "regression", "security_replay", "slo">>

\* The stages are handled alike: two have a first, a last and a later one.
TwoStages == <<"startup", "slo">>

Symmetry == Permutations(Jobs)
=============================================================================
