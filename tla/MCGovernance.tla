---------------------------- MODULE MCGovernance -----------------------------
(* Instances of Governance for TLC. *)
EXTENDS Governance

CONSTANTS low, high

\* Medium is handled like low.
Risk == [i \in Incidents |-> IF i = high THEN "high" ELSE "low"]
=============================================================================
