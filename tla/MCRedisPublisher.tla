-------------------------- MODULE MCRedisPublisher --------------------------
(* Instances of RedisPublisher for TLC. *)
EXTENDS RedisPublisher, TLC

\* Workers differ only in the context they carry.
Symmetry == Permutations(Contexts)
=============================================================================
