--------------------------- MODULE MCLoginSessions ---------------------------
(* One login session in full, for either CLI, among others. *)
EXTENDS LoginSessions

CONSTANT s1

MCSessions == {s1}
=============================================================================
