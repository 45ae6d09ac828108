-------------------------- MODULE ContextDelivery ---------------------------
(***************************************************************************)
(* What Phase 1 promises about the contexts it accepts, without threads,   *)
(* connections or program points: a context that has reached the queue     *)
(* stays there; one that has not is kept in memory, and is given up only   *)
(* when its request fails, when the process ends, or on the account of an  *)
(* overflow of the backup, one context for each.                           *)
(***************************************************************************)
EXTENDS Naturals, FiniteSets

CONSTANT Contexts

VARIABLES
  status,     \* where each context is
  overflows   \* how often an append found the backup full

vars == <<status, overflows>>

Statuses == {"new", "pending", "buffered", "queued", "dropped", "failed", "wiped"}

In(s) == {c \in Contexts : status[c] = s}

Init == status = [c \in Contexts |-> "new"] /\ overflows = 0

Move(c, from, to) ==
  /\ status[c] \in from
  /\ status' = [status EXCEPT ![c] = to]
  /\ UNCHANGED overflows

Accept(c)  == Move(c, {"new"}, "pending")
Enqueue(c) == Move(c, {"pending", "buffered"}, "queued")
Refuse(c)  == Move(c, {"pending"}, "failed")

\* Context c goes to the backup, unless it is in the queue already and only
\* its notification failed; room may be made by dropping buffered ones.
Store(c) ==
  \E o \in {0, 1}, D \in SUBSET In("buffered") :
    /\ status[c] \in {"pending", "queued"}
    /\ Cardinality(In("dropped") \cup D) <= overflows + o
    /\ overflows' = overflows + o
    /\ status' = [x \in Contexts |->
                    CASE x \in D -> "dropped"
                      [] x = c /\ status[c] = "pending" -> "buffered"
                      [] OTHER -> status[x]]

\* A drop that an earlier overflow has made necessary.
Drop(c) ==
  /\ Cardinality(In("dropped")) < overflows
  /\ Move(c, {"buffered"}, "dropped")

Restart ==
  /\ status' = [c \in Contexts |-> IF status[c] \in {"pending", "buffered"}
                                   THEN "wiped" ELSE status[c]]
  /\ UNCHANGED overflows

Next ==
  \/ Restart
  \/ \E c \in Contexts : Accept(c) \/ Enqueue(c) \/ Refuse(c) \/ Store(c) \/ Drop(c)

Spec == Init /\ [][Next]_vars
=============================================================================
