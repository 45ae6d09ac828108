------------------------- MODULE DeliveryRefinement -------------------------
(* RedisPublisher implements ContextDelivery. *)
EXTENDS RedisPublisher

\* The LPUSH decides: a context the server has taken is queued, whatever the
\* publisher learns of it.
StatusOf(c) ==
  IF c \in Queued THEN "queued"
  ELSE IF c \in wiped THEN "wiped"
  ELSE IF pc[c] = "new" THEN "new"
  ELSE IF pc[c] = "raised" THEN "failed"
  ELSE IF c \in Lost THEN "dropped"
  ELSE IF pc[c] = "done" THEN "buffered" ELSE "pending"

Delivery == INSTANCE ContextDelivery
              WITH status <- [c \in Contexts |-> StatusOf(c)],
                   overflows <- evictions

\* The publisher keeps what the abstract delivery promises: every step of
\* the workers, the drain, the probe, Redis and the process is a step of
\* ContextDelivery or leaves it alone.
ImplementsDelivery == Delivery!Spec
=============================================================================
