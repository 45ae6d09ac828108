--------------------------- MODULE RedisPublisher ---------------------------
(***************************************************************************)
(* Phase 1 delivery of attack contexts: services/runtime-defense/src/      *)
(* redis_publisher.py, as main.py drives it.                               *)
(*                                                                         *)
(* Every ingested event hands one context to publish_context in a thread   *)
(* of its own (asyncio.to_thread), so a context names its worker thread.   *)
(* The event loop is one more thread: it runs drain_memory_backup and the  *)
(* readiness probe is_connected, and blocks while it does.  All of them    *)
(* share, with no lock, the client reference and the bounded deque.        *)
(*                                                                         *)
(* A Redis call is three steps: the read of self.client, the request on    *)
(* the wire, the reply.  An outage breaks every call in flight, also one   *)
(* that the server has executed and not yet answered.                      *)
(***************************************************************************)
EXTENDS Naturals, Sequences, FiniteSets

CONSTANTS
  Contexts,     \* the contexts built by run_pipeline, one worker thread each
  Loop,         \* the event-loop thread
  NoContext,    \* nothing held by the loop
  Capacity,     \* MEMORY_BACKUP_MAX_SIZE, the deque's maxlen
  MaxOutages,   \* bound: how often Redis goes down
  MaxRestarts   \* bound: how often the controller process is restarted

ASSUME PublisherAssumption ==
  /\ Loop \notin Contexts
  /\ NoContext \notin Contexts
  /\ IsFiniteSet(Contexts)
  /\ Capacity \in Nat \ {0}
  /\ MaxOutages \in Nat
  /\ MaxRestarts \in Nat

VARIABLES
  redisUp,    \* the server accepts commands
  outages,    \* outages so far
  restarts,   \* process restarts so far
  client,     \* self.client is not None
  wasUp,      \* self._was_up, what up_cached and /diagnostics report
  pc,         \* where each thread stands
  doomed,     \* threads whose call in flight an outage has broken
  head,       \* ctx of drain_memory_backup, peeked and not yet popped
  backup,     \* self._memory_backup
  wasFull,    \* the local was_full of _backup_to_memory
  dropped,    \* self._dropped_count
  queue,      \* history of LPUSHes on elden:phase2:context:queue
  evictions,  \* history: appends that pushed the oldest entry out
  wiped       \* history: contexts in memory when the process died

vars == <<redisUp, outages, restarts, client, wasUp, pc, doomed, head,
          backup, wasFull, dropped, queue, evictions, wiped>>
redisVars  == <<redisUp, outages, restarts>>
bufferVars == <<backup, wasFull, dropped, evictions>>

Threads == Contexts \cup {Loop}

\* The program points inside a Redis call.
InFlight == {"pinging", "pushing", "pushed", "publishing", "probing"}

\* The program points of _connect and _try_publish, which all threads share.
Delivering == {"try", "ping", "push", "pub"} \cup (InFlight \ {"probing"})

WorkerPoints == {"new", "full", "append", "done", "raised", "killed"} \cup Delivering
LoopPoints   == {"idle", "peek", "pop", "probe", "probe_raised", "probing"} \cup Delivering

Elems(s) == {s[i] : i \in DOMAIN s}

Held(t) == IF t = Loop THEN head ELSE t

\* The connection a call travels on is intact.
Alive(t) == redisUp /\ t \notin doomed

-----------------------------------------------------------------------------
(* A new process: __init__ connects before the first request is served.   *)

Init ==
  /\ redisUp \in BOOLEAN
  /\ client = redisUp
  /\ wasUp = redisUp
  /\ pc = [t \in Threads |-> IF t = Loop THEN "idle" ELSE "new"]
  /\ doomed = {}
  /\ head = NoContext
  /\ backup = <<>>
  /\ wasFull = [c \in Contexts |-> FALSE]
  /\ dropped = 0
  /\ queue = <<>>
  /\ outages = 0 /\ restarts = 0 /\ evictions = 0 /\ wiped = {}

-----------------------------------------------------------------------------
(* The environment *)

RedisDown ==
  /\ redisUp /\ outages < MaxOutages
  /\ redisUp' = FALSE
  /\ outages' = outages + 1
  /\ doomed' = {t \in Threads : pc[t] \in InFlight}
  /\ UNCHANGED <<restarts, client, wasUp, pc, head, queue, wiped, bufferVars>>

RedisRecovers ==
  /\ ~redisUp
  /\ redisUp' = TRUE
  /\ UNCHANGED <<outages, restarts, client, wasUp, pc, doomed, head, queue,
                 wiped, bufferVars>>

\* A rollout, a scale-down or a crash.  The deque and the counters live in
\* memory only, and lifespan cancels the drain task without a last drain.
InMemory == {c \in Contexts : pc[c] \notin {"new", "done", "raised", "killed"}}
              \cup Elems(backup) \cup ({head} \ {NoContext})

Restart ==
  /\ restarts < MaxRestarts
  /\ restarts' = restarts + 1
  /\ client' = redisUp
  /\ wasUp' = redisUp
  /\ pc' = [t \in Threads |->
              IF t = Loop THEN "idle"
              ELSE IF pc[t] \in {"new", "done", "raised"} THEN pc[t] ELSE "killed"]
  /\ doomed' = {}
  /\ head' = NoContext
  /\ wiped' = wiped \cup InMemory
  /\ backup' = <<>>
  /\ wasFull' = [c \in Contexts |-> FALSE]
  /\ dropped' = 0
  /\ UNCHANGED <<redisUp, outages, queue, evictions>>

-----------------------------------------------------------------------------
(* How a thread leaves the shared code *)

Goto(t, point) == pc' = [pc EXCEPT ![t] = point]

\* Mutant: the worker takes the failed attempt for a delivery.
GiveUpSilently(t) ==
  /\ Goto(t, IF t = Loop THEN "idle" ELSE "done")
  /\ head' = IF t = Loop THEN NoContext ELSE head

\* _try_publish or _connect returned False: a worker goes on to back its
\* context up, the drain stops and keeps the rest for its next run.
GiveUp(t) ==
  /\ Goto(t, IF t = Loop THEN "idle" ELSE "full")
  /\ head' = IF t = Loop THEN NoContext ELSE head

\* Mutant: the drain swallows the exception and pops.
RaiseIntoPop(t) ==
  /\ Goto(t, IF t = Loop THEN "pop" ELSE "raised")
  /\ UNCHANGED head

\* self.client turned None between its check and its use: AttributeError,
\* which no except clause of the publisher names.  A worker's request fails
\* before _backup_to_memory is reached; _drain_loop logs it and sleeps.
Raise(t) ==
  /\ Goto(t, IF t = Loop THEN "idle" ELSE "raised")
  /\ head' = IF t = Loop THEN NoContext ELSE head

-----------------------------------------------------------------------------
(* _connect and _try_publish, in whichever thread runs them *)

\* Is there a client?  If not, _connect installs one before it pings.
Try(t) ==
  /\ pc[t] = "try"
  /\ client' = TRUE
  /\ Goto(t, IF client THEN "push" ELSE "ping")
  /\ UNCHANGED <<redisVars, wasUp, doomed, head, queue, wiped, bufferVars>>

\* self.client is read again for each of the three commands.
NextCall == [ping |-> "pinging", push |-> "pushing", pub |-> "publishing"]

Send(t) ==
  /\ pc[t] \in DOMAIN NextCall
  /\ IF client
     THEN Goto(t, NextCall[pc[t]]) /\ UNCHANGED head
     ELSE Raise(t)
  /\ UNCHANGED <<redisVars, client, wasUp, doomed, queue, wiped, bufferVars>>

\* The drain's own _connect comes before its first peek.
PingOk(t) ==
  /\ pc[t] = "pinging" /\ Alive(t)
  /\ wasUp' = TRUE
  /\ Goto(t, IF Held(t) = NoContext THEN "peek" ELSE "push")
  /\ UNCHANGED <<redisVars, client, doomed, head, queue, wiped, bufferVars>>

PingFails(t) ==
  /\ pc[t] = "pinging" /\ ~Alive(t)
  /\ client' = FALSE
  /\ wasUp' = FALSE
  /\ GiveUp(t)
  /\ doomed' = doomed \ {t}
  /\ UNCHANGED <<redisVars, queue, wiped, bufferVars>>

\* The server executes LPUSH; the reply is still to come.
ServePush(t) ==
  /\ pc[t] = "pushing" /\ Alive(t)
  /\ queue' = Append(queue, Held(t))
  /\ Goto(t, "pushed")
  /\ UNCHANGED <<redisVars, client, wasUp, doomed, head, wiped, bufferVars>>

PushOk(t) ==
  /\ pc[t] = "pushed" /\ Alive(t)
  /\ Goto(t, "pub")
  /\ UNCHANGED <<redisVars, client, wasUp, doomed, head, queue, wiped, bufferVars>>

PublishOk(t) ==
  /\ pc[t] = "publishing" /\ Alive(t)
  /\ Goto(t, IF t = Loop THEN "pop" ELSE "done")
  /\ UNCHANGED <<redisVars, client, wasUp, doomed, head, queue, wiped, bufferVars>>

\* Mutant: the drain pops whatever _try_publish returned.
PublishFailsAndPops(t) ==
  /\ pc[t] \in {"pushing", "pushed", "publishing"} /\ ~Alive(t)
  /\ client' = FALSE
  /\ Goto(t, IF t = Loop THEN "pop" ELSE "full")
  /\ doomed' = doomed \ {t}
  /\ UNCHANGED <<redisVars, wasUp, head, queue, wiped, bufferVars>>

\* ConnectionError or TimeoutError of LPUSH or PUBLISH: the client is
\* dropped, the cached state is not touched.
PublishFails(t) ==
  /\ pc[t] \in {"pushing", "pushed", "publishing"} /\ ~Alive(t)
  /\ client' = FALSE
  /\ GiveUp(t)
  /\ doomed' = doomed \ {t}
  /\ UNCHANGED <<redisVars, wasUp, queue, wiped, bufferVars>>

-----------------------------------------------------------------------------
(* publish_context: one worker per context *)

\* run_pipeline reaches asyncio.to_thread, which needs the loop.
Submit(c) ==
  /\ pc[c] = "new" /\ pc[Loop] = "idle"
  /\ Goto(c, "try")
  /\ UNCHANGED <<redisVars, client, wasUp, doomed, head, queue, wiped, bufferVars>>

\* _backup_to_memory reads the length before it appends.
CheckFull(c) ==
  /\ pc[c] = "full"
  /\ wasFull' = [wasFull EXCEPT ![c] = Len(backup) = Capacity]
  /\ Goto(c, "append")
  /\ UNCHANGED <<redisVars, client, wasUp, doomed, head, backup, dropped,
                 evictions, queue, wiped>>

\* Mutants: a deque without maxlen; appendleft.
PushUnbounded(buffer, c) == Append(buffer, c)
PushLeft(buffer, c) ==
  <<c>> \o (IF Len(buffer) = Capacity THEN SubSeq(buffer, 1, Capacity - 1) ELSE buffer)

\* deque.append with maxlen: at capacity the leftmost entry falls out.
PushRight(buffer, c) ==
  IF Len(buffer) = Capacity THEN Append(Tail(buffer), c) ELSE Append(buffer, c)

AppendBackup(c) ==
  /\ pc[c] = "append"
  /\ backup' = PushRight(backup, c)
  /\ evictions' = IF Len(backup) = Capacity THEN evictions + 1 ELSE evictions
  /\ dropped' = IF wasFull[c] THEN dropped + 1 ELSE dropped
  /\ Goto(c, "done")
  /\ UNCHANGED <<redisVars, client, wasUp, doomed, head, wasFull, queue, wiped>>

-----------------------------------------------------------------------------
(* drain_memory_backup, on the event loop *)

\* Mutant: the drain waits for somebody else to reconnect.
DrainIfConnected ==
  /\ pc[Loop] = "idle" /\ backup # <<>> /\ client
  /\ Goto(Loop, "peek")
  /\ UNCHANGED <<redisVars, client, wasUp, doomed, head, queue, wiped, bufferVars>>

DrainStart ==
  /\ pc[Loop] = "idle" /\ backup # <<>>
  /\ client' = TRUE
  /\ Goto(Loop, IF client THEN "peek" ELSE "ping")
  /\ UNCHANGED <<redisVars, wasUp, doomed, head, queue, wiped, bufferVars>>

Peek ==
  /\ pc[Loop] = "peek"
  /\ IF backup = <<>>
     THEN Goto(Loop, "idle") /\ UNCHANGED head
     ELSE Goto(Loop, "try") /\ head' = Head(backup)
  /\ UNCHANGED <<redisVars, client, wasUp, doomed, queue, wiped, bufferVars>>

\* popleft takes whatever is leftmost now.
Pop ==
  /\ pc[Loop] = "pop"
  /\ backup' = Tail(backup)
  /\ head' = NoContext
  /\ Goto(Loop, "peek")
  /\ UNCHANGED <<redisVars, client, wasUp, doomed, wasFull, dropped, evictions,
                 queue, wiped>>

-----------------------------------------------------------------------------
(* is_connected, called by the readiness probe on the event loop *)

ProbeStart ==
  /\ pc[Loop] = "idle"
  /\ IF client
     THEN Goto(Loop, "probe") /\ UNCHANGED wasUp
     ELSE wasUp' = FALSE /\ UNCHANGED pc
  /\ UNCHANGED <<redisVars, client, doomed, head, queue, wiped, bufferVars>>

ProbeSend ==
  /\ pc[Loop] = "probe"
  /\ Goto(Loop, IF client THEN "probing" ELSE "probe_raised")
  /\ UNCHANGED <<redisVars, client, wasUp, doomed, head, queue, wiped, bufferVars>>

ProbeReturns ==
  /\ pc[Loop] = "probing"
  /\ wasUp' = Alive(Loop)
  /\ client' = (client /\ Alive(Loop))
  /\ doomed' = doomed \ {Loop}
  /\ Goto(Loop, "idle")
  /\ UNCHANGED <<redisVars, head, queue, wiped, bufferVars>>

\* The AttributeError of a probe becomes the response 500.
ProbeFailed ==
  /\ pc[Loop] = "probe_raised"
  /\ Goto(Loop, "idle")
  /\ UNCHANGED <<redisVars, client, wasUp, doomed, head, queue, wiped, bufferVars>>

-----------------------------------------------------------------------------
Deliver(t) ==
  \/ Try(t) \/ Send(t)
  \/ PingOk(t) \/ PingFails(t)
  \/ ServePush(t) \/ PushOk(t) \/ PublishOk(t) \/ PublishFails(t)

Worker(c) == Deliver(c) \/ CheckFull(c) \/ AppendBackup(c)

LoopStep == Deliver(Loop) \/ Peek \/ Pop \/ ProbeSend \/ ProbeReturns \/ ProbeFailed

Next ==
  \/ RedisDown \/ RedisRecovers \/ Restart
  \/ \E c \in Contexts : Submit(c) \/ Worker(c)
  \/ DrainStart \/ ProbeStart \/ LoopStep

Spec == Init /\ [][Next]_vars

\* Threads are scheduled, an outage ends, and the drain's sleep expires: the
\* loop serves its ready callbacks in order, so a stream of probes can delay
\* the drain and not starve it.
Fairness ==
  /\ WF_vars(RedisRecovers)
  /\ \A c \in Contexts : WF_vars(Worker(c))
  /\ WF_vars(LoopStep)
  /\ SF_vars(DrainStart)

FairSpec == Spec /\ Fairness

-----------------------------------------------------------------------------
(* What became of a context *)

Queued == Elems(queue)

\* In no memory of the process and in no queue, though its request succeeded
\* and the process has been alive ever since.
Lost == {c \in Contexts :
           /\ pc[c] = "done"
           /\ c \notin Elems(backup) \cup Queued \cup wiped
           /\ c # head}

\* The drain holds a context that an append has already pushed out.
HeadEvicted == head # NoContext /\ head \notin Elems(backup)

-----------------------------------------------------------------------------
(* Properties *)

\* Every variable has its type and the deque respects its maxlen.
TypeOK ==
  /\ redisUp \in BOOLEAN /\ client \in BOOLEAN /\ wasUp \in BOOLEAN
  /\ outages \in Nat /\ restarts \in Nat /\ evictions \in Nat /\ dropped \in Nat
  /\ pc \in [Threads -> WorkerPoints \cup LoopPoints]
  /\ pc[Loop] \in LoopPoints
  /\ \A c \in Contexts : pc[c] \in WorkerPoints
  /\ doomed \subseteq Threads
  /\ head \in Contexts \cup {NoContext}
  /\ backup \in Seq(Contexts) /\ Len(backup) <= Capacity
  /\ wasFull \in [Contexts -> BOOLEAN]
  /\ queue \in Seq(Contexts)
  /\ wiped \subseteq Contexts

\* A context whose request succeeded disappears only when the buffer has
\* overflowed: whatever the workers, the drain and Redis do meanwhile, until
\* the first append on a full deque nothing is lost (publish_context,
\* drain_memory_backup: "Stops on first failure so the next drain attempt
\* picks up where this one left off").
NoLossWithoutOverflow == evictions = 0 => Lost = {}

\* The unlocked peek-publish-popleft of the drain can remove a context that
\* it never sent, when an append evicts the peeked one in between.  It never
\* costs more than the overflow itself: at most one context per eviction.
LossBoundedByEvictions == Cardinality(Lost) <= evictions

\* As long as the peeked context is in the deque it is the oldest there, so
\* that the drain sends in FIFO order whatever workers append meanwhile.
DrainHoldsOldest == head \in Elems(backup) => head = Head(backup)

\* What the drain pops and has not sent is paid for by an eviction that
\* happened under it.
PopsUnsentOnlyAfterEviction ==
  [][Pop => Head(backup) \in Elems(queue) \/ HeadEvicted]_vars

\* Once Redis stays reachable, every buffered context reaches the queue,
\* unless overflow or a restart takes it: the drain does not get stuck behind
\* a dropped client or a failed attempt.
BufferedEventuallyQueued ==
  \A c \in Contexts :
    c \in Elems(backup) ~> c \in Queued \cup Lost \cup wiped

\* /readyz: "events are buffered to an in-memory backup and drained when
\* Redis recovers" (main.py): no publish attempt ends outside queue and
\* backup.
FailedPublishIsBuffered ==
  \A c \in Contexts : pc[c] = "raised" => c \in Queued

\* /readyz: "Always returns 200 as long as adapters and the route map are
\* loaded" (main.py).
ReadinessAlwaysAnswers == pc[Loop] # "probe_raised"

=============================================================================
