------------------------ MODULE RedisPublisherProofs ------------------------
(***************************************************************************)
(* The inductive invariant of RedisPublisher and what follows from it, and *)
(* the proof that it implements ContextDelivery: for any number of         *)
(* contexts, any capacity and any number of outages and restarts.          *)
(***************************************************************************)
EXTENDS DeliveryRefinement, FiniteSetTheorems, TLAPS

\* The drain holds a context exactly while it delivers one.
LoopHolds ==
  /\ pc[Loop] \in {"idle", "peek", "probe", "probing", "probe_raised"} => head = NoContext
  /\ pc[Loop] \in {"try", "push", "pushing", "pushed", "pub", "publishing", "pop"}
       => head # NoContext

\* Past its LPUSH, a thread's context is in the queue.
SentIsQueued ==
  \A t \in Threads :
    pc[t] \in {"pushed", "pub", "publishing", "pop"} => Held(t) \in Queued

\* A context enters the backup once, with the last step of its worker.
BackedUpOnce ==
  /\ \A i \in DOMAIN backup : pc[backup[i]] = "done"
  /\ \A i, j \in DOMAIN backup : backup[i] = backup[j] => i = j

\* What the drain holds came from the backup, and appends on the right leave
\* something there to pop and the held context leftmost or evicted.
HeadFromBackup ==
  head # NoContext => /\ pc[head] = "done"
                      /\ backup # <<>>
                      /\ \A i \in DOMAIN backup : backup[i] = head => i = 1

\* Until the first eviction the held context is still leftmost and every
\* finished worker's context is somewhere.
KeptUnlessEvicted ==
  evictions = 0 =>
    /\ head # NoContext => backup[1] = head
    /\ \A c \in Contexts : pc[c] = "done" => c \in Elems(backup) \cup Queued \cup wiped

\* An eviction of the held context is a debt: the pop that follows a
\* successful send takes another context for it, a failed send this one.
Owing == IF HeadEvicted THEN 1 ELSE 0

LossPaid == Cardinality(Lost) + Owing <= evictions

IInv == TypeOK /\ LoopHolds /\ SentIsQueued /\ BackedUpOnce /\ HeadFromBackup
          /\ KeptUnlessEvicted

-----------------------------------------------------------------------------
(* Sequences *)

\* Append adds its element to the elements of a sequence.
LEMMA AppendElems ==
  ASSUME NEW S, NEW s \in Seq(S), NEW x \in S
  PROVE  /\ Append(s, x) \in Seq(S)
         /\ Len(Append(s, x)) = Len(s) + 1
         /\ Elems(Append(s, x)) = Elems(s) \cup {x}
<1>1. DOMAIN Append(s, x) = 1 .. Len(s) + 1 /\ DOMAIN s = 1 .. Len(s) /\ Len(s) \in Nat
  OBVIOUS
<1>2. \A i \in 1 .. Len(s) : Append(s, x)[i] = s[i]
  OBVIOUS
<1>3. Append(s, x)[Len(s) + 1] = x
  OBVIOUS
<1>4. Elems(Append(s, x)) \subseteq Elems(s) \cup {x}
  BY <1>1, <1>2, <1>3 DEF Elems
<1>5. Elems(s) \cup {x} \subseteq Elems(Append(s, x))
  BY <1>1, <1>2, <1>3 DEF Elems
<1>6. QED
  BY <1>4, <1>5

\* Tail shifts a sequence and drops its first element.
LEMMA TailIndex ==
  ASSUME NEW S, NEW s \in Seq(S), s # <<>>
  PROVE  /\ Tail(s) \in Seq(S)
         /\ Len(Tail(s)) = Len(s) - 1 /\ Len(s) \in Nat \ {0}
         /\ DOMAIN Tail(s) = 1 .. Len(s) - 1
         /\ \A i \in DOMAIN Tail(s) : Tail(s)[i] = s[i + 1]
  OBVIOUS

\* popleft and the eviction lose at most the leftmost element.
LEMMA TailElems ==
  ASSUME NEW S, NEW s \in Seq(S), s # <<>>
  PROVE  Elems(s) = Elems(Tail(s)) \cup {s[1]}
<1>1. Elems(Tail(s)) \cup {s[1]} \subseteq Elems(s)
  BY TailIndex DEF Elems
<1>2. ASSUME NEW i \in DOMAIN s PROVE s[i] \in Elems(Tail(s)) \cup {s[1]}
  <2>1. CASE i = 1
    BY <2>1
  <2>2. CASE i # 1
    <3>1. i - 1 \in DOMAIN Tail(s) /\ i - 1 + 1 = i
      BY <2>2, TailIndex
    <3>2. QED
      BY <3>1, TailIndex DEF Elems
  <2>3. QED
    BY <2>1, <2>2
<1>3. QED
  BY <1>1, <1>2 DEF Elems

-----------------------------------------------------------------------------
(* The invariant *)

LEMMA InitInv == Init => IInv
<1> SUFFICES ASSUME Init PROVE IInv
  OBVIOUS
<1> USE PublisherAssumption DEF Init, Threads
<1>1. TypeOK
  BY DEF TypeOK, WorkerPoints, LoopPoints
<1>2. LoopHolds /\ SentIsQueued /\ HeadFromBackup
  BY DEF LoopHolds, SentIsQueued, HeadFromBackup
<1>3. BackedUpOnce /\ KeptUnlessEvicted
  BY DEF BackedUpOnce, KeptUnlessEvicted
<1>4. QED
  BY <1>1, <1>2, <1>3 DEF IInv

\* A thread that moves to a program point of its own keeps pc well typed.
LEMMA GotoType ==
  ASSUME TypeOK, NEW t \in Threads, NEW point, Goto(t, point),
         t = Loop => point \in LoopPoints,
         t # Loop => point \in WorkerPoints
  PROVE  /\ pc' \in [Threads -> WorkerPoints \cup LoopPoints]
         /\ pc'[Loop] \in LoopPoints
         /\ \A c \in Contexts : pc'[c] \in WorkerPoints
  BY PublisherAssumption DEF TypeOK, Goto, Threads

\* Moving a thread that has not finished disturbs no entry of the backup.
LEMMA GotoBackedUp ==
  ASSUME TypeOK, BackedUpOnce, NEW t \in Threads, NEW point, Goto(t, point),
         pc[t] # "done", UNCHANGED backup
  PROVE  BackedUpOnce'
<1>1. \A i \in DOMAIN backup : backup[i] \in Threads /\ backup[i] # t
  BY DEF TypeOK, BackedUpOnce, Threads
<1>2. QED
  BY <1>1 DEF TypeOK, Goto, BackedUpOnce

LEMMA DeliverInv ==
  ASSUME IInv, NEW t \in Threads, Deliver(t)
  PROVE  IInv'
<1> USE PublisherAssumption DEF IInv, Threads, redisVars, bufferVars, Held, Queued
<1>1. CASE Try(t)
  <2>1. TypeOK'
    <3>1. pc[t] # "done" /\ UNCHANGED backup
      BY <1>1 DEF Try
    <3>2. PICK point \in WorkerPoints \cup LoopPoints :
            /\ Goto(t, point)
            /\ t = Loop => point \in LoopPoints
            /\ t # Loop => point \in WorkerPoints
      BY <1>1 DEF Try, TypeOK, LoopHolds, WorkerPoints, LoopPoints, Delivering, InFlight
    <3>3. QED
      BY <1>1, <3>2, GotoType DEF Try, TypeOK, LoopHolds
  <2>2. LoopHolds'
    BY <1>1 DEF Try, TypeOK, LoopHolds, Goto
  <2>3. SentIsQueued'
    BY <1>1 DEF Try, TypeOK, LoopHolds, SentIsQueued, Goto
  <2>4. BackedUpOnce'
    BY <1>1, GotoBackedUp DEF Try, BackedUpOnce
  <2>5. HeadFromBackup'
    BY <1>1 DEF Try, TypeOK, LoopHolds, HeadFromBackup, Goto
  <2>6. KeptUnlessEvicted'
    BY <1>1 DEF Try, TypeOK, LoopHolds, KeptUnlessEvicted, Goto
  <2>7. QED
    BY <2>1, <2>2, <2>3, <2>4, <2>5, <2>6
<1>2. CASE Send(t)
  <2>1. TypeOK'
    <3>1. pc[t] # "done" /\ UNCHANGED backup
      BY <1>2 DEF Send, NextCall
    <3>2. PICK point \in WorkerPoints \cup LoopPoints :
            /\ Goto(t, point)
            /\ t = Loop => point \in LoopPoints
            /\ t # Loop => point \in WorkerPoints
      BY <1>2 DEF Send, NextCall, Raise, TypeOK, LoopHolds, WorkerPoints, LoopPoints, Delivering, InFlight
    <3>3. QED
      BY <1>2, <3>2, GotoType DEF Send, NextCall, Raise, TypeOK, LoopHolds
  <2>2. LoopHolds'
    BY <1>2 DEF Send, NextCall, Raise, TypeOK, LoopHolds, Goto
  <2>3. SentIsQueued'
    BY <1>2 DEF Send, NextCall, Raise, TypeOK, LoopHolds, SentIsQueued, Goto
  <2>4. BackedUpOnce'
    BY <1>2, GotoBackedUp DEF Send, NextCall, Raise, BackedUpOnce
  <2>5. HeadFromBackup'
    BY <1>2 DEF Send, NextCall, Raise, TypeOK, LoopHolds, HeadFromBackup, Goto
  <2>6. KeptUnlessEvicted'
    BY <1>2 DEF Send, NextCall, Raise, TypeOK, LoopHolds, KeptUnlessEvicted, Goto
  <2>7. QED
    BY <2>1, <2>2, <2>3, <2>4, <2>5, <2>6
<1>3. CASE PingOk(t)
  <2>1. TypeOK'
    <3>1. pc[t] # "done" /\ UNCHANGED backup
      BY <1>3 DEF PingOk
    <3>2. PICK point \in WorkerPoints \cup LoopPoints :
            /\ Goto(t, point)
            /\ t = Loop => point \in LoopPoints
            /\ t # Loop => point \in WorkerPoints
      BY <1>3 DEF PingOk, TypeOK, LoopHolds, WorkerPoints, LoopPoints, Delivering, InFlight
    <3>3. QED
      BY <1>3, <3>2, GotoType DEF PingOk, TypeOK, LoopHolds
  <2>2. LoopHolds'
    BY <1>3 DEF PingOk, TypeOK, LoopHolds, Goto
  <2>3. SentIsQueued'
    BY <1>3 DEF PingOk, TypeOK, LoopHolds, SentIsQueued, Goto
  <2>4. BackedUpOnce'
    BY <1>3, GotoBackedUp DEF PingOk, BackedUpOnce
  <2>5. HeadFromBackup'
    BY <1>3 DEF PingOk, TypeOK, LoopHolds, HeadFromBackup, Goto
  <2>6. KeptUnlessEvicted'
    BY <1>3 DEF PingOk, TypeOK, LoopHolds, KeptUnlessEvicted, Goto
  <2>7. QED
    BY <2>1, <2>2, <2>3, <2>4, <2>5, <2>6
<1>4. CASE PingFails(t)
  <2>1. TypeOK'
    <3>1. pc[t] # "done" /\ UNCHANGED backup
      BY <1>4 DEF PingFails
    <3>2. PICK point \in WorkerPoints \cup LoopPoints :
            /\ Goto(t, point)
            /\ t = Loop => point \in LoopPoints
            /\ t # Loop => point \in WorkerPoints
      BY <1>4 DEF PingFails, GiveUp, TypeOK, LoopHolds, WorkerPoints, LoopPoints, Delivering, InFlight
    <3>3. QED
      BY <1>4, <3>2, GotoType DEF PingFails, GiveUp, TypeOK, LoopHolds
  <2>2. LoopHolds'
    BY <1>4 DEF PingFails, GiveUp, TypeOK, LoopHolds, Goto
  <2>3. SentIsQueued'
    BY <1>4 DEF PingFails, GiveUp, TypeOK, LoopHolds, SentIsQueued, Goto
  <2>4. BackedUpOnce'
    BY <1>4, GotoBackedUp DEF PingFails, GiveUp, BackedUpOnce
  <2>5. HeadFromBackup'
    BY <1>4 DEF PingFails, GiveUp, TypeOK, LoopHolds, HeadFromBackup, Goto
  <2>6. KeptUnlessEvicted'
    BY <1>4 DEF PingFails, GiveUp, TypeOK, LoopHolds, KeptUnlessEvicted, Goto
  <2>7. QED
    BY <2>1, <2>2, <2>3, <2>4, <2>5, <2>6
<1>5. CASE ServePush(t)
  <2>0. Elems(queue') = Elems(queue) \cup {Held(t)}
    <3>1. Held(t) \in Contexts
      BY <1>5 DEF ServePush, TypeOK, LoopHolds
    <3>2. QED
      BY <1>5, <3>1, AppendElems DEF ServePush, TypeOK
  <2>1. TypeOK'
    <3>1. pc[t] # "done" /\ UNCHANGED backup
      BY <1>5 DEF ServePush
    <3>2. PICK point \in WorkerPoints \cup LoopPoints :
            /\ Goto(t, point)
            /\ t = Loop => point \in LoopPoints
            /\ t # Loop => point \in WorkerPoints
      BY <1>5 DEF ServePush, TypeOK, LoopHolds, WorkerPoints, LoopPoints, Delivering, InFlight
    <3>3. QED
      BY <1>5, <3>2, GotoType DEF ServePush, TypeOK, LoopHolds
  <2>2. LoopHolds'
    BY <1>5 DEF ServePush, TypeOK, LoopHolds, Goto
  <2>3. SentIsQueued'
    BY <1>5, <2>0 DEF ServePush, TypeOK, LoopHolds, SentIsQueued, Goto
  <2>4. BackedUpOnce'
    BY <1>5, GotoBackedUp DEF ServePush, BackedUpOnce
  <2>5. HeadFromBackup'
    BY <1>5 DEF ServePush, TypeOK, LoopHolds, HeadFromBackup, Goto
  <2>6. KeptUnlessEvicted'
    BY <1>5, <2>0 DEF ServePush, TypeOK, LoopHolds, KeptUnlessEvicted, Goto
  <2>7. QED
    BY <2>1, <2>2, <2>3, <2>4, <2>5, <2>6
<1>6. CASE PushOk(t)
  <2>1. TypeOK'
    <3>1. pc[t] # "done" /\ UNCHANGED backup
      BY <1>6 DEF PushOk
    <3>2. PICK point \in WorkerPoints \cup LoopPoints :
            /\ Goto(t, point)
            /\ t = Loop => point \in LoopPoints
            /\ t # Loop => point \in WorkerPoints
      BY <1>6 DEF PushOk, TypeOK, LoopHolds, WorkerPoints, LoopPoints, Delivering, InFlight
    <3>3. QED
      BY <1>6, <3>2, GotoType DEF PushOk, TypeOK, LoopHolds
  <2>2. LoopHolds'
    BY <1>6 DEF PushOk, TypeOK, LoopHolds, Goto
  <2>3. SentIsQueued'
    BY <1>6 DEF PushOk, TypeOK, LoopHolds, SentIsQueued, Goto
  <2>4. BackedUpOnce'
    BY <1>6, GotoBackedUp DEF PushOk, BackedUpOnce
  <2>5. HeadFromBackup'
    BY <1>6 DEF PushOk, TypeOK, LoopHolds, HeadFromBackup, Goto
  <2>6. KeptUnlessEvicted'
    BY <1>6 DEF PushOk, TypeOK, LoopHolds, KeptUnlessEvicted, Goto
  <2>7. QED
    BY <2>1, <2>2, <2>3, <2>4, <2>5, <2>6
<1>7. CASE PublishOk(t)
  <2>1. TypeOK'
    <3>1. pc[t] # "done" /\ UNCHANGED backup
      BY <1>7 DEF PublishOk
    <3>2. PICK point \in WorkerPoints \cup LoopPoints :
            /\ Goto(t, point)
            /\ t = Loop => point \in LoopPoints
            /\ t # Loop => point \in WorkerPoints
      BY <1>7 DEF PublishOk, TypeOK, LoopHolds, WorkerPoints, LoopPoints, Delivering, InFlight
    <3>3. QED
      BY <1>7, <3>2, GotoType DEF PublishOk, TypeOK, LoopHolds
  <2>2. LoopHolds'
    BY <1>7 DEF PublishOk, TypeOK, LoopHolds, Goto
  <2>3. SentIsQueued'
    BY <1>7 DEF PublishOk, TypeOK, LoopHolds, SentIsQueued, Goto
  <2>4. BackedUpOnce'
    BY <1>7, GotoBackedUp DEF PublishOk, BackedUpOnce
  <2>5. HeadFromBackup'
    BY <1>7 DEF PublishOk, TypeOK, LoopHolds, HeadFromBackup, Goto
  <2>6. KeptUnlessEvicted'
    BY <1>7 DEF PublishOk, TypeOK, LoopHolds, SentIsQueued, KeptUnlessEvicted, Goto
  <2>7. QED
    BY <2>1, <2>2, <2>3, <2>4, <2>5, <2>6
<1>8. CASE PublishFails(t)
  <2>1. TypeOK'
    <3>1. pc[t] # "done" /\ UNCHANGED backup
      BY <1>8 DEF PublishFails
    <3>2. PICK point \in WorkerPoints \cup LoopPoints :
            /\ Goto(t, point)
            /\ t = Loop => point \in LoopPoints
            /\ t # Loop => point \in WorkerPoints
      BY <1>8 DEF PublishFails, GiveUp, TypeOK, LoopHolds, WorkerPoints, LoopPoints, Delivering, InFlight
    <3>3. QED
      BY <1>8, <3>2, GotoType DEF PublishFails, GiveUp, TypeOK, LoopHolds
  <2>2. LoopHolds'
    BY <1>8 DEF PublishFails, GiveUp, TypeOK, LoopHolds, Goto
  <2>3. SentIsQueued'
    BY <1>8 DEF PublishFails, GiveUp, TypeOK, LoopHolds, SentIsQueued, Goto
  <2>4. BackedUpOnce'
    BY <1>8, GotoBackedUp DEF PublishFails, GiveUp, BackedUpOnce
  <2>5. HeadFromBackup'
    BY <1>8 DEF PublishFails, GiveUp, TypeOK, LoopHolds, HeadFromBackup, Goto
  <2>6. KeptUnlessEvicted'
    BY <1>8 DEF PublishFails, GiveUp, TypeOK, LoopHolds, KeptUnlessEvicted, Goto
  <2>7. QED
    BY <2>1, <2>2, <2>3, <2>4, <2>5, <2>6
<1>9. QED
  BY <1>1, <1>2, <1>3, <1>4, <1>5, <1>6, <1>7, <1>8 DEF Deliver

LEMMA EnvironmentInv ==
  ASSUME IInv, RedisDown \/ RedisRecovers \/ Restart
  PROVE  IInv'
<1> USE PublisherAssumption DEF IInv, Threads, redisVars, bufferVars, Held, Queued
<1>1. CASE RedisDown
  <2>1. TypeOK'
    <3>1. doomed' \subseteq Threads
      BY <1>1 DEF RedisDown
    <3>2. outages' \in Nat
      BY <1>1 DEF RedisDown, TypeOK
    <3>3. redisUp' \in BOOLEAN
      BY <1>1 DEF RedisDown
    <3>4. QED
      BY <1>1, <3>1, <3>2, <3>3 DEF RedisDown, TypeOK
  <2>2. LoopHolds' /\ SentIsQueued'
    BY <1>1 DEF RedisDown, TypeOK, LoopHolds, SentIsQueued
  <2>3. BackedUpOnce' /\ HeadFromBackup'
    BY <1>1 DEF RedisDown, TypeOK, LoopHolds, BackedUpOnce, HeadFromBackup
  <2>4. KeptUnlessEvicted'
    BY <1>1 DEF RedisDown, TypeOK, LoopHolds, KeptUnlessEvicted
  <2>5. QED
    BY <2>1, <2>2, <2>3, <2>4
<1>2. CASE RedisRecovers
  <2>1. TypeOK'
    BY <1>2 DEF RedisRecovers, TypeOK, WorkerPoints, LoopPoints, Delivering, InFlight
  <2>2. LoopHolds' /\ SentIsQueued'
    BY <1>2 DEF RedisRecovers, TypeOK, LoopHolds, SentIsQueued
  <2>3. BackedUpOnce' /\ HeadFromBackup'
    BY <1>2 DEF RedisRecovers, TypeOK, LoopHolds, BackedUpOnce, HeadFromBackup
  <2>4. KeptUnlessEvicted'
    BY <1>2 DEF RedisRecovers, TypeOK, LoopHolds, KeptUnlessEvicted
  <2>5. QED
    BY <2>1, <2>2, <2>3, <2>4
<1>3. CASE Restart
  <2>1. TypeOK'
    <3>1. wiped' \subseteq Contexts
      BY <1>3 DEF Restart, InMemory, Elems, TypeOK
    <3>2. "idle" \in LoopPoints /\ {"new", "done", "raised", "killed"} \subseteq WorkerPoints
      BY DEF WorkerPoints, LoopPoints
    <3>3. /\ pc' \in [Threads -> WorkerPoints \cup LoopPoints]
          /\ pc'[Loop] \in LoopPoints
          /\ \A c \in Contexts : pc'[c] \in WorkerPoints
      BY <1>3, <3>2 DEF Restart
    <3>4. QED
      BY <1>3, <3>1, <3>3 DEF Restart, TypeOK
  <2>2. LoopHolds' /\ SentIsQueued'
    BY <1>3 DEF Restart, TypeOK, LoopHolds, SentIsQueued
  <2>3. BackedUpOnce' /\ HeadFromBackup'
    BY <1>3 DEF Restart, TypeOK, LoopHolds, BackedUpOnce, HeadFromBackup
  <2>4. KeptUnlessEvicted'
    <3>1. head' = NoContext /\ evictions' = evictions /\ Queued' = Queued
      BY <1>3 DEF Restart
    <3>2. \A c \in Contexts : pc'[c] = "done" => pc[c] = "done"
      BY <1>3 DEF Restart
    <3>3. Elems(backup) \cup wiped \subseteq wiped'
      BY <1>3 DEF Restart, InMemory
    <3>4. QED
      BY <3>1, <3>2, <3>3 DEF KeptUnlessEvicted
  <2>5. QED
    BY <2>1, <2>2, <2>3, <2>4
<1>4. QED
  BY <1>1, <1>2, <1>3

LEMMA WorkerInv ==
  ASSUME IInv, NEW c \in Contexts, Submit(c) \/ CheckFull(c) \/ AppendBackup(c)
  PROVE  IInv'
<1> USE PublisherAssumption DEF IInv, Threads, redisVars, bufferVars, Held, Queued
<1>1. CASE Submit(c)
  <2>1. TypeOK'
    BY <1>1 DEF Submit, TypeOK, WorkerPoints, LoopPoints, Delivering, InFlight, Goto
  <2>2. LoopHolds' /\ SentIsQueued'
    BY <1>1 DEF Submit, TypeOK, LoopHolds, SentIsQueued, Goto
  <2>3. BackedUpOnce' /\ HeadFromBackup'
    BY <1>1 DEF Submit, TypeOK, LoopHolds, BackedUpOnce, HeadFromBackup, Goto
  <2>4. KeptUnlessEvicted'
    BY <1>1 DEF Submit, TypeOK, LoopHolds, KeptUnlessEvicted, Goto
  <2>5. QED
    BY <2>1, <2>2, <2>3, <2>4
<1>2. CASE CheckFull(c)
  <2>1. TypeOK'
    BY <1>2 DEF CheckFull, TypeOK, WorkerPoints, LoopPoints, Delivering, InFlight, Goto
  <2>2. LoopHolds' /\ SentIsQueued'
    BY <1>2 DEF CheckFull, TypeOK, LoopHolds, SentIsQueued, Goto
  <2>3. BackedUpOnce' /\ HeadFromBackup'
    BY <1>2 DEF CheckFull, TypeOK, LoopHolds, BackedUpOnce, HeadFromBackup, Goto
  <2>4. KeptUnlessEvicted'
    BY <1>2 DEF CheckFull, TypeOK, LoopHolds, KeptUnlessEvicted, Goto
  <2>5. QED
    BY <2>1, <2>2, <2>3, <2>4
<1>3. CASE AppendBackup(c)
  <2>a. DEFINE kept == IF Len(backup) = Capacity THEN Tail(backup) ELSE backup
  <2>b. /\ backup' = Append(kept, c)
        /\ pc[c] = "append" /\ pc' = [pc EXCEPT ![c] = "done"]
        /\ UNCHANGED <<head, queue, wiped>>
    BY <1>3 DEF AppendBackup, PushRight, Goto
  <2>c. /\ kept \in Seq(Contexts) /\ Len(kept) \in Nat
        /\ DOMAIN kept = 1 .. Len(kept)
        /\ \A i \in DOMAIN kept : \E j \in DOMAIN backup : kept[i] = backup[j] /\ i <= j
        /\ \A i, j \in DOMAIN kept : kept[i] = kept[j] => i = j
    BY TailIndex DEF TypeOK, BackedUpOnce
  <2>d. /\ Len(backup') = Len(kept) + 1
        /\ DOMAIN backup' = 1 .. Len(kept) + 1
        /\ \A i \in 1 .. Len(kept) : backup'[i] = kept[i]
        /\ backup'[Len(kept) + 1] = c
        /\ Elems(backup') = Elems(kept) \cup {c}
    <3>1. backup' = Append(kept, c) /\ kept \in Seq(Contexts)
      BY <2>b, <2>c
    <3>2. backup' \in Seq(Contexts) /\ Len(backup') = Len(kept) + 1
          /\ Elems(backup') = Elems(kept) \cup {c}
      BY <3>1, AppendElems
    <3> HIDE DEF kept
    <3>3. QED
      BY <3>1, <3>2, <2>c
  <2>e. \A i \in DOMAIN kept : pc[kept[i]] = "done" /\ kept[i] # c /\ kept[i] \in Contexts
    BY <2>b, <2>c DEF BackedUpOnce, TypeOK
  <2> HIDE DEF kept
  <2>1. TypeOK'
    BY <1>3 DEF AppendBackup, PushRight, TypeOK, WorkerPoints, LoopPoints, Delivering, InFlight, Goto
  <2>2. LoopHolds' /\ SentIsQueued'
    BY <1>3 DEF AppendBackup, PushRight, TypeOK, LoopHolds, SentIsQueued, Goto
  <2>3. BackedUpOnce'
    <3>1. \A i \in DOMAIN backup' : pc'[backup'[i]] = "done"
      BY <2>b, <2>c, <2>d, <2>e DEF TypeOK
    <3>2. \A i, j \in DOMAIN backup' : backup'[i] = backup'[j] => i = j
      BY <2>c, <2>d, <2>e
    <3>3. QED
      BY <3>1, <3>2 DEF BackedUpOnce
  <2>f. HeadFromBackup'
    <3> SUFFICES ASSUME head # NoContext
                 PROVE  /\ pc'[head] = "done" /\ backup' # <<>>
                        /\ \A i \in DOMAIN backup' : backup'[i] = head => i = 1
      BY <2>b DEF HeadFromBackup
    <3>1. pc'[head] = "done" /\ head # c
      BY <2>b DEF HeadFromBackup, TypeOK
    <3>2. ASSUME NEW i \in DOMAIN backup', backup'[i] = head PROVE i = 1
      <4>1. i \in DOMAIN kept /\ kept[i] = head
        BY <3>1, <3>2, <2>c, <2>d
      <4>2. PICK j \in DOMAIN backup : kept[i] = backup[j] /\ i <= j
        BY <4>1, <2>c
      <4>3. j = 1
        BY <4>1, <4>2 DEF HeadFromBackup
      <4>4. QED
        BY <4>1, <4>2, <4>3, <2>c
    <3>3. QED
      BY <3>1, <3>2, <2>c, <2>d
  <2>4. KeptUnlessEvicted'
    <3> SUFFICES ASSUME evictions' = 0
                 PROVE  /\ head # NoContext => backup'[1] = head
                        /\ \A x \in Contexts : pc'[x] = "done" =>
                             x \in Elems(backup') \cup Queued \cup wiped
      BY <2>b DEF KeptUnlessEvicted
    <3>1. evictions = 0 /\ kept = backup
      BY <1>3 DEF AppendBackup, TypeOK, kept
    <3>2. head # NoContext => backup'[1] = head
      BY <3>1, <2>c, <2>d DEF KeptUnlessEvicted, HeadFromBackup
    <3>3. \A x \in Contexts : pc'[x] = "done" => x = c \/ pc[x] = "done"
      BY <2>b DEF TypeOK
    <3>4. QED
      BY <3>1, <3>2, <3>3, <2>d DEF KeptUnlessEvicted
  <2>5. QED
    BY <2>1, <2>2, <2>3, <2>f, <2>4
<1>4. QED
  BY <1>1, <1>2, <1>3

LEMMA LoopInv ==
  ASSUME IInv, DrainStart \/ Peek \/ Pop \/ ProbeStart \/ ProbeSend \/ ProbeReturns \/ ProbeFailed
  PROVE  IInv'
<1> USE PublisherAssumption DEF IInv, Threads, redisVars, bufferVars, Held, Queued
<1>1. CASE DrainStart
  <2>1. TypeOK'
    BY <1>1 DEF DrainStart, TypeOK, WorkerPoints, LoopPoints, Delivering, InFlight, Goto
  <2>2. LoopHolds' /\ SentIsQueued'
    BY <1>1 DEF DrainStart, TypeOK, LoopHolds, SentIsQueued, Goto
  <2>3. BackedUpOnce' /\ HeadFromBackup'
    BY <1>1 DEF DrainStart, TypeOK, LoopHolds, BackedUpOnce, HeadFromBackup, Goto
  <2>4. KeptUnlessEvicted'
    BY <1>1 DEF DrainStart, TypeOK, LoopHolds, KeptUnlessEvicted, Goto
  <2>5. QED
    BY <2>1, <2>2, <2>3, <2>4
<1>2. CASE Peek
  <2>1. TypeOK'
    BY <1>2 DEF Peek, TypeOK, WorkerPoints, LoopPoints, Delivering, InFlight, Goto
  <2>2. LoopHolds' /\ SentIsQueued'
    BY <1>2 DEF Peek, TypeOK, LoopHolds, SentIsQueued, Goto
  <2>3. BackedUpOnce' /\ HeadFromBackup'
    BY <1>2 DEF Peek, TypeOK, LoopHolds, BackedUpOnce, HeadFromBackup, Goto
  <2>4. KeptUnlessEvicted'
    BY <1>2 DEF Peek, TypeOK, LoopHolds, KeptUnlessEvicted, Goto
  <2>5. QED
    BY <2>1, <2>2, <2>3, <2>4
<1>3. CASE Pop
  <2>0. backup # <<>> /\ head \in Queued /\ Elems(backup) = Elems(backup') \cup {backup[1]}
    BY <1>3, TailElems DEF Pop, LoopHolds, HeadFromBackup, SentIsQueued, TypeOK
  <2>1. TypeOK'
    <3>1. backup' \in Seq(Contexts) /\ Len(backup') <= Capacity
      BY <1>3, <2>0, TailIndex DEF Pop, TypeOK
    <3>2. "peek" \in LoopPoints
      BY DEF LoopPoints
    <3>3. QED
      BY <1>3, <3>1, <3>2, GotoType DEF Pop, TypeOK
  <2>2. LoopHolds' /\ SentIsQueued'
    BY <1>3 DEF Pop, TypeOK, LoopHolds, SentIsQueued, Goto
  <2>3. BackedUpOnce' /\ HeadFromBackup'
    BY <1>3 DEF Pop, TypeOK, LoopHolds, BackedUpOnce, HeadFromBackup, Goto
  <2>4. KeptUnlessEvicted'
    BY <1>3, <2>0 DEF Pop, TypeOK, LoopHolds, KeptUnlessEvicted, Goto
  <2>5. QED
    BY <2>1, <2>2, <2>3, <2>4
<1>4. CASE ProbeStart
  <2>1. TypeOK'
    BY <1>4 DEF ProbeStart, TypeOK, WorkerPoints, LoopPoints, Delivering, InFlight, Goto
  <2>2. LoopHolds' /\ SentIsQueued'
    BY <1>4 DEF ProbeStart, TypeOK, LoopHolds, SentIsQueued, Goto
  <2>3. BackedUpOnce' /\ HeadFromBackup'
    BY <1>4 DEF ProbeStart, TypeOK, LoopHolds, BackedUpOnce, HeadFromBackup, Goto
  <2>4. KeptUnlessEvicted'
    BY <1>4 DEF ProbeStart, TypeOK, LoopHolds, KeptUnlessEvicted, Goto
  <2>5. QED
    BY <2>1, <2>2, <2>3, <2>4
<1>5. CASE ProbeSend
  <2>1. TypeOK'
    BY <1>5 DEF ProbeSend, TypeOK, WorkerPoints, LoopPoints, Delivering, InFlight, Goto
  <2>2. LoopHolds' /\ SentIsQueued'
    BY <1>5 DEF ProbeSend, TypeOK, LoopHolds, SentIsQueued, Goto
  <2>3. BackedUpOnce' /\ HeadFromBackup'
    BY <1>5 DEF ProbeSend, TypeOK, LoopHolds, BackedUpOnce, HeadFromBackup, Goto
  <2>4. KeptUnlessEvicted'
    BY <1>5 DEF ProbeSend, TypeOK, LoopHolds, KeptUnlessEvicted, Goto
  <2>5. QED
    BY <2>1, <2>2, <2>3, <2>4
<1>6. CASE ProbeReturns
  <2>1. TypeOK'
    <3>1. wasUp' \in BOOLEAN /\ client' \in BOOLEAN
      BY <1>6 DEF ProbeReturns, Alive, TypeOK
    <3>2. "idle" \in LoopPoints
      BY DEF LoopPoints
    <3>3. QED
      BY <1>6, <3>1, <3>2, GotoType DEF ProbeReturns, TypeOK
  <2>2. LoopHolds' /\ SentIsQueued'
    BY <1>6 DEF ProbeReturns, TypeOK, LoopHolds, SentIsQueued, Goto
  <2>3. BackedUpOnce' /\ HeadFromBackup'
    BY <1>6 DEF ProbeReturns, TypeOK, LoopHolds, BackedUpOnce, HeadFromBackup, Goto
  <2>4. KeptUnlessEvicted'
    BY <1>6 DEF ProbeReturns, TypeOK, LoopHolds, KeptUnlessEvicted, Goto
  <2>5. QED
    BY <2>1, <2>2, <2>3, <2>4
<1>7. CASE ProbeFailed
  <2>1. TypeOK'
    BY <1>7 DEF ProbeFailed, TypeOK, WorkerPoints, LoopPoints, Delivering, InFlight, Goto
  <2>2. LoopHolds' /\ SentIsQueued'
    BY <1>7 DEF ProbeFailed, TypeOK, LoopHolds, SentIsQueued, Goto
  <2>3. BackedUpOnce' /\ HeadFromBackup'
    BY <1>7 DEF ProbeFailed, TypeOK, LoopHolds, BackedUpOnce, HeadFromBackup, Goto
  <2>4. KeptUnlessEvicted'
    BY <1>7 DEF ProbeFailed, TypeOK, LoopHolds, KeptUnlessEvicted, Goto
  <2>5. QED
    BY <2>1, <2>2, <2>3, <2>4
<1>8. QED
  BY <1>1, <1>2, <1>3, <1>4, <1>5, <1>6, <1>7

\* Every step keeps the invariant.
LEMMA StepInv == IInv /\ [Next]_vars => IInv'
<1> SUFFICES ASSUME IInv, [Next]_vars PROVE IInv'
  OBVIOUS
<1>1. CASE RedisDown \/ RedisRecovers \/ Restart
  BY <1>1, EnvironmentInv
<1>2. ASSUME NEW c \in Contexts, Submit(c) \/ Worker(c) PROVE IInv'
  BY <1>2, WorkerInv, DeliverInv DEF Worker, Threads
<1>3. CASE DrainStart \/ ProbeStart \/ LoopStep
  BY <1>3, LoopInv, DeliverInv DEF LoopStep, Threads
<1>4. CASE UNCHANGED vars
  BY <1>4 DEF vars, IInv, TypeOK, LoopHolds, SentIsQueued, BackedUpOnce,
       HeadFromBackup, KeptUnlessEvicted, Held, Queued
<1>5. QED
  BY <1>1, <1>2, <1>3, <1>4 DEF Next

\* The conjunction that carries every result below holds throughout.
THEOREM Invariance == Spec => []IInv
  BY InitInv, StepInv, PTL DEF Spec

-----------------------------------------------------------------------------
(* Results *)

\* The variables keep their types and the deque its bound.
THEOREM TypeCorrect == Spec => []TypeOK
<1>1. IInv => TypeOK
  BY DEF IInv
<1>2. QED
  BY <1>1, Invariance, PTL

\* No interleaving of workers, drain, probe and outages loses a context of a
\* successful request before the first append on a full deque.
THEOREM NoLoss == Spec => []NoLossWithoutOverflow
<1>1. IInv => NoLossWithoutOverflow
  BY DEF IInv, KeptUnlessEvicted, NoLossWithoutOverflow, Lost
<1>2. QED
  BY <1>1, Invariance, PTL

\* The drain works on the oldest buffered context.
THEOREM DrainIsFifo == Spec => []DrainHoldsOldest
<1>1. IInv => DrainHoldsOldest
  <2> SUFFICES ASSUME IInv, head \in Elems(backup) PROVE head = Head(backup)
    BY DEF DrainHoldsOldest
  <2>1. head \in Contexts /\ head # NoContext
    BY PublisherAssumption DEF IInv, TypeOK, Elems
  <2>2. PICK i \in DOMAIN backup : backup[i] = head
    BY DEF Elems
  <2>3. i = 1
    BY <2>1, <2>2 DEF IInv, HeadFromBackup
  <2>4. QED
    BY <2>2, <2>3
<1>2. QED
  BY <1>1, Invariance, PTL

\* A popped context has been sent, or the one that was sent has been evicted
\* while it was on its way.
THEOREM PopIsPaidFor == Spec => PopsUnsentOnlyAfterEviction
<1>1. IInv /\ [Next]_vars =>
        [Pop => Head(backup) \in Elems(queue) \/ HeadEvicted]_vars
  <2> SUFFICES ASSUME IInv, Pop, ~HeadEvicted PROVE Head(backup) \in Elems(queue)
    OBVIOUS
  <2>1. head # NoContext /\ head \in Elems(queue)
    BY DEF Pop, IInv, LoopHolds, SentIsQueued, Held, Queued, Threads
  <2>2. PICK i \in DOMAIN backup : backup[i] = head
    BY <2>1 DEF HeadEvicted, Elems
  <2>3. i = 1
    BY <2>1, <2>2 DEF IInv, HeadFromBackup
  <2>4. QED
    BY <2>1, <2>2, <2>3
<1>2. QED
  BY <1>1, Invariance, PTL DEF Spec, PopsUnsentOnlyAfterEviction

-----------------------------------------------------------------------------
(* One context per eviction *)

\* Any set of contexts is finite.
LEMMA LostFinite == IsFiniteSet(Lost) /\ Cardinality(Lost) \in Nat
<1>1. Lost \subseteq Contexts
  BY DEF Lost
<1>2. QED
  BY <1>1, PublisherAssumption, FS_Subset, FS_CardinalityType

\* A step that loses nothing more makes no debt, or evicts.
LEMMA NoNewLoss ==
  ASSUME IInv, LossPaid, Lost' \subseteq Lost,
         \/ evictions' = evictions /\ (Owing' = Owing \/ Owing' = 0)
         \/ evictions' = evictions + 1
  PROVE  LossPaid'
<1>1. IsFiniteSet(Lost') /\ Cardinality(Lost') <= Cardinality(Lost)
  BY LostFinite, FS_Subset
<1>2. Cardinality(Lost') \in Nat /\ Cardinality(Lost) \in Nat
  BY <1>1, LostFinite, FS_CardinalityType
<1>3. evictions \in Nat /\ Cardinality(Lost) <= evictions
      /\ (Owing = 1 => Cardinality(Lost) + 1 <= evictions)
  BY <1>2 DEF LossPaid, Owing, IInv, TypeOK
<1>4. Owing \in {0, 1} /\ Owing' \in {0, 1}
  BY DEF Owing
<1>5. CASE Owing' = 0
  BY <1>1, <1>2, <1>3, <1>5 DEF LossPaid
<1>6. CASE Owing' = 1
  BY <1>1, <1>2, <1>3, <1>4, <1>6 DEF LossPaid
<1>7. QED
  BY <1>4, <1>5, <1>6

\* A step that loses one context evicts, or pays a debt.
LEMMA OneNewLoss ==
  ASSUME IInv, LossPaid, NEW x, Lost' \subseteq Lost \cup {x},
         \/ evictions' = evictions /\ Owing = 1 /\ Owing' = 0
         \/ evictions' = evictions + 1 /\ Owing' = Owing
  PROVE  LossPaid'
<1>1. IsFiniteSet(Lost \cup {x}) /\ Cardinality(Lost \cup {x}) <= Cardinality(Lost) + 1
  <2>1. /\ IsFiniteSet(Lost \cup {x})
        /\ \/ Cardinality(Lost \cup {x}) = Cardinality(Lost)
           \/ Cardinality(Lost \cup {x}) = Cardinality(Lost) + 1
    BY LostFinite, FS_AddElement, Zenon
  <2>2. \A m, n \in Nat : n = m \/ n = m + 1 => n <= m + 1
    OBVIOUS
  <2>3. QED
    BY <2>1, <2>2, LostFinite, FS_CardinalityType
<1>2. IsFiniteSet(Lost') /\ Cardinality(Lost') <= Cardinality(Lost \cup {x})
  BY <1>1, FS_Subset
<1>3. Cardinality(Lost') \in Nat /\ Cardinality(Lost) \in Nat /\ Cardinality(Lost \cup {x}) \in Nat
  BY <1>1, <1>2, LostFinite, FS_CardinalityType
<1>4. evictions \in Nat /\ Cardinality(Lost) <= evictions
      /\ (Owing = 1 => Cardinality(Lost) + 1 <= evictions)
  BY <1>3 DEF LossPaid, Owing, IInv, TypeOK
<1>5. Owing \in {0, 1} /\ Owing' \in {0, 1} /\ Cardinality(Lost') <= Cardinality(Lost) + 1
  BY <1>1, <1>2, <1>3 DEF Owing
<1>6. CASE Owing' = 0
  BY <1>3, <1>4, <1>5, <1>6 DEF LossPaid
<1>7. CASE Owing' = 1
  BY <1>3, <1>4, <1>5, <1>7 DEF LossPaid
<1>8. QED
  BY <1>5, <1>6, <1>7

\* Delivering moves no context in the backup, and the drain lets go of its
\* context only to lose it for the debt.
LEMMA DeliverPaid ==
  ASSUME IInv, LossPaid, NEW t \in Threads, Deliver(t)
  PROVE  LossPaid'
<1>1. UNCHANGED <<backup, evictions, wiped>> /\ Queued \subseteq Queued'
  <2>1. Queued \subseteq Queued'
    <3>1. CASE ServePush(t)
      <4>1. Held(t) \in Contexts
        BY <3>1 DEF ServePush, IInv, TypeOK, LoopHolds, Held, Threads
      <4>2. QED
        BY <3>1, <4>1, AppendElems DEF ServePush, IInv, TypeOK, Queued
    <3>2. CASE ~ServePush(t)
      BY <3>2 DEF Deliver, Try, Send, PingOk, PingFails, PushOk, PublishOk, PublishFails, Queued
    <3>3. QED
      BY <3>1, <3>2
  <2>2. QED
    BY <2>1 DEF Deliver, Try, Send, PingOk, PingFails, ServePush, PushOk, PublishOk,
         PublishFails, bufferVars
<1>2. head' = head \/ (t = Loop /\ head' = NoContext)
  BY DEF Deliver, Try, Send, PingOk, PingFails, ServePush, PushOk, PublishOk,
         PublishFails, GiveUp, Raise
<1>3. \A c \in Contexts : pc'[c] = "done" => pc[c] = "done" \/ c \in Queued
  BY PublisherAssumption DEF Deliver, Try, Send, PingOk, PingFails, ServePush, PushOk, PublishOk,
         PublishFails, GiveUp, Raise, Goto, NextCall, IInv, TypeOK, SentIsQueued, Held, Threads
<1>4. CASE head' = head
  <2>1. Lost' \subseteq Lost
    BY <1>1, <1>3, <1>4 DEF Lost
  <2>2. Owing' = Owing
    BY <1>1, <1>4 DEF Owing, HeadEvicted
  <2>3. QED
    BY <1>1, <2>1, <2>2, NoNewLoss
<1>5. CASE head' # head /\ HeadEvicted
  <2>1. Lost' \subseteq Lost \cup {head}
    BY <1>1, <1>3 DEF Lost
  <2>2. Owing = 1 /\ Owing' = 0
    BY <1>2, <1>5 DEF Owing, HeadEvicted
  <2>3. QED
    BY <1>1, <2>1, <2>2, OneNewLoss
<1>6. CASE head' # head /\ ~HeadEvicted
  <2>1. Lost' \subseteq Lost
    BY <1>1, <1>2, <1>3, <1>6 DEF Lost, HeadEvicted
  <2>2. Owing' = 0 /\ Owing = 0
    BY <1>2, <1>6 DEF Owing, HeadEvicted
  <2>3. QED
    BY <1>1, <2>1, <2>2, NoNewLoss
<1>7. QED
  BY <1>4, <1>5, <1>6

\* An append that evicts the oldest entry loses it, or leaves a debt if the
\* drain holds it.
LEMMA AppendPaid ==
  ASSUME IInv, LossPaid, NEW c \in Contexts, AppendBackup(c)
  PROVE  LossPaid'
<1> DEFINE kept == PushRight(backup, c)
<1>1. /\ pc[c] = "append" /\ pc' = [pc EXCEPT ![c] = "done"]
      /\ backup' = kept /\ UNCHANGED <<head, queue, wiped>>
  BY DEF AppendBackup, Goto
<1>2. c # head /\ (\A x \in Contexts : pc'[x] = "done" => x = c \/ pc[x] = "done")
  BY <1>1, PublisherAssumption DEF IInv, TypeOK, HeadFromBackup
<1>3. CASE Len(backup) # Capacity
  <2>1. Elems(backup') = Elems(backup) \cup {c} /\ evictions' = evictions
    BY <1>1, <1>3, AppendElems DEF AppendBackup, PushRight, IInv, TypeOK
  <2>2. Lost' \subseteq Lost
    BY <1>1, <1>2, <2>1 DEF Lost, Queued
  <2>3. Owing' = Owing
    BY <1>1, <1>2, <2>1 DEF Owing, HeadEvicted
  <2>4. QED
    BY <2>1, <2>2, <2>3, NoNewLoss
<1>4. CASE Len(backup) = Capacity
  <2>1. backup # <<>> /\ evictions' = evictions + 1 /\ backup' = Append(Tail(backup), c)
    BY <1>1, <1>4, PublisherAssumption DEF AppendBackup, PushRight, IInv, TypeOK
  <2>2. Elems(backup) \cup {c} = Elems(backup') \cup {backup[1]}
    <3>1. Tail(backup) \in Seq(Contexts)
      BY <2>1, TailIndex DEF IInv, TypeOK
    <3>2. Elems(backup') = Elems(Tail(backup)) \cup {c}
      <4> DEFINE rest == Tail(backup)
      <4>1. rest \in Seq(Contexts) /\ backup' = Append(rest, c)
        BY <2>1, <3>1
      <4> HIDE DEF rest
      <4>2. Elems(backup') = Elems(rest) \cup {c}
        BY <4>1, AppendElems
      <4>3. QED
        BY <4>2 DEF rest
    <3>3. Elems(backup) = Elems(Tail(backup)) \cup {backup[1]}
      BY <2>1, TailElems DEF IInv, TypeOK
    <3>4. QED
      BY <3>2, <3>3
  <2>3. CASE head = backup[1]
    <3>1. Lost' \subseteq Lost
      BY <1>1, <1>2, <2>2, <2>3 DEF Lost, Queued
    <3>2. QED
      BY <2>1, <3>1, NoNewLoss
  <2>4. CASE head # backup[1]
    <3>1. Lost' \subseteq Lost \cup {backup[1]}
      BY <1>1, <1>2, <2>2 DEF Lost, Queued
    <3>2. head # NoContext => head \notin Elems(backup)
      BY <2>4 DEF IInv, HeadFromBackup, Elems
    <3>3. Owing' = Owing
      BY <1>1, <1>2, <2>2, <2>4, <3>2 DEF Owing, HeadEvicted
    <3>4. QED
      BY <2>1, <3>1, <3>3, OneNewLoss
  <2>5. QED
    BY <2>3, <2>4
<1>5. QED
  BY <1>3, <1>4

\* The pop after a send takes the context that was sent, or another one for
\* the debt.
LEMMA PopPaid ==
  ASSUME IInv, LossPaid, Pop
  PROVE  LossPaid'
<1>1. /\ head # NoContext /\ head \in Queued /\ backup # <<>>
      /\ backup' = Tail(backup) /\ head' = NoContext /\ pc' = [pc EXCEPT ![Loop] = "peek"]
      /\ UNCHANGED <<queue, wiped, evictions>>
  BY DEF Pop, Goto, IInv, LoopHolds, SentIsQueued, HeadFromBackup, Held, Threads
<1>2. Elems(backup) = Elems(backup') \cup {backup[1]}
  BY <1>1, TailElems DEF IInv, TypeOK
<1>3. \A c \in Contexts : pc'[c] = pc[c]
  BY <1>1, PublisherAssumption DEF IInv, TypeOK
<1>4. Owing' = 0 /\ evictions \in Nat
  BY <1>1 DEF Owing, HeadEvicted, IInv, TypeOK
<1>5. CASE head = backup[1]
  <2>1. Lost' \subseteq Lost
    BY <1>1, <1>2, <1>3, <1>5 DEF Lost, Queued
  <2>2. QED
    BY <1>1, <1>4, <2>1, NoNewLoss
<1>6. CASE head # backup[1]
  <2>1. Lost' \subseteq Lost \cup {backup[1]}
    BY <1>1, <1>2, <1>3 DEF Lost, Queued
  <2>2. Owing = 1
    BY <1>1, <1>6 DEF Owing, HeadEvicted, IInv, HeadFromBackup, Elems
  <2>3. QED
    BY <1>1, <1>4, <2>1, <2>2, OneNewLoss
<1>7. QED
  BY <1>5, <1>6

\* The other steps move nothing between the backup, the drain and the queue,
\* except a peek, which takes the oldest, and a restart, which wipes.
LEMMA OtherPaid ==
  ASSUME IInv, LossPaid,
         \/ RedisDown \/ RedisRecovers \/ Restart
         \/ \E c \in Contexts : Submit(c) \/ CheckFull(c)
         \/ DrainStart \/ Peek \/ ProbeStart \/ ProbeSend \/ ProbeReturns \/ ProbeFailed
  PROVE  LossPaid'
<1>1. CASE Restart
  <2>1. \A c \in Contexts : pc'[c] = "done" => pc[c] = "done"
    BY <1>1, PublisherAssumption DEF Restart, Threads
  <2>2. Elems(backup) \cup ({head} \ {NoContext}) \cup wiped \subseteq wiped' /\ Queued' = Queued
    BY <1>1 DEF Restart, InMemory, Queued
  <2>3. Lost' \subseteq Lost
    BY <2>1, <2>2, PublisherAssumption DEF Lost
  <2>4. Owing' = 0 /\ evictions' = evictions /\ evictions \in Nat
    BY <1>1 DEF Restart, Owing, HeadEvicted, IInv, TypeOK
  <2>5. QED
    BY <2>3, <2>4, NoNewLoss
<1>2. CASE Peek
  <2>1. UNCHANGED <<backup, queue, wiped, evictions>> /\ head = NoContext
    BY <1>2 DEF Peek, bufferVars, IInv, LoopHolds
  <2>2. \A c \in Contexts : pc'[c] = pc[c]
    BY <1>2, PublisherAssumption DEF Peek, Goto, IInv, TypeOK, Threads
  <2>3. head' = NoContext \/ head' \in Elems(backup)
    BY <1>2, <2>1 DEF Peek, Elems, IInv, TypeOK
  <2>4. Lost' \subseteq Lost
    BY <2>1, <2>2, PublisherAssumption DEF Lost, Queued
  <2>5. Owing' = 0
    BY <2>1, <2>3 DEF Owing, HeadEvicted
  <2>6. QED
    BY <2>1, <2>4, <2>5, NoNewLoss
<1>3. CASE \/ RedisDown \/ RedisRecovers
           \/ \E c \in Contexts : Submit(c) \/ CheckFull(c)
           \/ DrainStart \/ ProbeStart \/ ProbeSend \/ ProbeReturns \/ ProbeFailed
  <2>1. UNCHANGED <<backup, queue, wiped, evictions, head>>
    BY <1>3 DEF RedisDown, RedisRecovers, Submit, CheckFull, DrainStart, ProbeStart, ProbeSend,
         ProbeReturns, ProbeFailed, bufferVars
  <2>2. \A c \in Contexts : pc'[c] = "done" => pc[c] = "done"
    BY <1>3, PublisherAssumption DEF RedisDown, RedisRecovers, Submit, CheckFull, DrainStart,
         ProbeStart, ProbeSend, ProbeReturns, ProbeFailed, Goto, IInv, TypeOK, Threads
  <2>3. Lost' \subseteq Lost /\ Owing' = Owing
    BY <2>1, <2>2 DEF Lost, Owing, HeadEvicted, Queued
  <2>4. QED
    BY <2>1, <2>3, NoNewLoss
<1>4. QED
  BY <1>1, <1>2, <1>3

\* Nothing is lost or owed in a new process.
LEMMA LossPaidFirst == Init => LossPaid
<1> SUFFICES ASSUME Init PROVE LossPaid
  OBVIOUS
<1>1. Lost = {} /\ Owing = 0 /\ evictions = 0
  BY PublisherAssumption DEF Init, Lost, Owing, HeadEvicted, Threads
<1>2. QED
  BY <1>1, FS_EmptySet DEF LossPaid

\* Every step keeps the account of losses and evictions.
LEMMA LossPaidStep == IInv /\ LossPaid /\ [Next]_vars => LossPaid'
<1> SUFFICES ASSUME IInv, LossPaid, [Next]_vars PROVE LossPaid'
  OBVIOUS
<1>1. ASSUME NEW c \in Contexts, Worker(c) \/ LoopStep PROVE LossPaid'
  BY <1>1, DeliverPaid, AppendPaid, PopPaid, OtherPaid DEF Worker, LoopStep, Threads
<1>2. CASE LoopStep
  BY <1>2, DeliverPaid, PopPaid, OtherPaid DEF LoopStep, Threads
<1>3. CASE UNCHANGED vars
  <2>1. Lost' = Lost /\ Owing' = Owing /\ evictions' = evictions
    BY <1>3 DEF vars, Lost, Owing, HeadEvicted, Queued
  <2>2. QED
    BY <2>1 DEF LossPaid
<1>4. QED
  BY <1>1, <1>2, <1>3, OtherPaid DEF Next

\* However many workers append while the drain is in the middle of a
\* delivery, the race costs no more contexts than the overflow did.
THEOREM LossBounded == Spec => []LossBoundedByEvictions
<1>1. IInv /\ LossPaid => LossBoundedByEvictions
  BY LostFinite DEF LossPaid, Owing, LossBoundedByEvictions, IInv, TypeOK
<1>2. QED
  BY <1>1, LossPaidFirst, LossPaidStep, Invariance, PTL DEF Spec

-----------------------------------------------------------------------------
(* The refinement of ContextDelivery *)

\* What is new has gone nowhere yet; what died with a process does not come
\* back, and nothing else is killed.
Fates ==
  \A c \in Contexts :
    /\ pc[c] = "new" => c \notin Queued \cup wiped
    /\ c \in wiped => pc[c] \in {"killed", "done"} /\ c \notin Elems(backup) /\ c # head
    /\ pc[c] = "killed" => c \in wiped

\* A step that moves no context leaves the abstract delivery alone.
LEMMA Stutters ==
  ASSUME \A c \in Contexts : StatusOf(c)' = StatusOf(c), evictions' = evictions
  PROVE  [Delivery!Next]_(Delivery!vars)
  BY DEF Delivery!vars

\* A step that moves one context is the abstract move of it.
LEMMA Moves ==
  ASSUME NEW c \in Contexts, NEW from, StatusOf(c) \in from, NEW to, StatusOf(c)' = to,
         \A x \in Contexts \ {c} : StatusOf(x)' = StatusOf(x), evictions' = evictions
  PROVE  Delivery!Move(c, from, to)
  BY DEF Delivery!Move

\* The Cardinality that the instance brings with it is the same operator.
LEMMA SameCount == \A S : Delivery!Cardinality(S) = Cardinality(S)
  BY DEF Delivery!Cardinality, Cardinality

\* The mapping calls dropped what the account calls lost.
LEMMA DroppedIsLost == Delivery!In("dropped") = Lost
  BY DEF Delivery!In, StatusOf, Lost

\* The drain lets go of a context that an append has pushed out.
LEMMA Drops ==
  ASSUME IInv, LossPaid, NEW c \in Contexts, StatusOf(c) = "buffered", StatusOf(c)' = "dropped",
         \A x \in Contexts \ {c} : StatusOf(x)' = StatusOf(x), evictions' = evictions,
         HeadEvicted
  PROVE  Delivery!Next
  <1>1. Cardinality(Lost) < evictions
    BY LostFinite DEF LossPaid, Owing, IInv, TypeOK
  <1>2. Delivery!Cardinality(Delivery!In("dropped")) < evictions
    BY <1>1, DroppedIsLost, SameCount
  <1>3. Delivery!Move(c, {"buffered"}, "dropped")
    BY Moves
  <1> QED
    BY <1>2, <1>3 DEF Delivery!Next, Delivery!Drop

\* A context whose queue, memory and program point stay as they are, as far
\* as the abstract status can tell.
LEMMA StatusKept ==
  ASSUME NEW x \in Contexts,
         x \in Queued' <=> x \in Queued, x \in wiped' <=> x \in wiped,
         \A p \in {"new", "raised", "done"} : pc'[x] = p <=> pc[x] = p,
         x \in Elems(backup)' \/ x = head' <=> x \in Elems(backup) \/ x = head
  PROVE  StatusOf(x)' = StatusOf(x)
  BY DEF StatusOf, Lost

\* LPUSH adds its context to the queued ones.
LEMMA QueuePush ==
  ASSUME TypeOK, NEW c \in Contexts, queue' = Append(queue, c)
  PROVE  Queued' = Queued \cup {c}
  BY AppendElems DEF TypeOK, Queued

\* A worker in _connect or _try_publish keeps its context pending, queues it, or
\* raises.  A context that is queued already stays so, whatever the worker learns.
LEMMA WorkerDelivers ==
  ASSUME IInv, Fates, NEW c \in Contexts, Deliver(c)
  PROVE  [Delivery!Next]_(Delivery!vars) /\ Fates'
<1>0. TypeOK /\ c # Loop /\ Held(c) = c
  BY PublisherAssumption DEF IInv, Held
<1>1. /\ pc[c] \in Delivering /\ UNCHANGED <<backup, wiped, evictions>> /\ head' = head
      /\ \A x \in Contexts \ {c} : pc'[x] = pc[x]
      /\ \/ pc'[c] \in Delivering \cup {"full", "raised"}
         \/ pc[c] = "publishing" /\ pc'[c] = "done"
      /\ queue' = queue \/ (pc[c] = "pushing" /\ queue' = Append(queue, c))
  <2>1. \A p \in DOMAIN NextCall : NextCall[p] \in {"pinging", "pushing", "publishing"}
    BY DEF NextCall
  <2>2. DOMAIN NextCall = {"ping", "push", "pub"}
    BY DEF NextCall
  <2>3. pc[c] \in Delivering /\ UNCHANGED <<backup, wiped, evictions>> /\ head' = head
    BY <1>0, <2>2 DEF Deliver, Try, Send, PingOk, PingFails, ServePush, PushOk, PublishOk,
         PublishFails, GiveUp, Raise, bufferVars, Delivering, InFlight
  <2>4. \E p \in Delivering \cup {"full", "raised", "done"} :
          pc' = [pc EXCEPT ![c] = p] /\ (p = "done" => pc[c] = "publishing")
    <3>1. CASE PingOk(c)
      <4>1. Held(c) # NoContext
        BY <1>0, PublisherAssumption
      <4>2. pc' = [pc EXCEPT ![c] = "push"]
        BY <3>1, <4>1 DEF PingOk, Goto
      <4>3. "push" \in Delivering \cup {"full", "raised", "done"} /\ "push" # "done"
        BY DEF Delivering
      <4> QED
        BY <4>2, <4>3
    <3>2. CASE Send(c)
      BY <1>0, <2>1, <2>2, <3>2 DEF Send, Raise, Goto, Delivering, InFlight
    <3>3. CASE Try(c) \/ PingFails(c) \/ ServePush(c) \/ PushOk(c) \/ PublishOk(c) \/ PublishFails(c)
      BY <1>0, <3>3 DEF Try, PingFails, ServePush, PushOk, PublishOk, PublishFails, GiveUp, Goto,
           Delivering, InFlight
    <3> QED
      BY <3>1, <3>2, <3>3 DEF Deliver
  <2>5. queue' = queue \/ (pc[c] = "pushing" /\ queue' = Append(queue, c))
    BY <1>0 DEF Deliver, Try, Send, PingOk, PingFails, ServePush, PushOk, PublishOk, PublishFails
  <2> QED
    BY <1>0, <2>3, <2>4, <2>5 DEF TypeOK, Threads
<1>2. c \notin wiped /\ pc[c] \notin {"new", "raised", "done", "killed"}
  BY <1>1 DEF Fates, Delivering, InFlight
<1>3. Queued' = Queued \/ (pc[c] = "pushing" /\ Queued' = Queued \cup {c})
  BY <1>0, <1>1, QueuePush DEF Queued
<1>4. \A x \in Contexts \ {c} : StatusOf(x)' = StatusOf(x)
  BY <1>1, <1>3, StatusKept
<1>5. Fates'
  BY <1>1, <1>2, <1>3 DEF Fates, Delivering, InFlight
<1>6. CASE c \in Queued
  <2>1. StatusOf(c)' = StatusOf(c)
    BY <1>3, <1>6 DEF StatusOf
  <2> QED
    BY <1>1, <1>4, <1>5, <2>1, Stutters
<1>7. CASE c \notin Queued
  <2>1. StatusOf(c) = "pending" /\ pc'[c] # "done"
    <3>1. pc[c] # "publishing"
      BY <1>0, <1>7 DEF IInv, SentIsQueued, Threads
    <3> QED
      BY <1>1, <1>2, <1>7, <3>1 DEF StatusOf, Lost, Delivering, InFlight
  <2>2. StatusOf(c)' \in {"queued", "failed", "pending"}
    BY <1>1, <1>2, <2>1 DEF StatusOf, Lost, Delivering, InFlight
  <2>3. CASE StatusOf(c)' = "pending"
    BY <1>1, <1>4, <1>5, <2>1, <2>3, Stutters
  <2>4. CASE StatusOf(c)' = "queued"
    BY <1>1, <1>4, <1>5, <2>1, <2>4, Moves DEF Delivery!Next, Delivery!Enqueue
  <2>5. CASE StatusOf(c)' = "failed"
    BY <1>1, <1>4, <1>5, <2>1, <2>5, Moves DEF Delivery!Next, Delivery!Refuse
  <2> QED
    BY <2>2, <2>3, <2>4, <2>5
<1> QED
  BY <1>6, <1>7

\* The drain queues the context it holds, or lets go of it: it is still in the
\* deque then, or an append has pushed it out.
LEMMA LoopDelivers ==
  ASSUME IInv, LossPaid, Fates, Deliver(Loop)
  PROVE  [Delivery!Next]_(Delivery!vars) /\ Fates'
<1>0. TypeOK /\ Held(Loop) = head
  BY DEF IInv, Held
<1>1. /\ UNCHANGED <<backup, wiped, evictions>> /\ head' \in {head, NoContext}
      /\ \A x \in Contexts : pc'[x] = pc[x]
      /\ \/ queue' = queue
         \/ pc[Loop] = "pushing" /\ queue' = Append(queue, head) /\ head' = head
  BY <1>0, PublisherAssumption DEF Deliver, Try, Send, PingOk, PingFails, ServePush, PushOk,
       PublishOk, PublishFails, Goto, GiveUp, Raise, bufferVars, TypeOK, Threads
<1>2. Queued' = Queued \/ (head \in Contexts /\ head' = head /\ Queued' = Queued \cup {head})
  <2>1. pc[Loop] = "pushing" => head \in Contexts
    BY <1>0 DEF IInv, LoopHolds, TypeOK
  <2> QED
    BY <1>0, <1>1, <2>1, QueuePush DEF Queued
<1>3. \A x \in Contexts \ {head} : StatusOf(x)' = StatusOf(x)
  BY <1>1, <1>2, PublisherAssumption, StatusKept
<1>4. head # NoContext => head \in Contexts /\ pc[head] = "done" /\ head \notin wiped
  BY <1>0 DEF IInv, HeadFromBackup, TypeOK, Fates
<1>5. Fates'
  BY <1>1, <1>2, <1>4, PublisherAssumption DEF Fates
<1>6. CASE head = NoContext
  BY <1>1, <1>3, <1>5, <1>6, PublisherAssumption, Stutters
<1>7. CASE head # NoContext /\ StatusOf(head) = "queued"
  <2>1. head \in Queued
    BY <1>7 DEF StatusOf
  <2>2. \A x \in Contexts : StatusOf(x)' = StatusOf(x)
    BY <1>2, <1>3, <1>7, <2>1 DEF StatusOf
  <2> QED
    BY <1>1, <1>5, <2>2, Stutters
<1>8. CASE head # NoContext /\ StatusOf(head) # "queued"
  <2>0. PICK h \in Contexts : h = head
    BY <1>4, <1>8
  <2>1. h \notin Queued /\ pc[h] = "done" /\ h \notin wiped /\ StatusOf(h) = "buffered"
    BY <1>4, <1>8, <2>0 DEF StatusOf, Lost
  <2>2. \A x \in Contexts \ {h} : StatusOf(x)' = StatusOf(x)
    BY <1>3, <2>0
  <2>3. CASE Queued' = Queued \cup {h}
    <3>1. StatusOf(h)' = "queued"
      BY <2>1, <2>3 DEF StatusOf
    <3> QED
      BY <1>1, <1>5, <2>1, <2>2, <3>1, Moves DEF Delivery!Next, Delivery!Enqueue
  <2>4. CASE Queued' = Queued /\ (head' = head \/ h \in Elems(backup))
    <3>1. StatusOf(h)' = StatusOf(h)
      BY <1>1, <2>1, <2>4, <2>0, StatusKept
    <3> QED
      BY <1>1, <1>5, <2>2, <3>1, Stutters
  <2>5. CASE Queued' = Queued /\ head' = NoContext /\ h \notin Elems(backup)
    <3>1. StatusOf(h)' = "dropped"
      BY <1>1, <2>0, <2>1, <2>5, PublisherAssumption DEF StatusOf, Lost
    <3>2. HeadEvicted
      BY <1>8, <2>0, <2>5 DEF HeadEvicted
    <3> QED
      BY <1>1, <1>5, <2>1, <2>2, <3>1, <3>2, Drops
  <2> QED
    BY <1>1, <1>2, <2>0, <2>3, <2>4, <2>5
<1> QED
  BY <1>6, <1>7, <1>8

\* The append: the context goes from pending to buffered, and what it pushes
\* out is dropped unless it was sent or is held by the drain.
LEMMA AppendStores ==
  ASSUME IInv, LossPaid', TypeOK', Fates, NEW c \in Contexts, AppendBackup(c)
  PROVE  Delivery!Next /\ Fates'
<1>0. TypeOK /\ c # Loop /\ backup \in Seq(Contexts)
  BY PublisherAssumption DEF IInv, TypeOK
<1>1. /\ pc[c] = "append" /\ pc' = [pc EXCEPT ![c] = "done"]
      /\ backup' = PushRight(backup, c)
      /\ evictions' = IF Len(backup) = Capacity THEN evictions + 1 ELSE evictions
      /\ UNCHANGED <<head, queue, wiped>>
  BY DEF AppendBackup, Goto
<1>2. pc'[c] = "done" /\ \A x \in Contexts \ {c} : pc'[x] = pc[x]
  BY <1>0, <1>1 DEF TypeOK, Threads
<1>3. c \in Elems(backup') /\ Elems(backup') \subseteq Elems(backup) \cup {c}
  <2>1. CASE Len(backup) = Capacity
    <3> DEFINE rest == Tail(backup)
    <3>1. backup # <<>>
      BY <1>0, <2>1, PublisherAssumption
    <3>2. rest \in Seq(Contexts)
      BY <1>0, <3>1, TailIndex
    <3>3. Elems(rest) \subseteq Elems(backup)
      BY <1>0, <3>1, TailElems
    <3>4. backup' = Append(rest, c)
      BY <1>1, <2>1 DEF PushRight
    <3> HIDE DEF rest
    <3>5. Elems(Append(rest, c)) = Elems(rest) \cup {c}
      BY <3>2, AppendElems
    <3> QED
      BY <3>3, <3>4, <3>5
  <2>2. CASE Len(backup) # Capacity
    BY <1>0, <1>1, <2>2, AppendElems DEF PushRight
  <2> QED
    BY <2>1, <2>2
<1>4. c \notin wiped /\ Queued' = Queued
  BY <1>1 DEF Fates, Queued
<1>5. Fates'
  BY <1>1, <1>2, <1>3, <1>4 DEF Fates
<1>6. StatusOf(c) \in {"pending", "queued"}
  BY <1>1, <1>4 DEF StatusOf, Lost
<1>7. StatusOf(c)' = IF StatusOf(c) = "pending" THEN "buffered" ELSE "queued"
  <2>1. c \notin Lost'
    BY <1>3 DEF Lost
  <2>2. StatusOf(c) = "queued" <=> c \in Queued
    BY <1>1, <1>4 DEF StatusOf, Lost
  <2> QED
    BY <1>1, <1>2, <1>4, <1>6, <2>1, <2>2 DEF StatusOf
<1> DEFINE D == {x \in Contexts \ {c} : x \in Lost' /\ x \notin Lost}
<1>8. \A x \in D : StatusOf(x) = "buffered" /\ StatusOf(x)' = "dropped"
  BY <1>1, <1>2, <1>4 DEF StatusOf, Lost, Queued
<1>9. \A x \in Contexts \ {c} : x \notin D => StatusOf(x)' = StatusOf(x)
  <2> SUFFICES ASSUME NEW x \in Contexts \ {c}, x \notin D PROVE StatusOf(x)' = StatusOf(x)
    OBVIOUS
  <2>1. x \in Lost <=> x \in Lost'
    BY <1>1, <1>2, <1>3 DEF Lost, Queued
  <2> QED
    BY <1>1, <1>2, <1>4, <2>1 DEF StatusOf
<1>10. Lost' = Lost \cup D
  <2>1. Lost \subseteq Lost'
    BY <1>1, <1>2, <1>3, <1>4 DEF Lost
  <2>2. c \notin Lost'
    BY <1>3 DEF Lost
  <2> QED
    BY <2>1, <2>2 DEF Lost
<1>11. PICK o \in {0, 1} : evictions' = evictions + o
  BY <1>0, <1>1 DEF TypeOK
<1>12. Delivery!Cardinality(Delivery!In("dropped") \cup D) <= evictions + o
  <2>1. Cardinality(Lost') <= evictions'
    <3>1. IsFiniteSet(Lost')
      BY PublisherAssumption, FS_Subset DEF Lost
    <3>2. Cardinality(Lost') \in Nat
      BY <3>1, FS_CardinalityType
    <3>3. evictions' \in Nat /\ Owing' \in {0, 1} /\ Cardinality(Lost') + Owing' <= evictions'
      BY DEF TypeOK, Owing, LossPaid
    <3> QED
      BY <3>2, <3>3
  <2> QED
    BY <1>10, <1>11, <2>1, DroppedIsLost, SameCount
<1> DEFINE next == [x \in Contexts |->
                     CASE x \in D -> "dropped"
                       [] x = c /\ StatusOf(c) = "pending" -> "buffered"
                       [] OTHER -> StatusOf(x)]
<1>13. [x \in Contexts |-> StatusOf(x)]' = next
  <2>1. c \notin D
    OBVIOUS
  <2>2. ASSUME NEW x \in Contexts PROVE StatusOf(x)' = next[x]
    <3>1. CASE x \in D
      BY <1>8, <3>1
    <3>2. CASE x = c
      BY <1>6, <1>7, <2>1, <3>2
    <3>3. CASE x # c /\ x \notin D
      BY <1>9, <3>3
    <3> QED
      BY <3>1, <3>2, <3>3
  <2> QED
    BY <2>2
<1>14. D \in SUBSET Delivery!In("buffered")
  BY <1>8 DEF Delivery!In
<1> HIDE DEF D
<1>15. Delivery!Store(c)
  BY <1>6, <1>11, <1>12, <1>13, <1>14 DEF Delivery!Store
<1> QED
  BY <1>5, <1>15 DEF Delivery!Next

\* The pop takes the context that was sent, or another one on the account of
\* the overflow that evicted it.
LEMMA PopDelivers ==
  ASSUME IInv, LossPaid, Fates, Pop
  PROVE  [Delivery!Next]_(Delivery!vars) /\ Fates'
<1>1. /\ head \in Contexts /\ head # NoContext /\ head \in Queued /\ backup # <<>>
      /\ backup' = Tail(backup) /\ head' = NoContext /\ pc' = [pc EXCEPT ![Loop] = "peek"]
      /\ UNCHANGED <<queue, wiped, evictions>> /\ Queued' = Queued
  BY DEF Pop, Goto, IInv, TypeOK, LoopHolds, SentIsQueued, HeadFromBackup, Held, Threads, Queued
<1>2. Elems(backup) = Elems(backup') \cup {backup[1]} /\ backup[1] \in Contexts
  BY <1>1, TailElems DEF IInv, TypeOK
<1>3. \A x \in Contexts : pc'[x] = pc[x]
  BY <1>1, PublisherAssumption DEF IInv, TypeOK
<1>4. Fates'
  BY <1>1, <1>2, <1>3, PublisherAssumption DEF Fates
<1>5. PICK q \in Contexts : q = backup[1]
  BY <1>2
<1>6. \A x \in Contexts \ {q} : StatusOf(x)' = StatusOf(x)
  <2> SUFFICES ASSUME NEW x \in Contexts \ {q} PROVE StatusOf(x)' = StatusOf(x)
    OBVIOUS
  <2>1. CASE x \in Queued
    BY <1>1, <2>1 DEF StatusOf
  <2>2. CASE x \notin Queued
    BY <1>1, <1>2, <1>3, <1>5, <2>2, PublisherAssumption, StatusKept
  <2> QED
    BY <2>1, <2>2
<1>7. CASE q \in Queued
  <2>1. StatusOf(q)' = StatusOf(q)
    BY <1>1, <1>7 DEF StatusOf
  <2> QED
    BY <1>1, <1>4, <1>6, <2>1, Stutters
<1>8. CASE q \notin Queued
  <2>1. q \in Elems(backup) /\ pc[q] = "done" /\ q \notin wiped /\ q # head
    BY <1>1, <1>2, <1>5, <1>8 DEF IInv, BackedUpOnce, Fates, Elems
  <2>2. q \notin Elems(backup')
    BY <1>1, <1>5, TailIndex DEF IInv, TypeOK, BackedUpOnce, Elems
  <2>3. StatusOf(q) = "buffered"
    BY <1>8, <2>1 DEF StatusOf, Lost
  <2>4. StatusOf(q)' = "dropped"
    BY <1>1, <1>3, <1>8, <2>1, <2>2, PublisherAssumption DEF StatusOf, Lost
  <2>5. HeadEvicted
    BY <1>1, <1>5, <2>1 DEF HeadEvicted, IInv, HeadFromBackup, Elems
  <2> QED
    BY <1>1, <1>4, <1>6, <2>3, <2>4, <2>5, Drops
<1> QED
  BY <1>7, <1>8

\* The restart wipes what is pending or buffered, and nothing else.
LEMMA RestartDelivers ==
  ASSUME IInv, Fates, Restart
  PROVE  Delivery!Next /\ Fates'
<1>1. /\ backup' = <<>> /\ head' = NoContext /\ wiped' = wiped \cup InMemory
      /\ UNCHANGED <<queue, evictions>> /\ Queued' = Queued /\ Elems(backup') = {}
      /\ \A x \in Contexts :
           pc'[x] = IF pc[x] \in {"new", "done", "raised"} THEN pc[x] ELSE "killed"
  BY PublisherAssumption DEF Restart, Queued, Elems, Threads
<1>2. \A x \in Contexts : x \in InMemory <=>
        \/ pc[x] \notin {"new", "done", "raised", "killed"}
        \/ x \in Elems(backup) \/ x = head
  BY PublisherAssumption DEF InMemory
<1>3. \A x \in Contexts : x \in Elems(backup) \/ x = head => pc[x] = "done"
  BY PublisherAssumption DEF IInv, BackedUpOnce, HeadFromBackup, Elems
<1>4. Fates'
  BY <1>1, <1>2, <1>3, PublisherAssumption DEF Fates
<1>5. ASSUME NEW x \in Contexts
      PROVE  StatusOf(x)' = IF StatusOf(x) \in {"pending", "buffered"} THEN "wiped" ELSE StatusOf(x)
  <2>1. CASE x \in Queued
    BY <1>1, <2>1 DEF StatusOf
  <2>2. CASE x \notin Queued /\ x \in wiped
    BY <1>1, <2>2 DEF StatusOf
  <2>3. CASE x \notin Queued /\ x \notin wiped /\ x \in InMemory
    <3>1. StatusOf(x) \in {"pending", "buffered"}
      BY <1>2, <1>3, <2>3 DEF StatusOf, Lost
    <3>2. StatusOf(x)' = "wiped"
      BY <1>1, <2>3 DEF StatusOf
    <3> QED
      BY <3>1, <3>2
  <2>4. CASE x \notin Queued /\ x \notin wiped /\ x \notin InMemory
    <3>1. pc[x] \in {"new", "done", "raised"} /\ x \notin Elems(backup) /\ x # head
      BY <1>2, <2>4 DEF Fates
    <3>2. pc'[x] = pc[x] /\ x \notin wiped' /\ x \notin Elems(backup') /\ x # head'
      BY <1>1, <2>4, <3>1, PublisherAssumption
    <3>3. StatusOf(x) = CASE pc[x] = "new" -> "new" [] pc[x] = "raised" -> "failed"
                          [] pc[x] = "done" -> "dropped"
      BY <2>4, <3>1 DEF StatusOf, Lost
    <3>4. StatusOf(x)' = CASE pc[x] = "new" -> "new" [] pc[x] = "raised" -> "failed"
                          [] pc[x] = "done" -> "dropped"
      BY <1>1, <2>4, <3>1, <3>2 DEF StatusOf, Lost
    <3> QED
      BY <3>1, <3>3, <3>4
  <2> QED
    BY <2>1, <2>2, <2>3, <2>4
<1>6. Delivery!Restart
  BY <1>1, <1>5 DEF Delivery!Restart
<1> QED
  BY <1>4, <1>6 DEF Delivery!Next

\* run_pipeline hands the context over.
LEMMA SubmitDelivers ==
  ASSUME IInv, Fates, NEW c \in Contexts, Submit(c)
  PROVE  Delivery!Next /\ Fates'
<1>1. /\ pc[c] = "new" /\ pc'[c] = "try" /\ \A x \in Contexts \ {c} : pc'[x] = pc[x]
      /\ UNCHANGED <<backup, head, queue, wiped, evictions>> /\ Queued' = Queued
  BY DEF Submit, Goto, bufferVars, Queued, IInv, TypeOK, Threads
<1>2. Fates'
  BY <1>1 DEF Fates
<1>3. \A x \in Contexts \ {c} : StatusOf(x)' = StatusOf(x)
  BY <1>1, StatusKept
<1>4. StatusOf(c) = "new" /\ StatusOf(c)' = "pending"
  BY <1>1 DEF StatusOf, Lost, Fates
<1> QED
  BY <1>1, <1>2, <1>3, <1>4, Moves DEF Delivery!Next, Delivery!Accept

\* Everything else leaves the contexts where they are: a peek takes the oldest
\* one in hand, which stays in the deque.
LEMMA OthersStutter ==
  ASSUME IInv, Fates,
         \/ RedisDown \/ RedisRecovers \/ \E c \in Contexts : CheckFull(c)
         \/ DrainStart \/ Peek \/ ProbeStart \/ ProbeSend \/ ProbeReturns \/ ProbeFailed
         \/ UNCHANGED vars
  PROVE  [Delivery!Next]_(Delivery!vars) /\ Fates'
<1>1. UNCHANGED <<backup, queue, wiped, evictions>> /\ Queued' = Queued
  BY DEF RedisDown, RedisRecovers, CheckFull, DrainStart, Peek, ProbeStart, ProbeSend, ProbeReturns,
       ProbeFailed, vars, bufferVars, Queued
<1>2. \A x \in Contexts : pc'[x] = pc[x] \/ (pc[x] = "full" /\ pc'[x] = "append")
  BY PublisherAssumption DEF RedisDown, RedisRecovers, CheckFull, DrainStart, Peek, ProbeStart,
       ProbeSend, ProbeReturns, ProbeFailed, vars, Goto, IInv, TypeOK, Threads
<1>3. head' = head \/ (head = NoContext /\ head' \in Elems(backup))
  <2>1. CASE Peek
    BY <2>1 DEF Peek, IInv, TypeOK, LoopHolds, Elems
  <2>2. CASE ~Peek
    BY <2>2 DEF RedisDown, RedisRecovers, CheckFull, DrainStart, ProbeStart, ProbeSend, ProbeReturns,
         ProbeFailed, vars
  <2> QED
    BY <2>1, <2>2
<1>4. Fates'
  BY <1>1, <1>2, <1>3 DEF Fates
<1>5. \A x \in Contexts : StatusOf(x)' = StatusOf(x)
  BY <1>1, <1>2, <1>3, PublisherAssumption, StatusKept
<1> QED
  BY <1>1, <1>4, <1>5, Stutters

\* Every step of the publisher is a step of the abstract delivery, or none.
LEMMA StepDelivers ==
  IInv /\ IInv' /\ LossPaid /\ LossPaid' /\ Fates /\ [Next]_vars
    => [Delivery!Next]_(Delivery!vars) /\ Fates'
<1> SUFFICES ASSUME IInv, IInv', LossPaid, LossPaid', Fates, [Next]_vars
             PROVE  [Delivery!Next]_(Delivery!vars) /\ Fates'
  OBVIOUS
<1>1. ASSUME NEW c \in Contexts, Submit(c) \/ Worker(c)
      PROVE  [Delivery!Next]_(Delivery!vars) /\ Fates'
  <2>1. TypeOK'
    BY DEF IInv
  <2> QED
    BY <1>1, <2>1, SubmitDelivers, WorkerDelivers, AppendStores, OthersStutter DEF Worker
<1>2. CASE LoopStep
  BY <1>2, LoopDelivers, PopDelivers, OthersStutter DEF LoopStep
<1>3. CASE RedisDown \/ RedisRecovers \/ Restart \/ DrainStart \/ ProbeStart \/ UNCHANGED vars
  BY <1>3, RestartDelivers, OthersStutter
<1> QED
  BY <1>1, <1>2, <1>3 DEF Next

\* Before its first event the publisher is in the abstract initial state.
LEMMA InitDelivers == Init => Delivery!Init /\ Fates
<1> SUFFICES ASSUME Init PROVE Delivery!Init /\ Fates
  OBVIOUS
<1>1. \A c \in Contexts : pc[c] = "new" /\ c \notin Queued \cup wiped
  BY PublisherAssumption DEF Init, Queued, Elems, Threads
<1>2. Fates
  BY <1>1 DEF Fates
<1>3. \A c \in Contexts : StatusOf(c) = "new"
  BY <1>1 DEF StatusOf
<1>4. evictions = 0
  BY DEF Init
<1> QED
  BY <1>2, <1>3, <1>4 DEF Delivery!Init

\* The publisher with its threads, unlocked client and bounded deque keeps the
\* promise that ContextDelivery states without them.
THEOREM Implementation == Spec => ImplementsDelivery
<1>1. Init => LossPaid
  BY LossPaidFirst
<1> QED
  BY <1>1, InitDelivers, StepDelivers, LossPaidStep, Invariance, PTL
     DEF Spec, ImplementsDelivery, Delivery!Spec

=============================================================================
