------------------------- MODULE LoginSessionsProofs ------------------------
(***************************************************************************)
(* Proofs about LoginSessions: type correctness, that the status of a      *)
(* session is what became of its command, that a code is not asked for     *)
(* again, and that cancelling what can be seen ends it; for any number of  *)
(* sessions, lines and restarts.                                           *)
(***************************************************************************)
EXTENDS LoginSessions, TLAPS

RunnerPoints == {"none", "start", "attach", "read", "hint", "wait",
                 "report", "timeout", "error", "done", "raised", "lost"}
RequestSteps == {"register", "locate", "forward", "write", "record",
                 "terminate", "reap", "settle"}
Records == [status : Statuses, attached : BOOLEAN, awaiting : BOOLEAN,
            submitted : BOOLEAN, returncode : {"none"} \cup Dead, hinted : BOOLEAN]

\* Where the thread is says whether there is a command, and whether it has
\* exited; what a request can see is there.
Points ==
  \A s \in Sessions :
    /\ runner[s] \in {"none", "start"} => child[s] = "none"
    /\ runner[s] \in {"attach", "read", "hint", "wait", "report", "timeout"} => child[s] # "none"
    /\ runner[s] = "report" => child[s] \in Dead
    /\ session[s].attached => child[s] # "none"

\* What the request in progress has seen.
RequestSees ==
  request # Idle =>
    /\ request.step = "register" => runner[request.s] = "none"
    /\ request.attached => child[request.s] # "none"
    /\ request.step = "settle" /\ request.attached => child[request.s] \in Dead

\* A session that has not begun its command has not failed.
StartIsOpen == \A s \in Sessions : runner[s] = "start" => session[s].status # "failed"

-----------------------------------------------------------------------------
(* Type correctness, in parts *)

KnownOK ==
  /\ known \subseteq {s \in Sessions : runner[s] \notin {"none", "lost"}}
  /\ aged \subseteq {s \in Sessions : runner[s] \notin {"none", "lost"}}
SessionOK == session \in [Sessions -> Records]
RunnerOK == runner \in [Sessions -> RunnerPoints]
CommandOK ==
  /\ provider \in [Sessions -> {"none"} \cup Providers]
  /\ child \in [Sessions -> {"none"} \cup Alive \cup Dead]
FlagsOK ==
  /\ listening \in [Sessions -> BOOLEAN] /\ called \in [Sessions -> BOOLEAN]
  /\ authenticated \in [Providers -> BOOLEAN]
OutputOK ==
  /\ pipe \in [Sessions -> Seq(Prompts)] /\ printed \in [Sessions -> 0..MaxLines]
RequestOK ==
  request = Idle \/ request \in [step : RequestSteps, s : Sessions, attached : BOOLEAN]
HistoryOK == restarts \in 0..MaxRestarts /\ killed \subseteq Sessions

LEMMA TypeParts ==
  TypeOK <=> /\ KnownOK /\ SessionOK /\ RunnerOK /\ CommandOK /\ FlagsOK
             /\ OutputOK /\ RequestOK /\ HistoryOK
  BY DEF TypeOK, KnownOK, SessionOK, RunnerOK, CommandOK, FlagsOK, OutputOK, RequestOK,
         HistoryOK, Records, RunnerPoints, RequestSteps

LEMMA TypePartsNext ==
  KnownOK' /\ SessionOK' /\ RunnerOK' /\ CommandOK' /\ FlagsOK'
    /\ OutputOK' /\ RequestOK' /\ HistoryOK' => TypeOK'
  BY DEF TypeOK, KnownOK, SessionOK, RunnerOK, CommandOK, FlagsOK, OutputOK, RequestOK,
         HistoryOK, Records, RunnerPoints, RequestSteps

LEMMA TypeInit == Init => TypeOK
  <1> SUFFICES ASSUME Init PROVE TypeOK
    OBVIOUS
  <1>1. NoSession \in Records
    BY DEF NoSession, Records, Statuses
  <1>2. KnownOK /\ SessionOK /\ RunnerOK /\ CommandOK
    BY <1>1 DEF Init, KnownOK, SessionOK, RunnerOK, CommandOK, RunnerPoints
  <1>3. FlagsOK
    BY DEF Init, FlagsOK
  <1>4. OutputOK /\ HistoryOK
    BY LoginAssumption DEF Init, OutputOK, HistoryOK, LoginAssumption
  <1>5. RequestOK
    BY DEF Init, RequestOK
  <1> QED
    BY <1>2, <1>3, <1>4, <1>5, TypeParts

\* A step of the thread: it goes on, and the sets of sessions keep.
LEMMA GotoType ==
  ASSUME KnownOK, RunnerOK, NEW s \in Sessions,
         NEW from \in RunnerPoints \ {"none", "lost"},
         NEW to \in RunnerPoints \ {"none", "lost"},
         Goto(s, from, to), UNCHANGED <<known, aged>>
  PROVE  KnownOK' /\ RunnerOK'
  <1>1. runner' = [runner EXCEPT ![s] = to] /\ runner[s] = from
    BY DEF Goto
  <1>2. RunnerOK'
    BY <1>1 DEF RunnerOK
  <1>3. \A t \in Sessions : runner[t] \notin {"none", "lost"} => runner'[t] \notin {"none", "lost"}
    BY <1>1 DEF RunnerOK
  <1> QED
    BY <1>2, <1>3 DEF KnownOK

\* A change of one session.
LEMMA SettleType ==
  ASSUME SessionOK, NEW s \in Sessions, NEW status \in Statuses,
         NEW returncode \in {"none"} \cup Dead, Settle(s, status, returncode)
  PROVE  SessionOK'
  BY DEF Settle, SessionOK, Records

LEMMA RunnerType ==
  ASSUME TypeOK, Points, NEW s \in Sessions, Runner(s)
  PROVE  TypeOK'
  <1>0. KnownOK /\ SessionOK /\ RunnerOK /\ CommandOK /\ FlagsOK /\ OutputOK /\ RequestOK /\ HistoryOK
    BY TypeParts
  <1>f. UNCHANGED <<known, aged, request, restarts, killed>> => RequestOK' /\ HistoryOK'
    BY <1>0 DEF RequestOK, HistoryOK
  <1>c. UNCHANGED command => CommandOK' /\ FlagsOK' /\ OutputOK'
    BY <1>0 DEF command, CommandOK, FlagsOK, OutputOK
  <1>1. CASE Spawn(s)
    <2>1. KnownOK' /\ RunnerOK'
      BY <1>0, <1>1, GotoType DEF Spawn, RunnerFrame, RunnerPoints
    <2>2. SessionOK' /\ CommandOK' /\ FlagsOK' /\ OutputOK'
      BY <1>0, <1>1 DEF Spawn, SessionOK, CommandOK, FlagsOK, OutputOK, Alive
    <2> QED
      BY <1>f, <1>1, <2>1, <2>2, TypePartsNext DEF Spawn, RunnerFrame
  <1>2. CASE SpawnFails(s)
    <2>1. KnownOK' /\ RunnerOK'
      BY <1>0, <1>2, GotoType DEF SpawnFails, Silently, RunnerFrame, RunnerPoints
    <2>2. SessionOK'
      BY <1>0, <1>2 DEF SpawnFails, Silently, SessionOK
    <2> QED
      BY <1>f, <1>c, <1>2, <2>1, <2>2, TypePartsNext DEF SpawnFails, Silently, RunnerFrame
  <1>3. CASE Attach(s)
    <2>1. KnownOK' /\ RunnerOK'
      BY <1>0, <1>3, GotoType DEF Attach, RunnerFrame, RunnerPoints
    <2>2. SessionOK'
      BY <1>0, <1>3 DEF Attach, SessionOK, Records
    <2> QED
      BY <1>f, <1>c, <1>3, <2>1, <2>2, TypePartsNext DEF Attach, RunnerFrame
  <1>4. CASE ReadLine(s)
    <2> DEFINE line == Head(pipe[s])
    <2>1. KnownOK' /\ RunnerOK'
      BY <1>0, <1>4, GotoType DEF ReadLine, RunnerFrame, RunnerPoints
    <2>2. Awaits(s, line) \in BOOLEAN
      BY <1>0, Zenon DEF Awaits, SessionOK, Records
    <2>3. session' = [session EXCEPT ![s].awaiting = Awaits(s, line)]
      BY <1>4 DEF ReadLine
    <2>4. SessionOK'
      BY <1>0, <2>2, <2>3 DEF SessionOK, Records
    <2>5. Tail(pipe[s]) \in Seq(Prompts)
      <3>1. pipe[s] \in Seq(Prompts) /\ pipe[s] # << >>
        BY <1>0, <1>4 DEF ReadLine, OutputOK
      <3> QED
        BY <3>1
    <2>6. OutputOK'
      BY <1>0, <1>4, <2>5 DEF ReadLine, OutputOK
    <2>7. CommandOK' /\ FlagsOK'
      BY <1>0, <1>4 DEF ReadLine, CommandOK, FlagsOK
    <2> QED
      BY <1>f, <1>4, <2>1, <2>4, <2>6, <2>7, TypePartsNext DEF ReadLine, RunnerFrame
  <1>5. CASE Hint(s)
    <2>1. KnownOK' /\ RunnerOK'
      BY <1>0, <1>5, GotoType DEF Hint, RunnerFrame, RunnerPoints
    <2>2. SessionOK'
      BY <1>0, <1>5 DEF Hint, SessionOK, Records, FlagsOK
    <2> QED
      BY <1>f, <1>c, <1>5, <2>1, <2>2, TypePartsNext DEF Hint, RunnerFrame
  <1>6. CASE EndOfOutput(s) \/ WaitReturns(s) \/ WaitTimesOut(s) \/ StepRaises(s)
    <2>1. UNCHANGED <<known, aged, request, restarts, killed, session, command>>
      BY <1>6 DEF EndOfOutput, WaitReturns, WaitTimesOut, StepRaises, Silently, RunnerFrame
    <2>2. KnownOK' /\ RunnerOK'
      BY <1>0, <1>6, <2>1, GotoType
         DEF EndOfOutput, WaitReturns, WaitTimesOut, StepRaises, RunnerPoints
    <2>3. SessionOK'
      BY <1>0, <2>1 DEF SessionOK
    <2> QED
      BY <1>f, <1>c, <2>1, <2>2, <2>3, TypePartsNext
  <1>7. CASE Report(s) \/ ReportTimeout(s) \/ ReportError(s)
    <2>1. UNCHANGED <<known, aged, request, restarts, killed, command>>
      BY <1>7 DEF Report, ReportTimeout, ReportError, Settle, RunnerFrame
    <2>2. KnownOK' /\ RunnerOK'
      BY <1>0, <1>7, <2>1, GotoType DEF Report, ReportTimeout, ReportError, RunnerPoints
    <2>3. session[s].returncode \in {"none"} \cup Dead
      BY <1>0 DEF SessionOK, Records
    <2>4. Report(s) => child[s] \in Dead
      BY DEF Report, Goto, Points
    <2>5. SessionOK'
      BY <1>0, <1>7, <2>3, <2>4, SettleType DEF Report, ReportTimeout, ReportError, Statuses
    <2> QED
      BY <1>f, <1>c, <2>1, <2>2, <2>5, TypePartsNext
  <1> QED
    BY <1>1, <1>2, <1>3, <1>4, <1>5, <1>6, <1>7 DEF Runner, Proceed

\* The command.
LEMMA CommandType ==
  ASSUME TypeOK, NEW s \in Sessions, Command(s)
  PROVE  TypeOK'
  <1>0. KnownOK /\ SessionOK /\ RunnerOK /\ CommandOK /\ FlagsOK /\ OutputOK /\ RequestOK /\ HistoryOK
    BY TypeParts
  <1>1. CommandFrame
    BY DEF Command, PrintLine, Listen, CloseOutput, Exit
  <1>2. KnownOK' /\ SessionOK' /\ RunnerOK' /\ RequestOK' /\ HistoryOK'
    BY <1>0, <1>1 DEF CommandFrame, KnownOK, SessionOK, RunnerOK, RequestOK, HistoryOK
  <1>3. CASE \E line \in LinesOf(s) : PrintLine(s, line)
    <2>1. PICK line \in LinesOf(s) : PrintLine(s, line)
      BY <1>3
    <2>2. line \in Prompts
      BY <2>1 DEF LinesOf, Prompts
    <2>3. Append(pipe[s], line) \in Seq(Prompts) /\ printed[s] + 1 \in 0..MaxLines
      BY <1>0, <2>1, <2>2, LoginAssumption DEF PrintLine, OutputOK, LoginAssumption
    <2>4. OutputOK'
      BY <1>0, <2>1, <2>3 DEF PrintLine, OutputOK
    <2>5. CommandOK' /\ FlagsOK'
      BY <1>0, <2>1 DEF PrintLine, CommandOK, FlagsOK
    <2> QED
      BY <1>2, <2>4, <2>5, TypePartsNext
  <1>4. CASE Listen(s) \/ CloseOutput(s)
    <2>1. CommandOK' /\ FlagsOK' /\ OutputOK'
      BY <1>0, <1>4 DEF Listen, CloseOutput, CommandOK, FlagsOK, OutputOK, Alive
    <2> QED
      BY <1>2, <2>1, TypePartsNext
  <1>5. CASE \E code \in Dead : Exit(s, code)
    <2>1. PICK code \in Dead : Exit(s, code)
      BY <1>5
    <2>2. CommandOK' /\ OutputOK'
      BY <1>0, <2>1 DEF Exit, CommandOK, OutputOK
    <2>3. (authenticated[provider[s]] \/ code = "exit 0") \in BOOLEAN
      BY <1>0, <2>1, Zenon DEF FlagsOK
    <2>4. FlagsOK'
      <3>1. authenticated' \in [Providers -> BOOLEAN]
        <4>1. CASE provider[s] \in Providers
          <5>1. authenticated[provider[s]] \in BOOLEAN
            BY <1>0, <4>1 DEF FlagsOK
          <5> QED
            BY <1>0, <2>1, <4>1, <5>1 DEF Exit, FlagsOK
        <4>2. CASE provider[s] \notin Providers
          BY <1>0, <2>1, <4>2 DEF Exit, FlagsOK
        <4> QED
          BY <4>1, <4>2
      <3> QED
        BY <1>0, <2>1, <3>1 DEF Exit, FlagsOK
    <2> QED
      BY <1>2, <2>2, <2>4, TypePartsNext
  <1> QED
    BY <1>3, <1>4, <1>5 DEF Command

\* A request begins, and goes from step to step.
LEMMA BeginType ==
  ASSUME SessionOK, NEW s \in Sessions, NEW step \in RequestSteps, Begin(s, step)
  PROVE  RequestOK'
  BY DEF Begin, SessionOK, Records, RequestOK

LEMMA StepType ==
  ASSUME RequestOK, NEW s \in Sessions, NEW from, NEW to \in RequestSteps \cup {"end"},
         Step(s, from, to)
  PROVE  RequestOK'
  BY DEF Step, RequestOK

LEMMA RequestType ==
  ASSUME TypeOK, RequestSees, NEW s \in Sessions,
         RequestStep(s) \/ Submit(s) \/ Cancel(s) \/ \E p \in Providers : StartLogin(s, p)
  PROVE  TypeOK'
  <1>0. KnownOK /\ SessionOK /\ RunnerOK /\ CommandOK /\ FlagsOK /\ OutputOK /\ RequestOK /\ HistoryOK
    BY TypeParts
  <1>c. UNCHANGED command => CommandOK' /\ FlagsOK' /\ OutputOK'
    BY <1>0 DEF command, CommandOK, FlagsOK, OutputOK
  <1>k. UNCHANGED <<known, aged, runner>> => KnownOK' /\ RunnerOK'
    BY <1>0 DEF KnownOK, RunnerOK
  <1>h. UNCHANGED <<restarts, killed>> => HistoryOK'
    BY <1>0 DEF HistoryOK
  <1>s. UNCHANGED session => SessionOK'
    BY <1>0 DEF SessionOK
  <1>1. CASE \E p \in Providers : StartLogin(s, p)
    <2>1. PICK p \in Providers : StartLogin(s, p)
      BY <1>1
    <2>2. RequestOK'
      BY <1>0, <2>1, BeginType DEF StartLogin, RequestSteps
    <2>3. CommandOK' /\ FlagsOK' /\ OutputOK'
      BY <1>0, <2>1 DEF StartLogin, CommandOK, FlagsOK, OutputOK
    <2> QED
      BY <1>k, <1>h, <1>s, <2>1, <2>2, <2>3, TypePartsNext DEF StartLogin, RequestFrame
  <1>2. CASE Submit(s) \/ Cancel(s)
    <2>1. RequestOK'
      BY <1>0, <1>2, BeginType DEF Submit, Cancel, RequestSteps
    <2> QED
      BY <1>c, <1>k, <1>h, <1>s, <1>2, <2>1, TypePartsNext DEF Submit, Cancel, RequestFrame
  <1>3. CASE Register(s)
    <2>1. RequestOK'
      BY <1>0, <1>3, StepType DEF Register
    <2>2. NewSession \in Records
      BY DEF NewSession, NoSession, Records, Statuses
    <2>3. SessionOK'
      BY <1>0, <1>3, <2>2 DEF Register, SessionOK
    <2>4. runner' = [runner EXCEPT ![s] = "start"] /\ known' = (known \ aged) \cup {s} /\ aged' = aged
      BY <1>3 DEF Register
    <2>5. RunnerOK'
      BY <1>0, <2>4 DEF RunnerOK, RunnerPoints
    <2>6. KnownOK'
      BY <1>0, <2>4 DEF KnownOK, RunnerOK
    <2> QED
      BY <1>c, <1>h, <1>3, <2>1, <2>3, <2>5, <2>6, TypePartsNext DEF Register
  <1>4. CASE Locate(s) \/ WriteInput(s) \/ Terminate(s)
    <2>1. RequestOK'
      BY <1>0, <1>4, StepType DEF Locate, WriteInput, Terminate, RequestSteps
    <2> QED
      BY <1>c, <1>k, <1>h, <1>s, <1>4, <2>1, TypePartsNext
         DEF Locate, WriteInput, Terminate, RequestFrame
  <1>5. CASE Forward(s)
    <2>1. RequestOK'
      BY <1>0, <1>5, StepType DEF Forward, RequestSteps
    <2>2. CommandOK' /\ OutputOK'
      BY <1>0, <1>5 DEF Forward, CommandOK, OutputOK
    <2>3. FlagsOK'
      <3>1. PICK b \in BOOLEAN : called' = [called EXCEPT ![s] = b]
        BY <1>5, Zenon DEF Forward
      <3> QED
        BY <1>0, <1>5, <3>1 DEF Forward, FlagsOK
    <2> QED
      BY <1>k, <1>h, <1>s, <1>5, <2>1, <2>2, <2>3, TypePartsNext DEF Forward, RequestFrame
  <1>6. CASE RecordSubmission(s)
    <2>1. RequestOK'
      BY <1>0, <1>6, StepType DEF RecordSubmission
    <2>2. SessionOK'
      BY <1>0, <1>6 DEF RecordSubmission, SessionOK, Records
    <2> QED
      BY <1>c, <1>k, <1>h, <1>6, <2>1, <2>2, TypePartsNext DEF RecordSubmission, RequestFrame
  <1>7. CASE Reap(s)
    <2>1. RequestOK'
      BY <1>0, <1>7, StepType DEF Reap, RequestSteps
    <2>2. CommandOK'
      BY <1>0, <1>7 DEF Reap, CommandOK, Dead
    <2>3. FlagsOK' /\ OutputOK'
      BY <1>0, <1>7 DEF Reap, FlagsOK, OutputOK
    <2> QED
      BY <1>k, <1>h, <1>s, <1>7, <2>1, <2>2, <2>3, TypePartsNext DEF Reap, RequestFrame
  <1>8. CASE SettleCancel(s)
    <2>1. RequestOK'
      BY <1>0, <1>8, StepType DEF SettleCancel
    <2>2. session[s].status \in Statuses /\ "cancelled" \in Statuses
      BY <1>0 DEF SessionOK, Records, Statuses
    <2>3. SessionOK'
      <3>1. PICK status \in Statuses :
              session' = [session EXCEPT ![s].status = status, ![s].awaiting = FALSE]
        BY <1>8, <2>2 DEF SettleCancel
      <3> QED
        BY <1>0, <3>1 DEF SessionOK, Records
    <2>4. HistoryOK'
      BY <1>0, <1>8 DEF SettleCancel, RequestFrame, HistoryOK
    <2> QED
      BY <1>c, <1>k, <1>8, <2>1, <2>3, <2>4, TypePartsNext DEF SettleCancel, RequestFrame
  <1> QED
    BY <1>1, <1>2, <1>3, <1>4, <1>5, <1>6, <1>7, <1>8 DEF RequestStep

LEMMA OtherType ==
  ASSUME TypeOK, OtherLogin \/ Age \/ Restart \/ UNCHANGED vars
  PROVE  TypeOK'
  <1>0. KnownOK /\ SessionOK /\ RunnerOK /\ CommandOK /\ FlagsOK /\ OutputOK /\ RequestOK /\ HistoryOK
    BY TypeParts
  <1>1. CASE OtherLogin \/ Age \/ UNCHANGED vars
    <2>1. UNCHANGED <<session, runner, command, restarts, killed>>
      BY <1>1 DEF OtherLogin, Age, vars
    <2>2. KnownOK'
      BY <1>0, <1>1 DEF OtherLogin, Age, vars, KnownOK
    <2>3. RequestOK'
      BY <1>0, <1>1 DEF OtherLogin, Age, vars, RequestOK
    <2>4. SessionOK' /\ RunnerOK' /\ HistoryOK'
      BY <1>0, <2>1 DEF SessionOK, RunnerOK, HistoryOK
    <2>5. CommandOK' /\ FlagsOK' /\ OutputOK'
      BY <1>0, <2>1 DEF command, CommandOK, FlagsOK, OutputOK
    <2> QED
      BY <2>2, <2>3, <2>4, <2>5, TypePartsNext
  <1>2. CASE Restart
    <2>1. KnownOK' /\ RequestOK'
      BY <1>2 DEF Restart, KnownOK, RequestOK
    <2>2. NoSession \in Records
      BY DEF NoSession, Records, Statuses
    <2>3. SessionOK'
      BY <1>2, <2>2 DEF Restart, SessionOK
    <2>4. RunnerOK'
      BY <1>2 DEF Restart, RunnerOK, RunnerPoints
    <2>5. CommandOK' /\ FlagsOK' /\ OutputOK'
      BY <1>0, <1>2 DEF Restart, CommandOK, FlagsOK, OutputOK
    <2>6. HistoryOK'
      BY <1>0, <1>2, LoginAssumption DEF Restart, HistoryOK, LoginAssumption
    <2> QED
      BY <2>1, <2>3, <2>4, <2>5, <2>6, TypePartsNext
  <1> QED
    BY <1>1, <1>2

LEMMA TypeStep ==
  ASSUME TypeOK, Points, RequestSees, [Next]_vars
  PROVE  TypeOK'
  <1>1. CASE \E s \in Sessions : Runner(s)
    BY <1>1, RunnerType
  <1>2. CASE \E s \in Sessions : Command(s)
    BY <1>2, CommandType
  <1>3. CASE \E s \in Sessions :
               RequestStep(s) \/ Submit(s) \/ Cancel(s) \/ \E p \in Providers : StartLogin(s, p)
    BY <1>3, RequestType
  <1>4. CASE OtherLogin \/ Age \/ Restart \/ UNCHANGED vars
    BY <1>4, OtherType
  <1> QED
    BY <1>1, <1>2, <1>3, <1>4 DEF Next

-----------------------------------------------------------------------------
(* The invariant *)

IInv ==
  /\ TypeOK /\ Points /\ RequestSees /\ StartIsOpen
  /\ StatusTruthful /\ NeverAwaitsAfterSubmit /\ CancelKillsAttached

LEMMA InvInit == Init => IInv
  <1> SUFFICES ASSUME Init PROVE IInv
    OBVIOUS
  <1>1. Points /\ RequestSees /\ StartIsOpen
    BY DEF Init, Points, RequestSees, StartIsOpen, NoSession
  <1>2. StatusTruthful /\ NeverAwaitsAfterSubmit /\ CancelKillsAttached
    BY DEF Init, NoSession, StatusTruthful, NeverAwaitsAfterSubmit, CancelKillsAttached
  <1> QED
    BY <1>1, <1>2, TypeInit DEF IInv

\* A thread starts its command, a command goes on or ends; none comes back.
ChildMoves(s) ==
  \/ child'[s] = child[s]
  \/ child[s] = "none" /\ runner[s] = "start" /\ runner'[s] = "attach" /\ child'[s] = "running"
  \/ child[s] \in Alive /\ child'[s] \in {"silent"} \cup Dead

LEMMA ChildSteps ==
  ASSUME TypeOK, Points, [Next]_vars, NEW t \in Sessions
  PROVE  ChildMoves(t)
  <1>0. RunnerOK /\ CommandOK
    BY TypeParts
  <1>1. CASE UNCHANGED child
    BY <1>1 DEF ChildMoves
  <1>2. CASE \E s \in Sessions : Spawn(s)
    BY <1>0, <1>2 DEF Spawn, Goto, Points, RunnerOK, CommandOK, ChildMoves
  <1>3. CASE \E s \in Sessions : CloseOutput(s)
    BY <1>0, <1>3 DEF CloseOutput, CommandOK, ChildMoves, Alive
  <1>4. CASE \E s \in Sessions : \E code \in Dead : Exit(s, code)
    BY <1>0, <1>4 DEF Exit, CommandOK, ChildMoves
  <1>5. CASE \E s \in Sessions : Reap(s)
    BY <1>0, <1>5 DEF Reap, CommandOK, ChildMoves, Dead
  <1>6. CASE \E s \in Sessions : Runner(s)
    BY <1>1, <1>2, <1>6
       DEF Runner, Proceed, SpawnFails, StepRaises, Attach, ReadLine, Hint, EndOfOutput, WaitReturns,
           WaitTimesOut, Report, ReportTimeout, ReportError, Settle, Silently, command
  <1>7. CASE \E s \in Sessions : Command(s)
    BY <1>1, <1>3, <1>4, <1>7 DEF Command, PrintLine, Listen
  <1>8. CASE \E s \in Sessions :
               RequestStep(s) \/ Submit(s) \/ Cancel(s) \/ \E p \in Providers : StartLogin(s, p)
    BY <1>1, <1>5, <1>8
       DEF RequestStep, Register, Locate, Forward, WriteInput, RecordSubmission, Terminate,
           SettleCancel, Submit, Cancel, StartLogin, command
  <1>9. CASE OtherLogin \/ Age \/ Restart \/ UNCHANGED vars
    BY <1>1, <1>9 DEF OtherLogin, Age, Restart, vars, command
  <1> QED
    BY <1>6, <1>7, <1>8, <1>9 DEF Next

\* An exited command stays as it is, and what was started stays started.
LEMMA ChildStays ==
  ASSUME TypeOK, Points, [Next]_vars, NEW s \in Sessions
  PROVE  /\ child[s] \in Dead => child'[s] = child[s]
         /\ child[s] # "none" => child'[s] # "none"
  BY ChildSteps DEF ChildMoves, Alive, Dead

\* The steps that leave the threads alone.
LEMMA RunnerStays ==
  ASSUME NEW s \in Sessions,
         \/ Command(s) \/ Submit(s) \/ Cancel(s) \/ \E p \in Providers : StartLogin(s, p)
         \/ Locate(s) \/ Forward(s) \/ WriteInput(s) \/ RecordSubmission(s)
         \/ Terminate(s) \/ Reap(s) \/ SettleCancel(s) \/ OtherLogin \/ Age \/ UNCHANGED vars
  PROVE  UNCHANGED runner
  BY DEF Command, PrintLine, Listen, CloseOutput, Exit, CommandFrame, Submit, Cancel, StartLogin,
         Locate, Forward, WriteInput, RecordSubmission, Terminate, Reap, SettleCancel,
         RequestFrame, OtherLogin, Age, vars

\* The steps that leave the sessions alone.
LEMMA SessionStays ==
  ASSUME NEW s \in Sessions,
         \/ Command(s) \/ Submit(s) \/ Cancel(s) \/ \E p \in Providers : StartLogin(s, p)
         \/ Locate(s) \/ Forward(s) \/ WriteInput(s) \/ Terminate(s) \/ Reap(s)
         \/ Spawn(s) \/ SpawnFails(s) \/ StepRaises(s)
         \/ EndOfOutput(s) \/ WaitReturns(s) \/ WaitTimesOut(s)
         \/ OtherLogin \/ Age \/ UNCHANGED vars
  PROVE  UNCHANGED session
  BY DEF Command, PrintLine, Listen, CloseOutput, Exit, CommandFrame, Submit, Cancel, StartLogin,
         Locate, Forward, WriteInput, Terminate, Reap, Spawn, SpawnFails, StepRaises, EndOfOutput,
         WaitReturns, WaitTimesOut, Silently, OtherLogin, Age, vars

LEMMA PointsStep ==
  ASSUME TypeOK, Points, RequestSees, [Next]_vars
  PROVE  Points'
  <1>0. SessionOK /\ RunnerOK /\ CommandOK
    BY TypeParts
  <1>c. \A t \in Sessions : ChildMoves(t)
    BY ChildSteps
  <1>1. ASSUME NEW s \in Sessions, Runner(s) PROVE Points'
    <2>1. CASE Spawn(s)
      BY <1>0, <2>1 DEF Spawn, Goto, Points, RunnerOK, CommandOK
    <2>2. CASE SpawnFails(s)
      BY <1>0, <2>2 DEF SpawnFails, Goto, Silently, command, Points, RunnerOK
    <2>3. CASE Attach(s)
      BY <1>0, <2>3 DEF Attach, Goto, command, Points, RunnerOK, SessionOK, Records
    <2>4. CASE ReadLine(s)
      <3>1. PICK b : session' = [session EXCEPT ![s].awaiting = b]
        BY <2>4, Zenon DEF ReadLine
      <3>2. PICK to \in {"hint", "read"} : Goto(s, "read", to)
        BY <2>4 DEF ReadLine
      <3>3. UNCHANGED child
        BY <2>4 DEF ReadLine
      <3>4. \A t \in Sessions : session'[t].attached = session[t].attached
        BY <1>0, <3>1 DEF SessionOK, Records
      <3> QED
        BY <1>0, <3>2, <3>3, <3>4 DEF Goto, Points, RunnerOK
    <2>5. CASE Hint(s)
      <3>1. PICK b : session' = [session EXCEPT ![s].hinted = b]
        BY <2>5, Zenon DEF Hint
      <3>2. \A t \in Sessions : session'[t].attached = session[t].attached
        BY <1>0, <3>1 DEF SessionOK, Records
      <3> QED
        BY <1>0, <2>5, <3>2 DEF Hint, Goto, command, Points, RunnerOK
    <2>6. CASE EndOfOutput(s) \/ WaitReturns(s) \/ WaitTimesOut(s) \/ StepRaises(s)
      BY <1>0, <2>6 DEF EndOfOutput, WaitReturns, WaitTimesOut, StepRaises, Goto, Silently,
                        command, Points, RunnerOK
    <2>7. CASE Report(s) \/ ReportTimeout(s) \/ ReportError(s)
      <3>1. PICK status, returncode : Settle(s, status, returncode)
        BY <2>7 DEF Report, ReportTimeout, ReportError
      <3>2. UNCHANGED child
        BY <3>1 DEF Settle, command
      <3>3. \A t \in Sessions : session'[t].attached = session[t].attached
        BY <1>0, <3>1 DEF Settle, SessionOK, Records
      <3> QED
        BY <1>0, <2>7, <3>2, <3>3 DEF Report, ReportTimeout, ReportError, Goto, Points, RunnerOK
    <2> QED
      BY <1>1, <2>1, <2>2, <2>3, <2>4, <2>5, <2>6, <2>7 DEF Runner, Proceed
  <1>2. ASSUME UNCHANGED runner, \A t \in Sessions : session'[t].attached = session[t].attached
        PROVE  Points'
    BY <1>2, <1>c DEF ChildMoves, Points, Alive, Dead
  <1>3. ASSUME NEW s \in Sessions, RecordSubmission(s) \/ SettleCancel(s) PROVE Points'
    <2>1. UNCHANGED runner
      BY <1>3, RunnerStays
    <2>2. \A t \in Sessions : session'[t].attached = session[t].attached
      <3>1. CASE RecordSubmission(s)
        BY <1>0, <3>1 DEF RecordSubmission, SessionOK, Records
      <3>2. CASE SettleCancel(s)
        <4>1. PICK status :
                session' = [session EXCEPT ![s].status = status, ![s].awaiting = FALSE]
          BY <3>2 DEF SettleCancel
        <4> QED
          BY <1>0, <4>1 DEF SessionOK, Records
      <3> QED
        BY <1>3, <3>1, <3>2
    <2> QED
      BY <1>2, <2>1, <2>2
  <1>4. ASSUME NEW s \in Sessions, Register(s) PROVE Points'
    <2>1. runner[s] = "none"
      BY <1>4 DEF Register, Step, RequestSees
    <2> QED
      BY <1>0, <1>4, <2>1 DEF Register, NewSession, NoSession, command, Points, RunnerOK, SessionOK
  <1>5. CASE Restart
    BY <1>5 DEF Restart, NoSession, Points
  <1>6. ASSUME NEW s \in Sessions, 
          \/ Command(s) \/ Submit(s) \/ Cancel(s) \/ \E p \in Providers : StartLogin(s, p)
          \/ Locate(s) \/ Forward(s) \/ WriteInput(s) \/ Terminate(s) \/ Reap(s)
          \/ OtherLogin \/ Age \/ UNCHANGED vars
        PROVE Points'
    <2>1. UNCHANGED runner
      BY <1>6, RunnerStays
    <2>2. UNCHANGED session
      BY <1>6, SessionStays
    <2> QED
      BY <1>2, <2>1, <2>2
  <1>7. CASE Sessions = {}
    BY <1>7 DEF Points
  <1> QED
    BY <1>1, <1>3, <1>4, <1>5, <1>6, <1>7 DEF Next, RequestStep

LEMMA RequestSeesStep ==
  ASSUME TypeOK, Points, RequestSees, [Next]_vars
  PROVE  RequestSees'
  <1>0. RequestOK /\ RunnerOK /\ SessionOK /\ CommandOK
    BY TypeParts
  <1>c. \A t \in Sessions :
          /\ child[t] \in Dead => child'[t] = child[t]
          /\ child[t] # "none" => child'[t] # "none"
    BY ChildStays
  <1>1. ASSUME UNCHANGED request, \A t \in Sessions : runner[t] = "none" => runner'[t] = "none"
        PROVE  RequestSees'
    BY <1>0, <1>1, <1>c DEF RequestSees, RequestOK
  <1>2. ASSUME NEW s \in Sessions, Runner(s) PROVE RequestSees'
    <2>1. UNCHANGED request
      BY <1>2 DEF Runner, Proceed, Spawn, SpawnFails, StepRaises, Attach, ReadLine, Hint,
           EndOfOutput, WaitReturns, WaitTimesOut, Report, ReportTimeout, ReportError, Settle, Silently, RunnerFrame
    <2>2. PICK from \in RunnerPoints \ {"none"}, to \in RunnerPoints : Goto(s, from, to)
      BY <1>2 DEF Runner, Proceed, Spawn, SpawnFails, StepRaises, Attach, ReadLine, Hint, EndOfOutput,
           WaitReturns, WaitTimesOut, Report, ReportTimeout, ReportError, RunnerPoints
    <2>3. \A t \in Sessions : runner[t] = "none" => runner'[t] = "none"
      BY <1>0, <2>2 DEF Goto, RunnerOK
    <2> QED
      BY <1>1, <2>1, <2>3
  <1>3. ASSUME NEW s \in Sessions, Command(s) \/ OtherLogin \/ Age \/ UNCHANGED vars
        PROVE  RequestSees'
    <2>1. UNCHANGED request
      BY <1>3 DEF Command, PrintLine, Listen, CloseOutput, Exit, CommandFrame, OtherLogin, Age, vars
    <2>2. UNCHANGED runner
      BY <1>3, RunnerStays
    <2> QED
      BY <1>1, <2>1, <2>2
  <1>4. ASSUME NEW s \in Sessions, NEW step \in RequestSteps \ {"settle"}, Begin(s, step),
               UNCHANGED <<child, runner>>, step = "register" => runner[s] = "none"
        PROVE  RequestSees'
    <2>1. session[s].attached => child[s] # "none"
      BY DEF Points
    <2> QED
      BY <1>4, <2>1 DEF Begin, RequestSees, Idle
  <1>5. ASSUME NEW s \in Sessions, Submit(s) \/ Cancel(s) \/ \E p \in Providers : StartLogin(s, p)
        PROVE  RequestSees'
    BY <1>4, <1>5 DEF Submit, Cancel, StartLogin, RequestFrame, command, RequestSteps
  <1>6. ASSUME NEW s \in Sessions, NEW from,
               NEW to \in (RequestSteps \ {"register"}) \cup {"end"}, Step(s, from, to),
               to = "settle" /\ request.attached => child'[s] \in Dead
        PROVE  RequestSees'
    <2>1. CASE to = "end"
      BY <1>6, <2>1 DEF Step, RequestSees
    <2>2. CASE to # "end"
      <3>1. request' = [request EXCEPT !.step = to] /\ request.s = s /\ request # Idle
        BY <1>6, <2>2 DEF Step
      <3>2. request \in [step : RequestSteps, s : Sessions, attached : BOOLEAN]
        BY <1>0, <3>1 DEF RequestOK
      <3>3. request'.step = to /\ request'.s = s /\ request'.attached = request.attached
        BY <3>1, <3>2
      <3>4. request.attached => child'[s] # "none"
        BY <1>c, <3>1 DEF RequestSees
      <3> QED
        BY <1>6, <3>3, <3>4 DEF RequestSees
    <2> QED
      BY <2>1, <2>2
  <1>7. ASSUME NEW s \in Sessions, RequestStep(s) PROVE RequestSees'
    <2>1. CASE Register(s) \/ RecordSubmission(s) \/ SettleCancel(s)
      BY <1>6, <2>1 DEF Register, RecordSubmission, SettleCancel
    <2>2. CASE Locate(s) \/ Forward(s) \/ WriteInput(s)
      BY <1>6, <2>2 DEF Locate, Forward, WriteInput, RequestSteps
    <2>3. CASE Terminate(s)
      <3>1. request.attached => child[s] # "none" /\ child'[s] = child[s]
        BY <2>3 DEF Terminate, Step, RequestSees, command
      <3>2. child[s] \in {"none"} \cup Alive \cup Dead
        BY <1>0 DEF CommandOK
      <3>3. PICK to \in {"reap", "settle"} :
              Step(s, "terminate", to) /\ (to = "settle" /\ request.attached => child[s] \notin Alive)
        BY <2>3 DEF Terminate
      <3> QED
        BY <1>6, <3>1, <3>2, <3>3 DEF RequestSteps
    <2>4. CASE Reap(s)
      <3>1. request.attached => child[s] # "none"
        BY <2>4 DEF Reap, Step, RequestSees
      <3>2. child[s] \in {"none"} \cup Alive \cup Dead
        BY <1>0 DEF CommandOK
      <3>3. request.attached => child'[s] \in Dead
        BY <1>0, <2>4, <3>1, <3>2 DEF Reap, CommandOK, Dead
      <3>4. Step(s, "reap", "settle")
        BY <2>4 DEF Reap
      <3> QED
        BY <1>6, <3>3, <3>4 DEF RequestSteps
    <2> QED
      BY <1>7, <2>1, <2>2, <2>3, <2>4 DEF RequestStep
  <1>8. CASE Restart
    BY <1>8 DEF Restart, RequestSees
  <1>9. ASSUME Sessions = {} PROVE RequestSees'
    <2>1. request = Idle
      BY <1>0, <1>9 DEF RequestOK
    <2>2. UNCHANGED request
      BY <1>9, <2>1 DEF Next, Restart, OtherLogin, Age, vars
    <2> QED
      BY <2>1, <2>2 DEF RequestSees
  <1> QED
    BY <1>2, <1>3, <1>5, <1>7, <1>8, <1>9 DEF Next

\* What StartIsOpen and StatusTruthful say of one session.
Truthful(t) ==
  /\ runner[t] = "start" => session[t].status # "failed"
  /\ session[t].returncode # "none" => session[t].returncode = child[t]
  /\ session[t].status = "completed" => child[t] = "exit 0"
  /\ session[t].status = "failed" => child[t] = "exit 1" \/ runner[t] = "raised"
  /\ runner[t] = "raised" => session[t].status = "failed"
  /\ runner[t] = "done" => session[t].status \in {"completed", "failed", "timeout"}

\* The thread neither starts nor ends.
SameEnd(t) ==
  /\ runner'[t] \in {"done", "raised", "start"} => runner'[t] = runner[t]
  /\ runner[t] = "raised" => runner'[t] = "raised"

\* The status and the exit code of a session are the thread's to settle.
LEMMA StatusKeeps ==
  ASSUME TypeOK, Points, StartIsOpen, StatusTruthful, [Next]_vars,
         NEW t \in Sessions,
         session'[t].status = session[t].status,
         session'[t].returncode = session[t].returncode,
         runner'[t] \in {"done", "raised", "start"} => runner'[t] = runner[t],
         runner[t] = "raised" => runner'[t] = "raised"
  PROVE  Truthful(t)'
  <1>1. SessionOK
    BY TypeParts
  <1>2. session[t].returncode \in {"none"} \cup Dead
    BY <1>1 DEF SessionOK, Records
  <1>3. ChildMoves(t)
    BY ChildSteps
  <1> QED
    BY <1>2, <1>3 DEF ChildMoves, Truthful, StartIsOpen, StatusTruthful, Alive, Dead

LEMMA StatusStep ==
  ASSUME TypeOK, Points, RequestSees, StartIsOpen, StatusTruthful, [Next]_vars
  PROVE  StartIsOpen' /\ StatusTruthful'
  <1>0. SessionOK /\ RunnerOK /\ CommandOK
    BY TypeParts
  <1>1. ASSUME \A t \in Sessions : /\ session'[t].status = session[t].status
                                   /\ session'[t].returncode = session[t].returncode
                                   /\ SameEnd(t)
        PROVE  StartIsOpen' /\ StatusTruthful'
    BY <1>1, StatusKeeps DEF SameEnd, Truthful, StartIsOpen, StatusTruthful
  <1>2. ASSUME NEW s \in Sessions, NEW from \in RunnerPoints \ {"raised"},
               NEW to \in RunnerPoints \ {"start", "done", "raised"}, Goto(s, from, to)
        PROVE  \A t \in Sessions : SameEnd(t)
    BY <1>0, <1>2 DEF Goto, RunnerOK, SameEnd
  <1>3. ASSUME NEW s \in Sessions,
               \/ Spawn(s) \/ SpawnFails(s) \/ StepRaises(s)
               \/ EndOfOutput(s) \/ WaitReturns(s) \/ WaitTimesOut(s)
        PROVE  StartIsOpen' /\ StatusTruthful'
    <2>1. UNCHANGED session
      BY <1>3, SessionStays
    <2>2. PICK from \in RunnerPoints \ {"raised"}, to \in RunnerPoints \ {"start", "done", "raised"} :
            Goto(s, from, to)
      BY <1>3 DEF Spawn, SpawnFails, StepRaises, EndOfOutput, WaitReturns, WaitTimesOut,
                  RunnerPoints
    <2> QED
      BY <1>1, <1>2, <2>1, <2>2
  <1>4. ASSUME NEW s \in Sessions, Attach(s) \/ ReadLine(s) \/ Hint(s)
        PROVE  StartIsOpen' /\ StatusTruthful'
    <2>1. PICK from \in RunnerPoints \ {"raised"}, to \in RunnerPoints \ {"start", "done", "raised"} :
            Goto(s, from, to)
      BY <1>4 DEF Attach, ReadLine, Hint, RunnerPoints
    <2>2. \A t \in Sessions : /\ session'[t].status = session[t].status
                              /\ session'[t].returncode = session[t].returncode
      <3>1. CASE Attach(s)
        BY <1>0, <3>1 DEF Attach, SessionOK, Records
      <3>2. CASE ReadLine(s)
        <4>1. PICK b : session' = [session EXCEPT ![s].awaiting = b]
          BY <3>2, Zenon DEF ReadLine
        <4> QED
          BY <1>0, <4>1 DEF SessionOK, Records
      <3>3. CASE Hint(s)
        <4>1. PICK b : session' = [session EXCEPT ![s].hinted = b]
          BY <3>3, Zenon DEF Hint
        <4> QED
          BY <1>0, <4>1 DEF SessionOK, Records
      <3> QED
        BY <1>4, <3>1, <3>2, <3>3
    <2> QED
      BY <1>1, <1>2, <2>1, <2>2
  <1>5. ASSUME NEW s \in Sessions, Report(s) \/ ReportTimeout(s) \/ ReportError(s)
        PROVE  StartIsOpen' /\ StatusTruthful'
    <2>1. PICK status \in Statuses, returncode \in {"none"} \cup Dead, to \in {"done", "raised"} :
            /\ Settle(s, status, returncode) /\ runner' = [runner EXCEPT ![s] = to]
            /\ status \in {"completed", "failed", "timeout"}
            /\ returncode # "none" => returncode = child[s]
            /\ status = "completed" => child[s] = "exit 0"
            /\ status = "failed" => child[s] = "exit 1" \/ to = "raised"
            /\ to = "raised" => status = "failed"
      <3>1. CASE Report(s)
        BY <3>1 DEF Report, Goto, Points, Statuses, Dead
      <3>2. CASE ReportTimeout(s)
        <4>1. session[s].returncode \in {"none"} \cup Dead
          BY <1>0 DEF SessionOK, Records
        <4> QED
          BY <3>2, <4>1 DEF ReportTimeout, Goto, StatusTruthful, Statuses
      <3>3. CASE ReportError(s)
        <4>1. session[s].returncode \in {"none"} \cup Dead
          BY <1>0 DEF SessionOK, Records
        <4> QED
          BY <3>3, <4>1 DEF ReportError, Goto, StatusTruthful, Statuses
      <3> QED
        BY <1>5, <3>1, <3>2, <3>3
    <2>2. UNCHANGED child
      BY <2>1 DEF Settle, command
    <2>3. session'[s].status = status /\ session'[s].returncode = returncode
      BY <1>0, <2>1 DEF Settle, SessionOK, Records
    <2>4. \A t \in Sessions \ {s} : session'[t] = session[t] /\ runner'[t] = runner[t]
      BY <1>0, <2>1 DEF Settle, SessionOK, RunnerOK
    <2>5. runner'[s] = to
      BY <1>0, <2>1 DEF RunnerOK
    <2>6. ASSUME NEW t \in Sessions PROVE Truthful(t)'
      <3>1. CASE t = s
        <4>1. /\ session'[t].status \in {"completed", "failed", "timeout"}
              /\ session'[t].returncode # "none" => session'[t].returncode = child[t]
              /\ session'[t].status = "completed" => child[t] = "exit 0"
              /\ session'[t].status = "failed" => child[t] = "exit 1" \/ to = "raised"
              /\ to = "raised" => session'[t].status = "failed"
              /\ runner'[t] = to /\ child'[t] = child[t]
          BY <2>1, <2>2, <2>3, <2>5, <3>1
        <4> QED
          BY <4>1 DEF Truthful
      <3>2. CASE t # s
        <4>1. session'[t] = session[t] /\ runner'[t] = runner[t]
          BY <2>4, <3>2
        <4>2. child'[t] = child[t]
          BY <2>2
        <4> QED
          BY <4>1, <4>2 DEF Truthful, StartIsOpen, StatusTruthful
      <3> QED
        BY <3>1, <3>2
    <2> QED
      BY <2>6 DEF Truthful, StartIsOpen, StatusTruthful
  <1>6. ASSUME NEW s \in Sessions, Register(s) PROVE StartIsOpen' /\ StatusTruthful'
    <2>1. session'[s].status = "running" /\ session'[s].returncode = "none" /\ runner'[s] = "start"
      BY <1>0, <1>6 DEF Register, NewSession, NoSession, SessionOK, RunnerOK
    <2>2. \A t \in Sessions \ {s} : session'[t] = session[t] /\ runner'[t] = runner[t]
      BY <1>0, <1>6 DEF Register, SessionOK, RunnerOK
    <2>3. UNCHANGED child
      BY <1>6 DEF Register, command
    <2>5. ASSUME NEW t \in Sessions \ {s} PROVE Truthful(t)'
      <3>1. session'[t] = session[t] /\ runner'[t] = runner[t] /\ child'[t] = child[t]
        BY <2>2, <2>3
      <3> QED
        BY <3>1 DEF Truthful, StartIsOpen, StatusTruthful
    <2>6. ASSUME NEW t \in Sessions PROVE Truthful(t)'
      <3>1. CASE t = s
        BY <2>1, <3>1 DEF Truthful
      <3>2. CASE t # s
        BY <2>5, <3>2
      <3> QED
        BY <3>1, <3>2
    <2> QED
      BY <2>6 DEF Truthful, StartIsOpen, StatusTruthful
  <1>7. ASSUME NEW s \in Sessions, RecordSubmission(s) PROVE StartIsOpen' /\ StatusTruthful'
    <2>1. UNCHANGED runner
      BY <1>7, RunnerStays
    <2>2. \A t \in Sessions : /\ session'[t].status = session[t].status
                              /\ session'[t].returncode = session[t].returncode
      BY <1>0, <1>7 DEF RecordSubmission, SessionOK, Records
    <2> QED
      BY <1>1, <2>1, <2>2 DEF SameEnd
  <1>8. ASSUME NEW s \in Sessions, SettleCancel(s) PROVE StartIsOpen' /\ StatusTruthful'
    <2>1. UNCHANGED <<runner, child>>
      BY <1>8 DEF SettleCancel, RequestFrame, command
    <2>2. PICK status :
            /\ session' = [session EXCEPT ![s].status = status, ![s].awaiting = FALSE]
            /\ status = IF session[s].status = "running" THEN "cancelled" ELSE session[s].status
      BY <1>8 DEF SettleCancel
    <2>3. session'[s].status = status /\ session'[s].returncode = session[s].returncode
      BY <1>0, <2>2 DEF SessionOK, Records
    <2>4. \A t \in Sessions \ {s} : session'[t] = session[t]
      BY <1>0, <2>2 DEF SessionOK
    <2>5. ASSUME NEW t \in Sessions PROVE Truthful(t)'
      <3>1. CASE t = s
        <4>1. /\ runner'[t] = runner[t] /\ child'[t] = child[t]
              /\ session'[t].returncode = session[t].returncode
          BY <2>1, <2>3, <3>1
        <4>2. \/ session[t].status # "running" /\ session'[t].status = session[t].status
              \/ session[t].status = "running" /\ session'[t].status = "cancelled"
          BY <2>2, <2>3, <3>1
        <4> QED
          BY <4>1, <4>2 DEF Truthful, StartIsOpen, StatusTruthful
      <3>2. CASE t # s
        BY <2>1, <2>4, <3>2 DEF Truthful, StartIsOpen, StatusTruthful
      <3> QED
        BY <3>1, <3>2
    <2> QED
      BY <2>5 DEF Truthful, StartIsOpen, StatusTruthful
  <1>9. CASE Restart
    BY <1>9 DEF Restart, NoSession, StartIsOpen, StatusTruthful
  <1>10. ASSUME NEW s \in Sessions,
          \/ Command(s) \/ Submit(s) \/ Cancel(s) \/ \E p \in Providers : StartLogin(s, p)
          \/ Locate(s) \/ Forward(s) \/ WriteInput(s) \/ Terminate(s) \/ Reap(s)
          \/ OtherLogin \/ Age \/ UNCHANGED vars
        PROVE StartIsOpen' /\ StatusTruthful'
    <2>1. UNCHANGED runner
      BY <1>10, RunnerStays
    <2>2. UNCHANGED session
      BY <1>10, SessionStays
    <2> QED
      BY <1>1, <2>1, <2>2 DEF SameEnd
  <1>11. CASE Sessions = {}
    BY <1>11 DEF StartIsOpen, StatusTruthful
  <1> QED
    BY <1>3, <1>4, <1>5, <1>6, <1>7, <1>8, <1>9, <1>10, <1>11 DEF Next, Runner, Proceed, RequestStep

LEMMA AwaitsStep ==
  ASSUME TypeOK, NeverAwaitsAfterSubmit, [Next]_vars
  PROVE  NeverAwaitsAfterSubmit'
  <1>0. SessionOK
    BY TypeParts
  <1>1. ASSUME \A t \in Sessions : /\ session'[t].awaiting => session[t].awaiting
                                   /\ session'[t].submitted => session[t].submitted
        PROVE  NeverAwaitsAfterSubmit'
    BY <1>1 DEF NeverAwaitsAfterSubmit
  <1>2. ASSUME NEW s \in Sessions, Attach(s) \/ Hint(s) PROVE NeverAwaitsAfterSubmit'
    <2>1. \A t \in Sessions : /\ session'[t].awaiting = session[t].awaiting
                              /\ session'[t].submitted = session[t].submitted
      <3>1. CASE Attach(s)
        BY <1>0, <3>1 DEF Attach, SessionOK, Records
      <3>2. CASE Hint(s)
        <4>1. PICK b : session' = [session EXCEPT ![s].hinted = b]
          BY <3>2, Zenon DEF Hint
        <4> QED
          BY <1>0, <4>1 DEF SessionOK, Records
      <3> QED
        BY <1>2, <3>1, <3>2
    <2> QED
      BY <1>1, <2>1
  <1>3. ASSUME NEW s \in Sessions, ReadLine(s) PROVE NeverAwaitsAfterSubmit'
    <2> DEFINE line == Head(pipe[s])
    <2>1. PICK b \in BOOLEAN : /\ session' = [session EXCEPT ![s].awaiting = b]
                               /\ b => session[s].awaiting \/ ~session[s].submitted
      <3>1. Awaits(s, line) \in BOOLEAN
        BY <1>0, Zenon DEF Awaits, SessionOK, Records
      <3>2. Awaits(s, line) => session[s].awaiting \/ ~session[s].submitted
        BY Zenon DEF Awaits
      <3> QED
        BY <1>3, <3>1, <3>2, Zenon DEF ReadLine
    <2>2. session'[s].awaiting = b /\ session'[s].submitted = session[s].submitted
      BY <1>0, <2>1 DEF SessionOK, Records
    <2>3. \A t \in Sessions \ {s} : session'[t] = session[t]
      BY <1>0, <2>1 DEF SessionOK
    <2>4. ~(session'[s].awaiting /\ session'[s].submitted)
      BY <2>1, <2>2, Zenon DEF NeverAwaitsAfterSubmit
    <2> QED
      BY <2>3, <2>4, Zenon DEF NeverAwaitsAfterSubmit
  <1>4. ASSUME NEW s \in Sessions, Report(s) \/ ReportTimeout(s) \/ ReportError(s)
        PROVE  NeverAwaitsAfterSubmit'
    <2>1. PICK status, returncode : Settle(s, status, returncode)
      BY <1>4 DEF Report, ReportTimeout, ReportError
    <2> QED
      BY <1>0, <2>1 DEF Settle, SessionOK, Records, NeverAwaitsAfterSubmit
  <1>5. ASSUME NEW s \in Sessions, Register(s) PROVE NeverAwaitsAfterSubmit'
    BY <1>0, <1>5 DEF Register, NewSession, NoSession, SessionOK, NeverAwaitsAfterSubmit
  <1>6. ASSUME NEW s \in Sessions, RecordSubmission(s) \/ SettleCancel(s)
        PROVE  NeverAwaitsAfterSubmit'
    <2>1. CASE RecordSubmission(s)
      BY <1>0, <2>1 DEF RecordSubmission, SessionOK, Records, NeverAwaitsAfterSubmit
    <2>2. CASE SettleCancel(s)
      <3>1. PICK status : session' = [session EXCEPT ![s].status = status, ![s].awaiting = FALSE]
        BY <2>2 DEF SettleCancel
      <3> QED
        BY <1>0, <3>1 DEF SessionOK, Records, NeverAwaitsAfterSubmit
    <2> QED
      BY <1>6, <2>1, <2>2
  <1>7. CASE Restart
    BY <1>7 DEF Restart, NoSession, NeverAwaitsAfterSubmit
  <1>8. ASSUME NEW s \in Sessions,
         \/ Command(s) \/ Submit(s) \/ Cancel(s) \/ \E p \in Providers : StartLogin(s, p)
         \/ Locate(s) \/ Forward(s) \/ WriteInput(s) \/ Terminate(s) \/ Reap(s)
         \/ Spawn(s) \/ SpawnFails(s) \/ StepRaises(s)
         \/ EndOfOutput(s) \/ WaitReturns(s) \/ WaitTimesOut(s)
         \/ OtherLogin \/ Age \/ UNCHANGED vars
        PROVE NeverAwaitsAfterSubmit'
    BY <1>1, <1>8, SessionStays
  <1>9. CASE Sessions = {}
    BY <1>9 DEF NeverAwaitsAfterSubmit
  <1> QED
    BY <1>2, <1>3, <1>4, <1>5, <1>6, <1>7, <1>8, <1>9 DEF Next, Runner, Proceed, RequestStep

LEMMA CancelStep ==
  ASSUME TypeOK, Points, RequestSees, CancelKillsAttached, [Next]_vars
  PROVE  CancelKillsAttached'
  <1>0. HistoryOK
    BY TypeParts
  <1>1. \A s \in Sessions : child[s] \in Dead => child'[s] = child[s]
    BY ChildStays
  <1>2. killed' \subseteq killed \/ \E s \in Sessions : SettleCancel(s)
    <2>1. CASE \E s \in Sessions : Runner(s)
      BY <2>1 DEF Runner, Proceed, Spawn, SpawnFails, StepRaises, Attach, ReadLine, Hint,
           EndOfOutput, WaitReturns, WaitTimesOut, Report, ReportTimeout, ReportError, Settle, Silently, RunnerFrame
    <2>2. CASE \E s \in Sessions : Command(s)
      BY <2>2 DEF Command, PrintLine, Listen, CloseOutput, Exit, CommandFrame
    <2>3. CASE \E s \in Sessions :
                 RequestStep(s) \/ Submit(s) \/ Cancel(s) \/ \E p \in Providers : StartLogin(s, p)
      BY <2>3 DEF RequestStep, Register, Locate, Forward, WriteInput, RecordSubmission, Terminate,
           Reap, Submit, Cancel, StartLogin
    <2>4. CASE OtherLogin \/ Age \/ Restart \/ UNCHANGED vars
      BY <2>4 DEF OtherLogin, Age, Restart, vars
    <2> QED
      BY <2>1, <2>2, <2>3, <2>4 DEF Next
  <1>3. ASSUME NEW s \in Sessions, SettleCancel(s) PROVE CancelKillsAttached'
    <2>1. killed' = IF request.attached THEN killed \cup {s} ELSE killed
      BY <1>3 DEF SettleCancel
    <2>2. request.attached => child[s] \in Dead
      BY <1>3 DEF SettleCancel, Step, RequestSees
    <2> QED
      BY <1>0, <1>1, <2>1, <2>2 DEF HistoryOK, CancelKillsAttached
  <1> QED
    BY <1>0, <1>1, <1>2, <1>3 DEF HistoryOK, CancelKillsAttached

LEMMA Invariance == Spec => []IInv
  <1>1. Init => IInv
    BY InvInit
  <1>2. IInv /\ [Next]_vars => IInv'
    BY TypeStep, PointsStep, RequestSeesStep, StatusStep, AwaitsStep, CancelStep DEF IInv
  <1> QED
    BY <1>1, <1>2, PTL DEF Spec

\* Every variable keeps its type, and the dictionary holds only sessions that
\* were started in this process (llm_oauth.py, _LOGIN_SESSIONS), for any number
\* of sessions, printed lines and restarts.
THEOREM TypeCorrect == Spec => []TypeOK
  BY Invariance, PTL DEF IInv

\* A settled status is what became of the command, however the requests and
\* the thread interleave (_run_login_session, cancel_login_session).
THEOREM StatusHolds == Spec => []StatusTruthful
  BY Invariance, PTL DEF IInv

\* No code is asked for again once one was submitted, although prompts are read
\* late and by another thread (submit_login_code, _run_login_session).
THEOREM NoSecondPrompt == Spec => []NeverAwaitsAfterSubmit
  BY Invariance, PTL DEF IInv

\* Cancelling a session whose command the request has seen leaves the command
\* exited, wherever its thread is (cancel_login_session).
THEOREM CancelEnds == Spec => []CancelKillsAttached
  BY Invariance, PTL DEF IInv

=============================================================================
