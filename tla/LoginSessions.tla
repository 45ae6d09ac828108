---------------------------- MODULE LoginSessions ----------------------------
(***************************************************************************)
(* The login sessions of the pipeline monitor,                             *)
(* services/pipeline-monitor/src/llm_oauth.py.                             *)
(*                                                                         *)
(* A session is a login command of an LLM CLI with a thread of its own,    *)
(* which reads the command's output and reports its exit.  The endpoints   *)
(* are coroutines that call the blocking functions directly, so that one   *)
(* request is in progress at a time; the threads and the commands run on   *)
(* meanwhile.  Each section under _LOGIN_LOCK is one action, and so is     *)
(* each look at, or signal to, the command outside of it.                  *)
(***************************************************************************)
EXTENDS Naturals, Sequences, FiniteSets

CONSTANTS
  Sessions,          \* session ids that are followed
  MaxLines,          \* bound: lines a command prints
  MaxRestarts        \* bound: restarts of the monitor

Providers == {"codex", "claude"}

ASSUME LoginAssumption ==
  /\ IsFiniteSet(Sessions)
  /\ MaxLines \in Nat /\ MaxRestarts \in Nat

VARIABLES
  known,             \* keys of _LOGIN_SESSIONS
  aged,              \* sessions that were started more than 1800 s ago
  session,           \* the LoginSession of each id
  provider,          \* the CLI of each
  runner,            \* where _run_login_session is
  child,             \* the command: not started, running, running with its
                     \* output closed, or exited
  listening,         \* the command listens for the callback
  pipe, printed,     \* output not read yet, lines printed
  called,            \* the command got the callback
  authenticated,     \* the CLIs have credentials
  request,           \* the request in progress
  restarts,
  killed             \* history: cancelled with its command attached

command == <<provider, child, listening, pipe, printed, called, authenticated>>
vars == <<known, aged, session, runner, command, request, restarts, killed>>

-----------------------------------------------------------------------------

\* The lines that matter: _OAUTH_CODE_PROMPTS.  claude prints the URL to
\* authorize at, which is a prompt too.
Prompts == {"prompt", "authorize url"}

LinesOf(s) == IF provider[s] = "claude" THEN Prompts ELSE {"prompt"}

Alive == {"running", "silent"}
Dead == {"exit 0", "exit 1"}

NoSession == [status |-> "none", attached |-> FALSE, awaiting |-> FALSE,
              submitted |-> FALSE, returncode |-> "none", hinted |-> FALSE]

\* Defaults of LoginSession.
NewSession == [NoSession EXCEPT !.status = "running"]

Idle == [step |-> "none"]

Init ==
  /\ known = {} /\ aged = {}
  /\ session = [s \in Sessions |-> NoSession]
  /\ provider = [s \in Sessions |-> "none"]
  /\ runner = [s \in Sessions |-> "none"]
  /\ child = [s \in Sessions |-> "none"]
  /\ listening = [s \in Sessions |-> FALSE]
  /\ pipe = [s \in Sessions |-> << >>]
  /\ printed = [s \in Sessions |-> 0]
  /\ called = [s \in Sessions |-> FALSE]
  /\ authenticated = [p \in Providers |-> FALSE]
  /\ request = Idle /\ restarts = 0 /\ killed = {}

-----------------------------------------------------------------------------
(* The thread of a session: _run_login_session *)

Goto(s, from, to) ==
  /\ runner[s] = from
  /\ runner' = [runner EXCEPT ![s] = to]

\* What a step of the thread leaves alone, with and without the session.
RunnerFrame == UNCHANGED <<known, aged, request, restarts, killed>>
Silently == RunnerFrame /\ UNCHANGED <<session, command>>

Spawn(s) ==
  /\ Goto(s, "start", "attach")
  /\ child' = [child EXCEPT ![s] = "running"]
  /\ RunnerFrame
  /\ UNCHANGED <<session, provider, listening, pipe, printed, called, authenticated>>

SpawnFails(s) == Goto(s, "start", "error") /\ Silently

\* Anything after the start that raises ends in the same except clause: the
\* search for the listener, which may not read /proc, is inside the loop.  The
\* command goes on without a reader.
StepRaises(s) == \E from \in {"read", "hint", "wait"} : Goto(s, from, "error") /\ Silently

\* The command can be seen by the endpoints.
Attach(s) ==
  /\ Goto(s, "attach", "read")
  /\ session' = [session EXCEPT ![s].attached = TRUE]
  /\ RunnerFrame /\ UNCHANGED command

\* Mutant: a prompt is taken for a new one after the code was submitted.
AwaitsAgain(s, line) == session[s].awaiting \/ line \in Prompts

\* awaiting_code after a line was read.
Awaits(s, line) ==
  session[s].awaiting \/ (~session[s].submitted /\ line \in Prompts)

ReadLine(s) ==
  /\ pipe[s] # << >>
  /\ LET line == Head(pipe[s])
     IN  /\ Goto(s, "read",
              IF line = "authorize url" THEN "hint" ELSE "read")
         /\ session' = [session EXCEPT ![s].awaiting = Awaits(s, line)]
  /\ pipe' = [pipe EXCEPT ![s] = Tail(@)]
  /\ RunnerFrame /\ UNCHANGED <<provider, child, listening, printed, called, authenticated>>

\* _augment_claude_session_with_local_url: the address to paste back from can
\* be shown once the command listens.
Hint(s) ==
  /\ Goto(s, "hint", "read")
  /\ session' = [session EXCEPT ![s].hinted = @ \/ listening[s]]
  /\ RunnerFrame /\ UNCHANGED command

EndOfOutput(s) ==
  /\ pipe[s] = << >> /\ child[s] # "running"
  /\ Goto(s, "read", "wait")
  /\ Silently

WaitReturns(s) ==
  /\ child[s] \in Dead
  /\ Goto(s, "wait", "report")
  /\ Silently

WaitTimesOut(s) ==
  /\ child[s] = "silent"
  /\ Goto(s, "wait", "timeout")
  /\ Silently

\* The session settles, whatever a request has made of it.
Settle(s, status, returncode) ==
  /\ session' = [session EXCEPT ![s].status = status, ![s].returncode = returncode,
                                ![s].awaiting = FALSE]
  /\ RunnerFrame /\ UNCHANGED command

\* Mutant: the end of the output is taken for success.
ReportSuccess(s) == Goto(s, "report", "done") /\ Settle(s, "completed", child[s])

\* Mutant: the exit code is stored as the status.
ReportRaw(s) == Goto(s, "report", "done") /\ Settle(s, child[s], child[s])

Report(s) ==
  /\ Goto(s, "report", "done")
  /\ Settle(s, IF child[s] = "exit 0" THEN "completed" ELSE "failed", child[s])

\* The command that timed out goes on.
ReportTimeout(s) ==
  Goto(s, "timeout", "done") /\ Settle(s, "timeout", session[s].returncode)

\* Mutant: an error is only added to the output.
ReportErrorOnly(s) == Goto(s, "error", "raised") /\ Silently

ReportError(s) ==
  Goto(s, "error", "raised") /\ Settle(s, "failed", session[s].returncode)

Proceed(s) ==
  \/ Spawn(s) \/ SpawnFails(s) \/ Attach(s) \/ ReadLine(s) \/ Hint(s) \/ EndOfOutput(s)
  \/ WaitReturns(s) \/ WaitTimesOut(s) \/ Report(s) \/ ReportTimeout(s) \/ ReportError(s)

Runner(s) == Proceed(s) \/ StepRaises(s)

-----------------------------------------------------------------------------
(* The command; nothing reads its output once the thread is lost *)

CommandFrame == UNCHANGED <<known, aged, session, runner, request, restarts, killed>>

PrintLine(s, line) ==
  /\ child[s] = "running" /\ runner[s] # "lost" /\ printed[s] < MaxLines
  /\ pipe' = [pipe EXCEPT ![s] = Append(@, line)]
  /\ printed' = [printed EXCEPT ![s] = @ + 1]
  /\ CommandFrame /\ UNCHANGED <<provider, child, listening, called, authenticated>>

Listen(s) ==
  /\ provider[s] = "claude" /\ child[s] = "running" /\ ~listening[s] /\ ~called[s]
  /\ listening' = [listening EXCEPT ![s] = TRUE]
  /\ CommandFrame /\ UNCHANGED <<provider, child, pipe, printed, called, authenticated>>

CloseOutput(s) ==
  /\ child[s] = "running"
  /\ child' = [child EXCEPT ![s] = "silent"]
  /\ CommandFrame /\ UNCHANGED <<provider, listening, pipe, printed, called, authenticated>>

Exit(s, code) ==
  /\ child[s] \in Alive
  /\ child' = [child EXCEPT ![s] = code]
  /\ listening' = [listening EXCEPT ![s] = FALSE]
  /\ authenticated' = [authenticated EXCEPT ![provider[s]] = @ \/ code = "exit 0"]
  /\ CommandFrame /\ UNCHANGED <<provider, pipe, printed, called>>

Command(s) ==
  \/ \E line \in LinesOf(s) : PrintLine(s, line)
  \/ Listen(s) \/ CloseOutput(s)
  \/ \E code \in Dead : Exit(s, code)

\* 1800 s pass for the sessions there are.
Age ==
  /\ aged # known
  /\ aged' = known
  /\ UNCHANGED <<known, session, runner, command, request, restarts, killed>>

-----------------------------------------------------------------------------
(* The endpoints, one request at a time *)

\* The request in progress goes from one of its steps to another.
Step(s, from, to) ==
  /\ request # Idle /\ request.step = from /\ request.s = s
  /\ request' = IF to = "end" THEN Idle ELSE [request EXCEPT !.step = to]

Begin(s, step) ==
  /\ request = Idle
  /\ request' = [step |-> step, s |-> s, attached |-> session[s].attached]

RequestFrame == UNCHANGED <<aged, runner, restarts>>

\* start_login: the status of the CLI is asked before the session exists.
StartLogin(s, p) ==
  /\ runner[s] = "none" /\ ~authenticated[p]
  /\ Begin(s, "register")
  /\ provider' = [provider EXCEPT ![s] = p]
  /\ RequestFrame
  /\ UNCHANGED <<known, session, child, listening, pipe, printed, called, authenticated, killed>>

\* A login session that is not followed is started.
OtherLogin ==
  /\ request = Idle
  /\ known' = known \ aged
  /\ UNCHANGED <<aged, session, runner, command, request, restarts, killed>>

\* _cleanup_sessions_locked forgets old sessions, the running ones too.
Register(s) ==
  /\ Step(s, "register", "end")
  /\ known' = (known \ aged) \cup {s}
  /\ session' = [session EXCEPT ![s] = NewSession]
  /\ runner' = [runner EXCEPT ![s] = "start"]
  /\ UNCHANGED <<aged, command, restarts, killed>>

\* submit_login_code, with a text that parses; all else is refused at once.
Submit(s) ==
  /\ s \in known /\ session[s].status = "running"
  /\ Begin(s, IF provider[s] = "claude" THEN "locate" ELSE "write")
  /\ RequestFrame /\ UNCHANGED <<known, session, command, killed>>

\* _find_claude_listener_port.
Locate(s) ==
  /\ Step(s, "locate", IF request.attached /\ listening[s] THEN "forward" ELSE "end")
  /\ RequestFrame /\ UNCHANGED <<known, session, command, killed>>

\* _forward_to_local_callback: a listener that has gone makes it undelivered,
\* and the request goes on.
Forward(s) ==
  /\ Step(s, "forward", "record")
  /\ called' = [called EXCEPT ![s] = @ \/ listening[s]]
  /\ RequestFrame
  /\ UNCHANGED <<known, session, provider, child, listening, pipe, printed, authenticated, killed>>

\* The other CLI reads its input: an exited one breaks the pipe.
WriteInput(s) ==
  /\ Step(s, "write", IF request.attached /\ child[s] \in Alive THEN "record" ELSE "end")
  /\ RequestFrame /\ UNCHANGED <<known, session, command, killed>>

RecordSubmission(s) ==
  /\ Step(s, "record", "end")
  /\ session' = [session EXCEPT ![s].submitted = TRUE, ![s].awaiting = FALSE]
  /\ RequestFrame /\ UNCHANGED <<known, command, killed>>

\* cancel_login_session: the command is looked up, signalled, given 3 s and
\* killed; the session settles last.
Cancel(s) ==
  /\ s \in known
  /\ Begin(s, "terminate")
  /\ RequestFrame /\ UNCHANGED <<known, session, command, killed>>

\* The command may be slow to follow the signal.
Terminate(s) ==
  /\ Step(s, "terminate", IF request.attached /\ child[s] \in Alive THEN "reap" ELSE "settle")
  /\ RequestFrame /\ UNCHANGED <<known, session, command, killed>>

\* Mutant: a command that ignores the signal is given up.
ReapGivesUp(s) ==
  /\ Step(s, "reap", "settle")
  /\ RequestFrame /\ UNCHANGED <<known, session, command, killed>>

\* wait for 3 s, then kill.
Reap(s) ==
  /\ Step(s, "reap", "settle")
  /\ child' = [child EXCEPT ![s] = IF @ \in Alive THEN "exit 1" ELSE @]
  /\ listening' = [listening EXCEPT ![s] = FALSE]
  /\ RequestFrame /\ UNCHANGED <<known, session, provider, pipe, printed, called, authenticated, killed>>

SettleCancel(s) ==
  /\ Step(s, "settle", "end")
  /\ session' = [session EXCEPT
       ![s].status = IF @ = "running" THEN "cancelled" ELSE @, ![s].awaiting = FALSE]
  /\ killed' = IF request.attached THEN killed \cup {s} ELSE killed
  /\ RequestFrame /\ UNCHANGED <<known, command>>

RequestStep(s) ==
  \/ Register(s) \/ Locate(s) \/ Forward(s) \/ WriteInput(s) \/ RecordSubmission(s)
  \/ Terminate(s) \/ Reap(s) \/ SettleCancel(s)

\* The monitor is restarted under its supervisor: sessions and threads are
\* gone, the commands are not.  cancel_all_running_sessions at startup finds
\* no session.
Restart ==
  /\ restarts < MaxRestarts
  /\ restarts' = restarts + 1
  /\ known' = {} /\ aged' = {} /\ request' = Idle /\ killed' = {}
  /\ session' = [s \in Sessions |-> NoSession]
  /\ runner' = [s \in Sessions |-> IF runner[s] = "none" THEN "none" ELSE "lost"]
  /\ pipe' = [s \in Sessions |-> << >>]
  /\ UNCHANGED <<provider, child, listening, printed, called, authenticated>>

Next ==
  \/ \E s \in Sessions :
       Runner(s) \/ Command(s) \/ (\E p \in Providers : StartLogin(s, p)) \/ Submit(s) \/ Cancel(s)
         \/ RequestStep(s)
  \/ OtherLogin \/ Age \/ Restart

Spec == Init /\ [][Next]_vars

\* Threads are scheduled and a request that was begun is worked on; what the
\* commands do, what raises and which requests arrive is left open.
FairSpec == Spec /\ \A s \in Sessions : WF_vars(Proceed(s)) /\ WF_vars(RequestStep(s))

-----------------------------------------------------------------------------
(* Properties *)

Statuses == {"none", "running", "completed", "failed", "timeout", "cancelled"}

\* Types; a session the dictionary has was started in this process, and the
\* request in progress names it.
TypeOK ==
  /\ known \subseteq {s \in Sessions : runner[s] \notin {"none", "lost"}}
  /\ aged \subseteq {s \in Sessions : runner[s] \notin {"none", "lost"}}
  /\ session \in [Sessions -> [status : Statuses, attached : BOOLEAN, awaiting : BOOLEAN,
                               submitted : BOOLEAN, returncode : {"none"} \cup Dead,
                               hinted : BOOLEAN]]
  /\ runner \in [Sessions -> {"none", "start", "attach", "read", "hint", "wait",
                              "report", "timeout", "error", "done", "raised", "lost"}]
  /\ provider \in [Sessions -> {"none"} \cup Providers]
  /\ child \in [Sessions -> {"none"} \cup Alive \cup Dead]
  /\ listening \in [Sessions -> BOOLEAN] /\ called \in [Sessions -> BOOLEAN]
  /\ pipe \in [Sessions -> Seq(Prompts)] /\ printed \in [Sessions -> 0..MaxLines]
  /\ authenticated \in [Providers -> BOOLEAN]
  /\ request = Idle \/ request \in
       [step : {"register", "locate", "forward", "write", "record",
                "terminate", "reap", "settle"},
        s : Sessions, attached : BOOLEAN]
  /\ restarts \in 0..MaxRestarts
  /\ killed \subseteq Sessions

\* The dashboard never asks for a code again that was submitted, although the
\* prompts are read by another thread, and later than they were printed
\* (llm_oauth.py, submit_login_code and the loop of _run_login_session).
NeverAwaitsAfterSubmit ==
  \A s \in Sessions : ~(session[s].awaiting /\ session[s].submitted)

\* A settled status is what became of the command and its thread, also when
\* requests come in between: a completed login exited with 0, and a failed one
\* with another code, unless its thread has raised.  That is always called a
\* failure, and says nothing of the command, which may run on, or have
\* succeeded; otherwise only a timeout leaves the outcome open
\* (_run_login_session).
StatusTruthful ==
  \A s \in Sessions :
    /\ session[s].returncode # "none" => session[s].returncode = child[s]
    /\ session[s].status = "completed" => child[s] = "exit 0"
    /\ session[s].status = "failed" => child[s] = "exit 1" \/ runner[s] = "raised"
    /\ runner[s] = "raised" => session[s].status = "failed"
    /\ runner[s] = "done" => session[s].status \in {"completed", "failed", "timeout"}

\* Cancelling a session whose command the request can see ends the command,
\* whatever it does with the signal and wherever its thread is
\* (cancel_login_session).
CancelKillsAttached == \A s \in killed : child[s] \in Dead

\* The exit of a command, or whatever its thread raises, is reported, and no
\* code is asked for afterwards (_run_login_session, whose except clauses cover
\* every way out of the loop).  An exited command has closed its output: no
\* process it started is taken to hold it open.
ExitIsReported ==
  \A s \in Sessions :
    (runner[s] \notin {"none", "lost"} /\ (runner[s] = "error" \/ child[s] \in Dead))
      ~> [](session[s].status # "running" /\ ~session[s].awaiting)

\* Stated in the docstring of cancel_login_session, line 352: "Terminate a
\* running OAuth login subprocess."  A session that is not attached yet is
\* cancelled and its command goes on.
CancelledIsTerminated ==
  \A s \in Sessions : session[s].status = "cancelled" => child[s] \notin Alive

\* Stated in the docstring of cancel_all_running_sessions, line 391: "so a
\* redeploy doesn't carry over orphan `claude auth login` processes".
NoOrphanAfterRestart ==
  \A s \in Sessions : runner[s] = "lost" => child[s] \notin Alive

\* Stated by the message of line 649, "OAuth login timed out after 300
\* seconds.": a session ends.  The thread reads the output without a limit
\* before its wait of 300 s, and a command that waits for a callback that
\* never comes keeps it open.
SessionsEnd ==
  \A s \in Sessions :
    runner[s] = "read" ~> (session[s].status # "running" \/ runner[s] = "lost")

=============================================================================
