----------------------------- MODULE LlmAnswers -----------------------------
(***************************************************************************)
(* What services/pipeline-monitor/src/llm_oauth.py makes of the answers of *)
(* the LLM CLIs: whether a CLI is ready, and the outcome of an LLM smoke.  *)
(*                                                                         *)
(* A JSON object is the set of the fields in which it has a value that the *)
(* program takes; an object that may be missing is a set of at most one.   *)
(* Texts are told apart by the object they end in, if any.                 *)
(***************************************************************************)
EXTENDS Naturals

CONSTANT Payloads    \* the JSON objects that come up

PatchFields == {"patched_snippet", "change_summary"}
VerdictFields == {"exploit", "regression", "slo", "risk", "validation_summary"}

ASSUME PayloadsAssumption == Payloads \subseteq SUBSET (PatchFields \cup VerdictFields)

Providers == {"codex", "claude"}
Halves == {"patch", "validation"}

Optional == {{}} \cup {{p} : p \in Payloads}

-----------------------------------------------------------------------------
(* The status commands *)

\* found: the CLI is installed; says: its output has the words looked for.
Statuses ==
  [found : BOOLEAN, exit : {0, 1}, says : BOOLEAN,
   stdout : {"logged_in", "logged_out", "not_JSON", "no_object"}]

\* The JSON of claude counts where there is one; a JSON value that is no
\* object raises.
Readiness(p, s) ==
  IF ~s.found THEN "unavailable"
  ELSE IF p = "claude" /\ s.stdout = "no_object" THEN "raises"
  ELSE IF p = "claude" /\ s.stdout # "not_JSON"
       THEN (IF s.stdout = "logged_in" THEN "ready" ELSE "logged_out")
  ELSE IF s.exit = 0 /\ s.says THEN "ready" ELSE "logged_out"

-----------------------------------------------------------------------------
(* The answers to a prompt *)

CodexAnswers ==
  [run : {"exits", "times_out", "cannot_start"}, exit : {0, 1},
   written : BOOLEAN, file : Optional, stdout : Optional]

\* _run_codex_patch_smoke, _run_codex_validation_smoke: the file named by -o
\* counts where it was written.
CodexObject(a) == IF a.written THEN a.file ELSE a.stdout

\* shape: what the output parses to; holds: the wrapper's own fields, or the
\* object a text ends in.
ClaudeAnswers ==
  [run : {"exits", "times_out", "cannot_start"}, exit : {0, 1},
   shape : {"object", "text", "no_object"}, is_error : BOOLEAN,
   structured : Optional, result : {"object", "text", "empty"}, inner : Optional,
   holds : Optional]

\* _format_claude_result_error.
IsResultError(a) == a.shape = "object" /\ a.is_error

\* _extract_claude_structured_output.
ClaudeObject(a) ==
  IF a.shape = "no_object" THEN {}
  ELSE IF a.shape = "text" THEN a.holds
  ELSE IF a.structured # {} THEN a.structured
  ELSE IF a.result # "empty" THEN a.inner
  ELSE a.holds

Answers(p) == IF p = "codex" THEN CodexAnswers ELSE ClaudeAnswers

\* _patch_result_payload and _validation_result_payload.
Required(half) == IF half = "patch" THEN PatchFields ELSE VerdictFields

Accepts(half, object) == \E o \in object : Required(half) \subseteq o

\* How run_patch_smoke and run_validation_smoke end: with a result, with an
\* LlmOAuthError, or with another exception.
Outcome(p, half, s, a) ==
  LET ready == Readiness(p, s)
      object == IF p = "codex" THEN CodexObject(a) ELSE ClaudeObject(a)
  IN  IF ready = "raises" THEN "raises"
      ELSE IF ready \in {"unavailable", "logged_out"} THEN "error"
      ELSE IF a.run = "cannot_start" THEN "raises"
      ELSE IF a.run = "times_out" \/ a.exit # 0 THEN "error"
      ELSE IF p = "claude" /\ IsResultError(a) THEN "error"
      ELSE IF Accepts(half, object) THEN "ok" ELSE "error"

\* Reference: the CLI did answer, and somewhere in what it wrote there is all
\* that was asked for.
Answered(p, half, a) ==
  /\ a.run = "exits" /\ a.exit = 0
  /\ \E object \in (IF p = "codex" THEN {a.file, a.stdout} ELSE {a.structured, a.inner, a.holds}) :
       Accepts(half, object)
  /\ p = "claude" /\ a.shape = "object" => ~a.is_error

\* The outcomes there are, each with what the reference says of the answer.
Smokes ==
  [p \in Providers |-> [half \in Halves |->
     {[outcome |-> Outcome(p, half, s, a), answered |-> Answered(p, half, a)] :
        s \in Statuses, a \in Answers(p)}]]

=============================================================================
