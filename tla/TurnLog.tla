------------------------------- MODULE TurnLog -------------------------------
(***************************************************************************)
(* What one call of the kernel's loop() may write: the abstract            *)
(* specification of packages/core/src/kernel/loop.ts, in terms of the log  *)
(* alone.  No launches, queues or gates: an event may be appended when the *)
(* events before it allow it.  KernelRefinement shows that the loop keeps  *)
(* to it; Recovery takes it for the live part of a run.                    *)
(*                                                                         *)
(* `entry' is the log's length when loop() was called: a resume calls it   *)
(* over a log earlier processes wrote, and it only answers for the calls   *)
(* of its own turns.                                                       *)
(***************************************************************************)
EXTENDS SessionLog

VARIABLES
  run,                \* the run loop() drives
  entry,
  turnStart           \* log.lastSeq when the attempt was sent, 0: none yet

Emit(type, call, tag) ==
  /\ log' = Append(log, Ev(run, type, call, tag))
  /\ UNCHANGED <<run, entry, turnStart>>

OwnCalls == {c \in Declared : Position(c) > entry}

\* The attempt is being streamed: neither committed nor voided yet.
Streaming ==
  /\ turnStart # 0
  /\ \A i \in (turnStart + 1)..Len(log) :
       log[i].type \notin {"stop", "model_output_abandoned", "user_input"}
OpenDraft == Streaming /\ Len(log) > turnStart
Ended == \E i \in DOMAIN log : log[i].type = "terminal" /\ log[i].run = run

\* The loop's own executions have their results; its own committed calls too.
Settled ==
  \A c \in OwnCalls : Has("tool_execution_started", c) => Has("tool_result", c)
Answered == \A c \in OwnCalls : Committed(c) => Has("tool_result", c)

\* A receipt and its result leave the launch together.
Unpaired == {c \in OwnCalls : /\ Has("tool_execution_receipt", c)
                              /\ ~Has("tool_result", c)}
Open == ~Ended /\ Unpaired = {}

\* An input is admitted between turns.
Input == Open /\ ~OpenDraft /\ Settled /\ Answered /\ Emit("user_input", 0, "plain")

\* A model request goes out: nothing of an earlier turn is unsettled.
BeginTurn ==
  /\ Open /\ ~OpenDraft /\ Settled /\ Answered
  /\ turnStart' = Len(log)
  /\ UNCHANGED <<log, run, entry>>

Text == Open /\ Streaming /\ Emit("text", 0, "plain")

CallEnd ==
  /\ Open /\ Streaming /\ Cardinality(Declared) < MaxCalls
  /\ \E kind \in Kinds : Emit("tool_call_end", Cardinality(Declared) + 1, kind)

Stop == Open /\ Streaming /\ Emit("stop", 0, "plain")

\* The attempt is given up.  The marker voids it once its executions, none of
\* them commit-required, have settled; a retry streams again from there.
Void ==
  /\ Open /\ OpenDraft /\ Settled
  /\ \A c \in OwnCalls : /\ Position(c) > turnStart
                         /\ Has("tool_execution_started", c) => Safe(c)
                         \/ Position(c) <= turnStart
  /\ log' = Append(log, [Ev(run, "model_output_abandoned", 0, "plain")
                           EXCEPT !.from = turnStart])
  /\ turnStart' \in {turnStart, Len(log')}
  /\ UNCHANGED <<run, entry>>

Undecided(c) ==
  /\ c \in OwnCalls
  /\ ~Voided(c)
  /\ ~Has("permission_decided", c) /\ ~Has("tool_execution_started", c)
  /\ ~Has("tool_result", c)

Decide(c) ==
  /\ Open /\ Undecided(c) /\ ~Has("permission_requested", c)
  /\ \E tag \in {"policyAllow", "policyDeny"} :
       Emit("permission_decided", c, tag)

\* A human is asked, and answers, only about a committed call.
Request(c) ==
  /\ Open /\ Undecided(c) /\ ~Has("permission_requested", c) /\ Committed(c)
  /\ Emit("permission_requested", c, "plain")
HumanDecides(c) ==
  /\ Open /\ Undecided(c) /\ Has("permission_requested", c)
  /\ \E tag \in {"humanAllow", "humanDeny"} :
       Emit("permission_decided", c, tag)

\* An execution starts once, for a call that is not denied, void or waiting
\* for its human; ahead of the stop only if its tool is precommit-safe.
Start(c) ==
  /\ Open /\ c \in OwnCalls /\ ~Voided(c)
  /\ ~Has("tool_execution_started", c) /\ ~Has("tool_result", c)
  /\ ~Denied(c) /\ (Committed(c) \/ Safe(c))
  /\ Has("permission_requested", c) =>
       HasTag("permission_decided", c, "humanAllow")
  /\ Emit("tool_execution_started", c, "plain")

Receipt(c) ==
  /\ Open /\ c \in OwnCalls
  /\ Has("tool_execution_started", c) /\ ~Has("tool_execution_receipt", c)
  /\ Emit("tool_execution_receipt", c, "plain")

\* The model-facing result: after its receipt, or of a call that is refused.
Result(c) ==
  /\ ~Ended /\ c \in OwnCalls /\ ~Has("tool_result", c)
  /\ \/ c \in Unpaired /\ Emit("tool_result", c, "ran")
     \/ /\ Unpaired = {} /\ ~Voided(c) /\ ~Has("tool_execution_started", c)
        /\ Has("permission_requested", c) \/ Has("permission_decided", c) => Denied(c)
        /\ Emit("tool_result", c, "denied")

\* A run ends with nothing open; only an abort leaves committed calls
\* without a result.
Terminal ==
  /\ Open /\ ~OpenDraft /\ Settled
  /\ \E tag \in {"plain", "aborted"} :
       (tag = "plain" => Answered) /\ Emit("terminal", 0, tag)

Init ==
  /\ run = 1 /\ log = <<Ev(run, "user_input", 0, "plain")>>
  /\ entry = 1 /\ turnStart \in {0, 1}

CallStep(c) ==
  Decide(c) \/ Request(c) \/ HumanDecides(c) \/ Start(c) \/ Receipt(c) \/ Result(c)

Next ==
  \/ Input \/ BeginTurn \/ Text \/ CallEnd \/ Stop \/ Void \/ Terminal
  \/ \E c \in Calls : CallStep(c)

vars == <<log, run, entry, turnStart>>
Spec == Init /\ [][Next]_vars
==============================================================================
