------------------------------ MODULE KernelLoop ------------------------------
(***************************************************************************)
(* The agent kernel's turn loop: packages/core/src/kernel/loop.ts.         *)
(*                                                                         *)
(* One generator (the MAIN thread of control) streams a model turn into    *)
(* the log, and every tool call the model completes is LAUNCHED as an      *)
(* asynchronous task of its own.  The main thread and the launches only    *)
(* meet at promises: the decide chain, the ask gates, the turn-commit      *)
(* gate, the FIFO exclusive barrier, the execution window, and the queue   *)
(* through which a launch hands its events to the main thread.  An action  *)
(* is the code between two awaits.                                         *)
(*                                                                         *)
(* The consumer of the generator (the run) persists every event before it  *)
(* asks for the next one, so at most the last event of `log' is not yet    *)
(* durable: `durable' counts the events the consumer came back for.        *)
(***************************************************************************)
EXTENDS Naturals, Sequences, FiniteSets

CONSTANTS
  MaxCalls,       \* bound on the tool calls of the run
  Window,         \* WINDOW_SIZE: concurrent executions
  MaxTurns,       \* config.maxTurns
  MaxRetries,     \* config.maxRetries
  MaxInputs,      \* bound on the inputs the ingress hands over mid-run
  MaxBoundaries,  \* bound on the compaction facts of the run
  Tools,          \* the tool table
  SharedTools,    \* tools declaring effects.concurrency = "shared"
  SafeTools,      \* tools declaring effects.precommitSafe
  EndTurnTools,   \* tools whose result may carry the END_TURN tag
  PolicyChain,    \* is an approval chain configured (else onPreTool decides)?
  Compacts,       \* is config.compact configured?
  Faults          \* what may go wrong: "abort", "store", "hook"

ASSUME ConstantsAssumption ==
  /\ MaxCalls \in Nat /\ Window \in Nat \ {0} /\ MaxTurns \in Nat
  /\ MaxRetries \in Nat /\ MaxInputs \in Nat /\ MaxBoundaries \in Nat
  /\ Tools # {} /\ SharedTools \subseteq Tools /\ SafeTools \subseteq Tools
  /\ EndTurnTools \subseteq Tools
  /\ PolicyChain \in BOOLEAN /\ Compacts \in BOOLEAN
  /\ Faults \subseteq {"abort", "store", "hook"}

VARIABLES
  log,            \* the event log, in append order
  durable,        \* how many of its events the consumer has persisted
  main,           \* the generator's control point
  outcome,        \* the terminal's kind, or where an abandon continues
  turns, attempts,
  turnStart,      \* log.lastSeq before this attempt's model output
  stop,           \* the HELD stop's reason, "none" before one arrived
  streamed,       \* has this attempt yielded any adapter event?
  committed,      \* did this turn commit?
  settled,        \* has the turnSettled promise resolved?
  violated,       \* the void signal
  overflow, overflowRetried,
  launchError, aborted,
  n,              \* calls launched so far; call c is the c-th
  tool, seq,      \* of a launched call: its tool, its tool_call_end's seq
  pc, verdict, answer,
  execQueue, freeSlots, windowWaiters

logVars == <<log, durable>>
frameVars == <<turns, attempts, turnStart, stop, streamed>>
gateVars == <<committed, settled, violated>>
overflowVars == <<overflow, overflowRetried>>
callVars == <<n, tool, seq>>
launchVars == <<pc, verdict, answer, freeSlots, windowWaiters>>
vars == <<log, durable, main, outcome, frameVars, gateVars, overflowVars,
          launchError, aborted, callVars, launchVars, execQueue>>

Calls == 1..MaxCalls
Launched == 1..n

EventTypes == {"user_input", "summarized", "delta", "tool_call_end", "stop",
               "permission_requested", "permission_decided",
               "tool_execution_started", "tool_execution_receipt",
               "tool_result", "model_output_abandoned", "terminal"}
Event == [type : EventTypes, call : 0..MaxCalls, endTurn : BOOLEAN]
Ev(t, c) == [type |-> t, call |-> c, endTurn |-> FALSE]

StopReasons == {"tool_use", "end_turn", "max_tokens", "abort",
                "context_window", "other"}
MainPoints == {"head", "siteA", "compact", "siteC", "request", "again",
               "stream", "recv", "committed", "siteB", "drain", "abandon",
               "end", "ended", "threw", "closed"}
Outcomes == {"none", "completed", "aborted", "max_tokens", "max_turns",
             "error", "retry", "overflow"}
CallPoints == {"idle", "decide", "ahead", "commit", "pause", "barrier",
               "window", "start", "ack", "acked", "handler", "done"}
EndPoints == {"ended", "threw", "closed"}

TypeOK ==
  /\ log \in Seq(Event) /\ durable \in 0..Len(log)
  /\ main \in MainPoints /\ outcome \in Outcomes
  /\ turns \in Nat /\ attempts \in Nat /\ turnStart \in Nat
  /\ stop \in StopReasons \cup {"none"} /\ streamed \in BOOLEAN
  /\ committed \in BOOLEAN /\ settled \in BOOLEAN /\ violated \in BOOLEAN
  /\ overflow \in BOOLEAN /\ overflowRetried \in BOOLEAN
  /\ launchError \in BOOLEAN /\ aborted \in BOOLEAN
  /\ n \in 0..MaxCalls
  /\ tool \in [Calls -> Tools] /\ seq \in [Calls -> Nat]
  /\ pc \in [Calls -> CallPoints]
  /\ verdict \in [Calls -> {"none", "allow", "deny", "ask", "thrown"}]
  /\ answer \in [Calls -> {"none", "allow", "deny"}]
  /\ execQueue \in Seq(Event)
  /\ freeSlots \in 0..Window /\ windowWaiters \in Seq(Calls)

(***************************************************************************)
(* What the code reads.                                                    *)
(***************************************************************************)

\* The generator runs only when the consumer has come back for more.
Resumed == durable = Len(log)

Shared(c) == tool[c] \in SharedTools
PrecommitSafe(c) == tool[c] \in SafeTools
Active == {c \in Launched : pc[c] # "done"}          \* execActive > 0
Pending == {c \in Launched : seq[c] > turnStart}     \* this attempt's calls
\* Mutant: the settle looks at the queue and not at the running launches.
AllSettled_QueueOnly == execQueue = <<>>

AllSettled == Active = {} /\ execQueue = <<>>

Count(t) == Cardinality({i \in DOMAIN log : log[i].type = t})

\* Does a tool_result tagged END_TURN stand after the last stop, user_input
\* or terminal?
EndTurnPending ==
  \E i \in DOMAIN log :
    /\ log[i].endTurn
    /\ \A j \in (i + 1)..Len(log) :
         log[j].type \notin {"stop", "user_input", "terminal"}

UnsafeStartedInDraft ==
  \E i \in DOMAIN log :
    /\ i > turnStart
    /\ log[i].type = "tool_execution_started"
    /\ ~PrecommitSafe(log[i].call)

\* Mutant: only a draft with calls is voided, text is left to the projection.
DraftToVoid_CallsOnly == Pending # {} /\ ~UnsafeStartedInDraft

\* A draft gets its marker whenever the attempt logged anything, and no
\* commit-required execution started in it.
DraftToVoid == Len(log) > turnStart /\ ~UnsafeStartedInDraft

\* The decides run in call order.
DecideTurn(c) == \A d \in 1..(c - 1) : pc[d] # "decide"
ChainRejected(c) == \E d \in 1..(c - 1) : verdict[d] = "thrown"

\* Mutant: one release shared by all asks, so the first one's opens every gate.
AheadOpen_OneRelease(c) ==
  \A d \in 1..(c - 1) :
    /\ verdict[d] = "ask"
    /\ \A e \in 1..(d - 1) : verdict[e] # "ask"
    => pc[d] \notin {"ahead", "commit", "pause"}

\* The gate of the latest ask accepted before c; it opens when that call's
\* human part is over.
AheadOpen(c) ==
  \A d \in 1..(c - 1) :
    /\ verdict[d] = "ask"
    /\ \A e \in (d + 1)..(c - 1) : verdict[e] # "ask"
    => pc[d] \notin {"ahead", "commit", "pause"}

\* Mutant: an exclusive call waits for the fence alone.
Blocks_FenceOnly(d, c) ==
  /\ d < c /\ ~Shared(d)
  /\ \A e \in (d + 1)..(c - 1) : Shared(e)

\* What reserve() makes c wait for: the fence (the last exclusive call before
\* it) and, if c is itself exclusive, every shared call after that fence.
Blocks(d, c) ==
  /\ d < c
  /\ ~Shared(d) \/ ~Shared(c)
  /\ \A e \in (d + 1)..(c - 1) : Shared(e)
BarrierOpen(c) == \A d \in Launched : Blocks(d, c) => pc[d] = "done"

(***************************************************************************)
(* The generator's own steps.                                              *)
(***************************************************************************)

Init ==
  /\ log = <<Ev("user_input", 0)>> /\ durable = 1
  /\ main = "head" /\ outcome = "none"
  /\ turns = 0 /\ attempts = 0 /\ turnStart = 1
  /\ stop = "none" /\ streamed = FALSE
  /\ committed = FALSE /\ settled = FALSE /\ violated = FALSE
  /\ overflow = FALSE /\ overflowRetried = FALSE
  /\ launchError = FALSE /\ aborted = FALSE
  /\ n = 0
  /\ tool = [c \in Calls |-> CHOOSE t \in Tools : TRUE]
  /\ seq = [c \in Calls |-> 0]
  /\ pc = [c \in Calls |-> "idle"]
  /\ verdict = [c \in Calls |-> "none"]
  /\ answer = [c \in Calls |-> "none"]
  /\ execQueue = <<>> /\ freeSlots = Window /\ windowWaiters = <<>>

At(p) == main = p /\ Resumed
Goto(p) == main' = p /\ UNCHANGED outcome
EndRun(kind) == main' = "end" /\ outcome' = kind

\* append -> yield; the consumer's next() is Persist.
Emit(e) == log' = Append(log, e) /\ UNCHANGED durable

TurnHead ==
  /\ At("head")
  /\ IF aborted THEN EndRun("aborted") ELSE Goto("siteA")
  /\ UNCHANGED <<logVars, frameVars, gateVars, overflowVars, launchError,
                 aborted, callVars, launchVars, execQueue>>

\* Safe admission: sites A and C take what has arrived, in request mode.
Admit ==
  /\ At("siteA") \/ At("siteC")
  /\ main = "siteA" => ~overflow /\ turns < MaxTurns
  /\ Count("user_input") <= MaxInputs
  /\ Emit(Ev("user_input", 0))
  /\ UNCHANGED <<main, outcome, frameVars, gateVars, overflowVars,
                 launchError, aborted, callVars, launchVars, execQueue>>

OpenTurn ==
  /\ At("siteA")
  /\ \/ EndTurnPending /\ EndRun("completed") /\ UNCHANGED turns
     \/ ~EndTurnPending /\ turns >= MaxTurns /\ EndRun("max_turns")
        /\ UNCHANGED turns
     \/ ~EndTurnPending /\ turns < MaxTurns /\ Goto("compact")
        /\ turns' = turns + 1
  /\ UNCHANGED <<logVars, attempts, turnStart, stop, streamed, gateVars,
                 overflowVars, launchError, aborted, callVars, launchVars,
                 execQueue>>

\* The compaction point; an overflow it cannot answer ends the run.
Compact ==
  /\ At("compact")
  /\ \/ /\ Compacts /\ Count("summarized") < MaxBoundaries
        /\ Emit(Ev("summarized", 0))
        /\ Goto(IF overflow THEN "request" ELSE "siteC")
        /\ overflow' = FALSE
     \/ /\ IF overflow THEN EndRun("error") ELSE Goto("siteC")
        /\ UNCHANGED <<logVars, overflow>>
  /\ UNCHANGED <<frameVars, gateVars, overflowRetried, launchError, aborted,
                 callVars, launchVars, execQueue>>

\* The abort check, then the per-turn frame: a fresh commit gate, no draft.
\* The void signal is NOT re-armed here.
BeginRequest ==
  /\ At("siteC") \/ At("request")
  /\ IF aborted
     THEN EndRun("aborted") /\ UNCHANGED <<frameVars, gateVars>>
     ELSE /\ Goto("stream")
          /\ turnStart' = Len(log) /\ attempts' = 0
          /\ stop' = "none" /\ streamed' = FALSE
          /\ committed' = FALSE /\ settled' = FALSE
          /\ UNCHANGED <<turns, violated>>
  /\ UNCHANGED <<logVars, overflowVars, launchError, aborted, callVars,
                 launchVars, execQueue>>

\* The retry's loop head, after an abortable backoff.
Restream ==
  /\ At("again")
  /\ IF aborted THEN EndRun("aborted") ELSE Goto("stream")
  /\ UNCHANGED <<logVars, frameVars, gateVars, overflowVars, launchError,
                 aborted, callVars, launchVars, execQueue>>

\* An adapter event arrives; the launches' events are drained before it is
\* looked at, so what it is gets chosen only then.
Receive ==
  /\ At("stream")
  /\ Goto("recv") /\ streamed' = TRUE
  /\ UNCHANGED <<logVars, turns, attempts, turnStart, stop, gateVars,
                 overflowVars, launchError, aborted, callVars, launchVars,
                 execQueue>>

\* drainExec: one queued event is appended and yielded.
Drain ==
  /\ main \in {"recv", "abandon", "drain"} /\ Resumed
  /\ execQueue # <<>>
  /\ Emit(Head(execQueue)) /\ execQueue' = Tail(execQueue)
  /\ UNCHANGED <<main, outcome, frameVars, gateVars, overflowVars,
                 launchError, aborted, callVars, launchVars>>

Looking == At("recv") /\ execQueue = <<>>

\* Text, thinking and argument fragments; a run of them is one event here.
Delta ==
  /\ Looking /\ stop = "none"
  /\ IF Len(log) = turnStart
     THEN Emit(Ev("delta", 0)) ELSE UNCHANGED logVars
  /\ Goto("stream")
  /\ UNCHANGED <<frameVars, gateVars, overflowVars, launchError, aborted,
                 callVars, launchVars, execQueue>>

\* A completed call is appended, then launched: accepted into the FIFO
\* barrier and chained onto the decides, all before it is yielded.
CallEnd ==
  /\ Looking /\ stop = "none" /\ n < MaxCalls
  /\ Emit(Ev("tool_call_end", n + 1))
  /\ n' = n + 1
  /\ \E t \in Tools : tool' = [tool EXCEPT ![n + 1] = t]
  /\ seq' = [seq EXCEPT ![n + 1] = Len(log) + 1]
  /\ pc' = [pc EXCEPT ![n + 1] = "decide"]
  /\ Goto("stream")
  /\ UNCHANGED <<frameVars, gateVars, overflowVars, launchError, aborted,
                 verdict, answer, freeSlots, windowWaiters, execQueue>>

\* The first stop is held: neither appended nor yielded.
HoldStop ==
  /\ Looking /\ stop = "none"
  /\ stop' \in StopReasons
  /\ Goto("stream")
  /\ UNCHANGED <<logVars, turns, attempts, turnStart, streamed, gateVars,
                 overflowVars, launchError, aborted, callVars, launchVars,
                 execQueue>>

\* abandonDraft, up to its drain: the gate resolves uncommitted, the void
\* signal fires.
Abandon(next) ==
  /\ main' = "abandon" /\ outcome' = next
  /\ settled' = TRUE /\ violated' = TRUE
  /\ UNCHANGED <<committed, frameVars>>

\* A kernel-owned event at any time; any event after the stop.
Violation ==
  /\ Looking
  /\ Abandon("error")
  /\ UNCHANGED <<logVars, overflowVars, launchError, aborted, callVars,
                 launchVars, execQueue>>

\* The terminal a stop reason that cannot carry calls gives the turn.
VoidFor(reason) ==
  IF reason = "max_tokens" THEN "max_tokens"
  ELSE IF reason = "abort" THEN "aborted" ELSE "error"

\* The iterator is exhausted: void, abandon for an abort, or TURN COMMIT.
StreamEnd ==
  /\ At("stream")
  /\ \/ /\ stop = "none" /\ Abandon("error") /\ UNCHANGED logVars
     \/ /\ stop # "none" /\ Pending # {} /\ stop # "tool_use"
        /\ Abandon(VoidFor(stop)) /\ UNCHANGED logVars
     \/ /\ stop # "none"                 \* a continuation over the hard cap
        /\ Pending # {} => stop = "tool_use"
        /\ Abandon("error") /\ UNCHANGED logVars
     \/ /\ stop = "tool_use" /\ Pending # {} /\ aborted
        /\ Abandon("aborted") /\ UNCHANGED logVars
     \/ /\ stop # "none"
        /\ Pending # {} => stop = "tool_use" /\ ~aborted
        /\ Emit(Ev("stop", 0)) /\ committed' = TRUE
        /\ Goto("committed")
        /\ UNCHANGED <<frameVars, settled, violated>>
  /\ UNCHANGED <<overflowVars, launchError, aborted, callVars, launchVars,
                 execQueue>>

\* The adapter throws: an in-place retry if nothing streamed, otherwise the
\* abandon and then a retry, the one overflow compaction, or the terminal.
StreamFail ==
  /\ At("stream")
  /\ \E kind \in {"retryable", "context_overflow", "fatal"} :
       LET mayRetry == kind = "retryable" /\ attempts < MaxRetries IN
       \/ /\ ~aborted /\ mayRetry /\ ~streamed
          /\ Goto("again") /\ attempts' = attempts + 1
          /\ UNCHANGED <<turns, turnStart, stop, streamed, gateVars>>
       \/ /\ aborted \/ ~mayRetry \/ streamed
          /\ Abandon(IF aborted THEN "aborted"
                     ELSE IF mayRetry THEN "retry"
                     ELSE IF /\ kind = "context_overflow" /\ Compacts
                             /\ ~overflowRetried THEN "overflow"
                     ELSE "error")
  /\ UNCHANGED <<logVars, overflowVars, launchError, aborted, callVars,
                 launchVars, execQueue>>

\* The abandon's end: every launch is settled and drained; the draft is
\* voided durably unless a commit-required execution started in it.
Abandoned ==
  /\ At("abandon") /\ AllSettled
  /\ IF launchError
     THEN /\ Goto("threw")
          /\ UNCHANGED <<logVars, frameVars, gateVars, overflowVars>>
     ELSE /\ IF DraftToVoid
             THEN Emit(Ev("model_output_abandoned", 0))
             ELSE UNCHANGED logVars
          /\ \/ /\ outcome = "retry" /\ ~UnsafeStartedInDraft
                /\ main' = "again" /\ outcome' = "none"
                /\ attempts' = attempts + 1 /\ turnStart' = Len(log')
                /\ stop' = "none" /\ streamed' = FALSE
                /\ committed' = FALSE /\ settled' = FALSE
                /\ violated' = FALSE
                /\ UNCHANGED <<turns, overflowVars>>
             \/ /\ outcome = "overflow"
                /\ main' = "head" /\ outcome' = "none"
                /\ overflow' = TRUE /\ overflowRetried' = TRUE
                /\ UNCHANGED <<frameVars, gateVars>>
             \/ /\ outcome # "overflow"
                /\ outcome = "retry" => UnsafeStartedInDraft
                /\ EndRun(IF outcome = "retry" THEN "error" ELSE outcome)
                /\ UNCHANGED <<frameVars, gateVars, overflowVars>>
  /\ UNCHANGED <<launchError, aborted, callVars, launchVars, execQueue>>

\* The stop is durable: the commit gate opens.  A turn without calls ends
\* on its own stop reason.
Committed ==
  /\ At("committed")
  /\ settled' = TRUE
  /\ \/ /\ Pending # {} /\ Goto("drain") /\ UNCHANGED overflowVars
     \/ /\ Pending = {} /\ stop = "context_window"
        /\ Compacts /\ ~overflowRetried
        /\ Goto("head") /\ overflow' = TRUE /\ overflowRetried' = TRUE
     \/ /\ Pending = {} /\ stop = "end_turn" /\ UNCHANGED overflowVars
        /\ IF turns < MaxTurns THEN Goto("siteB") ELSE EndRun("completed")
     \/ /\ Pending = {} /\ stop # "end_turn"
        /\ ~(stop = "context_window" /\ Compacts /\ ~overflowRetried)
        /\ EndRun(VoidFor(stop)) /\ UNCHANGED overflowVars
  /\ UNCHANGED <<logVars, frameVars, committed, violated, launchError,
                 aborted, callVars, launchVars, execQueue>>

\* Site B: the run would complete; take what arrived, or seal.
TakeOrSeal ==
  /\ At("siteB")
  /\ \/ /\ Count("user_input") <= MaxInputs
        /\ Emit(Ev("user_input", 0)) /\ Goto("head")
     \/ EndRun("completed") /\ UNCHANGED logVars
  /\ UNCHANGED <<frameVars, gateVars, overflowVars, launchError, aborted,
                 callVars, launchVars, execQueue>>

\* The committed turn's calls have settled: the next turn, or the rethrow.
TurnSettles ==
  /\ At("drain") /\ AllSettled
  /\ Goto(IF launchError THEN "threw" ELSE "head")
  /\ UNCHANGED <<logVars, frameVars, gateVars, overflowVars, launchError,
                 aborted, callVars, launchVars, execQueue>>

Terminal ==
  /\ At("end")
  /\ Emit(Ev("terminal", 0)) /\ Goto("ended")
  /\ UNCHANGED <<frameVars, gateVars, overflowVars, launchError, aborted,
                 callVars, launchVars, execQueue>>

(***************************************************************************)
(* A launch's steps.                                                       *)
(***************************************************************************)

launchUnchanged == <<logVars, main, outcome, frameVars, gateVars,
                     overflowVars, aborted, callVars>>
Step(c, p) == pc' = [pc EXCEPT ![c] = p]
Push(events) == execQueue' = execQueue \o events

\* Mutant: the slot is handed on and given back.
LeaveWindow_Twice(c) ==
  /\ freeSlots' = freeSlots + 1
  /\ IF windowWaiters = <<>>
     THEN pc' = [pc EXCEPT ![c] = "done"] /\ UNCHANGED windowWaiters
     ELSE /\ pc' = [pc EXCEPT ![c] = "done", ![Head(windowWaiters)] = "start"]
          /\ windowWaiters' = Tail(windowWaiters)

\* releaseWindow: the slot goes to the first waiter, or back.
LeaveWindow(c) ==
  IF windowWaiters = <<>>
  THEN /\ pc' = [pc EXCEPT ![c] = "done"]
       /\ freeSlots' = freeSlots + 1 /\ UNCHANGED windowWaiters
  ELSE /\ pc' = [pc EXCEPT ![c] = "done", ![Head(windowWaiters)] = "start"]
       /\ windowWaiters' = Tail(windowWaiters) /\ UNCHANGED freeSlots

\* The verdict v is in: a call of a voided turn bails, a denial is answered
\* at once, an allow or an ask goes on to the ask gate ahead of it.
Judge(c, v, decided) ==
  /\ verdict' = [verdict EXCEPT ![c] = v]
  /\ LET answered == IF v = "deny" /\ ~violated
                     THEN <<Ev("tool_result", c)>> ELSE <<>>
     IN Push(decided \o answered)
  /\ Step(c, IF violated \/ v = "deny" THEN "done" ELSE "ahead")
  /\ UNCHANGED launchError

\* decideCall, in call order.  Abort: before the policy it throws, during it
\* the chain's throw counts as ask (the pre-tool hook's throw does not).
Decide(c) ==
  /\ pc[c] = "decide" /\ DecideTurn(c)
  /\ \/ /\ ~ChainRejected(c)
        /\ \/ Judge(c, "deny", <<>>)             \* unknown tool, bad input
           \/ PolicyChain /\ \E v \in {"allow", "deny"} :
                Judge(c, v, <<Ev("permission_decided", c)>>)
           \/ ~PolicyChain /\ ~aborted /\ \E v \in {"allow", "deny"} :
                Judge(c, v, <<>>)
           \/ (PolicyChain \/ ~aborted) /\ Judge(c, "ask", <<>>)
     \/ /\ \/ ChainRejected(c) \/ aborted
           \/ ~PolicyChain /\ "hook" \in Faults
        /\ verdict' = [verdict EXCEPT ![c] = "thrown"]
        /\ Step(c, "done")
        /\ launchError' = (launchError \/ ~aborted)
        /\ UNCHANGED execQueue
  /\ UNCHANGED <<launchUnchanged, answer, freeSlots, windowWaiters>>

\* Mutant: the certificate is taken for an authorization.
PassAskGate_SafeSkipsAsk(c) ==
  /\ pc[c] = "ahead" /\ AheadOpen(c)
  /\ Step(c, IF violated THEN "done"
             ELSE IF ~PrecommitSafe(c) THEN "commit" ELSE "barrier")
  /\ UNCHANGED <<launchUnchanged, launchError, verdict, answer, freeSlots,
                 windowWaiters, execQueue>>

\* Behind the ask accepted ahead; then the commit gate, unless the tool is
\* precommit-safe and already authorized.
PassAskGate(c) ==
  /\ pc[c] = "ahead" /\ AheadOpen(c)
  /\ Step(c, IF violated THEN "done"
             ELSE IF verdict[c] = "ask" \/ ~PrecommitSafe(c) THEN "commit"
             ELSE "barrier")
  /\ UNCHANGED <<launchUnchanged, launchError, verdict, answer, freeSlots,
                 windowWaiters, execQueue>>

\* await turnSettled; an uncommitted turn's call bails with nothing asked
\* and nothing started.
PassCommitGate(c) ==
  /\ pc[c] = "commit" /\ settled
  /\ IF ~committed THEN Step(c, "done") /\ UNCHANGED execQueue
     ELSE IF verdict[c] = "ask"
     THEN Step(c, "pause") /\ Push(<<Ev("permission_requested", c)>>)
     ELSE Step(c, "barrier") /\ UNCHANGED execQueue
  /\ UNCHANGED <<launchUnchanged, launchError, verdict, answer, freeSlots,
                 windowWaiters>>

\* The human answers a request the consumer has been shown.
Answer(c) ==
  /\ pc[c] = "pause" /\ answer[c] = "none"
  /\ \E i \in 1..durable : log[i] = Ev("permission_requested", c)
  /\ \E v \in {"allow", "deny"} : answer' = [answer EXCEPT ![c] = v]
  /\ UNCHANGED <<launchUnchanged, launchError, pc, verdict, freeSlots,
                 windowWaiters, execQueue>>

\* Mutant: a human's denial leaves the call without a result.
PauseEnds_Unanswered(c) ==
  /\ pc[c] = "pause" /\ answer[c] # "none"
  /\ Step(c, IF answer[c] = "allow" THEN "barrier" ELSE "done")
  /\ Push(<<Ev("permission_decided", c)>>)
  /\ UNCHANGED <<launchUnchanged, launchError, verdict, answer, freeSlots,
                 windowWaiters>>

\* humanPause returns: the verdict is recorded; a denial is answered.
PauseEnds(c) ==
  /\ pc[c] = "pause" /\ answer[c] # "none"
  /\ IF answer[c] = "allow"
     THEN Step(c, "barrier") /\ Push(<<Ev("permission_decided", c)>>)
     ELSE /\ Step(c, "done")
          /\ Push(<<Ev("permission_decided", c), Ev("tool_result", c)>>)
  /\ UNCHANGED <<launchUnchanged, launchError, verdict, answer, freeSlots,
                 windowWaiters>>

\* Mutant: the abort drops a verdict given in the same instant.
PauseAborted_LosesVerdict(c) ==
  /\ pc[c] = "pause" /\ aborted
  /\ Step(c, "done") /\ UNCHANGED execQueue
  /\ UNCHANGED <<launchUnchanged, launchError, verdict, answer, freeSlots,
                 windowWaiters>>

\* Mutant: the pause does not race the abort signal.
PauseAborted_Deaf(c) ==
  /\ pc[c] = "pause" /\ aborted /\ answer[c] # "none"
  /\ Step(c, "done") /\ Push(<<Ev("permission_decided", c)>>)
  /\ UNCHANGED <<launchUnchanged, launchError, verdict, answer, freeSlots,
                 windowWaiters>>

\* The abort wakes the pause; a verdict already given is still recorded.
PauseAborted(c) ==
  /\ pc[c] = "pause" /\ aborted
  /\ Step(c, "done")
  /\ Push(IF answer[c] = "none" THEN <<>>
          ELSE <<Ev("permission_decided", c)>>)
  /\ UNCHANGED <<launchUnchanged, launchError, verdict, answer, freeSlots,
                 windowWaiters>>

\* The FIFO barrier, then a window slot or a place in its queue.
PassBarrier(c) ==
  /\ pc[c] = "barrier" /\ BarrierOpen(c)
  /\ IF violated
     THEN Step(c, "done") /\ UNCHANGED <<freeSlots, windowWaiters>>
     ELSE IF freeSlots > 0
     THEN /\ Step(c, "start") /\ freeSlots' = freeSlots - 1
          /\ UNCHANGED windowWaiters
     ELSE /\ Step(c, "window") /\ UNCHANGED freeSlots
          /\ windowWaiters' = Append(windowWaiters, c)
  /\ UNCHANGED <<launchUnchanged, launchError, verdict, answer, execQueue>>

\* Mutant: the launch goes on without waiting for the ack.
Start_NoAck(c) ==
  /\ pc[c] = "start"
  /\ IF aborted THEN LeaveWindow(c) /\ UNCHANGED execQueue
     ELSE /\ Step(c, "acked") /\ Push(<<Ev("tool_execution_started", c)>>)
          /\ UNCHANGED <<freeSlots, windowWaiters>>
  /\ UNCHANGED <<launchUnchanged, launchError, verdict, answer>>

\* runLedgered: STARTED is queued, and its ack awaited.
Start(c) ==
  /\ pc[c] = "start"
  /\ IF aborted THEN LeaveWindow(c) /\ UNCHANGED execQueue
     ELSE /\ Step(c, "ack") /\ Push(<<Ev("tool_execution_started", c)>>)
          /\ UNCHANGED <<freeSlots, windowWaiters>>
  /\ UNCHANGED <<launchUnchanged, launchError, verdict, answer>>

Receipts(c, endTurn) ==
  <<Ev("tool_execution_receipt", c),
    [Ev("tool_result", c) EXCEPT !.endTurn = endTurn]>>

\* Acked: the handler is invoked, unless the run was aborted meanwhile; the
\* result that says so goes through onPostTool as well, which may throw.
Execute(c) ==
  /\ pc[c] = "acked"
  /\ \/ /\ ~aborted /\ Step(c, "handler")
        /\ UNCHANGED <<launchError, execQueue, freeSlots, windowWaiters>>
     \/ /\ aborted /\ LeaveWindow(c)
        /\ \/ Push(Receipts(c, FALSE)) /\ UNCHANGED launchError
           \/ "hook" \in Faults /\ launchError' = TRUE /\ UNCHANGED execQueue
  /\ UNCHANGED <<launchUnchanged, verdict, answer>>

\* The handler returned; a throwing onPostTool loses the receipt and fails
\* the run.
Finish(c) ==
  /\ pc[c] = "handler"
  /\ LeaveWindow(c)
  /\ \/ /\ \E endTurn \in BOOLEAN :
             /\ endTurn => tool[c] \in EndTurnTools
             /\ Push(Receipts(c, endTurn))
        /\ UNCHANGED launchError
     \/ "hook" \in Faults /\ launchError' = TRUE /\ UNCHANGED execQueue
  /\ UNCHANGED <<launchUnchanged, verdict, answer>>

(***************************************************************************)
(* The environment: the consumer and the user.                             *)
(***************************************************************************)

\* The consumer persisted the yielded event and asks for the next one; for
\* a STARTED event the drain then acks the launch.
Persist ==
  /\ ~Resumed /\ main # "closed"
  /\ durable' = Len(log)
  /\ LET e == log[Len(log)] IN
     pc' = IF e.type = "tool_execution_started"
           THEN [pc EXCEPT ![e.call] = "acked"] ELSE pc
  /\ UNCHANGED <<log, main, outcome, frameVars, gateVars, overflowVars,
                 launchError, aborted, callVars, verdict, answer, execQueue,
                 freeSlots, windowWaiters>>

\* The append to the store was refused: the generator is closed where it
\* stands and never resumes; the launches it left behind live on.
PersistFails ==
  /\ "store" \in Faults /\ ~Resumed /\ main # "closed"
  /\ main' = "closed"
  /\ UNCHANGED <<logVars, outcome, frameVars, gateVars, overflowVars,
                 launchError, aborted, callVars, launchVars, execQueue>>

Abort ==
  /\ "abort" \in Faults /\ ~aborted /\ main \notin EndPoints
  /\ aborted' = TRUE
  /\ UNCHANGED <<logVars, main, outcome, frameVars, gateVars, overflowVars,
                 launchError, callVars, launchVars, execQueue>>

\* The run is over; nothing more is asked of it.
Over ==
  /\ main \in EndPoints
  /\ main = "ended" => Resumed
  /\ UNCHANGED vars

MainStep ==
  \/ TurnHead \/ Admit \/ OpenTurn \/ Compact \/ BeginRequest \/ Restream
  \/ Receive \/ Drain \/ Delta \/ CallEnd \/ HoldStop \/ Violation
  \/ StreamEnd \/ StreamFail \/ Abandoned \/ Committed \/ TakeOrSeal
  \/ TurnSettles \/ Terminal
LaunchStep(c) ==
  \/ Decide(c) \/ PassAskGate(c) \/ PassCommitGate(c) \/ PauseEnds(c)
  \/ PauseAborted(c) \/ PassBarrier(c) \/ Start(c) \/ Execute(c) \/ Finish(c)

Next ==
  \/ MainStep
  \/ \E c \in Calls : LaunchStep(c) \/ Answer(c)
  \/ Persist \/ PersistFails \/ Abort \/ Over

Spec == Init /\ [][Next]_vars

(***************************************************************************)
(* Fairness: promises resolve, so every launch and the generator keep      *)
(* going; the consumer comes back; a stream that keeps delivering events   *)
(* ends at last.  The human and the user owe nothing.                      *)
(***************************************************************************)
Fairness ==
  /\ WF_vars(MainStep) /\ WF_vars(Persist)
  /\ SF_vars(StreamEnd \/ StreamFail)
  /\ \A c \in Calls : WF_vars(LaunchStep(c))

FairSpec == Spec /\ Fairness

(***************************************************************************)
(* Properties: the seven invariants of the durable turn commit             *)
(* (docs/adrs/0052, section 2), the settlement of a turn, and termination. *)
(***************************************************************************)

StartedOf(c) == {i \in DOMAIN log : log[i] = Ev("tool_execution_started", c)}
InWindow(c) == pc[c] \in {"start", "ack", "acked", "handler"}
\* Between turns or attempts, and at the run's end.
Quiescent == main \in {"head", "again", "end", "ended"}

\* Invariant 2, no effect before intent: a handler runs only when its STARTED
\* event is already durable, also after the consumer failed and the generator
\* was closed under its launches.
NoEffectBeforeIntent ==
  \A c \in Launched : pc[c] = "handler" =>
    \E i \in StartedOf(c) : i <= durable

\* Invariants 3 and 4, commit gating and safe speculation: an execution that
\* starts with no stop after its call is a precommit-safe tool's and was
\* allowed without a human; a human is asked only about a committed turn.
CommittedBefore(i) ==
  \E j \in 1..(i - 1) : log[j].type = "stop" /\ seq[log[i].call] < j
SpeculationIsSafe ==
  \A i \in DOMAIN log :
    /\ log[i].type = "tool_execution_started" =>
         \/ CommittedBefore(i)
         \/ PrecommitSafe(log[i].call) /\ verdict[log[i].call] = "allow"
    /\ log[i].type = "permission_requested" => CommittedBefore(i)

\* Invariant 5 as docs/adrs/0052 states it, an exclusive invocation blocks all
\* later siblings from overtaking it: of two calls one of which is exclusive,
\* the later one holds no slot before the earlier one is done.
ExclusiveInOrder ==
  \A c \in Launched : InWindow(c) =>
    \A d \in 1..(c - 1) : (Shared(c) /\ Shared(d)) \/ pc[d] = "done"

\* The barrier as the code keeps it: a call overtakes an exclusive sibling (or,
\* exclusive itself, a shared one) only past an exclusive call between the two
\* that bailed without starting and released its place in the chain.
BarrierHolds ==
  \A c \in Launched : InWindow(c) =>
    \A d \in 1..(c - 1) :
      \/ Shared(c) /\ Shared(d)
      \/ pc[d] = "done"
      \/ \E e \in (d + 1)..(c - 1) :
           ~Shared(e) /\ pc[e] = "done" /\ StartedOf(e) = {}

\* The conservative order of asks: no call executes while the human has still
\* to decide an ask accepted before it.
AsksResolveFirst ==
  \A c \in Launched : InWindow(c) =>
    \A d \in 1..(c - 1) : verdict[d] = "ask" => pc[d] \notin {"ahead", "commit", "pause"}

\* Invariant 6, execution capacity: the free slots and the calls holding one
\* always make up the window (none leaks, none is handed out twice), and no
\* call waits while a slot is free.
WindowAccounting ==
  /\ freeSlots + Cardinality({c \in Launched : InWindow(c)}) = Window
  /\ windowWaiters # <<>> => freeSlots = 0

\* Every draft is settled before the next attempt, the next turn or the
\* terminal: model output is followed by the stop that commits it or by the
\* marker that voids it (invariant 7, invalid turn honesty).
DraftsSettled ==
  Quiescent => \A i \in DOMAIN log :
    log[i].type \in {"delta", "tool_call_end"} =>
      \E j \in (i + 1)..Len(log) :
        log[j].type \in {"stop", "model_output_abandoned"}

\* Nothing executes behind the back of a next turn, a retry or a terminal:
\* every launch is done and every started execution has its result, and a
\* terminal is the log's last event.
ExecutionsSettled ==
  Quiescent =>
    /\ AllSettled
    /\ \A c \in Launched : StartedOf(c) # {} =>
         \E i \in DOMAIN log : log[i].type = "tool_result" /\ log[i].call = c
    /\ \A i \in DOMAIN log : log[i].type = "terminal" => i = Len(log)

\* A human's verdict is recorded exactly once, even when an abort lands in
\* the same instant; nobody is asked twice about one call.
VerdictsRecordedOnce ==
  \A c \in Launched :
    LET decided == {i \in DOMAIN log : log[i] = Ev("permission_decided", c)}
        asked == {i \in DOMAIN log : log[i] = Ev("permission_requested", c)}
    IN /\ Cardinality(decided) <= 1 /\ Cardinality(asked) <= 1
       /\ Quiescent /\ answer[c] # "none" => decided # {}

\* A model request never carries an unanswered call: every call of a
\* committed turn has its result before the next turn streams.
NextRequestAnswersCalls ==
  main = "stream" => \A c \in Launched :
    LET stops == {i \in DOMAIN log : i > seq[c] /\ log[i].type
                                      \in {"stop", "model_output_abandoned"}}
        committedCall == /\ stops # {}
                         /\ log[CHOOSE i \in stops : \A j \in stops : i <= j].type = "stop"
    IN committedCall => \E i \in DOMAIN log : log[i].type = "tool_result" /\ log[i].call = c

\* An abort ends the run, whatever the launches were waiting for: a human who
\* never answers, a barrier, the window or the commit gate.
AbortEndsRun == aborted ~> main \in EndPoints

\* Comment at loop.ts:321-325: once the void signal fired, a call that has not
\* started bails without a started event.
NoStartAfterVoid ==
  [][\A c \in Calls : violated /\ StartedOf(c) = {} => StartedOf(c)' = {}]_vars

\* docs/extensions.md:495-501: once the batch of a result tagged END_TURN has
\* settled, the model is not asked again before the next user input.
EndTurnHonoured ==
  main = "stream" => \A i \in 1..turnStart : log[i].endTurn =>
    \E j \in (i + 1)..Len(log) :
      log[j].type \in {"user_input", "model_output_abandoned"}
==============================================================================
