----------------------------- MODULE StreamGuards -----------------------------
(***************************************************************************)
(* What a run puts between a provider's stream and the kernel loop         *)
(* (packages/runtime/src: idle-guard.ts, truncation-guard.ts,              *)
(* overflow-belt.ts; run.ts 314 composes them).  A stream is a sequence of *)
(* events and the way it ends; the loop reads what GuardedEvents and       *)
(* GuardedEndings leave of it.                                             *)
(***************************************************************************)
EXTENDS Naturals, Sequences
LOCAL INSTANCE SequencesExt

\* of: the call of a delta or an end, the reason of a stop.  An input that is
\* "null" is one the loop refuses without executing the call.
StreamEvent(type, of) == [type |-> type, of |-> of, input |-> "whole"]

-----------------------------------------------------------------------------
(* truncationGuard: a call's end is held until the stop says why.          *)

Released(held, reason) ==
  [k \in DOMAIN held |->
     IF reason = "max_tokens" THEN [held[k] EXCEPT !.input = "null"] ELSE held[k]]

Passes(p, ev) ==
  CASE ev.type = "end" -> [p EXCEPT !.held = Append(@, ev)]
    [] ev.type = "stop" -> [out |-> p.out \o Released(p.held, ev.of) \o <<ev>>,
                            held |-> <<>>]
    [] OTHER -> [p EXCEPT !.out = Append(@, ev)]

\* What is held when the stream ends or throws is dropped.
GuardedEvents(stream) ==
  FoldLeft(Passes, [out |-> <<>>, held |-> <<>>], stream).out

-----------------------------------------------------------------------------
(* idleGuard and overflowBelt: how the stream ends.                        *)

\* "silent": no event comes any more.  An error has a code and may be retried.
Error(code, retryable) == [end |-> "error", code |-> code, retryable |-> retryable]
Done == [end |-> "done"]
Silent == [end |-> "silent"]
AbortError == [end |-> "abort"]
Stalled == Error("network", TRUE)

\* The caller's abort settles the wait at once, and in the same instant the
\* stream's own end may win; a silence without one is a stall.
IdleEndings(ending, aborted) ==
  LET own == IF ending = Silent THEN {} ELSE {ending}
  IN IF aborted THEN own \union {AbortError}
     ELSE IF ending = Silent THEN {Stalled} ELSE own

\* The request could not fit: measured once, when it is sent.
CannotFit(measure) ==
  measure # <<>> /\ measure[1].used + measure[1].reserve >= measure[1].window

Belted(ending, aborted, measure) ==
  IF CannotFit(measure) /\ ending.end = "error" /\ ~aborted
  THEN Error("context_overflow", FALSE) ELSE ending

GuardedEndings(ending, aborted, measure) ==
  {Belted(e, aborted, measure) : e \in IdleEndings(ending, aborted)}

-----------------------------------------------------------------------------
(* What the guards promise, over streams of at most n events ahead of one  *)
(* stop.                                                                   *)

Alphabet == {StreamEvent("delta", 1), StreamEvent("text", 0),
             StreamEvent("end", 1), StreamEvent("end", 2)}
Drafts(n) == UNION {[1..k -> Alphabet] : k \in 0..n}
IsEnd(ev) == ev.type = "end"
Ends(s) == SelectSeq(s, IsEnd)
Rest(s) == SelectSeq(s, LAMBDA ev : ~IsEnd(ev))

\* No call completes ahead of the stop, and none at all without one; all the
\* rest passes live and in order (clauses 1 and 4 of the contract in
\* truncation-guard.ts).
HeldUntilStop(n) == \A s \in Drafts(n) : GuardedEvents(s) = Rest(s)

\* A compatible stop releases the calls as they came, in their order, ahead of
\* itself; a truncated turn releases every one of them without its input, so
\* that none of a batch is executed (clauses 2 and 3).
AllOrNothing(n) ==
  \A s \in Drafts(n), reason \in {"tool_use", "max_tokens"} :
    LET stop == StreamEvent("stop", reason)
        calls == Ends(GuardedEvents(Append(s, stop)))
    IN /\ GuardedEvents(Append(s, stop)) = Rest(s) \o calls \o <<stop>>
       /\ calls = IF reason = "tool_use" THEN Ends(s)
                  ELSE [k \in DOMAIN Ends(s) |-> [Ends(s)[k] EXCEPT !.input = "null"]]

\* A stream always ends for the loop; a silence is retried like a dropped
\* connection while the request could fit, an error of one that could not is
\* never retried, and the caller's own abort is never taken for either.
EndingsAreHonest ==
  \A ending \in {Done, Silent, Error("network", TRUE), Error("auth", FALSE)} :
    \A aborted \in BOOLEAN, used \in 0..3 :
      LET measure == <<[used |-> used, reserve |-> 1, window |-> 3]>>
          fits == used < 2
          ends == GuardedEndings(ending, aborted, measure)
      IN /\ ends # {} /\ Silent \notin ends
         /\ ending = Silent /\ ~aborted /\ fits => ends = {Stalled}
         /\ ~fits /\ ~aborted => \A e \in ends : e.end = "error" => ~e.retryable
         /\ aborted => ends \subseteq {AbortError, ending}
==============================================================================
