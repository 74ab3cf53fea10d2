--------------------------- MODULE KernelRefinement ---------------------------
(***************************************************************************)
(* The kernel loop writes what TurnLog allows.  The mapping reads the log  *)
(* as TurnLog's and completes each event from what the loop remembers of   *)
(* its call.                                                               *)
(***************************************************************************)
EXTENDS KernelLoop

Boundaries == {"user_input", "stop", "model_output_abandoned", "summarized"}

\* Whose decision it is, and which.
DecisionTag(c) ==
  IF verdict[c] = "ask"
  THEN IF answer[c] = "allow" THEN "humanAllow" ELSE "humanDeny"
  ELSE IF verdict[c] = "allow" THEN "policyAllow" ELSE "policyDeny"

\* The output a marker at i voids: back to the boundary before it.
Output(i) ==
  {j \in 1..(i - 1) : /\ log[j].type \in {"delta", "tool_call_end"}
                      /\ \A k \in j..(i - 1) : log[k].type \notin Boundaries}
\* Where the attempt began: before its first output.
VoidFrom(i) == (CHOOSE j \in Output(i) : \A k \in Output(i) : j <= k) - 1

TagOf(i) ==
  CASE log[i].type = "tool_call_end" ->
         IF PrecommitSafe(log[i].call) THEN "safe" ELSE "plain"
    [] log[i].type = "permission_decided" -> DecisionTag(log[i].call)
    [] log[i].type = "tool_result" ->
         IF StartedOf(log[i].call) # {} THEN "ran" ELSE "denied"
    [] log[i].type = "terminal" ->
         IF outcome = "aborted" THEN "aborted" ELSE "plain"
    [] OTHER -> "plain"

MappedEvent(i) ==
  [type |-> IF log[i].type = "delta" THEN "text" ELSE log[i].type,
   call |-> log[i].call,
   tag |-> TagOf(i),
   run |-> 1,
   from |-> IF log[i].type = "model_output_abandoned" THEN VoidFrom(i) ELSE 0]

\* The log as TurnLog reads it.
Mapped == [i \in DOMAIN log |-> MappedEvent(i)]
Abstract ==
  INSTANCE TurnLog WITH log <- Mapped, run <- 1, entry <- 1,
                        Kinds <- {"plain", "safe"}

\* Whatever the schedule of the launches, the loop appends an event only when
\* the log allows it: starts follow authorization and commit, a receipt comes
\* with its result, a turn begins and a run ends with everything settled
\* (loop.ts, and the invariants of docs/adrs/0052 read as one behaviour).  This
\* is Abstract!Spec with the stutter, the common case, tried first.
ImplementsTurnLog ==
  Abstract!Init /\ [][UNCHANGED Abstract!vars \/ Abstract!Next]_(Abstract!vars)
==============================================================================
