------------------------------ MODULE SessionLog ------------------------------
(***************************************************************************)
(* The durable log of a session: its events (packages/core/src/protocol/   *)
(* events.ts) and what the kernel and the recovery read off them.  An      *)
(* event's seq is its position.  A record carries the run it rides on.     *)
(***************************************************************************)
EXTENDS Naturals, Sequences, FiniteSets

CONSTANTS
  MaxCalls,           \* bound on the tool calls of the session
  Kinds               \* the kinds of tools called: "safe" are precommit-safe

ASSUME SessionLogAssumption == MaxCalls \in Nat /\ Kinds \subseteq {"plain", "safe"}

VARIABLE log          \* the session's events, in append order

Calls == 1..MaxCalls
Types == {"user_input", "text", "tool_call_end", "stop", "permission_requested",
          "permission_decided", "tool_execution_started",
          "tool_execution_receipt", "tool_execution_resolved", "tool_result",
          "permission_expired", "model_output_abandoned", "terminal"}
\* What an event says beyond its kind: of a call, whether its tool is
\* precommit-safe; of a decision, whose it is; of a result, where it is from.
Tags == {"plain", "safe", "policyAllow", "policyDeny", "humanAllow", "humanDeny",
         "ran", "denied", "resolved", "aborted"}
Event == [type : Types, call : 0..MaxCalls, tag : Tags, run : Nat, from : Nat]

Ev(r, type, call, tag) ==
  [type |-> type, call |-> call, tag |-> tag, run |-> r, from |-> 0]
Events(t, c) == {i \in DOMAIN log : log[i].type = t /\ log[i].call = c}
Has(t, c) == Events(t, c) # {}
HasTag(t, c, tag) == \E i \in Events(t, c) : log[i].tag = tag
Declared == {c \in Calls : Has("tool_call_end", c)}
Position(c) == CHOOSE i \in Events("tool_call_end", c) : TRUE
Safe(c) == HasTag("tool_call_end", c, "safe")
\* A marker voids the output of its attempt; a stop commits what is not void.
Voided(c) ==
  \E i \in DOMAIN log : /\ log[i].type = "model_output_abandoned"
                        /\ log[i].from < Position(c) /\ Position(c) < i
Committed(c) ==
  /\ ~Voided(c)
  /\ \E i \in DOMAIN log : log[i].type = "stop" /\ Position(c) < i

Denied(c) == \E tag \in {"policyDeny", "humanDeny"} :
               HasTag("permission_decided", c, tag)
==============================================================================
