----------------------------- MODULE Projection -----------------------------
(***************************************************************************)
(* What a request to the model says, as a function of the session's log    *)
(* (packages/core/src/kernel/project.ts), and where a summary may cut that *)
(* log (packages/runtime/src: summarize.ts, checkpoint.ts,                 *)
(* compaction-policy.ts).  Everything here is an operator on a log.        *)
(*                                                                         *)
(* An event's seq is its position.  A message names the events it shows,   *)
(* by position, in place of their content.  The token floors of the cuts   *)
(* are abstracted: an operator returns the set of the cuts that some floor *)
(* would choose.  A delta of text is a block.                              *)
(***************************************************************************)
EXTENDS Naturals, FiniteSets, SequencesExt

Types == {"user_input", "thinking", "text", "tool_call_end", "tool_result", "stop",
          "model_output_abandoned", "summarized", "microcompacted", "terminal"}

\* id: the provider's name of a call.  tool: "read" can be cleared and
\* "memo" tags its results do-not-compact; of an input what the hook said of
\* it, the user_input_replaced that follows it.  at: of a result its call, of
\* a marker voidFromSeq, of a summary coversToSeq, of a prune beforeSeq.
Event == [type : Types, id : Nat, at : Nat,
          tool : {"", "read", "memo", "kept", "vetoed"}]

Ev(type, at) == [type |-> type, id |-> 0, tool |-> "", at |-> at]
CallEv(id, tool) == [Ev("tool_call_end", 0) EXCEPT !.id = id, !.tool = tool]
ResultEv(log, c) == [log[c] EXCEPT !.type = "tool_result", !.at = c]

At(log, type) == {i \in DOMAIN log : log[i].type = type}
ModelOutput == {"thinking", "text", "tool_call_end"}
Greatest(S) == CHOOSE x \in S : \A y \in S : y <= x
Least(S) == CHOOSE x \in S : \A y \in S : x <= y

\* The greatest coversToSeq, or 0: the one summary that renders.
LastSummaryPoint(log) == Greatest({0} \union {log[i].at : i \in At(log, "summarized")})

VoidedAt(log, i) == \E v \in At(log, "model_output_abandoned") : log[v].at < i /\ i <= v

\* The results of a call, in any run: several only when something is wrong.
Answers(log, c) == {i \in At(log, "tool_result") : log[i].at = c}

-----------------------------------------------------------------------------
(* projectMessages: one pass over the events.                              *)

User(i) == [role |-> "user", shows |-> <<i>>, reasoning |-> {}, cleared |-> FALSE]
Summary == [role |-> "summary", shows |-> <<>>, reasoning |-> {}, cleared |-> FALSE]
Tool(i) == [role |-> "tool", shows |-> <<i>>, reasoning |-> {}, cleared |-> FALSE]
Assistant(bs, rs) == [role |-> "assistant", shows |-> bs, reasoning |-> rs, cleared |-> FALSE]

Fresh == [out |-> <<>>, blocks |-> <<>>, reasoning |-> {}, results |-> <<>>, order |-> <<>>,
          declared |-> {}, pending |-> {}, held |-> <<>>, rendered |-> FALSE]

IdsOf(log, S) == {log[i].id : i \in S}
CallsIn(log, S) == {i \in S : log[i].type = "tool_call_end"}

\* A mutant: a result that landed ahead of the stop counts as missing.
FlushAssistant_AllPending(log, p) ==
  IF p.blocks = <<>> THEN p
  ELSE [p EXCEPT !.out = Append(@, Assistant(p.blocks, p.reasoning)),
                 !.blocks = <<>>, !.reasoning = {},
                 !.pending = IF CallsIn(log, ToSet(p.blocks)) = {} THEN @
                             ELSE IdsOf(log, CallsIn(log, ToSet(p.blocks)))]

\* Reasoning without a block stays for the next assistant.
FlushAssistant(log, p) ==
  LET calls == CallsIn(log, ToSet(p.blocks))
  IN IF p.blocks = <<>> THEN p
     ELSE [p EXCEPT !.out = Append(@, Assistant(p.blocks, p.reasoning)),
                    !.blocks = <<>>, !.reasoning = {},
                    !.pending = IF calls = {} THEN @
                                ELSE IdsOf(log, calls) \ IdsOf(log, ToSet(p.results))]

\* callOrder counts from 0, and a call it does not know any more is 0 too.
CallOrder(p, id) ==
  LET places == {k \in DOMAIN p.order : p.order[k] = id}
  IN IF places = {} THEN 0 ELSE Greatest(places) - 1

InCallOrder(log, p) ==
  SetToSortSeq(DOMAIN p.results,
    LAMBDA a, b : LET ka == CallOrder(p, log[p.results[a]].id)
                      kb == CallOrder(p, log[p.results[b]].id)
                  IN ka < kb \/ (ka = kb /\ a < b))

\* The buffered results, in the order of their calls, and then the inputs
\* held while a call had no result, if none is left without.
FlushResults(log, p, force) ==
  LET order == InCallOrder(log, p)
      q == IF p.results = <<>> THEN p
           ELSE [p EXCEPT !.out = @ \o [k \in DOMAIN order |-> Tool(p.results[order[k]])],
                          !.results = <<>>, !.order = <<>>]
  IN IF force \/ q.pending = {}
     THEN [q EXCEPT !.out = @ \o q.held, !.held = <<>>]
     ELSE q

Flush(log, p) == FlushResults(log, FlushAssistant(log, p), FALSE)

\* A mutant: a result that landed while the message is open closes it.
Opens_MidTurn(log, p) == IF p.results # <<>> THEN FlushResults(log, p, FALSE) ELSE p

\* Model output with nothing open begins the next turn's message.
Opens(log, p) ==
  IF p.blocks = <<>> /\ p.results # <<>> THEN FlushResults(log, p, FALSE) ELSE p

\* The prune: the old results of the tools that can be cleared.
Clear(log, p, e) ==
  [p EXCEPT !.out = [k \in DOMAIN @ |->
     IF /\ @[k].role = "tool"
        /\ @[k].shows[1] <= e.at
        /\ log[@[k].shows[1]].tool = "read"
     THEN [@[k] EXCEPT !.cleared = TRUE]
     ELSE @[k]]]

Render(log, p, i) ==
  LET e == log[i]
      user(q) == IF q.pending # {} THEN [q EXCEPT !.held = Append(@, User(i))]
                 ELSE [q EXCEPT !.out = Append(@, User(i))]
      call(q) == [q EXCEPT !.declared = @ \union {e.id}, !.order = Append(@, e.id),
                           !.blocks = Append(@, i)]
  IN CASE e.type = "user_input" ->
            IF e.tool = "vetoed" THEN Flush(log, p) ELSE user(Flush(log, p))
       [] e.type = "thinking" -> [Opens(log, p) EXCEPT !.reasoning = @ \union {i}]
       [] e.type = "text" -> [Opens(log, p) EXCEPT !.blocks = Append(@, i)]
       [] e.type = "tool_call_end" -> call(Opens(log, p))
       [] e.type = "tool_result" ->
            IF e.id \notin p.declared THEN p
            ELSE [p EXCEPT !.pending = @ \ {e.id}, !.results = Append(@, i)]
       [] e.type = "stop" -> Flush(log, p)
       [] e.type = "microcompacted" -> Clear(log, Flush(log, p), e)
       [] OTHER -> p

Skipped(log, i) ==
  /\ log[i].type # "summarized"
  /\ \/ i <= LastSummaryPoint(log)
     \/ log[i].type \in ModelOutput /\ VoidedAt(log, i)

\* The summary renders at its boundary, ahead of the first event behind it.
AtBoundary(log, p, i) ==
  IF LastSummaryPoint(log) = 0 \/ p.rendered \/ i <= LastSummaryPoint(log) THEN p
  ELSE [Flush(log, p) EXCEPT !.out = Append(@, Summary), !.rendered = TRUE]

Messages(log) ==
  LET pass[i \in 0..Len(log)] ==
        IF i = 0 THEN Fresh
        ELSE IF Skipped(log, i) THEN pass[i - 1]
        ELSE Render(log, AtBoundary(log, pass[i - 1], i), i)
  IN FlushResults(log, FlushAssistant(log, pass[Len(log)]), TRUE).out

-----------------------------------------------------------------------------
(* summaryBoundarySeq: between runs, in front of a round a person opened.  *)

Inputs(log) == {i \in At(log, "user_input") : i > LastSummaryPoint(log)}

\* The input that opened the round of an event, or 0.
Opening(log, i) == Greatest({0} \union {j \in Inputs(log) : j < i})

LatestProtected(log, base) ==
  LET kept == {i \in At(log, "tool_result") :
                 LastSummaryPoint(log) < i /\ i <= base /\ log[i].tool = "memo"}
  IN IF kept = {} \/ Opening(log, Greatest(kept)) = 0 THEN {}
     ELSE {Opening(log, Greatest(kept)) - 1}

LatestStraddle(log, cut) ==
  LET split == {c \in At(log, "tool_call_end") :
                  /\ LastSummaryPoint(log) < c /\ c <= cut
                  /\ \E r \in At(log, "tool_result") : r > cut /\ log[r].id = log[c].id}
      opening == Opening(log, Greatest(split))
  IN IF split = {} THEN {}
     ELSE {IF opening = 0 THEN LastSummaryPoint(log) ELSE opening - 1}

\* The pull back from a cut, to stability; 0 is "nothing to compact".
Pulled(log, base) ==
  LET protected == LatestProtected(log, base)
      pull[b \in 0..base] ==
        LET to == LatestStraddle(log, b) \union protected
            t == Least(to)
        IN IF to = {} THEN b
           ELSE IF t < Least(Inputs(log)) \/ t <= LastSummaryPoint(log) THEN 0
           ELSE IF t >= b THEN b
           ELSE pull[t]
  IN pull[base]

\* The cut that keeps `keepRounds` rounds, and those a token floor would
\* choose that keep more.
Kept(log, i) == Cardinality({j \in Inputs(log) : j >= i})

SummaryBoundary(log, keepRounds) ==
  {Pulled(log, i - 1) : i \in {j \in Inputs(log) : Kept(log, j) = keepRounds /\ j > Least(Inputs(log))}} \ {0}

FlooredBoundaries(log, keepRounds) ==
  {Pulled(log, i - 1) : i \in {j \in Inputs(log) : Kept(log, j) >= keepRounds /\ j > Least(Inputs(log))}} \ {0}

-----------------------------------------------------------------------------
(* checkpointBoundarySeq: inside a run, behind a settled turn.             *)

Live(log) == {i \in DOMAIN log : i > LastSummaryPoint(log) /\ ~VoidedAt(log, i)}
Stops(log) == {s \in Live(log) : log[s].type = "stop"}

\* The events of the turn that ends with stop s.
Turn(log, s) ==
  LET fences == {i \in Live(log) : i < s /\ log[i].type \in {"stop", "user_input"}}
  IN {i \in Live(log) : i <= s /\ \A f \in fences : f < i}

TurnCalls(log, s) == {i \in Turn(log, s) : log[i].type = "tool_call_end"}
TurnAnswers(log, s) == {r \in Live(log) : log[r].type = "tool_result" /\ log[r].at \in TurnCalls(log, s)}
TurnStarts(log, s) == Least({i \in Turn(log, s) : log[i].type \in ModelOutput} \union {s})
TurnCut(log, s) == Greatest({s} \union TurnAnswers(log, s))
TurnSettled(log, s) == \A c \in TurnCalls(log, s) : \E r \in TurnAnswers(log, s) : log[r].at = c
TurnProtected(log, s) == \E r \in TurnAnswers(log, s) : log[r].tool = "memo"

\* A cut leaves a settled turn behind it and stays ahead of the latest turn
\* that is not to be compacted.
CheckpointCuts(log) ==
  LET settled == {s \in Stops(log) : TurnSettled(log, s)}
      kept == {s \in Stops(log) : TurnProtected(log, s)}
  IN {TurnCut(log, s) : s \in {t \in settled :
        /\ \E u \in settled : u > t
        /\ kept # {} => TurnCut(log, t) < TurnStarts(log, Greatest(kept))}}

-----------------------------------------------------------------------------
(* microcompactBoundarySeq: the results a prune would clear.               *)

LastCleared(log) == Greatest({0} \union {log[i].at : i \in At(log, "microcompacted")})
Clearable(log) == {i \in At(log, "tool_result") : i > LastCleared(log) /\ log[i].tool = "read"}

PruneBoundary(log, keepResults) ==
  {i \in Clearable(log) : Cardinality({j \in Clearable(log) : j > i}) = keepResults}
=============================================================================
