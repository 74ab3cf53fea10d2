---------------------------- MODULE ProviderStreams ----------------------------
(***************************************************************************)
(* How the three provider adapters turn frames off the wire into the       *)
(* events of a stream: chat completions (packages/provider-openai/src/     *)
(* index.ts), messages (provider-anthropic/src/index.ts) and responses     *)
(* (provider-openai-responses/src/index.ts).  Each is a fold over the      *)
(* frames; what comes out is what StreamGuards takes in.                   *)
(***************************************************************************)
EXTENDS StreamGuards
LOCAL INSTANCE SequencesExt
LOCAL INSTANCE TLC

\* at: the frame's index of a block.  id: a call's id, "" where the frame has
\* none, or the word of a frame that ends a turn.  args: pieces of a call's
\* arguments, which parse as an object if they are all there or none is.
Frame(kind, at, id, args) == [kind |-> kind, at |-> at, id |-> id, args |-> args]
Parses(args) == args \in {<<>>, <<"open", "close">>}

Delta(id, piece) == [StreamEvent("delta", id) EXCEPT !.input = piece]
Deltas(id, args) == [k \in DOMAIN args |-> Delta(id, args[k])]
CallEnd(id, args) ==
  [StreamEvent("end", id) EXCEPT !.input = IF Parses(args) THEN "whole" ELSE "null"]

Forged == Error("invalid_request", FALSE)
StreamFailure == Error("network", TRUE)
Stream(out, ending) == [out |-> out, ending |-> ending]
Without(f, at) == [k \in DOMAIN f \ {at} |-> f[k]]

-----------------------------------------------------------------------------
(* How the transport breaks a stream that was accepted, and what is made   *)
(* of it.  "overflow" is an error frame that says the context is too long. *)

Breaks == {"connection", "timeout", "terminated", "frame", "overflow"}

ChatError(break) ==
  CASE break = "overflow" -> Error("context_overflow", FALSE)
    [] break = "timeout" -> Error("timeout", TRUE)
    [] OTHER -> StreamFailure

MessagesError(break) ==
  CASE break = "overflow" -> Error("context_overflow", FALSE)
    [] break = "timeout" -> Error("timeout", TRUE)
    [] break = "connection" -> StreamFailure
    [] OTHER -> Error("unknown", FALSE)

\* A timeout is taken for a cancellation and reaches the kernel as it is.
ResponsesError(break) ==
  IF break = "timeout" THEN Error("unknown", FALSE) ELSE StreamFailure

-----------------------------------------------------------------------------
(* Chat completions: a call is known by its index until its id arrives,    *)
(* and ends when the stream does.  A chunk that carries several things is  *)
(* read as several chunks.                                                 *)

ChatStart == [out |-> <<>>, calls |-> <<>>, finish |-> "",
              usage |-> FALSE, forged |-> FALSE]

\* The first id is the call's for good; the pieces that came ahead of it
\* follow its start.
ChatCall(s, f) ==
  LET call == IF f.at \in DOMAIN s.calls THEN s.calls[f.at]
              ELSE [id |-> "", args |-> <<>>]
      id == IF call.id = "" THEN f.id ELSE call.id
      args == call.args \o f.args
      said == CASE id = "" -> <<>>
                [] id # "" /\ call.id = "" ->
                     <<StreamEvent("start", id)>> \o Deltas(id, args)
                [] OTHER -> Deltas(id, f.args)
  IN IF f.id \notin {"", id} THEN [s EXCEPT !.forged = TRUE]
     ELSE [s EXCEPT !.out = @ \o said,
                    !.calls = (f.at :> [id |-> id, args |-> args]) @@ @]

ChatStop(word) ==
  CASE word = "stop" -> "end_turn" [] word = "length" -> "max_tokens"
    [] word = "tool_calls" -> "tool_use"
    [] word \in {"function_call", "content_filter"} -> word
    [] OTHER -> "error"

\* Behind the first finish only a late usage is read.
ChatChunk(s, f) ==
  IF s.forged \/ (f.kind # "usage" /\ s.finish # "") THEN s
  ELSE CASE f.kind = "usage" -> [s EXCEPT !.usage = TRUE]
         [] f.kind = "text" -> [s EXCEPT !.out = Append(@, StreamEvent("text", ""))]
         [] f.kind = "call" -> ChatCall(s, f)
         [] f.kind = "finish" -> [s EXCEPT !.finish = ChatStop(f.id)]

\* A call whose id never came takes one from its index.
Fallback == 0 :> "call_0" @@ 1 :> "call_1"
ChatId(call, at) == IF call.id # "" THEN call.id ELSE Fallback[at]

ChatStream(frames, break, aborted) ==
  LET s == FoldLeft(ChatChunk, ChatStart, frames)
      order == SetToSortSeq(DOMAIN s.calls, LAMBDA i, j : i < j)
      ends == [k \in DOMAIN order |->
                 CallEnd(ChatId(s.calls[order[k]], order[k]), s.calls[order[k]].args)]
      usage == <<StreamEvent("usage", IF s.usage THEN "known" ELSE "unknown")>>
      closed == s.out \o ends \o usage
  IN CASE s.forged -> Stream(s.out, Forged)
       [] ~s.forged /\ break # "none" -> Stream(s.out, ChatError(break))
       [] ~s.forged /\ break = "none" /\ s.finish = "" /\ ~aborted ->
            Stream(s.out \o (IF s.usage THEN usage ELSE <<>>), StreamFailure)
       [] OTHER -> IF aborted THEN Stream(closed, AbortError)
                   ELSE Stream(Append(closed, StreamEvent("stop", s.finish)), Done)

-----------------------------------------------------------------------------
(* Messages: every block has a start and a stop of its own.                *)

MessagesStart == [out |-> <<>>, open |-> <<>>, usage |-> "unknown", told |-> FALSE,
                  reason |-> "error", stopped |-> FALSE]

MessagesStop(word) ==
  CASE word = "model_context_window_exceeded" -> "context_window"
    [] word \in {"end_turn", "max_tokens", "stop_sequence", "tool_use", "pause_turn",
                 "refusal"} -> word
    [] OTHER -> "error"

MessagesFrame(s, f) ==
  CASE f.kind = "message_start" -> [s EXCEPT !.usage = "known"]
    [] f.kind = "text" -> [s EXCEPT !.out = Append(@, StreamEvent("text", ""))]
    [] f.kind = "tool_use" ->
         [s EXCEPT !.out = Append(@, StreamEvent("start", f.id)),
                   !.open = (f.at :> [id |-> f.id, args |-> <<>>]) @@ @]
    [] f.kind = "json" /\ f.at \in DOMAIN s.open ->
         [s EXCEPT !.out = @ \o Deltas(s.open[f.at].id, f.args),
                   !.open[f.at].args = @ \o f.args]
    [] f.kind = "block_stop" /\ f.at \in DOMAIN s.open ->
         [s EXCEPT !.out = Append(@, CallEnd(s.open[f.at].id, s.open[f.at].args)),
                   !.open = Without(@, f.at)]
    [] f.kind = "message_delta" ->
         [s EXCEPT !.out = Append(@, StreamEvent("usage", "known")),
                   !.usage = "known", !.told = TRUE, !.reason = MessagesStop(f.id)]
    [] f.kind = "message_stop" ->
         [s EXCEPT !.out = @ \o (IF s.told THEN <<>>
                                  ELSE <<StreamEvent("usage", s.usage)>>)
                             \o <<StreamEvent("stop", s.reason)>>,
                   !.stopped = TRUE]
    [] OTHER -> s

\* An aborted stream simply ends.
MessagesStream(frames, break, aborted) ==
  LET s == FoldLeft(MessagesFrame, MessagesStart, frames)
  IN Stream(s.out, IF break # "none" THEN MessagesError(break)
                   ELSE IF s.stopped \/ aborted THEN Done ELSE StreamFailure)

-----------------------------------------------------------------------------
(* Responses: a slot for every output index; the first terminal frame is   *)
(* the last one read.                                                      *)

ResponsesStart == [out |-> <<>>, slots |-> <<>>, called |-> FALSE, ending |-> <<>>]

TextSlot == [kind |-> "text", id |-> "", sent |-> <<>>]
IsOpen(s, kind, at) == at \in DOMAIN s.slots /\ s.slots[at].kind = kind
EndsWith(s, ending) == [s EXCEPT !.ending = <<ending>>]

OpenText(s, at) ==
  [s EXCEPT !.out = Append(@, StreamEvent("text_start", "")),
            !.slots = (at :> TextSlot) @@ @]

OpenToolCall(s, f) ==
  [s EXCEPT !.out = Append(@, StreamEvent("start", f.id)),
            !.slots = (f.at :> [kind |-> "tool", id |-> f.id, sent |-> f.args]) @@ @]

\* The frame carries the whole call: it opens one that was not, may not change
\* the id of one that was, and fails the turn if its arguments do not parse.
CloseToolCall(s, f) ==
  LET open == IF IsOpen(s, "tool", f.at) THEN s ELSE OpenToolCall(s, f)
  IN IF open.slots[f.at].id # f.id \/ ~Parses(f.args) THEN EndsWith(open, Forged)
     ELSE [open EXCEPT !.out = Append(@, CallEnd(f.id, f.args)),
                       !.slots = Without(@, f.at), !.called = TRUE]

\* Only the pieces the deltas did not carry; none if they said something else.
FinishArguments(s, f) ==
  LET sent == s.slots[f.at].sent
  IN IF ~IsPrefix(sent, f.args) THEN s
     ELSE [s EXCEPT !.out = @ \o Deltas(s.slots[f.at].id,
                                        SubSeq(f.args, Len(sent) + 1, Len(f.args))),
                    !.slots[f.at].sent = f.args]

ResponsesStop(s, word) ==
  CASE word = "completed" -> IF s.called THEN "tool_use" ELSE "end_turn"
    [] word = "max_output_tokens" -> "max_tokens"
    [] OTHER -> "error"

ResponsesFrame(s, f) ==
  IF s.ending # <<>> THEN s
  ELSE CASE f.kind = "text_added" -> OpenText(s, f.at)
         [] f.kind = "text_delta" ->
              LET open == IF IsOpen(s, "text", f.at) THEN s ELSE OpenText(s, f.at)
              IN [open EXCEPT !.out = Append(@, StreamEvent("text", ""))]
         [] f.kind = "text_done" ->
              [s EXCEPT !.out = Append(@, StreamEvent("text_end", "")),
                        !.slots = Without(@, f.at)]
         [] f.kind = "call_added" -> OpenToolCall(s, f)
         [] f.kind = "args_delta" /\ IsOpen(s, "tool", f.at) ->
              [s EXCEPT !.out = @ \o Deltas(s.slots[f.at].id, f.args),
                        !.slots[f.at].sent = @ \o f.args]
         [] f.kind = "args_done" /\ IsOpen(s, "tool", f.at) -> FinishArguments(s, f)
         [] f.kind = "call_done" -> CloseToolCall(s, f)
         [] f.kind = "terminal" ->
              LET stop == StreamEvent("stop", ResponsesStop(s, f.id))
                  usage == StreamEvent("usage", "known")
              IN EndsWith([s EXCEPT !.out = @ \o <<usage, stop>>], Done)
         [] OTHER -> s

ResponsesStream(frames, break, aborted) ==
  LET s == FoldLeft(ResponsesFrame, ResponsesStart, frames)
  IN Stream(s.out, IF s.ending # <<>> THEN s.ending[1]
                   ELSE IF break # "none" THEN ResponsesError(break)
                   ELSE IF aborted THEN AbortError ELSE StreamFailure)

-----------------------------------------------------------------------------
(* What the adapters promise, over turns of at most n frames with an end.  *)

Open == <<"open">>
Close == <<"close">>
Both == <<"open", "close">>

ChatFrames ==
  {Frame("text", 0, "", <<>>), Frame("usage", 0, "", <<>>)}
  \union {Frame("call", 0, id, args) : id \in {"", "a", "b"}, args \in {Open, Close}}
  \union {Frame("call", 1, id, <<>>) : id \in {"", "c"}}
ChatEnds == {<<>>} \union {<<Frame("finish", 0, word, <<>>), late>> :
                            word \in {"tool_calls", "length"},
                            late \in {Frame("usage", 0, "", <<>>),
                                      Frame("call", 0, "a", Close)}}
MessagesFrames ==
  {Frame("message_start", 0, "", <<>>), Frame("text", 2, "", <<>>),
   Frame("json", 0, "", Open), Frame("json", 0, "", Close), Frame("json", 1, "", Open)}
  \union {Frame("tool_use", 0, "a", <<>>), Frame("tool_use", 1, "b", <<>>)}
  \union {Frame("block_stop", at, "", <<>>) : at \in {0, 1, 2}}
MessagesEnds ==
  LET delta == Frame("message_delta", 0, "tool_use", <<>>)
      stop == Frame("message_stop", 0, "", <<>>)
  IN {<<>>, <<delta>>, <<stop>>, <<delta, stop>>}
ResponsesFrames ==
  {Frame("text_added", 2, "", <<>>), Frame("text_delta", 2, "", <<>>),
   Frame("text_done", 2, "", <<>>), Frame("call_added", 0, "a", <<>>),
   Frame("args_delta", 0, "", Open), Frame("args_delta", 0, "", Close),
   Frame("args_done", 0, "", Both), Frame("call_done", 0, "a", Both),
   Frame("call_done", 0, "b", Both), Frame("call_done", 1, "c", Open)}
ResponsesEnds ==
  {<<>>} \union {<<Frame("terminal", 0, word, <<>>), late>> :
                  word \in {"completed", "max_output_tokens"},
                  late \in {Frame("text_delta", 2, "", <<>>),
                            Frame("call_done", 0, "a", Both)}}

Turns(body, ends, n) == {b \o e : b \in UNION {[1..k -> body] : k \in 0..n}, e \in ends}

\* A provider starts a block once and stops it once, and opens no call again.
Singles == {"tool_use", "block_stop", "call_added", "call_done"}
InWireOrder(frames) ==
  \A j \in DOMAIN frames, k \in DOMAIN frames :
    j < k => /\ frames[j].kind \in Singles /\ frames[k].kind = frames[j].kind
                  => frames[j].at # frames[k].at
             /\ frames[j].kind = "call_done" => frames[k].kind # "call_added"

Of(out, type, id) == {k \in DOMAIN out : out[k].type = type /\ out[k].of = id}
Fallbacks == {"call_0", "call_1"}

\* A call has one identity: one start, ahead of its deltas, and at most one
\* end, behind them.  One whose id never came has an end and nothing else.
OneIdentity(out) ==
  \A k \in {j \in DOMAIN out : out[j].type \in {"start", "delta", "end"}} :
    LET id == out[k].of
        starts == Of(out, "start", id)
        ends == Of(out, "end", id)
    IN IF id \in Fallbacks THEN starts \union Of(out, "delta", id) = {} /\ ends = {k}
       ELSE /\ \E first \in starts : starts = {first} /\ first <= k
            /\ \A last \in ends : ends = {last} /\ k <= last

\* The deltas of a call spell its arguments: what a reader of the stream put
\* together parses if and only if the input did.
Spelled(out, id) ==
  LET deltas == SelectSeq(out, LAMBDA ev : ev.type = "delta" /\ ev.of = id)
  IN [k \in DOMAIN deltas |-> deltas[k].input]
InputIsSpelled(out) ==
  \A k \in {j \in DOMAIN out : out[j].type = "end"} :
    out[k].of \notin Fallbacks =>
      (out[k].input = "whole") = Parses(Spelled(out, out[k].of))

\* A stream that ends well has a usage and then one stop, the last event; one
\* that fails or was aborted has no stop, so that behind the guard it launched
\* no call and the attempt can be voided whole.
StopIsTheEnd(s) ==
  LET stops == {k \in DOMAIN s.out : s.out[k].type = "stop"}
      last == Len(s.out)
  IN IF s.ending = Done
     THEN stops = {last} /\ \E k \in 1..last : s.out[k].type = "usage"
     ELSE stops = {} /\ Ends(GuardedEvents(s.out)) = <<>>

\* A stream that just stops coming, with no word of its end, is the path's
\* failure and retried, unless the provider broke its own protocol before.
EarlyEndRetries(s) ==
  s.ending # Done => s.ending \in {StreamFailure, Forged}

\* The first word of an end is final: nothing that follows changes what the
\* turn said, whether it completed or which calls it makes.
FirstEndIsFinal(Adapter(_, _, _), frames, terminal) ==
  \A k \in DOMAIN frames :
    frames[k].kind = terminal =>
      LET said(s) == <<SelectSeq(s.out, LAMBDA ev : ev.type # "usage"), s.ending>>
          first == SubSeq(frames, 1, k)
      IN said(Adapter(frames, "none", FALSE)) = said(Adapter(first, "none", FALSE))

\* A usage that was reported goes out once, also ahead of a failure.
OneBill(out, frames) ==
  (\E k \in DOMAIN frames : frames[k].kind = "usage") =>
    SelectSeq(out, LAMBDA ev : ev.type = "usage") = <<StreamEvent("usage", "known")>>

\* Chat completions: the three of them, and no call of a stream that just ends
\* is closed, although it stands in the buffer whole.
ChatKeepsContract(n) ==
  \A frames \in Turns(ChatFrames, ChatEnds, n) :
    LET s == ChatStream(frames, "none", FALSE)
        aborted == ChatStream(frames, "none", TRUE)
    IN /\ OneIdentity(s.out) /\ InputIsSpelled(s.out)
       /\ StopIsTheEnd(s) /\ StopIsTheEnd(aborted) /\ EarlyEndRetries(s)
       /\ FirstEndIsFinal(ChatStream, frames, "finish")
       /\ s.ending = StreamFailure => Ends(s.out) = <<>>
       /\ s.ending # Forged => OneBill(s.out, frames)

\* Messages: the same of a stream nothing follows the message_stop of.
MessagesKeepContract(n) ==
  \A frames \in {f \in Turns(MessagesFrames, MessagesEnds, n) : InWireOrder(f)} :
    LET s == MessagesStream(frames, "none", FALSE)
    IN /\ OneIdentity(s.out) /\ InputIsSpelled(s.out)
       /\ StopIsTheEnd(s) /\ EarlyEndRetries(s)

\* Responses: no call without its input gets through.
ResponsesKeepContract(n) ==
  \A frames \in {f \in Turns(ResponsesFrames, ResponsesEnds, n) : InWireOrder(f)} :
    LET s == ResponsesStream(frames, "none", FALSE)
        aborted == ResponsesStream(frames, "none", TRUE)
    IN /\ OneIdentity(s.out)
       /\ StopIsTheEnd(s) /\ StopIsTheEnd(aborted) /\ EarlyEndRetries(s)
       /\ FirstEndIsFinal(ResponsesStream, frames, "terminal")
       /\ \A k \in DOMAIN s.out : s.out[k].type = "end" => s.out[k].input = "whole"

\* Whatever breaks a stream, it has no stop, releases no call behind the guard
\* and is known for the overflow it says it is, except by responses.
BreaksReleaseNothing(n) ==
  \A break \in Breaks :
    /\ \A frames \in Turns(ChatFrames, ChatEnds, n) :
         LET s == ChatStream(frames, break, FALSE)
         IN StopIsTheEnd(s) /\ (break = "overflow" => ~s.ending.retryable)
    /\ \A frames \in Turns(MessagesFrames, {<<>>}, n) :
         LET s == MessagesStream(frames, break, FALSE)
         IN StopIsTheEnd(s) /\ (break = "overflow" => ~s.ending.retryable)
    /\ \A frames \in Turns(ResponsesFrames, {<<>>}, n) :
         StopIsTheEnd(ResponsesStream(frames, break, FALSE))
==============================================================================
