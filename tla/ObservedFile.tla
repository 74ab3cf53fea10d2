------------------------------ MODULE ObservedFile ------------------------------
(***************************************************************************)
(* What keeps a model from writing over changes it has not seen            *)
(* (packages/tools-node/src/index.ts: read_file, write_file, edit_file;    *)
(* wr1.ts; apps/cli/src/state.ts: observedRevisionFromLog).  A call that   *)
(* changes a file names no revision: the tool takes the one the session's  *)
(* log last showed the model, and refuses if the file holds another.       *)
(*                                                                         *)
(* One file, one session, and programs outside of it.  A history is a      *)
(* sequence of steps, each taken whole: the tools are synchronous, and     *)
(* what an outside program does between two of their file-system calls is  *)
(* part of the step.  It writes something new each time: one that puts an  *)
(* earlier content back between two calls of a turn is outside of what the *)
(* guard can tell, since a revision is a content.                          *)
(***************************************************************************)
EXTENDS Naturals, Sequences
LOCAL INSTANCE SequencesExt

\* A content is its revision; 0 is no file.
Absent == 0

\* log: what the model sees of its calls on the file.  seen and whole: the
\* contents it was shown or wrote, at all and from the first line to the last.
\* told and replaced: what the last call said, and the content it wrote over.
Start == [disk |-> 1, fresh |-> 2, log |-> <<>>, seen |-> {}, whole |-> {},
          told |-> "ok", replaced |-> <<>>]

Result(tool, kind, rev, full) ==
  [tool |-> tool, kind |-> kind, rev |-> rev, full |-> full]

-----------------------------------------------------------------------------
(* The observed revision: the last one a result shows, and whether the     *)
(* model knows that content whole.                                         *)

Observe(o, r) ==
  CASE r.kind = "ok" /\ r.tool = "read" ->
         [rev |-> r.rev, whole |-> r.full \/ (o.whole /\ r.rev = o.rev)]
    [] r.kind = "ok" /\ r.tool = "edit" -> [o EXCEPT !.rev = r.rev]
    [] r.kind = "ok" /\ r.tool = "write" -> [rev |-> r.rev, whole |-> TRUE]
    [] r.kind = "stale" /\ r.tool = "edit" -> [rev |-> r.rev, whole |-> FALSE]
    [] OTHER -> o

Nothing == [rev |-> Absent, whole |-> FALSE]

Observed(log, tool) ==
  LET o == FoldLeft(Observe, Nothing, log)
  IN IF tool = "write" /\ ~o.whole THEN Absent ELSE o.rev

-----------------------------------------------------------------------------
(* The tools.  when: what meets the call.  "early": it looks before the    *)
(* result of the call ahead of it is stored.  "staged": an outside write   *)
(* between the check and the last check; "window": one behind that.        *)
(* "full": the new content cannot be staged; "moved": the path led outside *)
(* when it had landed.  "nomatch": an edit whose text is not there once.   *)

Says(s, r) == [s EXCEPT !.log = Append(@, r), !.told = r.kind]
Outside(s) == [s EXCEPT !.disk = s.fresh, !.fresh = @ + 1]

Read(s, full) ==
  IF s.disk = Absent THEN Says(s, Result("read", "fatal", Absent, FALSE))
  ELSE [Says(s, Result("read", "ok", s.disk, full)) EXCEPT
          !.seen = @ \union {s.disk},
          !.whole = IF full THEN @ \union {s.disk} ELSE @]

\* The model wrote what is there now: all of it, or knows all of it if it knew
\* all of what it edited.
Lands(s, tool, when, base) ==
  LET new == s.fresh
      knows == tool = "write" \/ base \in s.whole
      kind == IF when = "moved" THEN "fatal" ELSE "ok"
  IN [Says(s, Result(tool, kind, new, FALSE)) EXCEPT
        !.disk = new, !.fresh = @ + 1,
        !.seen = @ \union {new}, !.whole = IF knows THEN @ \union {new} ELSE @,
        !.replaced = <<s.disk>>]

Refused(s, tool) == Says(s, Result(tool, "precondition", Absent, FALSE))
Shown(s, when) == IF when = "early" /\ s.log # <<>> THEN Front(s.log) ELSE s.log

\* Behind the checks: staging, the last check, the replacement.
Replace(s, tool, when) ==
  CASE when = "full" ->
         IF tool = "edit" THEN Says(s, Result(tool, "fatal", Absent, FALSE))
         ELSE Refused(s, tool)
    [] when = "staged" -> Refused(Outside(s), tool)
    [] when = "window" /\ s.disk # Absent -> Lands(Outside(s), tool, when, s.disk)
    [] when = "window" /\ s.disk = Absent -> Refused(Outside(s), tool)
    [] OTHER -> Lands(s, tool, when, s.disk)

\* A file that is not there is linked into place, never over one that came.
Write(s, when) ==
  LET cited == Observed(Shown(s, when), "write")
  IN IF s.disk # Absent /\ cited # s.disk THEN Refused(s, "write")
     ELSE Replace(s, "write", when)

\* A stale edit is told the file as it is.
Edit(s, when) ==
  LET cited == Observed(Shown(s, when), "edit")
  IN IF cited = Absent \/ s.disk = Absent THEN Refused(s, "edit")
     ELSE IF cited # s.disk
     THEN [Says(s, Result("edit", "stale", s.disk, FALSE)) EXCEPT
             !.seen = @ \union {s.disk}]
     ELSE IF when = "nomatch" THEN Refused(s, "edit")
     ELSE Replace(s, "edit", when)

\* A read may start ahead of the change it is listed behind: it sees the old
\* content, and the log the old revision behind the new one.
Overtaken(s, changed) ==
  IF s.disk = Absent THEN Says(changed, Result("read", "fatal", Absent, FALSE))
  ELSE LET own == IF changed.replaced = <<>> THEN {} ELSE {changed.disk}
       IN [Says(changed, Result("read", "ok", s.disk, TRUE)) EXCEPT
             !.seen = @ \union {s.disk}, !.whole = @ \union {s.disk} \union own]

Step(before, step) ==
  LET s == [before EXCEPT !.replaced = <<>>]
  IN
  CASE step[1] = "outside" -> Outside(s)
    [] step[1] = "removed" -> [s EXCEPT !.disk = Absent]
    [] step[1] = "compacted" -> [s EXCEPT !.log = IF @ = <<>> THEN @ ELSE Tail(@)]
    [] step[1] = "read" -> Read(s, step[2] = "whole")
    [] step[1] = "edit" /\ step[2] = "overtaken" -> Overtaken(s, Edit(s, "alone"))
    [] step[1] = "write" /\ step[2] = "overtaken" -> Overtaken(s, Write(s, "alone"))
    [] step[1] = "edit" /\ step[2] # "overtaken" -> Edit(s, step[2])
    [] step[1] = "write" /\ step[2] # "overtaken" -> Write(s, step[2])

-----------------------------------------------------------------------------
(* What the guard promises, over every history of at most n steps.         *)

World == {<<"outside">>, <<"removed">>, <<"compacted">>}
Calls == {<<"read", "whole">>, <<"read", "part">>, <<"edit", "alone">>,
          <<"edit", "early">>, <<"edit", "overtaken">>, <<"write", "alone">>}
Mishaps ==
  {<<tool, when>> :
     tool \in {"edit", "write"},
     when \in {"early", "staged", "window", "full", "moved", "overtaken"}}
  \union {<<"edit", "nomatch">>}

\* The states behind at most n of the steps.
Reached(steps, n) ==
  LET after[k \in 0..n] ==
        IF k = 0 THEN {Start}
        ELSE after[k - 1] \union {Step(s, x) : s \in after[k - 1], x \in steps}
  IN after[n]

\* No change is lost: what a call replaces is a content the model was shown or
\* wrote, and what it replaces whole it knew whole; a creation replaces nothing.
\* Only an outside write between the last check and the rename is written over.
NoLostUpdate(n) ==
  \A s \in Reached(World \union Calls, n), x \in World \union Calls \union Mishaps :
    LET t == Step(s, x)
        over == IF t.replaced = <<>> THEN Absent ELSE t.replaced[1]
    IN over # Absent /\ ~(x[2] = "window" /\ s.disk # Absent) =>
         over \in (IF x[1] = "write" THEN s.whole ELSE s.seen)

\* A precondition failed is a call that did nothing.
RefusalsDidNothing(n) ==
  \A s \in Reached(World \union Calls, n), x \in Calls \union Mishaps :
    Step(s, x).told \in {"precondition", "stale"} => Step(s, x).replaced = <<>>

\* A refusal says enough to go on: an edit refused as stale lands when it is
\* repeated, a write after a whole read, a creation at once.  Behind an own
\* change the next needs no read.
NeverStuck(n) ==
  \A s \in Reached(World \union Calls, n) :
    LET edit == <<"edit", "alone">>
        write == <<"write", "alone">>
        did(history) == FoldLeft(Step, s, history).told
    IN /\ did(<<edit>>) \in {"ok", "stale"} => did(<<edit, edit>>) = "ok"
       /\ did(<<write>>) = "ok" => did(<<write, write>>) = "ok"
       /\ IF s.disk = Absent THEN did(<<write>>) = "ok"
          ELSE /\ did(<<<<"read", "whole">>, write>>) = "ok"
               /\ did(<<<<"read", "part">>, edit>>) = "ok"
==============================================================================
