----------------------------- MODULE TurnChain -----------------------------
(***************************************************************************)
(* How a line a person types becomes a turn (apps/cli/src/chat.ts, with    *)
(* dispatch.ts and the chatLoop of index.ts): the chain that runs one turn *)
(* after another, the steering of a run that is under way, the recovery    *)
(* run an entry starts with, and the switch from one session to the next.  *)
(*                                                                         *)
(* Everything here runs on one thread.  What interleaves are the awaits:   *)
(* a step is what happens between two of them.  A line is its number in    *)
(* the order typed; a turn carries the lines merged into it, and a turn    *)
(* that carries none is the wake of a task notice.  In the ingress of a    *)
(* run a notice is None.                                                   *)
(*                                                                         *)
(* The mirror `steering` is what the editor shows of the lines a run has   *)
(* not admitted yet.  The lines a run gives back are taken from the mirror *)
(* and not from the run, so a line whose mirror was cleared cannot come    *)
(* back: `marks` notes it as "unmirrored".                                 *)
(***************************************************************************)
EXTENDS Naturals, FiniteSets, SequencesExt

CONSTANTS
  MaxLines,       \* bound on the lines a person types
  MaxEntries,     \* bound on the entries of chat(): how often a person switches
  MaxNotices,     \* bound on wakes and on notices
  MaxFaults       \* bound on runs that throw and switches that are refused

ASSUME TurnChainAssumption ==
  /\ MaxLines \in Nat /\ MaxEntries \in Nat \ {0}
  /\ MaxNotices \in Nat /\ MaxFaults \in Nat

VARIABLES
  steerable,      \* is the input a terminal: a pipe has nobody steering
  session,        \* the session that is open
  target,         \* the session a switch asked for
  entries,        \* the entries of chat() so far: each left its listeners behind
  phase,          \* where the entry is: "starting", "recovering", "ready", "opening", "over"
  leaving,        \* a switch was asked for
  queuedLines,    \* lines that wait for the entry to be ready, or for the next one
  switchLines,    \* queuedSwitchLines: lines a leaving entry did not answer
  seed,           \* lines the entry that ended handed to chatLoop
  chain,          \* the segments behind the one that runs: [kind, lines]
  seg,            \* the segment that runs: [at, lines]
  cur,            \* currentRun: "none", "recovery" or "turn"
  slot,           \* the run the session has begun: the same three
  run,            \* the run of the turn: [st, ingress, taken, unadmitted]
  steering,       \* the mirror
  aborted,        \* the run under way was asked to stop
  uncertain,      \* does the session hold an execution nobody decided on
  log,            \* the user_inputs of the sessions: [session, lines]
  gone,           \* how a line left: given back or told, or without a word
  typed, aim,     \* how many lines were typed, and the session each was typed for
  marks,          \* what happened to a line on its way: <<what, line>>
  notices, faults

placeVars == <<queuedLines, switchLines, seed>>
entryVars == <<steerable, session, target, entries, phase, leaving>>
runVars == <<cur, slot, run, steering, aborted, uncertain>>
ghostVars == <<typed, aim, marks>>
budgetVars == <<notices, faults>>
vars == <<placeVars, entryVars, runVars, ghostVars, budgetVars, chain, seg, log, gone>>

Lines == 1..MaxLines
None == 0
NoRun == [st |-> "none", ingress |-> <<>>, taken |-> <<>>, unadmitted |-> <<>>]
Idle == [at |-> "idle", lines |-> <<>>]

\* The elements of s that are in S, in their order.
Keep(s, S) ==
  LET f[n \in 0..Len(s)] ==
        IF n = 0 THEN <<>>
        ELSE IF s[n] \in S THEN Append(f[n - 1], s[n]) ELSE f[n - 1]
  IN f[Len(s)]

Humans(s) == Keep(s, Lines)
Notices(s) == Keep(s, {None})
LastOf(s, n) == SubSeq(s, IF n < Len(s) THEN Len(s) - n + 1 ELSE 1, Len(s))

Kinds == {"turn", "switch", "await", "awaitAgain"}
Segments(kinds) == [kind : kinds, lines : Seq(Lines)]
LinesOf(segs) == FlattenSeq([k \in DOMAIN segs |-> segs[k].lines])
Turns(segs) == Keep(segs, Segments({"turn"}))
Others(segs) == Keep(segs, Segments(Kinds \ {"turn"}))
Marked(what) == {l \in Lines : <<what, l>> \in marks}
Mark(what, ls) == {<<what, l>> : l \in ls \ {None}}

TypeOK ==
  /\ session \in Nat /\ target \in Nat /\ entries \in 1..(MaxEntries + MaxFaults)
  /\ phase \in {"starting", "recovering", "ready", "opening", "over"}
  /\ \A q \in {queuedLines, switchLines, seed, steering} : q \in Seq(Lines)
  /\ chain \in Seq(Segments(Kinds))
  /\ seg \in [at : {"idle", "asked", "turn"}, lines : Seq(Lines)]
  /\ {cur, slot} \subseteq {"none", "recovery", "turn"}
  /\ run \in [st : {"none", "begun", "live", "sealed"}, ingress : Seq(Lines \union {None}),
             taken : Seq(Lines \union {None}), unadmitted : Seq(Lines)]
  /\ {steerable, leaving, aborted, uncertain} \subseteq BOOLEAN
  /\ log \in Seq([session : Nat, lines : Seq(Lines)])
  /\ gone \in [Lines -> {"", "editor", "told", "dropped", "astray"}]
  /\ typed \in 0..MaxLines /\ aim \in [Lines -> Nat]
  /\ marks \subseteq {"unmirrored", "echoed", "sentOn", "behind"} \X Lines
  /\ notices \in 0..MaxNotices /\ faults \in 0..MaxFaults

Init ==
  /\ steerable \in BOOLEAN
  /\ session = 1 /\ target = 1 /\ entries = 1 /\ phase = "starting" /\ leaving = FALSE
  /\ queuedLines = <<>> /\ switchLines = <<>> /\ seed = <<>>
  /\ chain = <<>> /\ seg = Idle
  /\ cur = "none" /\ slot = "none" /\ run = NoRun /\ steering = <<>>
  /\ aborted = FALSE /\ uncertain = FALSE
  /\ log = <<>> /\ gone = [l \in Lines |-> ""]
  /\ typed = 0 /\ aim = [l \in Lines |-> 0] /\ marks = {}
  /\ notices = 0 /\ faults = 0

-----------------------------------------------------------------------------
(* What the handlers share.                                                *)

\* queueTurn: the slot shows above the input until its segment starts.
Queue(c, lines) == Append(c, [kind |-> "turn", lines |-> lines])
QueueEach(c, lines) == c \o [k \in DOMAIN lines |-> [kind |-> "turn", lines |-> <<lines[k]>>]]

\* After endSignal chat() awaits the chain as it stands.
Await(c) == Append(c, [kind |-> "await", lines |-> <<>>])

\* The lines a run gives back, as the mirror has them.
Handed(n) == LastOf(steering, n)

\* The lines the run of the turn still holds.
InHand(r) == ToSet(Humans(r.ingress)) \union ToSet(Humans(r.taken)) \union ToSet(r.unadmitted)

\* The mirror is left as `st` while the run is left as `r`.
Mirror(r, st, more) ==
  /\ run' = r /\ steering' = st
  /\ marks' = marks \union more \union Mark("unmirrored", InHand(r) \ ToSet(st))

Typing(l) ==
  /\ phase # "over" /\ typed < MaxLines /\ l = typed + 1
  /\ typed' = l

\* A line is for the session that is open, or, once that is being left, for
\* the one asked for.  A correction is for the session of the run it stops.
AimedAt(l, s) == aim' = [aim EXCEPT ![l] = s]
Aimed(l) == AimedAt(l, IF leaving THEN target ELSE session)

Leave(ls, how) == gone' = [l \in Lines |-> IF l \in ls THEN how ELSE gone[l]]

-----------------------------------------------------------------------------
(* What a person does.                                                     *)

\* Enter before the entry is ready, or once it is leaving.
EnterEarly ==
  \E l \in Lines :
    /\ Typing(l) /\ Aimed(l)
    /\ phase \in {"starting", "recovering"} \/ (phase = "ready" /\ leaving)
    /\ queuedLines' = Append(queuedLines, l)
    /\ UNCHANGED <<entryVars, switchLines, seed, chain, seg, runVars, log, gone, marks, budgetVars>>

\* Enter between two entries: the listener of the one that ended still
\* queues, and nobody reads its queue again.
EnterBetween ==
  \E l \in Lines :
    /\ Typing(l) /\ Aimed(l)
    /\ phase = "opening"
    /\ Leave({l}, "dropped")
    /\ UNCHANGED <<entryVars, placeVars, chain, seg, runVars, log, marks, budgetVars>>

\* steer: the run of the turn takes the line, unless it has sealed.
Steers == steerable /\ cur = "turn" /\ run.st \in {"begun", "live"}

Submit(l) ==
  IF Steers
  THEN /\ run' = [run EXCEPT !.ingress = Append(@, l)]
       /\ steering' = Append(steering, l)
       /\ UNCHANGED chain
  ELSE /\ chain' = Queue(chain, <<l>>)
       /\ UNCHANGED <<run, steering>>

\* Mutants of Enter: without the check that a switch was asked for, and
\* without the check that the entry is ready.
Enter_WhileLeaving ==
  \E l \in Lines :
    /\ Typing(l) /\ Aimed(l)
    /\ phase = "ready"
    /\ Submit(l)
    /\ UNCHANGED <<entryVars, placeVars, seg, cur, slot, aborted, uncertain, log, gone, marks, budgetVars>>

Enter_NotReady ==
  \E l \in Lines :
    /\ Typing(l) /\ Aimed(l)
    /\ phase \in {"starting", "recovering", "ready"} /\ ~leaving
    /\ Submit(l)
    /\ UNCHANGED <<entryVars, placeVars, seg, cur, slot, aborted, uncertain, log, gone, marks, budgetVars>>

Enter ==
  \E l \in Lines :
    /\ Typing(l) /\ Aimed(l)
    /\ phase = "ready" /\ ~leaving
    /\ Submit(l)
    /\ UNCHANGED <<entryVars, placeVars, seg, cur, slot, aborted, uncertain, log, gone, marks, budgetVars>>

\* The redirect key calls the listener of every entry there was.  One that
\* has left dispatches into queuedSwitchLines.
Departed == IF phase = "opening" THEN entries ELSE entries - 1
Echoes(l) == [k \in 1..Departed |-> l]

RedirectIdle ==
  \E l \in Lines :
    LET answers == phase # "opening" /\ ~leaving
        own == IF phase # "opening" /\ leaving THEN <<l>> ELSE <<>>
    IN /\ steerable /\ cur = "none"
       /\ Typing(l) /\ Aimed(l)
       /\ switchLines' = switchLines \o Echoes(l) \o own
       /\ chain' = IF answers THEN Queue(chain, <<l>>) ELSE chain
       /\ marks' = marks \union Mark("echoed", IF Departed > (IF phase = "opening" THEN 1 ELSE 0) THEN {l} ELSE {})
       /\ UNCHANGED <<entryVars, queuedLines, seed, seg, runVars, log, gone, budgetVars>>

\* The correction, with the steers that had not landed, goes before the
\* turns that wait.
RedirectRun ==
  \E l \in Lines :
    LET back == Handed(Len(Humans(run.ingress)))
    IN /\ steerable /\ cur # "none"
       /\ Typing(l) /\ AimedAt(l, session)
       /\ Mirror([run EXCEPT !.ingress = Notices(@)], <<>>,
                 Mark("echoed", IF Departed > 0 THEN {l} ELSE {}))
       /\ aborted' = TRUE
       /\ chain' = Queue(Others(chain), <<l>> \o back) \o Turns(chain)
       /\ switchLines' = switchLines \o Echoes(l)
       /\ UNCHANGED <<entryVars, queuedLines, seed, seg, cur, slot, uncertain, log, gone, budgetVars>>

\* A stop is not a send: the steers that have not landed go to the editor.
Escape ==
  LET back == Handed(Len(Humans(run.ingress)))
  IN /\ cur # "none"
     /\ Mirror([run EXCEPT !.ingress = Notices(@)], <<>>, {})
     /\ aborted' = TRUE
     /\ Leave(ToSet(back), "editor")
     /\ UNCHANGED <<entryVars, placeVars, chain, seg, cur, slot, uncertain, log, typed, aim, budgetVars>>

\* The up key takes back the last steer, and the others go back in.
UpSteer ==
  LET back == Humans(run.ingress)
      mine == Handed(Len(back))
  IN /\ steerable /\ cur # "none" /\ mine # <<>> /\ back # <<>>
     /\ Mirror([run EXCEPT !.ingress = Notices(@) \o Front(back)], Front(mine), {})
     /\ Leave({Last(mine)}, "editor")
     /\ UNCHANGED <<entryVars, placeVars, chain, seg, cur, slot, aborted, uncertain, log, typed, aim, budgetVars>>

\* With no steer to take back it takes the last turn that waits.
UpTurn ==
  LET turns == {k \in DOMAIN chain : chain[k].kind = "turn"}
      last == CHOOSE k \in turns : \A j \in turns : j <= k
  IN /\ steerable /\ phase # "opening" /\ turns # {}
     /\ ~(cur # "none" /\ steering # <<>> /\ Humans(run.ingress) # <<>>)
     /\ chain' = RemoveAt(chain, last)
     /\ Leave(ToSet(chain[last].lines), "editor")
     /\ Mirror(run, IF cur # "none" THEN <<>> ELSE steering, {})
     /\ UNCHANGED <<entryVars, placeVars, seg, cur, slot, aborted, uncertain, log, typed, aim, budgetVars>>

\* The sessions a switch may ask for: another one, or, by a reload, this.
Goals == IF entries < MaxEntries THEN {session, session + 1} ELSE {}

NoSwitchWaits == \A k \in DOMAIN chain : chain[k].kind # "switch"

\* /clear and /reload switch as they are dispatched.
SwitchNow ==
  \E t \in Goals :
    /\ phase = "ready" /\ ~leaving /\ cur = "none" /\ NoSwitchWaits
    /\ leaving' = TRUE /\ target' = t
    /\ chain' = Await(chain)
    /\ UNCHANGED <<steerable, session, entries, phase, placeVars, seg, runVars, log, gone, ghostVars, budgetVars>>

\* /fork and /resume switch from a segment of their own.
SwitchLater ==
  /\ phase = "ready" /\ ~leaving /\ cur = "none" /\ NoSwitchWaits /\ Goals # {}
  /\ chain' = Append(chain, [kind |-> "switch", lines |-> <<>>])
  /\ UNCHANGED <<entryVars, placeVars, seg, runVars, log, gone, ghostVars, budgetVars>>

-----------------------------------------------------------------------------
(* What the task delivery does.                                            *)

Wake ==
  /\ notices < MaxNotices /\ notices' = notices + 1
  /\ phase \in {"starting", "recovering", "ready"} /\ slot = "none"
  /\ chain' = Queue(chain, <<>>)
  /\ UNCHANGED <<entryVars, placeVars, seg, runVars, log, gone, ghostVars, faults>>

Notify ==
  /\ notices < MaxNotices /\ notices' = notices + 1
  /\ slot = "turn" /\ run.st \in {"begun", "live"}
  /\ run' = [run EXCEPT !.ingress = Append(@, None)]
  /\ UNCHANGED <<entryVars, placeVars, chain, seg, cur, slot, steering, aborted, uncertain,
                 log, gone, ghostVars, faults>>

-----------------------------------------------------------------------------
(* The segments of the chain.                                              *)

NextIs(kind) == seg = Idle /\ chain # <<>> /\ Head(chain).kind = kind

\* turn: the run is constructed and its iterator begun.  beginRun refuses
\* while the session has another run: "[run failed]", and the line is told.
TurnBegins(lines) ==
  /\ cur' = "turn"
  /\ IF slot = "none"
     THEN /\ slot' = "turn" /\ run' = [NoRun EXCEPT !.st = "begun"]
          /\ seg' = [at |-> "turn", lines |-> lines]
          /\ UNCHANGED gone
     ELSE /\ run' = [NoRun EXCEPT !.st = "sealed"]
          /\ seg' = [at |-> "turn", lines |-> <<>>]
          /\ Leave(ToSet(lines), "told")
          /\ UNCHANGED slot

\* The slot leaves the queue; an undecided execution is asked about first.
TurnStarts ==
  /\ NextIs("turn")
  /\ chain' = Tail(chain)
  /\ LET lines == Head(chain).lines
     IN IF uncertain
        THEN /\ seg' = [at |-> "asked", lines |-> lines]
             /\ UNCHANGED <<cur, slot, run, gone>>
        ELSE TurnBegins(lines)
  /\ UNCHANGED <<entryVars, placeVars, steering, aborted, uncertain, log, ghostVars, budgetVars>>

Decides ==
  /\ seg.at = "asked"
  /\ uncertain' = FALSE
  /\ TurnBegins(seg.lines)
  /\ UNCHANGED <<entryVars, placeVars, chain, steering, aborted, log, ghostVars, budgetVars>>

\* "turn held": the text is printed back.
Declines ==
  /\ seg.at = "asked"
  /\ Leave(ToSet(seg.lines), "told")
  /\ seg' = Idle
  /\ UNCHANGED <<entryVars, placeVars, chain, runVars, log, ghostVars, budgetVars>>

SwitchDecides ==
  /\ NextIs("switch")
  /\ \E t \in Goals \union {0} :
       IF t = 0
       THEN chain' = Tail(chain) /\ UNCHANGED <<leaving, target, marks>>
       ELSE /\ leaving' = TRUE /\ target' = t
            /\ chain' = Await(Tail(chain))
            /\ marks' = marks \union Mark("behind", ToSet(LinesOf(Tail(chain))))
  /\ UNCHANGED <<steerable, session, entries, phase, placeVars, seg, runVars, log, gone, typed, aim, budgetVars>>

\* The chain is awaited once more: a turn's end may have appended to it.
AwaitsAgain ==
  /\ NextIs("await")
  /\ chain' = Append(Tail(chain), [kind |-> "awaitAgain", lines |-> <<>>])
  /\ UNCHANGED <<entryVars, placeVars, seg, runVars, log, gone, ghostVars, budgetVars>>

\* chat() returns.  A segment behind the second await runs on without it.
ChatReturns ==
  /\ NextIs("awaitAgain")
  /\ phase' = "opening"
  /\ seed' = queuedLines /\ queuedLines' = <<>>
  /\ chain' = <<>>
  /\ Leave(ToSet(LinesOf(chain)), "astray")
  /\ UNCHANGED <<steerable, session, target, entries, leaving, switchLines, seg, runVars, log, ghostVars, budgetVars>>

-----------------------------------------------------------------------------
(* The run of a turn.                                                      *)

Said(lines) == IF lines = <<>> THEN log ELSE Append(log, [session |-> session, lines |-> lines])

\* The run's own input is in the log.
Begins ==
  /\ run.st = "begun"
  /\ run' = [run EXCEPT !.st = "live"]
  /\ log' = Said(seg.lines)
  /\ seg' = [seg EXCEPT !.lines = <<>>]
  /\ UNCHANGED <<entryVars, placeVars, chain, cur, slot, steering, aborted, uncertain, gone, ghostVars, budgetVars>>

\* A boundary takes the whole ingress.
Admit ==
  /\ run.st = "live" /\ run.taken = <<>> /\ run.ingress # <<>>
  /\ run' = [run EXCEPT !.taken = run.ingress, !.ingress = <<>>]
  /\ UNCHANGED <<entryVars, placeVars, chain, seg, cur, slot, steering, aborted, uncertain,
                 log, gone, ghostVars, budgetVars>>

\* Neighbours of one kind land as one input, and landed() clears the mirror.
Block(s) == CHOOSE n \in 1..Len(s) :
  /\ \A k \in 1..n : (s[k] = None) <=> (s[1] = None)
  /\ n < Len(s) => ((s[n + 1] = None) <=> (s[1] # None))

Land ==
  /\ run.st = "live" /\ run.taken # <<>>
  /\ LET n == Block(run.taken)
     IN /\ log' = Said(Humans(SubSeq(run.taken, 1, n)))
        /\ Mirror([run EXCEPT !.taken = SubSeq(@, n + 1, Len(@))], <<>>, {})
  /\ UNCHANGED <<entryVars, placeVars, chain, seg, cur, slot, aborted, uncertain, gone, typed, aim, budgetVars>>

\* The run decides to end: nothing arrived at a quiet boundary, a stop, a
\* bound, an error.
Sealed == [run EXCEPT !.st = "sealed", !.ingress = <<>>, !.taken = <<>>, !.unadmitted = Humans(run.ingress)]

Seal ==
  /\ run.st = "live" /\ run.taken = <<>>
  /\ run' = Sealed
  /\ UNCHANGED <<entryVars, placeVars, chain, seg, cur, slot, steering, aborted, uncertain,
                 log, gone, ghostVars, budgetVars>>

\* Mutant of Throws: the turn's promise is left unresolved.
Throws_Unresolved ==
  /\ run.st \in {"begun", "live"}
  /\ faults < MaxFaults /\ faults' = faults + 1
  /\ run' = NoRun
  /\ marks' = marks \union Mark("unmirrored", InHand(run))
  /\ Leave(ToSet(seg.lines), "told")
  /\ seg' = [seg EXCEPT !.lines = <<>>]
  /\ UNCHANGED <<entryVars, placeVars, chain, cur, slot, steering, aborted, uncertain,
                 log, typed, aim, notices>>

\* The iterator throws: what a boundary had taken is not handed back.
Throws ==
  /\ run.st \in {"begun", "live"}
  /\ faults < MaxFaults /\ faults' = faults + 1
  /\ run' = Sealed
  /\ marks' = marks \union Mark("unmirrored", ToSet(run.taken))
  /\ Leave(ToSet(seg.lines), "told")
  /\ seg' = [seg EXCEPT !.lines = <<>>]
  /\ UNCHANGED <<entryVars, placeVars, chain, cur, slot, steering, aborted, uncertain,
                 log, typed, aim, notices>>

\* Mutant of Settles: without handBack.
Settles_Unhanded ==
  /\ run.st = "sealed"
  /\ cur' = "none" /\ slot' = IF slot = "turn" THEN "none" ELSE slot
  /\ run' = NoRun /\ steering' = <<>> /\ seg' = Idle
  /\ aborted' = FALSE /\ uncertain' \in {uncertain, uncertain \/ aborted}
  /\ UNCHANGED <<entryVars, placeVars, chain, log, gone, ghostVars, budgetVars>>

\* The consumer is through: handBack queues what was not admitted as one
\* turn, and the segment resolves, whether the run failed or not.
Settles ==
  LET left == Handed(Len(run.unadmitted))
  IN /\ run.st = "sealed"
     /\ cur' = "none" /\ slot' = IF slot = "turn" THEN "none" ELSE slot
     /\ run' = NoRun /\ steering' = <<>> /\ seg' = Idle
     /\ chain' = IF left = <<>> THEN chain ELSE Queue(chain, left)
     /\ aborted' = FALSE /\ uncertain' \in {uncertain, uncertain \/ aborted}
     /\ UNCHANGED <<entryVars, placeVars, log, gone, ghostVars, budgetVars>>

-----------------------------------------------------------------------------
(* The entry.                                                              *)

\* Startup's questions are answered and the recovery run begins.  chat()
\* rejects when one is left undecided or another run has the session.
RecoveryStarts ==
  /\ phase = "starting"
  /\ cur' = "recovery"
  /\ \/ /\ slot = "none"
        /\ phase' = "recovering" /\ slot' = "recovery" /\ uncertain' = FALSE
     \/ /\ uncertain \/ slot # "none"
        /\ phase' = "over" /\ UNCHANGED <<slot, uncertain>>
  /\ UNCHANGED <<steerable, session, target, entries, leaving, placeVars, chain, seg, run, steering, aborted,
                 log, gone, ghostVars, budgetVars>>

\* The recovery run is over and the queued lines are routed, up to one that
\* switches: those behind it wait for where it goes.
RecoverySettles ==
  /\ phase = "recovering" /\ slot = "recovery"
  /\ cur' = "none" /\ slot' = "none" /\ steering' = <<>>
  /\ aborted' = FALSE /\ uncertain' \in {uncertain, uncertain \/ aborted}
  /\ phase' = "ready" /\ queuedLines' = <<>>
  /\ \/ /\ chain' = QueueEach(chain, queuedLines)
        /\ UNCHANGED <<leaving, target, switchLines, aim, marks>>
     \/ \E k \in 0..(Len(queuedLines) - 1), t \in Goals :
          LET rest == SubSeq(queuedLines, k + 1, Len(queuedLines))
          IN /\ chain' = Await(QueueEach(chain, SubSeq(queuedLines, 1, k)))
             /\ leaving' = TRUE /\ target' = t
             /\ switchLines' = switchLines \o rest
             /\ aim' = [l \in Lines |-> IF l \in ToSet(rest) THEN t ELSE aim[l]]
             /\ marks' = marks \union Mark("sentOn", ToSet(rest))
  /\ UNCHANGED <<steerable, session, entries, seed, seg, run, log, gone, typed, budgetVars>>

\* The recovery run throws, and chat() rejects.
RecoveryThrows ==
  /\ phase = "recovering" /\ slot = "recovery"
  /\ faults < MaxFaults /\ faults' = faults + 1
  /\ phase' = "over"
  /\ UNCHANGED <<steerable, session, target, entries, leaving, placeVars, chain, seg, runVars, log, gone, ghostVars, notices>>

\* chatLoop opens the session and the next entry takes the lines over.
NextEntry ==
  /\ phase = "opening"
  /\ phase' = "starting" /\ leaving' = FALSE
  /\ entries' = entries + 1 /\ session' = target
  /\ queuedLines' = seed \o switchLines
  /\ seed' = <<>> /\ switchLines' = <<>>
  /\ uncertain' = (uncertain /\ target = session)
  /\ UNCHANGED <<steerable, target, chain, seg, cur, slot, run, steering, aborted, log, gone, ghostVars, budgetVars>>

\* The session does not open: what waited in queuedSwitchLines is printed,
\* what the entry handed over is not, and the old session is entered again.
SwitchRefused ==
  /\ phase = "opening"
  /\ faults < MaxFaults /\ faults' = faults + 1
  /\ phase' = "starting" /\ leaving' = FALSE /\ target' = session
  /\ entries' = entries + 1
  /\ gone' = [l \in Lines |-> IF l \in ToSet(switchLines) THEN "told"
                              ELSE IF l \in ToSet(seed) THEN "dropped" ELSE gone[l]]
  /\ seed' = <<>> /\ switchLines' = <<>>
  /\ UNCHANGED <<steerable, session, queuedLines, chain, seg, runVars, log, ghostVars, notices>>

-----------------------------------------------------------------------------

Next ==
  \/ EnterEarly \/ EnterBetween \/ Enter \/ RedirectIdle \/ RedirectRun \/ Escape
  \/ UpSteer \/ UpTurn \/ SwitchNow \/ SwitchLater \/ Wake \/ Notify
  \/ TurnStarts \/ Decides \/ Declines \/ SwitchDecides \/ AwaitsAgain \/ ChatReturns
  \/ Begins \/ Admit \/ Land \/ Seal \/ Throws \/ Settles
  \/ RecoveryStarts \/ RecoverySettles \/ RecoveryThrows \/ NextEntry \/ SwitchRefused

Spec == Init /\ [][Next]_vars

\* The segments run on their own, a question is answered one way or the
\* other, a run that holds nothing to admit ends, and a session opens.
Fairness ==
  /\ WF_vars(TurnStarts) /\ WF_vars(Decides \/ Declines)
  /\ WF_vars(SwitchDecides) /\ WF_vars(AwaitsAgain) /\ WF_vars(ChatReturns)
  /\ WF_vars(Begins \/ Throws) /\ WF_vars(Land \/ Throws) /\ WF_vars(Seal \/ Admit \/ Throws)
  /\ WF_vars(Settles)
  /\ WF_vars(RecoveryStarts) /\ WF_vars(RecoverySettles \/ RecoveryThrows)
  /\ WF_vars(NextEntry \/ SwitchRefused)

LiveSpec == Spec /\ Fairness

-----------------------------------------------------------------------------
(* Properties.                                                             *)

Places == queuedLines \o switchLines \o seed \o LinesOf(chain) \o seg.lines
          \o run.ingress \o run.taken \o run.unadmitted \o LinesOf(log)

Copies(l) == Cardinality({k \in DOMAIN Places : Places[k] = l}) + (IF gone[l] = "" THEN 0 ELSE 1)

\* Of all the queues a line passes through it is in one, or it is in a log,
\* or it left: no line is in two of them, which is how one would be sent
\* twice, and none is in none, unless a run held it without its mirror
\* (chat.ts 1850-1944).  A line the redirect key gave to the listeners of
\* departed entries too is in several.
InOnePlace ==
  \A l \in 1..typed :
    /\ Copies(l) > 1 => l \in Marked("echoed")
    /\ Copies(l) = 0 => l \in Marked("unmirrored")

\* A line is answered by the session it was typed for: the one that was
\* open, or, once it was being left, the one asked for (chat.ts 1652-1660).
AnsweredWhereAimed ==
  \A k \in DOMAIN log : \A l \in ToSet(log[k].lines) :
    log[k].session = aim[l] \/ l \in Marked("echoed")

\* A pipe's lines are answered in the order they came, in each session.
\* Only what a switch in front of it sent on may be overtaken, by what came
\* while the entry was leaving (chat.ts 1649-1660, 1803-1832, 2104-2109).
AnsweredInOrder ==
  ~steerable =>
    \A j, k \in DOMAIN log :
      j < k => \A x \in ToSet(log[j].lines), y \in ToSet(log[k].lines) :
        (log[j].session = log[k].session /\ y < x) => y \in Marked("sentOn")

\* The entry is ready with nothing queued, or chat() has rejected.
AtRest == phase = "over" \/ (phase = "ready" /\ ~leaving /\ chain = <<>> /\ seg = Idle)

\* The chain never waits for itself: a turn that fails, is held or is
\* taken back lets the next one start, a departing entry ends, and the
\* prompt always comes back (chat.ts 1475-1566, 2110-2126).
ComesToRest == []<>AtRest

-----------------------------------------------------------------------------
(* What the comments say and the code does not keep.                       *)

\* "Each next chat() drains them into its own replay, so no line is
\* answered by the session being left" (state.ts 706-712): a line behind a
\* /fork or /resume in one read is.
DepartingAnswersNothing ==
  \A k \in DOMAIN log : ToSet(log[k].lines) \intersect Marked("behind") = {}

\* "Input that arrived but was not admitted is handed back, never dropped
\* in silence" (docs/adrs/0057): a line whose mirror was cleared is.
NothingSwallowed == \A l \in 1..typed : Copies(l) > 0

\* "Recovery first: ... BEFORE the REPL accepts new turns" (chat.ts
\* 2039-2041): a redirect or a wake starts one.
RecoveryFirst == phase \in {"starting", "recovering"} => seg = Idle

\* A line is answered once: a redirect with departed entries about is
\* answered again after the next switch.
AnsweredOnce == \A l \in 1..typed : Cardinality({k \in DOMAIN log : l \in ToSet(log[k].lines)}) <= 1

\* "...and none is dropped" (state.ts 706-712), "not dropped in silence
\* either" (index.ts 1088-1095).
NoneDropped == \A l \in Lines : gone[l] # "dropped"

\* "never exit while a turn is in flight" (chat.ts 2115).
NoTurnAstray == \A l \in Lines : gone[l] # "astray"
=============================================================================
