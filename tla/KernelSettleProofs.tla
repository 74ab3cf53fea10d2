-------------------------- MODULE KernelSettleProofs --------------------------
(***************************************************************************)
(* Theorems about the calls of a run and how its turns settle, for every   *)
(* number of calls and every tool table.  First the order: no call         *)
(* executes while the human has still to decide an ask accepted before     *)
(* it, and the FIFO barrier is only overtaken past an exclusive call that  *)
(* bailed.  Then the end of a turn: a human's verdict is recorded once,    *)
(* nothing executes behind the back of a next turn or of the terminal,     *)
(* every draft is committed or voided, and without a compactor no          *)
(* committed call goes unanswered.  Last the whole: without a compactor    *)
(* the loop implements TurnLog.                                            *)
(***************************************************************************)
EXTENDS KernelLoopProofs, KernelRefinement, SequenceTheorems, WellFoundedInduction

(***************************************************************************)
(* The inductive invariant: what the three chains (decides, ask gates,     *)
(* barrier) have let through.                                              *)
(***************************************************************************)

Undecided == {"idle", "decide"}
HumanPart == {"ahead", "commit", "pause"}
BeyondBarrier == {"window", "start", "ack", "acked", "handler"}
BeyondAsks == {"commit", "pause", "barrier"} \cup BeyondBarrier

\* The decides run in call order.
DecidedInOrder ==
  \A c \in Calls : pc[c] \notin Undecided =>
    \A d \in 1..(c - 1) : pc[d] \notin Undecided

\* Behind an ask the human has still to decide, no call is beyond the ask
\* gate, and an ask that is over bailed because the turn is void.
AsksInOrder ==
  \A c \in Calls : \A d \in 1..(c - 1) :
    verdict[d] = "ask" /\ pc[d] \in HumanPart =>
      /\ pc[c] \notin BeyondAsks
      /\ pc[c] = "done" /\ verdict[c] = "ask" => violated

\* d does not stand in c's way: both are shared, d is over, or an exclusive
\* call between the two bailed and released its place.
Yields(d, c) ==
  \/ Shared(c) /\ Shared(d)
  \/ pc[d] = "done"
  \/ \E e \in (d + 1)..(c - 1) :
       ~Shared(e) /\ pc[e] = "done" /\ StartedOf(e) = {}

\* The barrier, for a call that has passed it or has ever started.
BarrierInOrder ==
  \A c \in Calls : pc[c] \in BeyondBarrier \/ StartedOf(c) # {} =>
    \A d \in 1..(c - 1) : Yields(d, c)

OrderInv == DecidedInOrder /\ AsksInOrder /\ BarrierInOrder

(***************************************************************************)
(* What a step does to the calls.                                          *)
(***************************************************************************)

\* A set of numbers below a bound that is not empty has a largest element.
LEMMA LastBelow ==
  ASSUME NEW k \in Nat, NEW S \in SUBSET (1..k), S # {}
  PROVE  \E m \in S : \A x \in S : x <= m
<1> DEFINE T == {j \in Nat : k - j \in S}
           R == OpToRel(<, Nat)
<1>1. T \subseteq Nat /\ T # {}
  <2>1. PICK x \in S : TRUE
    OBVIOUS
  <2>2. k - x \in Nat /\ k - (k - x) = x
    BY <2>1
  <2> QED
    BY <2>1, <2>2
<1>2. \A j \in T, i \in T : i < j => <<i, j>> \in R
  BY <1>1 DEF OpToRel
<1>3. IsWellFoundedOn(R, Nat)
  BY NatLessThanWellFounded
<1> HIDE DEF T, R
<1>4. PICK j \in T : \A i \in T : ~(<<i, j>> \in R)
  BY <1>1, <1>3, WFMin
<1>5. k - j \in S /\ \A x \in S : k - x \in T
  BY DEF T
<1>6. ASSUME NEW x \in S PROVE x <= k - j
  <2>1. ~(k - x < j)
    BY <1>2, <1>4, <1>5
  <2> QED
    BY <1>1, <2>1
<1> QED
  BY <1>5, <1>6

USE DEF logVars, frameVars, gateVars, overflowVars, callVars, launchVars,
        launchUnchanged

LEMMA LaunchedCalls ==
  ASSUME TypeOK, CallsLaunched
  PROVE  \A c \in Calls : /\ c \in Launched <=> pc[c] # "idle"
                          /\ c \in Nat
                          /\ \A d \in 1..(c - 1) :
                               /\ d \in Calls
                               /\ c \in Launched => d \in Launched
BY ConstantsAssumption DEF CallsLaunched, Launched, Calls, TypeOK

\* A STARTED event reaches the log only of a call that waits for its ack.
LEMMA StartedOnlyAwaiting ==
  ASSUME TypeOK, InFlight, MainStep
  PROVE  \A c \in Calls : StartedOf(c)' = StartedOf(c) \/ pc[c] = "ack"
<1>1. CASE Drain
  <2> DEFINE e == Head(execQueue)
  <2>1. /\ execQueue # <<>> /\ log' = Append(log, e)
        /\ e \in Event /\ 1 \in DOMAIN execQueue /\ e = execQueue[1]
    BY <1>1 DEF Drain, Emit, TypeOK
  <2>2. Started(e) => AwaitsAck(e, pc)
    BY <2>1 DEF InFlight
  <2> HIDE DEF e
  <2>3. ASSUME NEW c \in Calls, pc[c] # "ack"
        PROVE  StartedOf(c)' = StartedOf(c)
    <3>1. e # Ev("tool_execution_started", c)
      BY <2>2, <2>3 DEF Started, AwaitsAck, Ev
    <3> QED
      BY <2>1, <3>1, Appended DEF StartedOf, TypeOK
  <2> QED
    BY <2>3
<1>2. CASE ~Drain
  <2>1. CASE UNCHANGED log
    BY <2>1 DEF StartedOf
  <2>2. ASSUME NEW t \in EventTypes, NEW k \in 0..MaxCalls,
               t # "tool_execution_started", log' = Append(log, Ev(t, k))
        PROVE  \A c \in Calls : StartedOf(c)' = StartedOf(c)
    <3>1. \A c \in Calls : Ev(t, k) # Ev("tool_execution_started", c)
      BY <2>2 DEF Ev
    <3> QED
      BY <2>2, <3>1, EvType, Appended DEF StartedOf, TypeOK
  <2> QED
    BY <1>2, <2>1, <2>2, MainStepAppends DEF MainAppends
<1> QED
  BY <1>1, <1>2

\* The void signal is taken back only by a retry, with every launch settled.
LEMMA VoidUntilSettled ==
  ASSUME TypeOK, MainStep, violated, ~violated'
  PROVE  \A c \in Launched : pc[c] = "done"
<1>1. CASE Abandoned
  BY <1>1 DEF Abandoned, AllSettled, Active
<1>2. CASE ~Abandoned
  BY <1>2 DEF MainStep, TurnHead, Admit, OpenTurn, Compact, BeginRequest,
       Restream, Receive, Drain, Delta, CallEnd, HoldStop, Violation, Abandon,
       StreamEnd, StreamFail, Committed, TakeOrSeal, TurnSettles, Terminal
<1> QED
  BY <1>1, <1>2

\* A call the generator has not launched is undecided, also after its step.
LEMMA MainLaunches ==
  ASSUME TypeOK, CallsLaunched, MainStep
  PROVE  \A c \in Calls \ Launched : pc'[c] \in Undecided
<1>1. \A c \in Calls \ Launched : pc[c] = "idle"
  BY LaunchedCalls
<1>2. CASE CallEnd
  BY <1>1, <1>2 DEF CallEnd, Undecided, TypeOK
<1>3. CASE ~CallEnd
  <2>1. UNCHANGED pc
    BY <1>3 DEF MainStep, TurnHead, Admit, OpenTurn, Compact, BeginRequest,
         Restream, Receive, Drain, Delta, HoldStop, Violation, StreamEnd,
         StreamFail, Abandoned, Committed, TakeOrSeal, TurnSettles, Terminal
  <2> QED
    BY <1>1, <2>1 DEF Undecided
<1> QED
  BY <1>2, <1>3

\* Where a launch's own step takes it, and what it waited for.
LEMMA CallMoves ==
  ASSUME TypeOK, WindowInv, NEW c \in Calls, LaunchStep(c) \/ Answer(c)
  PROVE  /\ UNCHANGED violated
         /\ \/ pc'[c] = pc[c]
            \/ /\ pc[c] = "decide" /\ DecideTurn(c)
               /\ pc'[c] \in {"ahead", "done"}
               /\ pc'[c] = "done" /\ verdict'[c] = "ask" => violated
            \/ /\ pc[c] = "ahead" /\ AheadOpen(c)
               /\ \/ violated /\ pc'[c] = "done"
                  \/ ~violated /\ pc'[c] \in {"commit", "barrier"}
            \/ /\ pc[c] \in {"commit", "pause"}
               /\ pc'[c] \in {"pause", "barrier", "done"}
            \/ /\ pc[c] = "barrier" /\ BarrierOpen(c)
               /\ pc'[c] \in {"window", "start", "done"}
            \/ /\ pc[c] \in BeyondBarrier /\ pc'[c] \in BeyondBarrier \cup {"done"}
<1>1. UNCHANGED violated
  BY DEF LaunchStep, Decide, PassAskGate, PassCommitGate, Answer, PauseEnds,
         PauseAborted, PassBarrier, Start, Execute, Finish
<1>2. CASE Decide(c)
  BY <1>2 DEF Decide, Judge, Step, TypeOK
<1>3. CASE PassAskGate(c)
  BY <1>3 DEF PassAskGate, Step, TypeOK
<1>4. CASE PassCommitGate(c) \/ PauseEnds(c) \/ PauseAborted(c) \/ Answer(c)
  BY <1>4 DEF PassCommitGate, PauseEnds, PauseAborted, Answer, Step, TypeOK
<1>5. CASE PassBarrier(c)
  BY <1>5 DEF PassBarrier, Step, TypeOK
<1>6. CASE Start(c) \/ Execute(c) \/ Finish(c)
  <2>1. pc[c] \in BeyondBarrier
    BY <1>6 DEF Start, Execute, Finish, BeyondBarrier
  <2>2. LeaveWindow(c) => pc'[c] \in BeyondBarrier \cup {"done"}
    BY DEF LeaveWindow, BeyondBarrier, TypeOK
  <2> QED
    BY <1>6, <2>1, <2>2 DEF Start, Execute, Finish, Step, BeyondBarrier, TypeOK
<1> QED
  BY <1>1, <1>2, <1>3, <1>4, <1>5, <1>6 DEF LaunchStep

\* The environment only moves a call from its ack to acked.
LEMMA EnvMoves ==
  ASSUME TypeOK, InFlight,
         Persist \/ PersistFails \/ Abort \/ Over \/ UNCHANGED vars
  PROVE  /\ UNCHANGED <<log, n, tool, seq, verdict, answer, violated, execQueue>>
         /\ \A c \in Calls : \/ pc'[c] = pc[c]
                             \/ pc[c] = "ack" /\ pc'[c] = "acked"
<1>1. CASE Persist
  <2>1. durable < Len(log)
    BY <1>1 DEF Persist, Resumed, TypeOK
  <2>2. Started(log[Len(log)]) => AwaitsAck(log[Len(log)], pc)
    BY <2>1 DEF InFlight
  <2> QED
    BY <1>1, <2>2 DEF Persist, Started, AwaitsAck, TypeOK
<1>2. CASE PersistFails \/ Abort \/ Over \/ UNCHANGED vars
  BY <1>2 DEF PersistFails, Abort, Over, vars
<1> QED
  BY <1>1, <1>2

(***************************************************************************)
(* The ask gates.                                                          *)
(***************************************************************************)

\* Where the gate of the latest ask ahead is open, no ask ahead is with the
\* human: the gates are chained.
LEMMA AheadOpenChain ==
  ASSUME TypeOK, CallsLaunched, DecidedInOrder, AsksInOrder, ~violated,
         NEW c \in Calls, pc[c] = "ahead", AheadOpen(c),
         NEW d \in 1..(c - 1), verdict[d] = "ask"
  PROVE  pc[d] \notin HumanPart
<1> DEFINE S == {e \in d..(c - 1) : verdict[e] = "ask"}
<1>1. c \in Nat /\ \A e \in d..(c - 1) : e \in Calls /\ e \in 1..(c - 1)
  BY LaunchedCalls
<1>2. PICK e \in S : \A x \in S : x <= e
  <2>1. S \in SUBSET (1..c) /\ d \in S
    BY <1>1
  <2> HIDE DEF S
  <2> QED
    BY <1>1, <2>1, LastBelow
<1>3. /\ e \in Calls /\ e \in 1..(c - 1) /\ d <= e /\ verdict[e] = "ask"
      /\ \A x \in (e + 1)..(c - 1) : verdict[x] # "ask"
  BY <1>1, <1>2
<1>4. pc[e] \notin HumanPart
  BY <1>3 DEF AheadOpen, HumanPart
<1>5. pc[e] \notin Undecided
  BY <1>3 DEF DecidedInOrder, Undecided
<1>6. pc[e] \in BeyondAsks \cup {"done"}
  BY <1>3, <1>4, <1>5 DEF HumanPart, Undecided, BeyondAsks, BeyondBarrier,
     CallPoints, TypeOK
<1>7. CASE d = e
  BY <1>4, <1>7
<1>8. CASE d # e
  <2>1. d \in 1..(e - 1)
    BY <1>1, <1>3, <1>8
  <2> QED
    BY <1>3, <1>6, <2>1 DEF AsksInOrder
<1> QED
  BY <1>7, <1>8

LEMMA AskMain ==
  ASSUME TypeOK, CallsLaunched, DecidedInOrder, AsksInOrder, MainStep
  PROVE  DecidedInOrder' /\ AsksInOrder'
<1> USE MainStepCalls, MainLaunches, LaunchedCalls
<1>1. DecidedInOrder'
  <2> SUFFICES ASSUME NEW c \in Calls, pc'[c] \notin Undecided,
                      NEW d \in 1..(c - 1)
               PROVE  pc'[d] \notin Undecided
    BY DEF DecidedInOrder
  <2> QED
    BY DEF DecidedInOrder
<1>2. AsksInOrder'
  <2> SUFFICES ASSUME NEW c \in Calls, NEW d \in 1..(c - 1),
                      verdict'[d] = "ask", pc'[d] \in HumanPart
               PROVE  /\ pc'[c] \notin BeyondAsks
                      /\ pc'[c] = "done" /\ verdict'[c] = "ask" => violated'
    BY DEF AsksInOrder
  <2>1. d \in Launched /\ pc[d] \in HumanPart /\ verdict[d] = "ask"
    BY DEF HumanPart, Undecided
  <2>2. violated => violated'
    BY <2>1, VoidUntilSettled DEF HumanPart
  <2>3. CASE c \in Launched
    BY <2>1, <2>2, <2>3 DEF AsksInOrder
  <2>4. CASE c \notin Launched
    BY <2>4 DEF Undecided, BeyondAsks, BeyondBarrier
  <2> QED
    BY <2>3, <2>4
<1> QED
  BY <1>1, <1>2

LEMMA AskLaunch ==
  ASSUME TypeOK, CallsLaunched, WindowInv, DecidedInOrder, AsksInOrder,
         NEW c \in Calls, LaunchStep(c) \/ Answer(c)
  PROVE  DecidedInOrder' /\ AsksInOrder'
<1> USE LaunchedCalls
<1>1. /\ \A x \in Calls \ {c} : /\ \/ pc'[x] = pc[x]
                                   \/ pc[x] = "window" /\ pc'[x] = "start"
                                /\ verdict'[x] = verdict[x]
      /\ pc[c] # "decide" => verdict'[c] = verdict[c]
  BY LaunchMoves
<1>2. \A x \in Calls : /\ pc[x] \notin Undecided => pc'[x] \notin Undecided
                       /\ x # c /\ pc[x] \in Undecided => pc'[x] \in Undecided
  BY <1>1, CallMoves DEF Undecided, BeyondBarrier
<1>3. pc[c] \in Undecided /\ pc'[c] \notin Undecided =>
        \A d \in 1..(c - 1) : pc[d] \notin Undecided
  BY CallMoves DEF Undecided, DecideTurn, BeyondBarrier
<1>4. DecidedInOrder'
  <2> SUFFICES ASSUME NEW x \in Calls, pc'[x] \notin Undecided,
                      NEW d \in 1..(x - 1)
               PROVE  pc'[d] \notin Undecided
    BY DEF DecidedInOrder
  <2> QED
    BY <1>2, <1>3 DEF DecidedInOrder
<1>5. AsksInOrder'
  <2> SUFFICES ASSUME NEW x \in Calls, NEW d \in 1..(x - 1),
                      verdict'[d] = "ask", pc'[d] \in HumanPart
               PROVE  /\ pc'[x] \notin BeyondAsks
                      /\ pc'[x] = "done" /\ verdict'[x] = "ask" => violated'
    BY DEF AsksInOrder
  <2>1. d \in Calls /\ d # x
    OBVIOUS
  <2>2. UNCHANGED violated
    BY CallMoves
  <2>3. CASE d # c
    <3>1. verdict[d] = "ask" /\ pc[d] \in HumanPart
      BY <1>1, <2>1, <2>3 DEF HumanPart
    <3>2. /\ pc[x] \notin BeyondAsks
          /\ pc[x] = "done" /\ verdict[x] = "ask" => violated
      BY <3>1 DEF AsksInOrder
    <3>3. CASE x # c
      BY <1>1, <2>2, <3>2, <3>3 DEF BeyondAsks, BeyondBarrier
    <3>4. CASE x = c
      <4>1. CASE pc[c] = "ahead"
        BY <1>1, <2>2, <3>1, <3>4, <4>1, CallMoves, AheadOpenChain
        DEF BeyondAsks, BeyondBarrier
      <4>2. CASE pc[c] = "decide"
        BY <2>2, <3>4, <4>2, CallMoves DEF BeyondAsks, BeyondBarrier
      <4>3. CASE pc[c] \notin {"ahead", "decide"}
        <5>1. pc'[c] = pc[c]
          BY <3>2, <3>4, <4>3, CallMoves DEF BeyondAsks, BeyondBarrier
        <5> QED
          BY <1>1, <2>2, <3>2, <3>4, <4>3, <5>1
      <4> QED
        BY <4>1, <4>2, <4>3
    <3> QED
      BY <3>3, <3>4
  <2>4. CASE d = c
    <3>1. pc'[x] = pc[x] \/ pc[x] = "window"
      BY <1>1, <2>1, <2>4
    <3>2. verdict'[x] = verdict[x]
      BY <1>1, <2>1, <2>4
    <3>3. CASE pc[c] = "decide"
      <4>1. pc[x] \in Undecided
        BY <2>4, <3>3 DEF DecidedInOrder, Undecided
      <4> QED
        BY <3>1, <4>1 DEF Undecided, BeyondAsks, BeyondBarrier
    <3>4. CASE pc[c] # "decide"
      <4>1. verdict[c] = "ask" /\ pc[c] \in HumanPart
        BY <1>1, <2>4, <3>4, CallMoves DEF HumanPart, BeyondBarrier
      <4>2. /\ pc[x] \notin BeyondAsks
            /\ pc[x] = "done" /\ verdict[x] = "ask" => violated
        BY <2>4, <4>1 DEF AsksInOrder
      <4> QED
        BY <2>2, <3>1, <3>2, <4>2 DEF BeyondAsks, BeyondBarrier
    <3> QED
      BY <3>3, <3>4
  <2> QED
    BY <2>3, <2>4
<1> QED
  BY <1>4, <1>5

LEMMA AskEnv ==
  ASSUME TypeOK, InFlight, DecidedInOrder, AsksInOrder,
         Persist \/ PersistFails \/ Abort \/ Over \/ UNCHANGED vars
  PROVE  DecidedInOrder' /\ AsksInOrder'
<1>1. \A c \in Calls : \A d \in 1..(c - 1) : d \in Calls
  BY ConstantsAssumption DEF Calls
<1>2. DecidedInOrder'
  BY <1>1, EnvMoves DEF DecidedInOrder, Undecided
<1>3. AsksInOrder'
  BY <1>1, EnvMoves DEF AsksInOrder, HumanPart, BeyondAsks, BeyondBarrier
<1> QED
  BY <1>2, <1>3

(***************************************************************************)
(* The barrier.                                                            *)
(***************************************************************************)

\* What keeps d out of c's way stays true while neither's tool changes, a
\* done call stays done and its events are in.
LEMMA YieldsStays ==
  ASSUME NEW c \in Calls, NEW d \in 1..(c - 1), Yields(d, c),
         \A x \in d..c : tool'[x] = tool[x],
         \A x \in d..(c - 1) : pc[x] = "done" =>
           pc'[x] = "done" /\ StartedOf(x)' = StartedOf(x)
  PROVE  Yields(d, c)'
<1>1. c \in Nat /\ d \in d..c /\ c \in d..c /\ d \in d..(c - 1)
      /\ \A e \in (d + 1)..(c - 1) : e \in d..c /\ e \in d..(c - 1)
  BY ConstantsAssumption DEF Calls
<1> QED
  BY <1>1 DEF Yields, Shared

\* What the open barrier gives c: whoever it still finds ahead is separated
\* from it by an exclusive call that bailed.
LEMMA OpenBarrierYields ==
  ASSUME TypeOK, CallsLaunched, BarrierInOrder, NEW c \in Launched,
         BarrierOpen(c), NEW d \in 1..(c - 1)
  PROVE  Yields(d, c)
<1> DEFINE S == {e \in (d + 1)..(c - 1) : ~Shared(e)}
<1>1. /\ c \in Calls /\ c \in Nat /\ d \in Launched
      /\ \A e \in (d + 1)..(c - 1) : e \in Launched /\ e \in Calls
  BY ConstantsAssumption DEF Launched, Calls, TypeOK
<1>2. CASE S = {}
  BY <1>1, <1>2 DEF Yields, BarrierOpen, Blocks
<1>3. CASE S # {}
  <2>1. S \in SUBSET (1..c)
    BY <1>1
  <2>2. PICK m \in S : \A x \in S : x <= m
    <3> HIDE DEF S
    <3> QED
      BY <1>1, <1>3, <2>1, LastBelow
  <2>3. /\ m \in Calls /\ m \in (d + 1)..(c - 1) /\ m \in Launched /\ ~Shared(m)
        /\ \A e \in (m + 1)..(c - 1) : Shared(e)
    BY <1>1, <2>2
  <2>4. pc[m] = "done"
    BY <1>1, <2>3 DEF BarrierOpen, Blocks
  <2>5. CASE StartedOf(m) = {}
    BY <2>3, <2>4, <2>5 DEF Yields
  <2>6. CASE StartedOf(m) # {}
    <3>1. d \in 1..(m - 1)
      BY <1>1, <2>3
    <3>2. Yields(d, m)
      BY <2>3, <2>6, <3>1 DEF BarrierInOrder
    <3>3. \A e \in (d + 1)..(m - 1) : e \in (d + 1)..(c - 1)
      BY <1>1, <2>3
    <3> QED
      BY <2>3, <3>2, <3>3 DEF Yields
  <2> QED
    BY <2>5, <2>6
<1> QED
  BY <1>2, <1>3

LEMMA BarrierMain ==
  ASSUME TypeOK, CallsLaunched, InFlight, Gated, BarrierInOrder, MainStep
  PROVE  BarrierInOrder'
<1> SUFFICES ASSUME NEW c \in Calls,
                    pc'[c] \in BeyondBarrier \/ StartedOf(c)' # {},
                    NEW d \in 1..(c - 1)
             PROVE  Yields(d, c)'
  BY DEF BarrierInOrder
<1>1. c \in Launched
  <2> SUFFICES ASSUME c \notin Launched PROVE FALSE
    OBVIOUS
  <2>1. pc[c] = "idle" /\ pc'[c] \in Undecided
    BY LaunchedCalls, MainLaunches
  <2>2. StartedOf(c) # {}
    BY <2>1, StartedOnlyAwaiting DEF Undecided, BeyondBarrier
  <2>3. PICK i \in DOMAIN log : log[i] = Ev("tool_execution_started", c)
    BY <2>2 DEF StartedOf
  <2> QED
    BY <2>1, <2>3 DEF Gated, Announced, Ev
<1>2. /\ \A x \in d..c : /\ x \in Calls /\ x \in Launched
                         /\ pc'[x] = pc[x] /\ tool'[x] = tool[x]
      /\ d \in d..c /\ c \in d..c
      /\ \A x \in d..(c - 1) : x \in d..c
  BY <1>1, MainStepCalls, ConstantsAssumption DEF Launched, Calls, TypeOK
<1>3. \A x \in d..c : pc[x] = "done" => StartedOf(x)' = StartedOf(x)
  BY <1>2, StartedOnlyAwaiting
<1>4. pc[c] \in BeyondBarrier \/ StartedOf(c) # {}
  BY <1>2, StartedOnlyAwaiting DEF BeyondBarrier
<1>5. Yields(d, c)
  BY <1>4 DEF BarrierInOrder
<1> QED
  BY <1>2, <1>3, <1>5, YieldsStays

LEMMA BarrierLaunch ==
  ASSUME TypeOK, CallsLaunched, WindowInv, BarrierInOrder,
         NEW c \in Calls, LaunchStep(c) \/ Answer(c)
  PROVE  BarrierInOrder'
<1> SUFFICES ASSUME NEW x \in Calls,
                    pc'[x] \in BeyondBarrier \/ StartedOf(x)' # {},
                    NEW d \in 1..(x - 1)
             PROVE  Yields(d, x)'
  BY DEF BarrierInOrder
<1>1. UNCHANGED <<log, tool>>
  BY LaunchMoves
<1>2. \A y \in Calls : pc[y] = "done" => pc'[y] = "done"
  BY LaunchMoves, CallMoves DEF BeyondBarrier
<1>3. \/ pc[x] \in BeyondBarrier \/ StartedOf(x) # {}
      \/ x = c /\ pc[c] = "barrier" /\ BarrierOpen(c)
  <2>1. StartedOf(x)' = StartedOf(x)
    BY <1>1 DEF StartedOf
  <2>2. CASE x = c
    BY <2>1, <2>2, CallMoves DEF BeyondBarrier
  <2>3. CASE x # c
    BY <2>1, <2>3, LaunchMoves DEF BeyondBarrier
  <2> QED
    BY <2>2, <2>3
<1>4. Yields(d, x)
  <2>1. CASE pc[x] \in BeyondBarrier \/ StartedOf(x) # {}
    BY <2>1 DEF BarrierInOrder
  <2>2. CASE x = c /\ pc[c] = "barrier" /\ BarrierOpen(c)
    BY <2>2, LaunchedCalls, OpenBarrierYields
  <2> QED
    BY <1>3, <2>1, <2>2
<1>5. \A y \in d..(x - 1) : y \in Calls
  BY ConstantsAssumption DEF Calls
<1> QED
  BY <1>1, <1>2, <1>4, <1>5, YieldsStays DEF StartedOf

LEMMA BarrierEnv ==
  ASSUME TypeOK, InFlight, BarrierInOrder,
         Persist \/ PersistFails \/ Abort \/ Over \/ UNCHANGED vars
  PROVE  BarrierInOrder'
<1> SUFFICES ASSUME NEW c \in Calls,
                    pc'[c] \in BeyondBarrier \/ StartedOf(c)' # {},
                    NEW d \in 1..(c - 1)
             PROVE  Yields(d, c)'
  BY DEF BarrierInOrder
<1>1. UNCHANGED <<log, tool>>
  BY EnvMoves
<1>2. pc[c] \in BeyondBarrier \/ StartedOf(c) # {}
  BY <1>1, EnvMoves DEF StartedOf, BeyondBarrier
<1>3. Yields(d, c)
  BY <1>2 DEF BarrierInOrder
<1>4. \A y \in d..(c - 1) : y \in Calls
  BY ConstantsAssumption DEF Calls
<1> QED
  BY <1>1, <1>3, <1>4, EnvMoves, YieldsStays DEF StartedOf

(***************************************************************************)
(* The invariant is inductive; the theorems.                               *)
(***************************************************************************)

LEMMA OrderInvariance == Spec => [](IInv /\ OrderInv)
<1>1. Init => OrderInv
  BY ConstantsAssumption
  DEF Init, OrderInv, DecidedInOrder, AsksInOrder, BarrierInOrder, Undecided,
      HumanPart, BeyondAsks, BeyondBarrier, StartedOf, Calls, Ev
<1>2. IInv /\ OrderInv /\ [Next]_vars => OrderInv'
  <2> SUFFICES ASSUME IInv, OrderInv, [Next]_vars PROVE OrderInv'
    OBVIOUS
  <2> USE DEF IInv, OrderInv
  <2>1. CASE MainStep
    BY <2>1, AskMain, BarrierMain
  <2>2. ASSUME NEW c \in Calls, LaunchStep(c) \/ Answer(c) PROVE OrderInv'
    BY <2>2, AskLaunch, BarrierLaunch
  <2>3. CASE Persist \/ PersistFails \/ Abort \/ Over \/ UNCHANGED vars
    BY <2>3, AskEnv, BarrierEnv
  <2> QED
    BY <2>1, <2>2, <2>3 DEF Next
<1> QED
  BY <1>1, <1>2, Invariance, PTL DEF Spec

\* No call executes while the human has still to decide an ask accepted
\* before it, though each launch only waits for the latest one.
THEOREM AsksBeforeEffects == Spec => []AsksResolveFirst
<1>1. IInv /\ OrderInv => AsksResolveFirst
  <2> SUFFICES ASSUME IInv, OrderInv PROVE AsksResolveFirst
    OBVIOUS
  <2> QED
    BY LaunchedCalls, ConstantsAssumption
    DEF IInv, OrderInv, AsksInOrder, AsksResolveFirst, InWindow, HumanPart,
        BeyondAsks, BeyondBarrier, Launched, Calls, TypeOK
<1> QED
  BY <1>1, OrderInvariance, PTL

\* An exclusive call keeps its place in the order of the calls, whatever runs
\* beside it, unless an exclusive call between bailed.
THEOREM BarrierIsKept == Spec => []BarrierHolds
<1>1. IInv /\ OrderInv => BarrierHolds
  <2> SUFFICES ASSUME IInv, OrderInv, NEW c \in Launched, InWindow(c),
                      NEW d \in 1..(c - 1)
               PROVE  Yields(d, c)
    BY DEF BarrierHolds, Yields
  <2>1. c \in Calls
    BY ConstantsAssumption DEF IInv, TypeOK, Launched, Calls
  <2> QED
    BY <2>1 DEF OrderInv, BarrierInOrder, InWindow, BeyondBarrier
<1> QED
  BY <1>1, OrderInvariance, PTL

(***************************************************************************)
(* Events in sequences.                                                    *)
(***************************************************************************)

In(s, E) == \E i \in DOMAIN s : s[i] \in E
Once(s, e) == \A i, j \in DOMAIN s : s[i] = e /\ s[j] = e => i = j

\* Where the elements of a concatenation are.
LEMMA Joined ==
  ASSUME NEW s \in Seq(Event), NEW t \in Seq(Event)
  PROVE  /\ s \o t \in Seq(Event)
         /\ \A i \in DOMAIN s : i \in DOMAIN (s \o t) /\ (s \o t)[i] = s[i]
         /\ \A j \in DOMAIN t : /\ Len(s) + j \in DOMAIN (s \o t)
                                /\ (s \o t)[Len(s) + j] = t[j]
         /\ \A i \in DOMAIN (s \o t) :
              \/ i \in DOMAIN s
              \/ i - Len(s) \in DOMAIN t /\ (s \o t)[i] = t[i - Len(s)]
OBVIOUS

LEMMA InJoined ==
  ASSUME NEW s \in Seq(Event), NEW t \in Seq(Event), NEW E
  PROVE  In(s \o t, E) <=> In(s, E) \/ In(t, E)
<1>1. ASSUME In(s \o t, E) PROVE In(s, E) \/ In(t, E)
  BY <1>1, Joined DEF In
<1>2. ASSUME In(s, E) PROVE In(s \o t, E)
  BY <1>2, Joined DEF In
<1>3. ASSUME In(t, E) PROVE In(s \o t, E)
  <2>1. PICK j \in DOMAIN t : t[j] \in E
    BY <1>3 DEF In
  <2>2. Len(s) + j \in DOMAIN (s \o t) /\ (s \o t)[Len(s) + j] = t[j]
    BY Joined
  <2> QED
    BY <2>1, <2>2 DEF In
<1> QED
  BY <1>1, <1>2, <1>3

LEMMA OnceJoined ==
  ASSUME NEW s \in Seq(Event), NEW t \in Seq(Event), NEW e,
         Once(s, e), Once(t, e), ~(In(s, {e}) /\ In(t, {e}))
  PROVE  Once(s \o t, e)
<1> SUFFICES ASSUME NEW i \in DOMAIN (s \o t), NEW j \in DOMAIN (s \o t),
                    (s \o t)[i] = e, (s \o t)[j] = e
             PROVE  i = j
  BY DEF Once
<1>1. /\ \/ i \in DOMAIN s /\ s[i] = e
         \/ i - Len(s) \in DOMAIN t /\ t[i - Len(s)] = e
      /\ \/ j \in DOMAIN s /\ s[j] = e
         \/ j - Len(s) \in DOMAIN t /\ t[j - Len(s)] = e
      /\ i \in Nat /\ j \in Nat /\ Len(s) \in Nat
  <2>1. i \in Nat /\ j \in Nat /\ Len(s) \in Nat
    OBVIOUS
  <2> QED
    BY <2>1, Joined
<1>2. CASE i \in DOMAIN s /\ j \in DOMAIN s /\ s[i] = e /\ s[j] = e
  BY <1>2 DEF Once
<1>3. CASE /\ i - Len(s) \in DOMAIN t /\ t[i - Len(s)] = e
           /\ j - Len(s) \in DOMAIN t /\ t[j - Len(s)] = e
  <2>1. i - Len(s) = j - Len(s)
    BY <1>3 DEF Once
  <2> QED
    BY <1>1, <2>1
<1> QED
  BY <1>1, <1>2, <1>3 DEF In

\* The first element and the rest.
LEMMA InSplit ==
  ASSUME NEW s \in Seq(Event), s # <<>>
  PROVE  /\ Head(s) \in Event /\ Tail(s) \in Seq(Event) /\ <<Head(s)>> \in Seq(Event)
         /\ s = <<Head(s)>> \o Tail(s)
         /\ \A E : In(<<Head(s)>>, E) <=> Head(s) \in E
<1>1. /\ Head(s) \in Event /\ Tail(s) \in Seq(Event) /\ <<Head(s)>> \in Seq(Event)
      /\ s = <<Head(s)>> \o Tail(s)
  OBVIOUS
<1> QED
  BY <1>1 DEF In

LEMMA InAppended ==
  ASSUME NEW s \in Seq(Event), NEW e \in Event
  PROVE  /\ Append(s, e) = s \o <<e>> /\ <<e>> \in Seq(Event)
         /\ \A E : In(<<e>>, E) <=> e \in E
         /\ \A f : Once(<<e>>, f)
<1>1. Append(s, e) = s \o <<e>> /\ <<e>> \in Seq(Event)
  OBVIOUS
<1> QED
  BY <1>1 DEF In, Once

LEMMA InAppend ==
  ASSUME NEW s \in Seq(Event), NEW e \in Event, NEW E
  PROVE  In(Append(s, e), E) <=> In(s, E) \/ e \in E
<1>1. Append(s, e) = s \o <<e>> /\ <<e>> \in Seq(Event)
  BY InAppended
<1>2. In(<<e>>, E) <=> e \in E
  BY InAppended
<1>3. In(s \o <<e>>, E) <=> In(s, E) \/ In(<<e>>, E)
  BY <1>1, InJoined
<1> QED
  BY <1>1, <1>2, <1>3

LEMMA InHead ==
  ASSUME NEW s \in Seq(Event), s # <<>>, NEW E
  PROVE  In(s, E) <=> Head(s) \in E \/ In(Tail(s), E)
<1>1. s = <<Head(s)>> \o Tail(s) /\ <<Head(s)>> \in Seq(Event)
      /\ Tail(s) \in Seq(Event)
  BY InSplit
<1>2. In(<<Head(s)>>, E) <=> Head(s) \in E
  BY InSplit
<1>3. In(<<Head(s)>> \o Tail(s), E) <=> In(<<Head(s)>>, E) \/ In(Tail(s), E)
  BY <1>1, InJoined
<1> QED
  BY <1>1, <1>2, <1>3

(***************************************************************************)
(* What a step adds to the log and the queue.                              *)
(***************************************************************************)

LaunchEvents == {"permission_requested", "permission_decided",
                 "tool_execution_started", "tool_execution_receipt",
                 "tool_result"}
Requested(c) == Ev("permission_requested", c)
Decided(c) == Ev("permission_decided", c)
Results(c) == {e \in Event : e.type = "tool_result" /\ e.call = c}

\* What a launch's step queues, and when: a request as it goes to the human,
\* a verdict with the policy's or the human's answer, a result as the call is
\* over, unless it bailed or failed.
Pushed(c, events) ==
  /\ events \in Seq(Event)
  /\ \A i \in DOMAIN events : events[i].type \in LaunchEvents /\ events[i].call = c
  /\ Once(events, Requested(c)) /\ Once(events, Decided(c))
  /\ In(events, {Requested(c)}) =>
       pc[c] = "commit" /\ pc'[c] = "pause" /\ verdict[c] = "ask"
  /\ In(events, {Decided(c)}) =>
       \/ pc[c] = "decide" /\ verdict'[c] # "ask" /\ pc'[c] \in {"ahead", "done"}
       \/ pc[c] = "pause" /\ pc'[c] \in {"barrier", "done"}
  /\ pc[c] = "pause" /\ pc'[c] # "pause" /\ answer[c] # "none" =>
       In(events, {Decided(c)})
  /\ pc[c] # "done" /\ pc'[c] = "done" =>
       \/ In(events, Results(c)) \/ launchError'
       \/ /\ pc[c] \notin {"ack", "acked", "handler"}
          /\ aborted \/ violated \/ (settled /\ ~committed)

LEMMA SomeEvents ==
  ASSUME NEW c \in Calls
  PROVE  /\ Requested(c) \in Event /\ Decided(c) \in Event
         /\ Requested(c) # Decided(c)
         /\ Decided(c).type = "permission_decided" /\ Decided(c).call = c
         /\ Requested(c).type = "permission_requested" /\ Requested(c).call = c
         /\ Requested(c) \notin Results(c) /\ Decided(c) \notin Results(c)
         /\ Ev("tool_result", c) \in Results(c)
         /\ \A e \in Results(c) : /\ e \in Event /\ e.type = "tool_result"
                                  /\ e.call = c
                                  /\ e # Requested(c) /\ e # Decided(c)
BY ConstantsAssumption
DEF Requested, Decided, Results, Ev, Event, EventTypes, Calls

\* The sequences a step can queue.
LEMMA Shapes ==
  ASSUME NEW c \in Calls
  PROVE  /\ \A e \in Event : /\ <<e>> \in Seq(Event)
                             /\ \A f : Once(<<e>>, f)
                             /\ \A E : In(<<e>>, E) <=> e \in E
                             /\ \A i \in DOMAIN <<e>> : <<e>>[i] = e
         /\ \A d \in Event, e \in Event :
              /\ <<d, e>> \in Seq(Event)
              /\ d # e => \A f : Once(<<d, e>>, f)
              /\ \A E : In(<<d, e>>, E) <=> d \in E \/ e \in E
              /\ \A i \in DOMAIN <<d, e>> : <<d, e>>[i] \in {d, e}
         /\ <<>> \in Seq(Event) /\ \A E : ~In(<<>>, E)
         /\ \A f : Once(<<>>, f)
<1>1. ASSUME NEW e \in Event
      PROVE  /\ <<e>> \in Seq(Event) /\ DOMAIN <<e>> = {1} /\ <<e>>[1] = e
  OBVIOUS
<1>2. ASSUME NEW d \in Event, NEW e \in Event
      PROVE  /\ <<d, e>> \in Seq(Event) /\ DOMAIN <<d, e>> = {1, 2}
             /\ <<d, e>>[1] = d /\ <<d, e>>[2] = e
  OBVIOUS
<1>3. <<>> \in Seq(Event) /\ DOMAIN <<>> = {}
  OBVIOUS
<1> QED
  BY <1>1, <1>2, <1>3 DEF In, Once

LEMMA ShortJoins ==
  ASSUME NEW d \in Event, NEW e \in Event
  PROVE  /\ <<>> \o <<>> = <<>> /\ <<d>> \o <<>> = <<d>>
         /\ <<>> \o <<e>> = <<e>> /\ <<d>> \o <<e>> = <<d, e>>
<1>1. ASSUME NEW s \in Seq(Event) PROVE s \o <<>> = s /\ <<>> \o s = s
  OBVIOUS
<1>2. <<>> \in Seq(Event) /\ <<d>> \in Seq(Event) /\ <<e>> \in Seq(Event)
  OBVIOUS
<1>3. <<d>> \o <<e>> = <<d, e>>
  <2>1. <<d, e>> \in Seq(Event) /\ Len(<<d, e>>) = 2
    OBVIOUS
  <2>2. /\ <<d>> \o <<e>> \in Seq(Event) /\ Len(<<d>> \o <<e>>) = 2
        /\ (<<d>> \o <<e>>)[1] = d /\ (<<d>> \o <<e>>)[2] = e
    BY <1>2
  <2>3. \A i \in 1..2 : (<<d>> \o <<e>>)[i] = <<d, e>>[i]
    BY <2>2
  <2> QED
    BY <2>1, <2>2, <2>3, SeqEqual
<1> QED
  BY <1>1, <1>2, <1>3

LEMMA LaunchQueues ==
  ASSUME TypeOK, NEW c \in Calls, LaunchStep(c) \/ Answer(c)
  PROVE  \E events : Pushed(c, events) /\ execQueue' = execQueue \o events
<1> DEFINE started == Ev("tool_execution_started", c)
           receipt == Ev("tool_execution_receipt", c)
           result == Ev("tool_result", c)
           requested == Requested(c)
           decided == Decided(c)
<1>1. /\ started \in Event /\ started.type = "tool_execution_started"
      /\ started.call = c /\ started # requested /\ started # decided
      /\ receipt \in Event /\ receipt.type = "tool_execution_receipt"
      /\ receipt.call = c /\ receipt # requested /\ receipt # decided
  BY ConstantsAssumption
  DEF Ev, Event, EventTypes, Requested, Decided, Calls
<1>2. /\ result \in Results(c)
      /\ \A b \in BOOLEAN : \E r \in Results(c) : Receipts(c, b) = <<receipt, r>>
  <2> SUFFICES ASSUME NEW b \in BOOLEAN
               PROVE  \E r \in Results(c) : Receipts(c, b) = <<receipt, r>>
    BY SomeEvents
  <2>1. [result EXCEPT !.endTurn = b] \in Results(c)
    BY ConstantsAssumption DEF Ev, Event, EventTypes, Results, Calls
  <2> QED
    BY <2>1 DEF Receipts
<1>3. /\ requested \in Event /\ decided \in Event
      /\ requested # decided
      /\ requested.type = "permission_requested" /\ requested.call = c
      /\ decided.type = "permission_decided" /\ decided.call = c
      /\ requested \notin Results(c) /\ decided \notin Results(c)
      /\ \A r \in Results(c) : /\ r \in Event /\ r.type = "tool_result"
                               /\ r.call = c /\ r # requested /\ r # decided
  BY SomeEvents
<1>4. execQueue \o <<>> = execQueue
  BY DEF TypeOK
<1>5. ASSUME NEW f \in {requested, decided}
       PROVE  /\ Once(<<>>, f) /\ Once(<<decided>>, f) /\ Once(<<result>>, f)
              /\ Once(<<decided, result>>, f)
              /\ <<>> \in Seq(Event) /\ <<decided>> \in Seq(Event)
              /\ <<result>> \in Seq(Event) /\ <<decided, result>> \in Seq(Event)
  <2>1. result \in Event /\ decided \in Event /\ decided # result
    BY <1>2, <1>3
  <2> HIDE DEF result, decided
  <2> QED
    BY <2>1, Shapes
<1>6. /\ pc' = [pc EXCEPT ![c] = pc'[c]] \/ ~Answer(c)
      /\ \A p : Step(c, p) => pc'[c] = p
      /\ LeaveWindow(c) => pc'[c] = "done" \/ c = Head(windowWaiters)
  BY DEF Answer, Step, LeaveWindow, TypeOK
<1> HIDE DEF started, receipt, result, requested, decided
<1>7. CASE Answer(c) \/ PassAskGate(c) \/ PassBarrier(c)
  <2>1. execQueue' = execQueue \o <<>>
    BY <1>4, <1>7 DEF Answer, PassAskGate, PassBarrier
  <2>2. Pushed(c, <<>>)
    BY <1>6, <1>7, Shapes DEF Answer, PassAskGate, PassBarrier, Pushed
  <2> QED
    BY <2>1, <2>2
<1>8. CASE Decide(c)
  <2>1. pc[c] = "decide"
    BY <1>8 DEF Decide
  <2>2. ASSUME NEW v, NEW d \in {<<>>, <<decided>>}, Judge(c, v, d),
               d = <<decided>> => v # "ask"
        PROVE  \E events : Pushed(c, events) /\ execQueue' = execQueue \o events
    <3>1. /\ verdict'[c] = v
          /\ pc'[c] = (IF violated \/ v = "deny" THEN "done" ELSE "ahead")
      BY <1>6, <2>2 DEF Judge, TypeOK
    <3> DEFINE answered == IF v = "deny" /\ ~violated THEN <<result>> ELSE <<>>
    <3>2. execQueue' = execQueue \o (d \o answered)
      BY <2>2 DEF Judge, Push, result
    <3>3. /\ d \in {<<>>, <<decided>>} /\ answered \in {<<>>, <<result>>}
          /\ v = "deny" /\ ~violated => answered = <<result>>
          /\ v = "ask" => d = <<>> /\ answered = <<>>
      BY <2>2
    <3> HIDE DEF answered
    <3>4. /\ <<>> \o <<>> = <<>> /\ <<decided>> \o <<>> = <<decided>>
          /\ <<>> \o <<result>> = <<result>>
          /\ <<decided>> \o <<result>> = <<decided, result>>
      BY <1>2, <1>3, ShortJoins
    <3>5. /\ d \o answered \in {<<>>, <<decided>>, <<result>>, <<decided, result>>}
          /\ v = "deny" /\ ~violated =>
               d \o answered \in {<<result>>, <<decided, result>>}
          /\ v = "ask" => d \o answered = <<>>
      BY <3>3, <3>4
    <3> DEFINE events == d \o answered
    <3>6. /\ events \in {<<>>, <<decided>>, <<result>>, <<decided, result>>}
          /\ v = "deny" /\ ~violated => events \in {<<result>>, <<decided, result>>}
          /\ v = "ask" => events = <<>>
      BY <3>5
    <3> HIDE DEF events
    <3>7. events \in Seq(Event) /\ Once(events, requested) /\ Once(events, decided)
      BY <1>5, <3>6
    <3>8. \A i \in DOMAIN events :
            events[i].type \in LaunchEvents /\ events[i].call = c
      BY <1>2, <1>3, <3>6, Shapes DEF LaunchEvents
    <3>9. /\ ~In(events, {requested})
          /\ In(events, {decided}) => v # "ask"
          /\ v = "deny" /\ ~violated => In(events, Results(c))
      BY <1>2, <1>3, <3>6, Shapes
    <3>10. Pushed(c, events)
      BY <2>1, <3>1, <3>7, <3>8, <3>9 DEF Pushed, requested, decided
    <3> QED
      BY <3>2, <3>10 DEF events
  <2>3. ASSUME NEW v, Judge(c, v, <<>>)
        PROVE  \E events : Pushed(c, events) /\ execQueue' = execQueue \o events
    <3>1. <<>> # <<decided>>
      OBVIOUS
    <3> QED
      BY <2>2, <2>3, <3>1
  <2>4. ASSUME NEW v \in {"allow", "deny"}, Judge(c, v, <<decided>>)
        PROVE  \E events : Pushed(c, events) /\ execQueue' = execQueue \o events
    BY <2>2, <2>4
  <2>5. CASE /\ ChainRejected(c) \/ aborted \/ (~PolicyChain /\ "hook" \in Faults)
             /\ Step(c, "done") /\ launchError' = (launchError \/ ~aborted)
             /\ UNCHANGED execQueue
    <3>1. pc'[c] = "done" /\ (launchError' \/ aborted)
      BY <1>6, <2>5
    <3>2. Pushed(c, <<>>)
      BY <2>1, <3>1, Shapes DEF Pushed
    <3> QED
      BY <1>4, <2>5, <3>2
  <2> QED
    BY <1>8, <2>3, <2>4, <2>5 DEF Decide, decided, Decided
<1>9. CASE PassCommitGate(c)
  <2>1. pc[c] = "commit" /\ settled
    BY <1>9 DEF PassCommitGate
  <2>2. CASE committed /\ verdict[c] = "ask"
    <3>1. pc'[c] = "pause" /\ execQueue' = execQueue \o <<requested>>
      BY <1>6, <1>9, <2>2 DEF PassCommitGate, Push, requested, Requested
    <3>2. Pushed(c, <<requested>>)
      <4>1. \A i \in DOMAIN <<requested>> :
              /\ <<requested>>[i].type \in LaunchEvents
              /\ <<requested>>[i].call = c
        BY <1>3 DEF LaunchEvents
      <4> QED
        BY <1>3, <2>1, <2>2, <3>1, <4>1, Shapes DEF Pushed, requested, decided
    <3> QED
      BY <3>1, <3>2
  <2>3. CASE ~(committed /\ verdict[c] = "ask")
    <3>1. /\ execQueue' = execQueue \o <<>>
          /\ \/ pc'[c] = "barrier"
             \/ pc'[c] = "done" /\ ~committed
      BY <1>4, <1>6, <1>9, <2>3 DEF PassCommitGate
    <3>2. Pushed(c, <<>>)
      BY <2>1, <3>1, Shapes DEF Pushed
    <3> QED
      BY <3>1, <3>2
  <2> QED
    BY <2>2, <2>3
<1>10. CASE PauseEnds(c) \/ PauseAborted(c)
  <2> DEFINE pausing(events) ==
        /\ events \in {<<>>, <<decided>>, <<decided, result>>}
        /\ execQueue' = execQueue \o events
        /\ pc[c] = "pause" /\ pc'[c] \in {"barrier", "done"}
        /\ answer[c] # "none" => events # <<>>
        /\ pc'[c] = "done" => aborted \/ events = <<decided, result>>
  <2>1. \E events : pausing(events)
    <3>1. CASE PauseEnds(c) /\ answer[c] = "allow"
      <4>1. pausing(<<decided>>)
        BY <1>6, <3>1 DEF PauseEnds, Push, decided, Decided
      <4> QED
        BY <4>1
    <3>2. CASE PauseEnds(c) /\ answer[c] # "allow"
      <4>1. pausing(<<decided, result>>)
        BY <1>6, <3>2 DEF PauseEnds, Push, decided, Decided, result
      <4> QED
        BY <4>1
    <3>3. CASE PauseAborted(c) /\ answer[c] = "none"
      <4>1. pausing(<<>>)
        BY <1>4, <1>6, <3>3 DEF PauseAborted, Push
      <4> QED
        BY <4>1
    <3>4. CASE PauseAborted(c) /\ answer[c] # "none"
      <4>1. pausing(<<decided>>)
        BY <1>6, <3>4 DEF PauseAborted, Push, decided, Decided
      <4> QED
        BY <4>1
    <3> QED
      BY <1>10, <3>1, <3>2, <3>3, <3>4
  <2>2. PICK events : pausing(events)
    BY <2>1
  <2>3. events \in Seq(Event) /\ Once(events, requested) /\ Once(events, decided)
    BY <1>5, <2>2
  <2>4. \A i \in DOMAIN events :
          events[i].type \in LaunchEvents /\ events[i].call = c
    BY <1>2, <1>3, <2>2, Shapes DEF LaunchEvents
  <2>5. /\ ~In(events, {requested})
        /\ events # <<>> => In(events, {decided})
        /\ events = <<decided, result>> => In(events, Results(c))
    BY <1>2, <1>3, <2>2, Shapes
  <2>6. Pushed(c, events)
    BY <2>2, <2>3, <2>4, <2>5 DEF Pushed, requested, decided
  <2> QED
    BY <2>2, <2>6
<1>11. CASE Start(c)
  <2>1. pc[c] = "start"
    BY <1>11 DEF Start
  <2>2. CASE aborted
    <3>1. execQueue' = execQueue \o <<>>
      BY <1>4, <1>11, <2>2 DEF Start
    <3>2. Pushed(c, <<>>)
      BY <2>1, <2>2, Shapes DEF Pushed
    <3> QED
      BY <3>1, <3>2
  <2>3. CASE ~aborted
    <3>1. pc'[c] = "ack" /\ execQueue' = execQueue \o <<started>>
      BY <1>6, <1>11, <2>3 DEF Start, Push, started
    <3>2. Pushed(c, <<started>>)
      <4>1. \A i \in DOMAIN <<started>> :
              <<started>>[i].type \in LaunchEvents /\ <<started>>[i].call = c
        BY <1>1 DEF LaunchEvents
      <4> QED
        BY <1>1, <2>1, <3>1, <4>1, Shapes DEF Pushed, requested, decided
    <3> QED
      BY <3>1, <3>2
  <2> QED
    BY <2>2, <2>3
<1>12. CASE Execute(c) \/ Finish(c)
  <2>1. pc[c] \in {"acked", "handler"}
    BY <1>12 DEF Execute, Finish
  <2>2. ASSUME NEW b \in BOOLEAN, Push(Receipts(c, b))
        PROVE  \E events : Pushed(c, events) /\ execQueue' = execQueue \o events
    <3>1. PICK r \in Results(c) : Receipts(c, b) = <<receipt, r>>
      BY <1>2
    <3>2. /\ r \in Event /\ r.type = "tool_result" /\ r.call = c
          /\ r # requested /\ r # decided /\ r # receipt
      BY <1>1, <1>3
    <3>3. \A i \in DOMAIN <<receipt, r>> :
            <<receipt, r>>[i].type \in LaunchEvents /\ <<receipt, r>>[i].call = c
      BY <1>1, <3>2, Shapes DEF LaunchEvents
    <3>4. /\ ~In(<<receipt, r>>, {requested}) /\ ~In(<<receipt, r>>, {decided})
          /\ In(<<receipt, r>>, Results(c))
          /\ Once(<<receipt, r>>, requested) /\ Once(<<receipt, r>>, decided)
          /\ <<receipt, r>> \in Seq(Event)
      BY <1>1, <3>2, Shapes
    <3>5. Pushed(c, <<receipt, r>>)
      BY <2>1, <3>3, <3>4 DEF Pushed, requested, decided
    <3> QED
      BY <2>2, <3>1, <3>5 DEF Push
  <2>3. CASE UNCHANGED execQueue
    <3>1. pc'[c] = "handler" \/ launchError' \/ \E b \in BOOLEAN : Push(Receipts(c, b))
      BY <1>6, <1>12 DEF Execute, Finish
    <3>2. CASE pc'[c] = "handler" \/ launchError'
      <4>1. Pushed(c, <<>>)
        BY <2>1, <3>2, Shapes DEF Pushed
      <4> QED
        BY <1>4, <2>3, <4>1
    <3> QED
      BY <2>2, <3>1, <3>2
  <2> QED
    BY <1>12, <2>2, <2>3 DEF Execute, Finish
<1> QED
  BY <1>7, <1>8, <1>9, <1>10, <1>11, <1>12 DEF LaunchStep

\* What the generator appends of its own are no launch's events; those come
\* from the queue, in its order.
KernelEvents == EventTypes \ LaunchEvents
OwnAppend ==
  /\ UNCHANGED execQueue
  /\ \/ UNCHANGED log
     \/ \E t \in KernelEvents, k \in 0..MaxCalls : log' = Append(log, Ev(t, k))

LEMMA OwnAppends ==
  ASSUME TypeOK, MainStep, ~Drain
  PROVE  OwnAppend
<1> USE ConstantsAssumption
    DEF OwnAppend, Emit, KernelEvents, EventTypes, LaunchEvents
<1>1. CASE TurnHead
  BY <1>1 DEF TurnHead
<1>2. CASE Admit
  BY <1>2 DEF Admit
<1>3. CASE OpenTurn
  BY <1>3 DEF OpenTurn
<1>4. CASE Compact
  BY <1>4 DEF Compact
<1>5. CASE BeginRequest
  BY <1>5 DEF BeginRequest
<1>6. CASE Restream
  BY <1>6 DEF Restream
<1>7. CASE Receive
  BY <1>7 DEF Receive
<1>8. CASE Delta
  BY <1>8 DEF Delta
<1>9. CASE CallEnd
  BY <1>9 DEF CallEnd, Looking, TypeOK
<1>10. CASE HoldStop
  BY <1>10 DEF HoldStop
<1>11. CASE Violation
  BY <1>11 DEF Violation
<1>12. CASE StreamEnd
  BY <1>12 DEF StreamEnd
<1>13. CASE StreamFail
  BY <1>13 DEF StreamFail
<1>14. CASE Abandoned
  BY <1>14 DEF Abandoned
<1>15. CASE Committed
  BY <1>15 DEF Committed
<1>16. CASE TakeOrSeal
  BY <1>16 DEF TakeOrSeal
<1>17. CASE TurnSettles
  BY <1>17 DEF TurnSettles
<1>18. CASE Terminal
  BY <1>18 DEF Terminal
<1> QED
  BY <1>1, <1>2, <1>3, <1>4, <1>5, <1>6, <1>7, <1>8, <1>9, <1>10, <1>11,
     <1>12, <1>13, <1>14, <1>15, <1>16, <1>17, <1>18 DEF MainStep

LEMMA MainFrame ==
  ASSUME MainStep
  PROVE  /\ UNCHANGED <<launchError, aborted, answer, verdict>>
         /\ ~CallEnd => UNCHANGED <<n, pc, seq, tool>>
         /\ ~BeginRequest /\ ~Abandoned => UNCHANGED turnStart
BY DEF MainStep, TurnHead, Admit, OpenTurn, Compact, BeginRequest, Restream,
       Receive, Drain, Delta, CallEnd, HoldStop, Violation, Abandon, StreamEnd,
       StreamFail, Abandoned, Committed, TakeOrSeal, TurnSettles, Terminal,
       Goto, EndRun

\* On its way or in the log.
Traced(E) == In(log, E) \/ In(execQueue, E)
OnceTraced(e) ==
  Once(log, e) /\ Once(execQueue, e) /\ ~(In(log, {e}) /\ In(execQueue, {e}))

LEMMA TraceMain ==
  ASSUME TypeOK, MainStep, NEW E, \A e \in E : e.type \in LaunchEvents
  PROVE  /\ Traced(E) <=> In(log', E) \/ In(execQueue', E)
         /\ In(log, E) => In(log', E)
<1>1. CASE Drain
  <2>1. /\ execQueue # <<>> /\ log' = Append(log, Head(execQueue))
        /\ execQueue' = Tail(execQueue)
    BY <1>1 DEF Drain, Emit
  <2>2. /\ Head(execQueue) \in Event /\ Tail(execQueue) \in Seq(Event)
        /\ In(execQueue, E) <=> Head(execQueue) \in E \/ In(Tail(execQueue), E)
    BY <2>1, InHead, InSplit DEF TypeOK
  <2>3. In(log', E) <=> In(log, E) \/ Head(execQueue) \in E
    BY <2>1, <2>2, InAppend DEF TypeOK
  <2> QED
    BY <2>1, <2>2, <2>3 DEF Traced
<1>2. CASE ~Drain /\ UNCHANGED log
  BY <1>2, OwnAppends DEF OwnAppend, Traced
<1>3. CASE ~Drain /\ ~UNCHANGED log
  <2>1. PICK t \in KernelEvents, k \in 0..MaxCalls : log' = Append(log, Ev(t, k))
    BY <1>3, OwnAppends DEF OwnAppend
  <2>2. Ev(t, k) \in Event /\ Ev(t, k) \notin E
    BY EvType DEF KernelEvents, Ev
  <2>3. In(log', E) <=> In(log, E)
    BY <2>1, <2>2, InAppend DEF TypeOK
  <2> QED
    BY <1>3, <2>3, OwnAppends DEF OwnAppend, Traced
<1> QED
  BY <1>1, <1>2, <1>3

LEMMA OnceMain ==
  ASSUME TypeOK, MainStep, NEW e \in Event, e.type \in LaunchEvents, OnceTraced(e)
  PROVE  OnceTraced(e)'
<1>1. CASE Drain
  <2> DEFINE h == Head(execQueue)
             q == Tail(execQueue)
  <2>1. /\ execQueue # <<>> /\ log' = Append(log, h) /\ execQueue' = q
    BY <1>1 DEF Drain, Emit
  <2>2. /\ h \in Event /\ q \in Seq(Event) /\ <<h>> \in Seq(Event)
        /\ execQueue = <<h>> \o q
        /\ In(execQueue, {e}) <=> h \in {e} \/ In(q, {e})
    BY <2>1, InSplit, InHead DEF TypeOK
  <2>3. /\ log' = log \o <<h>> /\ Once(<<h>>, e)
        /\ In(log', {e}) <=> In(log, {e}) \/ h \in {e}
        /\ In(<<h>>, {e}) <=> h \in {e}
    <3>1. In(log', {e}) <=> In(log, {e}) \/ h \in {e}
      BY <2>1, <2>2, InAppend DEF TypeOK
    <3> QED
      BY <2>1, <2>2, <3>1, InAppended DEF TypeOK
  <2> HIDE DEF h, q
  <2>4. /\ DOMAIN <<h>> = {1} /\ <<h>>[1] = h /\ Len(<<h>>) = 1
        /\ \A j \in DOMAIN q : 1 + j \in DOMAIN execQueue /\ execQueue[1 + j] = q[j]
        /\ 1 \in DOMAIN execQueue /\ execQueue[1] = h
    <3>1. DOMAIN <<h>> = {1} /\ <<h>>[1] = h /\ Len(<<h>>) = 1
      OBVIOUS
    <3> QED
      BY <2>2, <3>1, Joined
  <2>5. Once(q, e)
    <3> SUFFICES ASSUME NEW i \in DOMAIN q, NEW j \in DOMAIN q, q[i] = e, q[j] = e
                 PROVE  i = j
      BY DEF Once
    <3>1. 1 + i = 1 + j
      BY <2>4 DEF OnceTraced, Once
    <3> QED
      BY <2>2, <3>1
  <2>6. ~(h = e /\ In(q, {e}))
    <3> SUFFICES ASSUME h = e, NEW j \in DOMAIN q, q[j] = e PROVE FALSE
      BY DEF In
    <3>1. 1 + j = 1
      BY <2>4 DEF OnceTraced, Once
    <3> QED
      BY <2>2, <3>1
  <2>7. Once(log', e)
    BY <2>2, <2>3, OnceJoined DEF OnceTraced, TypeOK
  <2> QED
    BY <2>1, <2>2, <2>3, <2>5, <2>6, <2>7 DEF OnceTraced
<1>2. CASE ~Drain /\ UNCHANGED log
  BY <1>2, OwnAppends DEF OwnAppend, OnceTraced
<1>3. CASE ~Drain /\ ~UNCHANGED log
  <2>1. PICK t \in KernelEvents, k \in 0..MaxCalls : log' = Append(log, Ev(t, k))
    BY <1>3, OwnAppends DEF OwnAppend
  <2>2. Ev(t, k) \in Event /\ Ev(t, k) # e
    BY EvType DEF KernelEvents, Ev
  <2>3. /\ log' = log \o <<Ev(t, k)>> /\ <<Ev(t, k)>> \in Seq(Event)
        /\ Once(<<Ev(t, k)>>, e) /\ ~In(<<Ev(t, k)>>, {e})
    BY <2>1, <2>2, InAppended DEF TypeOK
  <2>4. Once(log', e) /\ (In(log', {e}) <=> In(log, {e}))
    BY <2>3, OnceJoined, InJoined DEF OnceTraced, TypeOK
  <2> QED
    BY <1>3, <2>4, OwnAppends DEF OwnAppend, OnceTraced
<1> QED
  BY <1>1, <1>2, <1>3

\* The queue holds what launched calls put there.
QueueOfCalls ==
  \A i \in DOMAIN execQueue :
    execQueue[i].type \in LaunchEvents /\ execQueue[i].call \in Launched

LEMMA QueueMain ==
  ASSUME TypeOK, CallsLaunched, QueueOfCalls, MainStep
  PROVE  QueueOfCalls'
<1>1. \A i \in DOMAIN execQueue' :
        \E j \in DOMAIN execQueue : execQueue'[i] = execQueue[j]
  <2>1. CASE Drain
    <3>1. execQueue' = Tail(execQueue) /\ execQueue # <<>>
      BY <2>1 DEF Drain
    <3>2. \A i \in DOMAIN Tail(execQueue) :
            i + 1 \in DOMAIN execQueue /\ Tail(execQueue)[i] = execQueue[i + 1]
      BY <3>1 DEF TypeOK
    <3> QED
      BY <3>1, <3>2
  <2>2. CASE ~Drain
    BY <2>2, OwnAppends DEF OwnAppend
  <2> QED
    BY <2>1, <2>2
<1>2. Launched \subseteq Launched'
  <2>1. n' = n \/ n' = n + 1
    BY MainFrame DEF CallEnd
  <2> QED
    BY <2>1 DEF Launched, TypeOK
<1> QED
  BY <1>1, <1>2 DEF QueueOfCalls

LEMMA QueueLaunch ==
  ASSUME TypeOK, CallsLaunched, WindowInv, QueueOfCalls,
         NEW c \in Calls, LaunchStep(c) \/ Answer(c)
  PROVE  QueueOfCalls'
<1>1. PICK events : Pushed(c, events) /\ execQueue' = execQueue \o events
  BY LaunchQueues
<1>2. c \in Launched /\ UNCHANGED n
  <2>1. pc[c] # "idle"
    BY DEF LaunchStep, Decide, PassAskGate, PassCommitGate, PauseEnds, Answer,
           PauseAborted, PassBarrier, Start, Execute, Finish
  <2> QED
    BY <2>1, LaunchedCalls, LaunchMoves
<1>3. execQueue \in Seq(Event) /\ events \in Seq(Event)
  BY <1>1 DEF Pushed, TypeOK
<1>4. \A i \in DOMAIN execQueue' :
        \/ \E j \in DOMAIN execQueue : execQueue'[i] = execQueue[j]
        \/ \E j \in DOMAIN events : execQueue'[i] = events[j]
  BY <1>1, <1>3, Concatenated
<1> QED
  BY <1>1, <1>2, <1>4 DEF QueueOfCalls, Pushed, Launched

LEMMA TraceLaunch ==
  ASSUME TypeOK, UNCHANGED log, NEW events \in Seq(Event),
         execQueue' = execQueue \o events, NEW E
  PROVE  /\ In(log', E) <=> In(log, E)
         /\ In(execQueue', E) <=> In(execQueue, E) \/ In(events, E)
BY InJoined DEF TypeOK

LEMMA OnceLaunch ==
  ASSUME TypeOK, UNCHANGED log, NEW events \in Seq(Event),
         execQueue' = execQueue \o events, NEW e, OnceTraced(e),
         Once(events, e), ~(Traced({e}) /\ In(events, {e}))
  PROVE  OnceTraced(e)'
<1>1. Once(execQueue', e)
  BY OnceJoined DEF OnceTraced, Traced, TypeOK
<1> QED
  BY <1>1, TraceLaunch DEF OnceTraced, Traced

(***************************************************************************)
(* Verdicts.                                                               *)
(***************************************************************************)

\* A human is asked about an ask only, once, at the pause; a verdict is
\* recorded once, by the policy on its decision or as the pause is over, and
\* an answer is never without its pause or its record.
VerdictOf(c) ==
  /\ OnceTraced(Requested(c)) /\ OnceTraced(Decided(c))
  /\ Traced({Requested(c)}) =>
       pc[c] \notin {"idle", "decide", "ahead", "commit"}
  /\ Traced({Decided(c)}) =>
       /\ pc[c] \notin {"idle", "decide"}
       /\ verdict[c] = "ask" => pc[c] \notin {"ahead", "commit", "pause"}
  /\ pc[c] = "pause" => verdict[c] = "ask"
  /\ answer[c] # "none" => pc[c] = "pause" \/ Traced({Decided(c)})
VerdictInv == \A c \in Calls : VerdictOf(c)

LEMMA VerdictMain ==
  ASSUME TypeOK, CallsLaunched, VerdictInv, MainStep
  PROVE  VerdictInv'
<1> SUFFICES ASSUME NEW c \in Calls PROVE VerdictOf(c)'
  BY DEF VerdictInv
<1>1. VerdictOf(c)
  BY DEF VerdictInv
<1>2. /\ Traced({Requested(c)})' <=> Traced({Requested(c)})
      /\ Traced({Decided(c)})' <=> Traced({Decided(c)})
  <2>1. \A e \in {Requested(c)} : e.type \in LaunchEvents
    BY SomeEvents DEF LaunchEvents
  <2>2. \A e \in {Decided(c)} : e.type \in LaunchEvents
    BY SomeEvents DEF LaunchEvents
  <2> QED
    BY <2>1, <2>2, TraceMain DEF Traced
<1>3. OnceTraced(Requested(c))' /\ OnceTraced(Decided(c))'
  BY <1>1, SomeEvents, OnceMain DEF VerdictOf, LaunchEvents
<1>4. UNCHANGED <<answer, verdict>>
  BY MainFrame
<1>5. CASE c \in Launched
  BY <1>1, <1>2, <1>3, <1>4, <1>5, MainStepCalls DEF VerdictOf
<1>6. CASE c \notin Launched
  <2>1. pc[c] = "idle" /\ pc'[c] \in Undecided
    BY <1>6, LaunchedCalls, MainLaunches
  <2> QED
    BY <1>1, <1>2, <1>3, <1>4, <2>1 DEF VerdictOf, Undecided
<1> QED
  BY <1>5, <1>6

LEMMA VerdictLaunch ==
  ASSUME TypeOK, CallsLaunched, WindowInv, VerdictInv,
         NEW c \in Calls, LaunchStep(c) \/ Answer(c)
  PROVE  VerdictInv'
<1> SUFFICES ASSUME NEW x \in Calls PROVE VerdictOf(x)'
  BY DEF VerdictInv
<1>1. PICK events : Pushed(c, events) /\ execQueue' = execQueue \o events
  BY LaunchQueues
<1>2. events \in Seq(Event) /\ UNCHANGED log
  BY <1>1, LaunchMoves DEF Pushed
<1>3. \A E : /\ In(log', E) <=> In(log, E)
             /\ In(execQueue', E) <=> In(execQueue, E) \/ In(events, E)
  BY <1>1, <1>2, TraceLaunch
<1>4. VerdictOf(x)
  BY DEF VerdictInv
<1>5. CASE x # c
  <2>1. ~In(events, {Requested(x)}) /\ ~In(events, {Decided(x)})
    <3>1. Requested(x).call # c /\ Decided(x).call # c
      BY <1>5, SomeEvents
    <3>2. \A i \in DOMAIN events : events[i].call = c
      BY <1>1 DEF Pushed
    <3> QED
      BY <3>1, <3>2 DEF In
  <2>2. Once(events, Requested(x)) /\ Once(events, Decided(x))
    BY <2>1 DEF In, Once
  <2>3. OnceTraced(Requested(x))' /\ OnceTraced(Decided(x))'
    BY <1>1, <1>2, <1>4, <2>1, <2>2, OnceLaunch DEF VerdictOf
  <2>4. verdict'[x] = verdict[x] /\ answer'[x] = answer[x]
        /\ (pc'[x] = pc[x] \/ (pc[x] = "window" /\ pc'[x] = "start"))
    <3>1. answer'[x] = answer[x]
      BY <1>5 DEF LaunchStep, Decide, PassAskGate, PassCommitGate, PauseEnds,
         Answer, PauseAborted, PassBarrier, Start, Execute, Finish, TypeOK
    <3> QED
      BY <1>5, <3>1, LaunchMoves
  <2> QED
    BY <1>3, <1>4, <2>1, <2>3, <2>4 DEF VerdictOf, Traced
<1>6. CASE x = c
  <2>1. /\ Once(events, Requested(c)) /\ Once(events, Decided(c))
        /\ In(events, {Requested(c)}) => pc[c] = "commit" /\ pc'[c] = "pause"
        /\ In(events, {Decided(c)}) =>
             \/ pc[c] = "decide" /\ verdict'[c] # "ask" /\ pc'[c] \in {"ahead", "done"}
             \/ pc[c] = "pause" /\ pc'[c] \in {"barrier", "done"}
        /\ pc[c] = "pause" /\ pc'[c] # "pause" /\ answer[c] # "none" =>
             In(events, {Decided(c)})
    BY <1>1 DEF Pushed
  <2>2. OnceTraced(Requested(c))' /\ OnceTraced(Decided(c))'
    BY <1>1, <1>2, <1>4, <1>6, <2>1, OnceLaunch DEF VerdictOf
  <2>3. /\ pc[c] # "idle" /\ pc[c] # "done"
        /\ pc'[c] = "pause" /\ pc[c] # "pause" => verdict[c] = "ask"
        /\ \/ answer'[c] = answer[c]
           \/ pc[c] = "pause" /\ pc'[c] = "pause"
    BY DEF LaunchStep, Decide, PassAskGate, PassCommitGate, PauseEnds, Answer,
           PauseAborted, PassBarrier, Start, Execute, Finish, Judge, Step,
           LeaveWindow, WindowInv, TypeOK
  <2>4. \/ pc'[c] = pc[c]
        \/ pc[c] = "decide" /\ pc'[c] \in {"ahead", "done"}
        \/ pc[c] = "ahead" /\ pc'[c] \in {"commit", "barrier", "done"}
        \/ pc[c] \in {"commit", "pause"} /\ pc'[c] \in {"pause", "barrier", "done"}
        \/ pc[c] = "barrier" /\ pc'[c] \in {"window", "start", "done"}
        \/ pc[c] \in BeyondBarrier /\ pc'[c] \in BeyondBarrier \cup {"done"}
    BY CallMoves
  <2>5. pc[c] # "decide" => verdict'[c] = verdict[c]
    BY LaunchMoves
  <2>6. /\ Traced({Requested(c)})' <=>
             Traced({Requested(c)}) \/ In(events, {Requested(c)})
        /\ Traced({Decided(c)})' <=>
             Traced({Decided(c)}) \/ In(events, {Decided(c)})
    BY <1>3 DEF Traced
  <2>7. pc'[c] # "idle" /\ (pc[c] # "decide" => pc'[c] # "decide")
    BY <2>3, <2>4 DEF BeyondBarrier
  <2>8. Traced({Requested(c)})' =>
          pc'[c] \notin {"idle", "decide", "ahead", "commit"}
    BY <1>4, <1>6, <2>1, <2>4, <2>6 DEF VerdictOf, BeyondBarrier
  <2>9. Traced({Decided(c)})' =>
          /\ pc'[c] \notin {"idle", "decide"}
          /\ verdict'[c] = "ask" => pc'[c] \notin {"ahead", "commit", "pause"}
    BY <1>4, <1>6, <2>1, <2>4, <2>5, <2>6 DEF VerdictOf, BeyondBarrier
  <2>10. pc'[c] = "pause" => verdict'[c] = "ask"
    BY <1>4, <1>6, <2>3, <2>4, <2>5 DEF VerdictOf, BeyondBarrier
  <2>11. answer'[c] # "none" => pc'[c] = "pause" \/ Traced({Decided(c)})'
    BY <1>4, <1>6, <2>1, <2>3, <2>4, <2>6 DEF VerdictOf
  <2> QED
    BY <1>6, <2>2, <2>8, <2>9, <2>10, <2>11 DEF VerdictOf
<1> QED
  BY <1>5, <1>6

LEMMA VerdictEnv ==
  ASSUME TypeOK, InFlight, VerdictInv,
         Persist \/ PersistFails \/ Abort \/ Over \/ UNCHANGED vars
  PROVE  VerdictInv'
BY EnvMoves DEF VerdictInv, VerdictOf, Traced, OnceTraced

(***************************************************************************)
(* Attempts.                                                               *)
(***************************************************************************)

\* Between turns and attempts, and on the way to the terminal.
SettledPoints == {"head", "siteA", "compact", "siteC", "request", "again",
                  "siteB", "end", "ended"}

\* An attempt starts at the end of the log and has logged nothing before it
\* streamed.
FreshAttempt ==
  /\ turnStart <= Len(log)
  /\ main = "again" \/ (main = "stream" /\ ~streamed) => Len(log) = turnStart
  /\ main = "recv" => streamed

\* Only this attempt's calls are active; without one there is nothing to
\* drain and nothing has failed; at a settled point there is nothing left.
Settlement ==
  /\ Active \subseteq Pending
  /\ Pending = {} /\ main \notin {"closed", "threw"} =>
       execQueue = <<>> /\ ~launchError
  /\ main \in SettledPoints => AllSettled /\ ~launchError

\* A stop of this attempt is its commit, and an abandoned attempt has none;
\* what started in an attempt is one of its calls.
StopsCommit ==
  /\ \A j \in DOMAIN log : j > turnStart /\ log[j].type = "stop" => committed
  /\ main = "abandon" => ~committed
  /\ main = "committed" => committed
  /\ settled => committed \/ violated
  /\ \A i \in DOMAIN log :
       i > turnStart /\ Started(log[i]) => seq[log[i].call] > turnStart

AttemptInv == FreshAttempt /\ Settlement /\ StopsCommit

\* A step that leaves the calls, the queue and the attempt alone.
LEMMA SameAttempt ==
  ASSUME UNCHANGED <<n, pc, seq, turnStart, execQueue>>
  PROVE  /\ Active' = Active /\ Pending' = Pending
         /\ AllSettled' <=> AllSettled
BY DEF Active, Pending, AllSettled, Launched

\* An attempt that starts with nothing active starts with nothing pending.
LEMMA NewAttempt ==
  ASSUME TypeOK, CallsLaunched, Gated, AllSettled, UNCHANGED <<n, pc, seq, execQueue>>,
         turnStart' = Len(log'), Len(log) <= Len(log'), Len(log') \in Nat
  PROVE  Pending' = {} /\ Active' = {} /\ AllSettled' /\ execQueue' = <<>>
<1>1. \A c \in Launched : c \in Calls /\ seq[c] <= Len(log) /\ seq[c] \in Nat
  BY ConstantsAssumption DEF Gated, Launched, Calls, TypeOK
<1>2. Len(log) \in Nat
  BY DEF TypeOK
<1>3. Pending' = {}
  BY <1>1, <1>2 DEF Pending, Launched
<1>4. Active' = {}
  BY DEF Active, AllSettled, Launched
<1> QED
  BY <1>3, <1>4 DEF AllSettled

\* The log only grows, by one event at its end.
LEMMA MainLog ==
  ASSUME TypeOK, MainStep
  PROVE  /\ log' \in Seq(Event) /\ Len(log) \in Nat /\ Len(log') \in Nat
         /\ Len(log) <= Len(log')
         /\ \A i \in DOMAIN log : i \in DOMAIN log' /\ log'[i] = log[i]
         /\ \/ UNCHANGED log
            \/ \E e \in Event :
                 /\ log' = Append(log, e) /\ Len(log') = Len(log) + 1
                 /\ log'[Len(log) + 1] = e
                 /\ DOMAIN log' = DOMAIN log \cup {Len(log) + 1}
<1>1. log \in Seq(Event) /\ Len(log) \in Nat
  BY DEF TypeOK
<1>2. UNCHANGED log \/ \E e \in Event : log' = Append(log, e)
  BY MainStepAppends, EvType DEF MainAppends, Drain, Emit, TypeOK
<1>3. CASE UNCHANGED log
  BY <1>1, <1>3
<1>4. ASSUME NEW e \in Event, log' = Append(log, e)
      PROVE  /\ log' \in Seq(Event) /\ Len(log') = Len(log) + 1
             /\ log'[Len(log) + 1] = e
             /\ DOMAIN log' = DOMAIN log \cup {Len(log) + 1}
             /\ \A i \in DOMAIN log : i \in DOMAIN log' /\ log'[i] = log[i]
  BY <1>1, <1>4, Appended
<1>5. CASE \E e \in Event : log' = Append(log, e)
  <2>1. PICK e \in Event : log' = Append(log, e)
    BY <1>5
  <2>2. Len(log') = Len(log) + 1 /\ Len(log') \in Nat /\ Len(log) <= Len(log')
    BY <1>1, <1>4, <2>1
  <2> QED
    BY <1>1, <1>4, <2>1, <2>2
<1> QED
  BY <1>2, <1>3, <1>5

LEMMA FreshMain ==
  ASSUME TypeOK, FreshAttempt, MainStep
  PROVE  FreshAttempt'
<1> USE DEF FreshAttempt, At, Goto, EndRun, Abandon, Looking, Emit
<1>1. /\ Len(log) \in Nat /\ Len(log') \in Nat /\ Len(log) <= Len(log')
      /\ turnStart \in Nat
  BY MainLog DEF TypeOK
<1>2. ~BeginRequest /\ ~Abandoned => UNCHANGED turnStart
  BY MainFrame
<1>3. CASE TurnHead \/ Admit \/ OpenTurn \/ Compact \/ Committed \/ TakeOrSeal
           \/ TurnSettles \/ Terminal
  <2>1. main' \notin {"again", "stream", "recv"} /\ ~BeginRequest /\ ~Abandoned
    BY <1>3 DEF TurnHead, Admit, OpenTurn, Compact, Committed, TakeOrSeal,
       TurnSettles, Terminal, BeginRequest, Abandoned
  <2> QED
    BY <1>1, <1>2, <2>1
<1>4. CASE BeginRequest
  BY <1>1, <1>4 DEF BeginRequest
<1>5. CASE Restream
  BY <1>1, <1>5 DEF Restream
<1>6. CASE Receive
  BY <1>1, <1>6 DEF Receive
<1>7. CASE Drain
  BY <1>1, <1>7 DEF Drain
<1>8. CASE Delta
  <2>1. UNCHANGED <<turnStart, streamed>> /\ main' = "stream" /\ main = "recv"
    BY <1>8 DEF Delta
  <2> QED
    BY <1>1, <2>1
<1>9. CASE CallEnd
  BY <1>1, <1>9 DEF CallEnd
<1>10. CASE HoldStop
  BY <1>1, <1>10 DEF HoldStop
<1>11. CASE Violation
  BY <1>1, <1>11 DEF Violation
<1>12. CASE StreamEnd
  <2>1. UNCHANGED turnStart /\ main' \in {"abandon", "committed"}
    BY <1>12 DEF StreamEnd
  <2> QED
    BY <1>1, <2>1
<1>13. CASE StreamFail
  BY <1>1, <1>13 DEF StreamFail
<1>14. CASE Abandoned
  <2>1. \/ main' \in {"threw", "head", "end"} /\ UNCHANGED turnStart
        \/ turnStart' = Len(log') /\ main' = "again"
    BY <1>14 DEF Abandoned
  <2>2. "again" # "recv"
    OBVIOUS
  <2> QED
    BY <1>1, <2>1
<1> QED
  BY <1>3, <1>4, <1>5, <1>6, <1>7, <1>8, <1>9, <1>10, <1>11, <1>12, <1>13,
     <1>14 DEF MainStep

LEMMA SettleMain ==
  ASSUME TypeOK, CallsLaunched, Gated, FreshAttempt, Settlement, MainStep
  PROVE  Settlement'
<1> USE DEF Settlement, At, Goto, EndRun, Abandon, Looking, SettledPoints
<1>1. UNCHANGED launchError
  BY MainFrame
<1>2. ASSUME UNCHANGED <<n, pc, seq, turnStart, execQueue>>,
             main' \in SettledPoints => AllSettled /\ ~launchError,
             main' \notin {"closed", "threw"} => main \notin {"closed", "threw"}
      PROVE  Settlement'
  BY <1>1, <1>2, SameAttempt
<1>3. CASE TurnHead \/ Admit \/ OpenTurn \/ Compact \/ Restream \/ TakeOrSeal
           \/ Terminal
  <2>1. main \in SettledPoints /\ UNCHANGED <<n, pc, seq, turnStart, execQueue>>
    BY <1>3 DEF TurnHead, Admit, OpenTurn, Compact, Restream, TakeOrSeal, Terminal
  <2> QED
    BY <1>2, <2>1
<1>4. CASE Receive \/ Delta \/ HoldStop \/ Violation \/ StreamEnd
  <2>1. /\ UNCHANGED <<n, pc, seq, turnStart, execQueue>>
        /\ main \in {"stream", "recv"} /\ main' \notin SettledPoints
    BY <1>4 DEF Receive, Delta, HoldStop, Violation, StreamEnd
  <2> QED
    BY <1>2, <2>1
<1>5. CASE BeginRequest
  <2>1. /\ main \in {"siteC", "request"} /\ UNCHANGED <<n, pc, seq, log, execQueue>>
        /\ \/ turnStart' = Len(log) /\ main' = "stream"
           \/ UNCHANGED turnStart /\ main' = "end"
    BY <1>5 DEF BeginRequest
  <2>2. CASE turnStart' = Len(log) /\ main' = "stream"
    <3>1. Len(log) \in Nat
      BY DEF TypeOK
    <3>2. Pending' = {} /\ Active' = {} /\ execQueue' = <<>>
      BY <2>1, <2>2, <3>1, NewAttempt
    <3> QED
      BY <1>1, <2>1, <2>2, <3>2
  <2>3. CASE UNCHANGED turnStart /\ main' = "end"
    BY <1>2, <2>1, <2>3
  <2> QED
    BY <2>1, <2>2, <2>3
<1>6. CASE Drain
  <2>1. /\ UNCHANGED <<n, pc, seq, turnStart, main>>
        /\ main \notin SettledPoints /\ execQueue # <<>>
    BY <1>6 DEF Drain
  <2>2. Active' = Active /\ Pending' = Pending
    BY <2>1 DEF Active, Pending, Launched
  <2> QED
    BY <1>1, <2>1, <2>2
<1>7. CASE CallEnd
  <2>1. /\ n' = n + 1 /\ pc' = [pc EXCEPT ![n + 1] = "decide"]
        /\ seq' = [seq EXCEPT ![n + 1] = Len(log) + 1]
        /\ UNCHANGED turnStart /\ main' = "stream" /\ n + 1 \in Calls
    <3>1. n + 1 \in Calls
      BY <1>7, ConstantsAssumption DEF CallEnd, Calls, TypeOK
    <3> QED
      BY <1>7, <3>1 DEF CallEnd
  <2>2. /\ Launched' = Launched \cup {n + 1} /\ n + 1 \notin Launched
        /\ \A c \in Launched : pc'[c] = pc[c] /\ seq'[c] = seq[c]
        /\ seq'[n + 1] = Len(log) + 1
    BY <2>1, LaunchedCalls DEF Launched, TypeOK
  <2>3. n + 1 \in Pending'
    BY <2>1, <2>2 DEF Pending, FreshAttempt, TypeOK
  <2>4. Active' \subseteq Pending'
    BY <2>1, <2>2, <2>3 DEF Active, Pending
  <2> QED
    BY <2>1, <2>3, <2>4
<1>8. CASE StreamFail
  <2>1. /\ UNCHANGED <<n, pc, seq, turnStart, execQueue>> /\ main = "stream"
        /\ main' = "abandon" \/ (main' = "again" /\ ~streamed)
    BY <1>8 DEF StreamFail
  <2>2. main' = "again" => Pending = {}
    <3> SUFFICES ASSUME main' = "again", NEW c \in Pending PROVE FALSE
      OBVIOUS
    <3>1. c \in Calls /\ seq[c] <= Len(log) /\ seq[c] > turnStart
      BY ConstantsAssumption DEF Pending, Gated, Launched, Calls, TypeOK
    <3> QED
      BY <2>1, <3>1 DEF FreshAttempt, TypeOK
  <2>3. main' = "again" => AllSettled /\ ~launchError
    BY <2>1, <2>2 DEF AllSettled
  <2> QED
    BY <1>2, <2>1, <2>3
<1>9. CASE Abandoned
  <2>1. /\ main = "abandon" /\ AllSettled /\ UNCHANGED <<n, pc, seq, execQueue>>
        /\ \/ main' = "threw" /\ UNCHANGED turnStart
           \/ ~launchError /\ main' \in {"head", "end"} /\ UNCHANGED turnStart
           \/ ~launchError /\ main' = "again" /\ turnStart' = Len(log')
    BY <1>9 DEF Abandoned
  <2>2. CASE UNCHANGED turnStart
    BY <1>2, <2>1, <2>2
  <2>3. CASE ~launchError /\ main' = "again" /\ turnStart' = Len(log')
    BY <1>1, <2>1, <2>3, NewAttempt, MainLog
  <2> QED
    BY <2>1, <2>2, <2>3
<1>10. CASE Committed
  <2>1. /\ main = "committed" /\ UNCHANGED <<n, pc, seq, turnStart, execQueue>>
        /\ main' = "drain" \/ Pending = {}
    BY <1>10 DEF Committed
  <2>2. Pending = {} => AllSettled /\ ~launchError
    BY <2>1 DEF AllSettled
  <2> QED
    BY <1>2, <2>1, <2>2
<1>11. CASE TurnSettles
  <2>1. /\ AllSettled /\ UNCHANGED <<n, pc, seq, turnStart, execQueue>>
        /\ main = "drain" /\ main' = (IF launchError THEN "threw" ELSE "head")
    BY <1>11 DEF TurnSettles
  <2> QED
    BY <1>2, <2>1
<1> QED
  BY <1>3, <1>4, <1>5, <1>6, <1>7, <1>8, <1>9, <1>10, <1>11 DEF MainStep

LEMMA StopsFlags ==
  ASSUME TypeOK, Gated, QueueOfCalls, StopsCommit, MainStep
  PROVE  /\ main' = "abandon" => ~committed'
         /\ main' = "committed" => committed'
         /\ settled' => committed' \/ violated'
         /\ \/ committed'
            \/ turnStart' = Len(log')
            \/ /\ UNCHANGED <<committed, turnStart>>
               /\ \A e : log' = Append(log, e) => log' = log \/ e.type # "stop"
<1> USE DEF StopsCommit, At, Goto, EndRun, Abandon, Looking
<1>1. \A t \in EventTypes, k \in 0..MaxCalls : \A e :
        Append(log, e) = Append(log, Ev(t, k)) => e.type = t
  <2>1. \A d, e : Append(log, d) = Append(log, e) => d = e
    BY DEF TypeOK
  <2> QED
    BY <2>1 DEF Ev
<1>2. CASE Drain
  <2>1. /\ execQueue # <<>> /\ log' = Append(log, Head(execQueue))
        /\ UNCHANGED <<main, committed, settled, violated, turnStart>>
    BY <1>2 DEF Drain, Emit
  <2>2. Head(execQueue).type # "stop"
    <3>1. Head(execQueue) = execQueue[1] /\ 1 \in DOMAIN execQueue
      BY <2>1 DEF TypeOK
    <3> QED
      BY <3>1 DEF QueueOfCalls, LaunchEvents
  <2>3. \A e : Append(log, e) = Append(log, Head(execQueue)) => e = Head(execQueue)
    BY DEF TypeOK
  <2> QED
    BY <2>1, <2>2, <2>3
<1>3. CASE BeginRequest
  BY <1>3 DEF BeginRequest
<1>4. CASE Abandoned
  <2>1. \/ main' = "again" /\ turnStart' = Len(log') /\ settled' = FALSE
        \/ /\ main' \in {"threw", "head", "end"}
           /\ UNCHANGED <<turnStart, committed, settled, violated>>
           /\ log' = log \/ log' = Append(log, Ev("model_output_abandoned", 0))
    BY <1>4 DEF Abandoned, Emit
  <2>2. \A e : Append(log, e) = Append(log, Ev("model_output_abandoned", 0)) =>
          e.type # "stop"
    BY <1>1, ConstantsAssumption DEF EventTypes
  <2> QED
    BY <2>1, <2>2
<1>5. CASE StreamEnd
  <2>1. main = "stream" /\ ~committed
    BY <1>5 DEF StreamEnd, Gated
  <2>2. \/ main' = "committed" /\ committed'
        \/ /\ UNCHANGED <<log, committed, turnStart>>
           /\ main' = "abandon" /\ violated'
    BY <1>5 DEF StreamEnd
  <2>3. \A e : log' = Append(log, e) => log' # log
    BY DEF TypeOK
  <2> QED
    BY <2>1, <2>2
<1>6. CASE Violation \/ StreamFail
  <2>1. main \in {"stream", "recv"} /\ ~committed
    BY <1>6 DEF Violation, StreamFail, Gated
  <2>2. /\ UNCHANGED <<log, committed, turnStart>> /\ main' # "committed"
        /\ violated' \/ UNCHANGED <<settled, violated>>
    BY <1>6 DEF Violation, StreamFail
  <2> QED
    BY <2>1, <2>2
<1>7. CASE Committed
  BY <1>7 DEF Committed
<1>8. CASE Admit \/ Compact \/ Delta \/ CallEnd \/ TakeOrSeal \/ Terminal
  <2>1. /\ UNCHANGED <<committed, settled, violated, turnStart>>
        /\ main' \notin {"abandon", "committed"}
    BY <1>8 DEF Admit, Compact, Delta, CallEnd, TakeOrSeal, Terminal
  <2>2. \/ UNCHANGED log
        \/ \E t \in EventTypes \ {"stop"}, k \in 0..MaxCalls :
             log' = Append(log, Ev(t, k))
    <3>1. CASE Admit \/ TakeOrSeal
      BY <1>8, <3>1, ConstantsAssumption DEF Admit, TakeOrSeal, Emit, EventTypes
    <3>2. CASE Compact
      BY <3>2, ConstantsAssumption DEF Compact, Emit, EventTypes
    <3>3. CASE Delta
      BY <3>3, ConstantsAssumption DEF Delta, Emit, EventTypes
    <3>4. CASE CallEnd
      <4>1. n + 1 \in 0..MaxCalls
        BY <3>4, ConstantsAssumption DEF CallEnd, TypeOK
      <4> QED
        BY <3>4, <4>1 DEF CallEnd, Emit, EventTypes
    <3>5. CASE Terminal
      BY <3>5, ConstantsAssumption DEF Terminal, Emit, EventTypes
    <3> QED
      BY <1>8, <3>1, <3>2, <3>3, <3>4, <3>5
  <2>3. \A e : log' = Append(log, e) => log' = log \/ e.type # "stop"
    BY <1>1, <2>2
  <2> QED
    BY <2>1, <2>3
<1>9. CASE TurnHead \/ OpenTurn \/ Restream \/ Receive \/ HoldStop \/ TurnSettles
  <2>1. /\ UNCHANGED <<log, committed, settled, violated, turnStart>>
        /\ main' \notin {"abandon", "committed"}
    BY <1>9 DEF TurnHead, OpenTurn, Restream, Receive, HoldStop, TurnSettles
  <2> QED
    BY <2>1
<1> QED
  BY <1>2, <1>3, <1>4, <1>5, <1>6, <1>7, <1>8, <1>9 DEF MainStep

LEMMA StopsMain ==
  ASSUME TypeOK, CallsLaunched, InFlight, Gated, QueueOfCalls, AttemptInv, MainStep
  PROVE  StopsCommit'
<1> USE MainLog
<1>1. ASSUME NEW j \in DOMAIN log', j > turnStart', log'[j].type = "stop"
      PROVE  committed'
  <2> SUFFICES ASSUME ~committed' PROVE FALSE
    OBVIOUS
  <2>1. CASE turnStart' = Len(log')
    BY <1>1, <2>1
  <2>2. CASE /\ UNCHANGED <<committed, turnStart>>
             /\ \A e : log' = Append(log, e) => log' = log \/ e.type # "stop"
    <3>1. j \in DOMAIN log /\ log[j] = log'[j]
      BY <1>1, <2>2
    <3> QED
      BY <1>1, <2>2, <3>1 DEF AttemptInv, StopsCommit
  <2> QED
    BY <2>1, <2>2, StopsFlags DEF AttemptInv
<1>2. ASSUME NEW i \in DOMAIN log', i > turnStart', Started(log'[i])
      PROVE  seq'[log'[i].call] > turnStart'
  <2>1. turnStart' = turnStart \/ turnStart' = Len(log')
    BY MainFrame DEF BeginRequest, Abandoned
  <2>2. turnStart' = turnStart
    BY <1>2, <2>1
  <2>3. CASE i \in DOMAIN log
    <3>1. log'[i] = log[i] /\ seq[log[i].call] > turnStart
      BY <1>2, <2>2, <2>3 DEF AttemptInv, StopsCommit
    <3>2. PICK c \in Calls : log[i].call = c /\ pc[c] \notin {"idle", "decide"}
      BY <1>2, <2>3, <3>1 DEF Gated, Announced, Started
    <3>3. seq'[c] = seq[c]
      BY <3>2, LaunchedCalls, MainStepCalls
    <3> QED
      BY <2>2, <3>1, <3>2, <3>3
  <2>4. CASE i \notin DOMAIN log
    <3>1. CASE Drain
      <4>1. /\ log' = Append(log, Head(execQueue)) /\ execQueue # <<>>
            /\ UNCHANGED seq
        BY <3>1 DEF Drain, Emit
      <4>2. Head(execQueue) = execQueue[1] /\ 1 \in DOMAIN execQueue
        BY <4>1 DEF TypeOK
      <4>3. log'[i] = execQueue[1]
        BY <2>4, <4>1, <4>2, Appended DEF TypeOK
      <4>4. log'[i].call \in Calls /\ pc[log'[i].call] = "ack"
        BY <1>2, <4>2, <4>3 DEF InFlight, AwaitsAck
      <4>5. log'[i].call \in Active
        BY <4>4, LaunchedCalls DEF Active
      <4> QED
        BY <2>2, <4>1, <4>5 DEF AttemptInv, Settlement, Pending
    <3>2. CASE ~Drain
      <4>1. PICK t \in KernelEvents, k \in 0..MaxCalls : log' = Append(log, Ev(t, k))
        BY <2>4, <3>2, OwnAppends DEF OwnAppend
      <4>2. log'[i] = Ev(t, k)
        BY <2>4, <4>1, EvType, Appended DEF KernelEvents, TypeOK
      <4> QED
        BY <1>2, <4>2 DEF Started, Ev, KernelEvents, LaunchEvents
    <3> QED
      BY <3>1, <3>2
  <2> QED
    BY <2>3, <2>4
<1> QED
  BY <1>1, <1>2, StopsFlags DEF AttemptInv, StopsCommit

LEMMA AttemptLaunch ==
  ASSUME TypeOK, CallsLaunched, WindowInv, AttemptInv,
         NEW c \in Calls, LaunchStep(c) \/ Answer(c)
  PROVE  AttemptInv'
<1>1. UNCHANGED <<log, n, seq, main, committed, turnStart, streamed, settled, violated>>
  BY DEF LaunchStep, Decide, PassAskGate, PassCommitGate, Answer, PauseEnds,
         PauseAborted, PassBarrier, Start, Execute, Finish
<1>2. c \in Active
  <2>1. pc[c] \notin {"idle", "done"}
    BY DEF LaunchStep, Decide, PassAskGate, PassCommitGate, PauseEnds, Answer,
           PauseAborted, PassBarrier, Start, Execute, Finish
  <2> QED
    BY <2>1, LaunchedCalls DEF Active
<1>3. Active' \subseteq Active
  <2>1. \A d \in Calls : pc[d] = "done" => pc'[d] = "done"
    BY LaunchMoves, CallMoves DEF BeyondBarrier
  <2>2. Launched \subseteq Calls /\ Launched' = Launched
    BY <1>1, ConstantsAssumption DEF Launched, Calls, TypeOK
  <2> QED
    BY <2>1, <2>2 DEF Active
<1>4. Pending' = Pending /\ c \in Pending
  BY <1>1, <1>2 DEF AttemptInv, Settlement, Pending, Launched
<1>5. main \notin SettledPoints
  BY <1>2 DEF AttemptInv, Settlement, AllSettled
<1>6. Settlement'
  BY <1>1, <1>3, <1>4, <1>5 DEF AttemptInv, Settlement
<1>7. FreshAttempt' /\ StopsCommit'
  BY <1>1 DEF AttemptInv, FreshAttempt, StopsCommit, Started
<1> QED
  BY <1>6, <1>7 DEF AttemptInv

LEMMA AttemptEnv ==
  ASSUME TypeOK, CallsLaunched, InFlight, AttemptInv,
         Persist \/ PersistFails \/ Abort \/ Over \/ UNCHANGED vars
  PROVE  AttemptInv'
<1>1. /\ UNCHANGED <<log, n, seq, committed, turnStart, streamed, settled, violated,
                     execQueue, launchError>>
      /\ main' \in {main, "closed"}
  BY DEF Persist, PersistFails, Abort, Over, vars
<1>2. Active' = Active
  <2>1. \A d \in Calls : pc[d] = "done" <=> pc'[d] = "done"
    BY EnvMoves
  <2>2. Launched \subseteq Calls /\ Launched' = Launched
    BY <1>1, ConstantsAssumption DEF Launched, Calls, TypeOK
  <2> QED
    BY <2>1, <2>2 DEF Active
<1>3. Pending' = Pending
  BY <1>1 DEF Pending, Launched
<1> QED
  BY <1>1, <1>2, <1>3
  DEF AttemptInv, FreshAttempt, Settlement, StopsCommit, AllSettled, Started,
      SettledPoints

(***************************************************************************)
(* Drafts, terminals and executions.                                       *)
(***************************************************************************)

DraftTypes == {"delta", "tool_call_end"}
EnderTypes == {"stop", "model_output_abandoned"}
DraftPoints == {"stream", "recv", "abandon", "threw", "closed"}

\* Model output that nothing has settled yet is this attempt's, and the
\* generator is still with it.
Unsettled(i) ==
  /\ log[i].type \in DraftTypes
  /\ \A j \in DOMAIN log : j > i => log[j].type \notin EnderTypes
DraftInv ==
  \A i \in DOMAIN log : Unsettled(i) => i > turnStart /\ main \in DraftPoints

\* A terminal is the log's last event and the generator does nothing more.
TerminalLast ==
  \A i \in DOMAIN log :
    log[i].type = "terminal" => i = Len(log) /\ main \in {"ended", "closed"}

\* A call that started is on its way to its result or has it, unless the
\* launch failed.
ExecInv ==
  \A c \in Calls : StartedOf(c) # {} =>
    /\ pc[c] \in {"ack", "acked", "handler", "done"}
    /\ pc[c] = "done" => Traced(Results(c)) \/ launchError

\* Which step appends what.
LEMMA WhoAppends ==
  ASSUME TypeOK, MainStep, log' # log
  PROVE  \E e \in Event :
           /\ log' = Append(log, e)
           /\ \/ Drain /\ execQueue # <<>> /\ e = execQueue[1]
                 /\ UNCHANGED main
              \/ Terminal /\ e.type = "terminal" /\ main' = "ended"
              \/ StreamEnd /\ e.type = "stop" /\ main' = "committed"
              \/ Abandoned /\ e.type = "model_output_abandoned"
              \/ (Delta \/ CallEnd) /\ e.type \in DraftTypes
              \/ /\ Admit \/ Compact \/ TakeOrSeal
                 /\ e.type \in {"user_input", "summarized"}
<1> USE DEF Emit, DraftTypes
<1>0. \A t \in EventTypes, k \in 0..MaxCalls : Ev(t, k) \in Event /\ Ev(t, k).type = t
  BY EvType DEF Ev
<1>1. CASE Drain
  BY <1>1 DEF Drain, TypeOK
<1>2. CASE Terminal
  BY <1>0, <1>2, ConstantsAssumption DEF Terminal, Goto, EventTypes
<1>3. CASE StreamEnd
  BY <1>0, <1>3, ConstantsAssumption DEF StreamEnd, Goto, EventTypes
<1>4. CASE Abandoned
  BY <1>0, <1>4, ConstantsAssumption DEF Abandoned, EventTypes
<1>5. CASE Delta
  BY <1>0, <1>5, ConstantsAssumption DEF Delta, EventTypes
<1>6. CASE CallEnd
  <2>1. n + 1 \in 0..MaxCalls
    BY <1>6, ConstantsAssumption DEF CallEnd, TypeOK
  <2>2. log' = Append(log, Ev("tool_call_end", n + 1)) /\ "tool_call_end" \in EventTypes
    BY <1>6 DEF CallEnd, EventTypes
  <2> QED
    BY <1>0, <1>6, <2>1, <2>2
<1>7. CASE Admit \/ TakeOrSeal
  BY <1>0, <1>7, ConstantsAssumption DEF Admit, TakeOrSeal, EventTypes
<1>8. CASE Compact
  BY <1>0, <1>8, ConstantsAssumption DEF Compact, EventTypes
<1>9. CASE TurnHead \/ OpenTurn \/ BeginRequest \/ Restream \/ Receive \/ HoldStop
           \/ Violation \/ StreamFail \/ Committed \/ TurnSettles
  BY <1>9 DEF TurnHead, OpenTurn, BeginRequest, Restream, Receive, HoldStop,
     Violation, StreamFail, Committed, TurnSettles
<1> QED
  BY <1>1, <1>2, <1>3, <1>4, <1>5, <1>6, <1>7, <1>8, <1>9 DEF MainStep

\* An abandoned attempt has started nothing that needed its commit.
LEMMA NothingUnsafe ==
  ASSUME TypeOK, Gated, SpeculationIsSafe, AttemptInv, main = "abandon"
  PROVE  ~UnsafeStartedInDraft
<1> SUFFICES ASSUME NEW i \in DOMAIN log, i > turnStart, Started(log[i]),
                    ~PrecommitSafe(log[i].call)
             PROVE  FALSE
  BY DEF UnsafeStartedInDraft, Started
<1>1. PICK j \in 1..(i - 1) : log[j].type = "stop" /\ seq[log[i].call] < j
  BY DEF SpeculationIsSafe, CommittedBefore, Started
<1>2. seq[log[i].call] > turnStart /\ j \in DOMAIN log
  BY DEF AttemptInv, StopsCommit, TypeOK
<1>3. log[i].call \in Calls
  BY DEF Started, Gated, Announced
<1>4. seq[log[i].call] \in Nat /\ turnStart \in Nat /\ j \in Nat
  BY <1>3 DEF TypeOK
<1>5. j > turnStart
  BY <1>1, <1>2, <1>4
<1> QED
  BY <1>1, <1>2, <1>5 DEF AttemptInv, StopsCommit

LEMMA DraftMain ==
  ASSUME TypeOK, Gated, SpeculationIsSafe, QueueOfCalls, AttemptInv, DraftInv,
         MainStep
  PROVE  DraftInv'
<1> USE DEF At, Goto, EndRun, Abandon, Looking
<1>1. ASSUME log' = log, main' \in DraftPoints, turnStart' = turnStart
      PROVE  DraftInv'
  BY <1>1 DEF DraftInv, Unsettled
<1>2. ASSUME main \notin DraftPoints \/ Len(log) <= turnStart,
             log' = log \/ \E e \in Event :
               log' = Append(log, e) /\ e.type \notin DraftTypes
      PROVE  DraftInv'
  <2>1. \A i \in DOMAIN log : ~Unsettled(i)
    BY <1>2 DEF DraftInv, TypeOK
  <2>2. CASE log' = log
    BY <2>1, <2>2 DEF DraftInv, Unsettled
  <2>3. ASSUME NEW e \in Event, log' = Append(log, e), e.type \notin DraftTypes
        PROVE  DraftInv'
    <3>1. /\ DOMAIN log' = DOMAIN log \cup {Len(log) + 1}
          /\ \A i \in DOMAIN log : log'[i] = log[i]
          /\ log'[Len(log) + 1] = e
      BY <2>3, Appended DEF TypeOK
    <3>2. \A i \in DOMAIN log' : ~Unsettled(i)'
      BY <2>1, <2>3, <3>1 DEF Unsettled
    <3> QED
      BY <3>2 DEF DraftInv
  <2> QED
    BY <1>2, <2>2, <2>3
<1>3. ASSUME NEW e \in Event, log' = Append(log, e), main' \in DraftPoints,
             turnStart' = turnStart
      PROVE  DraftInv'
  <2>1. /\ DOMAIN log' = DOMAIN log \cup {Len(log) + 1}
        /\ \A i \in DOMAIN log : log'[i] = log[i]
        /\ Len(log) + 1 > turnStart
    BY <1>3, Appended DEF TypeOK, AttemptInv, FreshAttempt
  <2>2. \A i \in DOMAIN log : Unsettled(i)' => Unsettled(i)
    BY <2>1 DEF Unsettled
  <2> QED
    BY <1>3, <2>1, <2>2 DEF DraftInv
<1>4. ASSUME NEW e \in Event, log' = Append(log, e), e.type \in EnderTypes
      PROVE  DraftInv'
  <2>1. /\ DOMAIN log' = DOMAIN log \cup {Len(log) + 1}
        /\ \A i \in DOMAIN log : i \in Nat /\ i < Len(log) + 1
        /\ log'[Len(log) + 1] = e
    BY <1>4, Appended DEF TypeOK
  <2>2. \A i \in DOMAIN log' : ~Unsettled(i)'
    BY <1>4, <2>1 DEF Unsettled, EnderTypes, DraftTypes
  <2> QED
    BY <2>2 DEF DraftInv
<1>5. CASE TurnHead \/ OpenTurn \/ BeginRequest \/ Restream \/ Committed
           \/ TurnSettles
  <2>1. main \notin DraftPoints /\ UNCHANGED log
    BY <1>5 DEF TurnHead, OpenTurn, BeginRequest, Restream, Committed,
       TurnSettles, DraftPoints
  <2> QED
    BY <1>2, <2>1
<1>6. CASE Admit \/ Compact \/ TakeOrSeal \/ Terminal
  <2>1. main \notin DraftPoints
    BY <1>6 DEF Admit, Compact, TakeOrSeal, Terminal, DraftPoints
  <2>2. log' = log \/ \E e \in Event :
          log' = Append(log, e) /\ e.type \notin DraftTypes
    <3>1. ~Drain /\ ~StreamEnd /\ ~Abandoned /\ ~Delta /\ ~CallEnd
      BY <1>6 DEF Admit, Compact, TakeOrSeal, Terminal, Drain, StreamEnd,
         Abandoned, Delta, CallEnd
    <3>2. {"user_input", "summarized", "terminal"} \cap DraftTypes = {}
      BY DEF DraftTypes
    <3> QED
      BY <3>1, <3>2, WhoAppends
  <2> QED
    BY <1>2, <2>1, <2>2
<1>7. CASE Receive \/ HoldStop \/ Violation
  <2>1. UNCHANGED <<log, turnStart>> /\ main' \in DraftPoints
    BY <1>7 DEF Receive, HoldStop, Violation, DraftPoints
  <2> QED
    BY <1>1, <2>1
<1>8. CASE Delta \/ CallEnd
  <2>1. UNCHANGED turnStart /\ main' \in DraftPoints
    BY <1>8 DEF Delta, CallEnd, DraftPoints
  <2> QED
    BY <1>1, <1>3, <2>1, MainLog
<1>9. CASE Drain
  <2>1. log' = Append(log, execQueue[1]) /\ 1 \in DOMAIN execQueue
        /\ execQueue[1] \in Event /\ UNCHANGED <<main, turnStart>>
    BY <1>9 DEF Drain, Emit, TypeOK
  <2>2. execQueue[1].type \notin DraftTypes
    BY <2>1 DEF QueueOfCalls, LaunchEvents, DraftTypes
  <2> QED
    BY <1>2, <1>3, <2>1, <2>2
<1>10. CASE StreamEnd
  <2>1. UNCHANGED turnStart /\ (UNCHANGED log => main' \in DraftPoints)
    <3>1. Append(log, Ev("stop", 0)) # log
      BY DEF TypeOK
    <3> QED
      BY <1>10, <3>1 DEF StreamEnd, DraftPoints, Emit
  <2>2. log' # log => \E e \in Event :
          log' = Append(log, e) /\ e.type = "stop"
    BY <1>10, EvType, ConstantsAssumption DEF StreamEnd, Emit, Ev, EventTypes
  <2> QED
    BY <1>1, <1>4, <2>1, <2>2 DEF EnderTypes
<1>11. CASE StreamFail
  <2>1. /\ UNCHANGED <<log, turnStart>> /\ main = "stream"
        /\ main' = "abandon" \/ (main' = "again" /\ ~streamed)
    BY <1>11 DEF StreamFail
  <2>2. ~streamed => Len(log) <= turnStart
    BY <2>1 DEF AttemptInv, FreshAttempt, TypeOK
  <2> QED
    BY <1>1, <1>2, <2>1, <2>2 DEF DraftPoints
<1>12. CASE Abandoned
  <2>1. CASE launchError
    BY <1>1, <1>12, <2>1 DEF Abandoned, DraftPoints
  <2>2. CASE ~launchError /\ DraftToVoid
    <3>1. log' = Append(log, Ev("model_output_abandoned", 0))
      BY <1>12, <2>2 DEF Abandoned, Emit
    <3> QED
      BY <1>4, <3>1, EvType, ConstantsAssumption DEF Ev, EventTypes, EnderTypes
  <2>3. CASE ~launchError /\ ~DraftToVoid
    <3>1. main = "abandon" /\ UNCHANGED log
      BY <1>12, <2>3 DEF Abandoned
    <3>2. Len(log) <= turnStart
      BY <2>3, <3>1, NothingUnsafe DEF DraftToVoid, TypeOK
    <3> QED
      BY <1>2, <3>1, <3>2
  <2> QED
    BY <2>1, <2>2, <2>3
<1> QED
  BY <1>5, <1>6, <1>7, <1>8, <1>9, <1>10, <1>11, <1>12 DEF MainStep

LEMMA TerminalMain ==
  ASSUME TypeOK, QueueOfCalls, TerminalLast, MainStep
  PROVE  TerminalLast'
<1>1. main \notin {"ended", "closed"}
  BY DEF MainStep, TurnHead, Admit, OpenTurn, Compact, BeginRequest, Restream,
     Receive, Drain, Delta, CallEnd, HoldStop, Violation, StreamEnd, StreamFail,
     Abandoned, Committed, TakeOrSeal, TurnSettles, Terminal, At, Looking
<1>2. \A i \in DOMAIN log : log[i].type # "terminal"
  BY <1>1 DEF TerminalLast
<1>3. CASE log' = log
  BY <1>2, <1>3 DEF TerminalLast
<1>4. CASE log' # log
  <2>1. PICK e \in Event :
          log' = Append(log, e) /\ (e.type = "terminal" => main' = "ended")
    <3>1. \A i \in DOMAIN execQueue : execQueue[i].type # "terminal"
      BY DEF QueueOfCalls, LaunchEvents
    <3>2. execQueue # <<>> => 1 \in DOMAIN execQueue
      BY DEF TypeOK
    <3> QED
      BY <1>4, <3>1, <3>2, WhoAppends DEF DraftTypes
  <2>2. /\ DOMAIN log' = DOMAIN log \cup {Len(log) + 1}
        /\ \A i \in DOMAIN log : log'[i] = log[i]
        /\ log'[Len(log) + 1] = e /\ Len(log') = Len(log) + 1
    BY <2>1, Appended DEF TypeOK
  <2> QED
    BY <1>2, <2>1, <2>2 DEF TerminalLast
<1> QED
  BY <1>3, <1>4

\* The log is as it was and the generator at most closed.
LEMMA DraftStays ==
  ASSUME DraftInv, TerminalLast, UNCHANGED <<log, turnStart>>,
         main' \in {main, "closed"}
  PROVE  DraftInv' /\ TerminalLast'
BY DEF DraftInv, Unsettled, TerminalLast, DraftPoints

LEMMA ExecMain ==
  ASSUME TypeOK, CallsLaunched, InFlight, ExecInv, MainStep
  PROVE  ExecInv'
<1> SUFFICES ASSUME NEW c \in Calls, StartedOf(c)' # {}
             PROVE  /\ pc'[c] \in {"ack", "acked", "handler", "done"}
                    /\ pc'[c] = "done" => Traced(Results(c))' \/ launchError'
  BY DEF ExecInv
<1>1. StartedOf(c) # {} \/ pc[c] = "ack"
  BY StartedOnlyAwaiting
<1>2. /\ pc[c] \in {"ack", "acked", "handler", "done"}
      /\ pc[c] = "done" => Traced(Results(c)) \/ launchError
  BY <1>1 DEF ExecInv
<1>3. pc'[c] = pc[c]
  BY <1>2, LaunchedCalls, MainStepCalls
<1>4. Traced(Results(c)) => Traced(Results(c))'
  <2>1. \A e \in Results(c) : e.type \in LaunchEvents
    BY DEF Results, LaunchEvents
  <2> QED
    BY <2>1, TraceMain DEF Traced
<1> QED
  BY <1>2, <1>3, <1>4, MainFrame

LEMMA ExecLaunch ==
  ASSUME TypeOK, WindowInv, ExecInv, NEW c \in Calls, LaunchStep(c) \/ Answer(c)
  PROVE  ExecInv'
<1> SUFFICES ASSUME NEW x \in Calls, StartedOf(x)' # {}
             PROVE  /\ pc'[x] \in {"ack", "acked", "handler", "done"}
                    /\ pc'[x] = "done" => Traced(Results(x))' \/ launchError'
  BY DEF ExecInv
<1>1. PICK events : Pushed(c, events) /\ execQueue' = execQueue \o events
  BY LaunchQueues
<1>2. events \in Seq(Event) /\ UNCHANGED log
  BY <1>1, LaunchMoves DEF Pushed
<1>3. Traced(Results(x))' <=> Traced(Results(x)) \/ In(events, Results(x))
  BY <1>1, <1>2, TraceLaunch DEF Traced
<1>4. /\ pc[x] \in {"ack", "acked", "handler", "done"}
      /\ pc[x] = "done" => Traced(Results(x)) \/ launchError
  BY <1>2 DEF ExecInv, StartedOf
<1>5. launchError => launchError'
  BY DEF LaunchStep, Decide, Judge, PassAskGate, PassCommitGate, Answer,
         PauseEnds, PauseAborted, PassBarrier, Start, Execute, Finish
<1>6. CASE x # c
  <2>1. pc'[x] = pc[x]
    BY <1>4, <1>6, LaunchMoves
  <2> QED
    BY <1>3, <1>4, <1>5, <2>1
<1>7. CASE x = c
  <2>1. pc[c] \in {"acked", "handler"} /\ pc'[c] \in {"handler", "done"}
    <3>1. \/ Execute(c) /\ pc[c] = "acked"
          \/ Finish(c) /\ pc[c] = "handler"
      BY <1>4, <1>7 DEF LaunchStep, Decide, PassAskGate, PassCommitGate, Answer,
         PauseEnds, PauseAborted, PassBarrier, Start, Execute, Finish
    <3>2. LeaveWindow(c) => pc'[c] \in {"handler", "done"}
      BY <3>1 DEF LeaveWindow, WindowInv, TypeOK
    <3> QED
      BY <3>1, <3>2 DEF Execute, Finish, Step, TypeOK
  <2>2. pc'[c] = "done" => In(events, Results(c)) \/ launchError'
    BY <1>1, <2>1 DEF Pushed
  <2> QED
    BY <1>3, <1>7, <2>1, <2>2
<1> QED
  BY <1>6, <1>7

LEMMA ExecEnv ==
  ASSUME TypeOK, InFlight, ExecInv,
         Persist \/ PersistFails \/ Abort \/ Over \/ UNCHANGED vars
  PROVE  ExecInv'
<1>1. UNCHANGED launchError
  BY DEF Persist, PersistFails, Abort, Over, vars
<1>2. /\ UNCHANGED <<log, execQueue>>
      /\ \A c \in Calls : pc'[c] = pc[c] \/ (pc[c] = "ack" /\ pc'[c] = "acked")
  BY EnvMoves
<1> QED
  BY <1>1, <1>2 DEF ExecInv, StartedOf, Traced

(***************************************************************************)
(* The invariant is inductive; the theorems.                               *)
(***************************************************************************)

SettleInv ==
  /\ QueueOfCalls /\ VerdictInv /\ AttemptInv
  /\ DraftInv /\ TerminalLast /\ ExecInv

LEMMA InitSettle == Init => SettleInv
<1> SUFFICES ASSUME Init PROVE SettleInv
  OBVIOUS
<1>1. /\ log = <<Ev("user_input", 0)>> /\ execQueue = <<>> /\ n = 0
      /\ main = "head" /\ turnStart = 1 /\ ~settled /\ ~launchError
      /\ \A c \in Calls : pc[c] = "idle" /\ answer[c] = "none"
  BY DEF Init
<1>2. /\ Len(log) = 1 /\ DOMAIN log = {1} /\ log[1] = Ev("user_input", 0)
      /\ DOMAIN execQueue = {}
  BY <1>1
<1>3. /\ Ev("user_input", 0).type = "user_input"
      /\ \A c, t : t # "user_input" => Ev("user_input", 0) # Ev(t, c)
  BY DEF Ev
<1>4. QueueOfCalls
  BY <1>2 DEF QueueOfCalls
<1>5. VerdictInv
  <2>1. \A c : ~Traced({Requested(c)}) /\ ~Traced({Decided(c)})
    BY <1>2, <1>3 DEF Traced, In, Requested, Decided
  <2>2. \A c : OnceTraced(Requested(c)) /\ OnceTraced(Decided(c))
    BY <1>2, <2>1 DEF OnceTraced, Once, Traced
  <2> QED
    BY <1>1, <2>1, <2>2 DEF VerdictInv, VerdictOf
<1>6. AttemptInv
  <2>1. Launched = {} /\ Active = {} /\ Pending = {} /\ AllSettled
    BY <1>1 DEF Launched, Active, Pending, AllSettled
  <2> QED
    BY <1>1, <1>2, <1>3, <2>1
    DEF AttemptInv, FreshAttempt, Settlement, StopsCommit, Started, SettledPoints
<1>7. DraftInv /\ TerminalLast /\ ExecInv
  BY <1>2, <1>3
  DEF DraftInv, Unsettled, DraftTypes, TerminalLast, ExecInv, StartedOf
<1> QED
  BY <1>4, <1>5, <1>6, <1>7 DEF SettleInv

LEMMA StepSettle == IInv /\ SettleInv /\ [Next]_vars => SettleInv'
<1> SUFFICES ASSUME IInv, SettleInv, [Next]_vars PROVE SettleInv'
  OBVIOUS
<1> USE DEF IInv, SettleInv
<1>1. CASE MainStep
  <2>1. AttemptInv'
    BY <1>1, FreshMain, SettleMain, StopsMain DEF AttemptInv
  <2> QED
    BY <1>1, <2>1, QueueMain, VerdictMain, DraftMain, TerminalMain, ExecMain
<1>2. ASSUME NEW c \in Calls, LaunchStep(c) \/ Answer(c) PROVE SettleInv'
  <2>1. UNCHANGED <<log, turnStart, main>>
    BY <1>2 DEF LaunchStep, Decide, PassAskGate, PassCommitGate, Answer, PauseEnds,
       PauseAborted, PassBarrier, Start, Execute, Finish
  <2> QED
    BY <1>2, <2>1, QueueLaunch, VerdictLaunch, AttemptLaunch, DraftStays, ExecLaunch
<1>3. CASE Persist \/ PersistFails \/ Abort \/ Over \/ UNCHANGED vars
  <2>1. /\ UNCHANGED <<log, turnStart, execQueue, n>>
        /\ main' \in {main, "closed"}
    BY <1>3 DEF Persist, PersistFails, Abort, Over, vars
  <2>2. QueueOfCalls'
    BY <2>1 DEF QueueOfCalls, Launched
  <2> QED
    BY <1>3, <2>1, <2>2, VerdictEnv, AttemptEnv, DraftStays, ExecEnv
<1> QED
  BY <1>1, <1>2, <1>3 DEF Next

LEMMA SettleInvariance == Spec => [](IInv /\ SettleInv)
BY InitSettle, StepSettle, Invariance, PTL DEF Spec

\* Once a turn is over everything that was on its way is in the log.
LEMMA QuiescentLog ==
  ASSUME IInv, SettleInv, Quiescent
  PROVE  /\ AllSettled /\ ~launchError
         /\ \A c \in Launched : c \in Calls /\ pc[c] = "done"
         /\ \A E : Traced(E) => In(log, E)
<1>1. AllSettled /\ ~launchError
  BY DEF Quiescent, SettleInv, AttemptInv, Settlement, SettledPoints
<1>2. \A c \in Launched : c \in Calls /\ pc[c] = "done"
  <2>1. Launched \subseteq Calls
    BY ConstantsAssumption DEF Launched, Calls, IInv, TypeOK
  <2> QED
    BY <1>1, <2>1 DEF AllSettled, Active
<1> QED
  BY <1>1, <1>2 DEF AllSettled, Traced, In

\* An event that is there at most once makes a set of at most one place.
LEMMA AtMostOne ==
  ASSUME NEW s \in Seq(Event), NEW e, Once(s, e)
  PROVE  Cardinality({i \in DOMAIN s : s[i] = e}) <= 1
<1> DEFINE S == {i \in DOMAIN s : s[i] = e}
<1>1. S = {} \/ \E i : S = {i}
  BY DEF Once
<1> HIDE DEF S
<1>2. Cardinality(S) <= 1
  <2>1. CASE S = {}
    <3>1. Cardinality(S) = 0
      BY <2>1, FS_EmptySet
    <3> QED
      BY <3>1
  <2>2. ASSUME NEW i, S = {i} PROVE Cardinality(S) <= 1
    <3>1. Cardinality(S) = 1
      BY <2>2, FS_Singleton
    <3> QED
      BY <3>1
  <2> QED
    BY <1>1, <2>1, <2>2
<1> QED
  BY <1>2 DEF S

\* A human's verdict is recorded once, though the answer and an abort can
\* arrive in the same instant, and nobody is asked twice about a call.
THEOREM OneVerdict == Spec => []VerdictsRecordedOnce
<1>1. IInv /\ SettleInv => VerdictsRecordedOnce
  <2> SUFFICES ASSUME IInv, SettleInv, NEW c \in Launched
               PROVE  LET decided == {i \in DOMAIN log : log[i] = Decided(c)}
                          asked == {i \in DOMAIN log : log[i] = Requested(c)}
                      IN /\ Cardinality(decided) <= 1 /\ Cardinality(asked) <= 1
                         /\ Quiescent /\ answer[c] # "none" => decided # {}
    BY DEF VerdictsRecordedOnce, Decided, Requested
  <2>1. c \in Calls /\ log \in Seq(Event)
    BY ConstantsAssumption DEF IInv, TypeOK, Launched, Calls
  <2>2. VerdictOf(c)
    BY <2>1 DEF SettleInv, VerdictInv
  <2>3. Once(log, Decided(c)) /\ Once(log, Requested(c))
    BY <2>2 DEF VerdictOf, OnceTraced
  <2>4. ASSUME Quiescent, answer[c] # "none"
        PROVE  \E i \in DOMAIN log : log[i] = Decided(c)
    <3>1. pc[c] = "done" /\ Traced({Decided(c)})
      BY <2>2, <2>4, QuiescentLog DEF VerdictOf
    <3>2. In(log, {Decided(c)})
      BY <2>4, <3>1, QuiescentLog
    <3> QED
      BY <3>2 DEF In
  <2> QED
    BY <2>1, <2>3, <2>4, AtMostOne
<1> QED
  BY <1>1, SettleInvariance, PTL

\* Nothing executes behind the back of a next turn, a retry or the terminal:
\* the launches are done, what started has its result in the log, and nothing
\* is written behind a terminal.
THEOREM NothingBehindTheBack == Spec => []ExecutionsSettled
<1>1. IInv /\ SettleInv => ExecutionsSettled
  <2> SUFFICES ASSUME IInv, SettleInv, Quiescent
               PROVE  /\ AllSettled
                      /\ \A c \in Launched : StartedOf(c) # {} =>
                           \E i \in DOMAIN log :
                             log[i].type = "tool_result" /\ log[i].call = c
                      /\ \A i \in DOMAIN log :
                           log[i].type = "terminal" => i = Len(log)
    BY DEF ExecutionsSettled
  <2>1. ASSUME NEW c \in Launched, StartedOf(c) # {}
        PROVE  \E i \in DOMAIN log :
                 log[i].type = "tool_result" /\ log[i].call = c
    <3>1. pc[c] = "done" /\ c \in Calls /\ ~launchError
      BY QuiescentLog
    <3>2. Traced(Results(c))
      BY <2>1, <3>1 DEF SettleInv, ExecInv
    <3>3. In(log, Results(c))
      BY <3>2, QuiescentLog
    <3> QED
      BY <3>3 DEF In, Results
  <2> QED
    BY <2>1, QuiescentLog DEF SettleInv, TerminalLast
<1> QED
  BY <1>1, SettleInvariance, PTL

\* Model output is followed by the stop that commits it or by the marker that
\* voids it before the next attempt, the next turn or the terminal: an
\* abandoned attempt always gets its marker, because nothing that needed its
\* commit can have started in it.
THEOREM DraftsAreSettled == Spec => []DraftsSettled
<1>1. IInv /\ SettleInv => DraftsSettled
  <2> SUFFICES ASSUME IInv, SettleInv, Quiescent, NEW i \in DOMAIN log,
                      log[i].type \in DraftTypes
               PROVE  \E j \in (i + 1)..Len(log) : log[j].type \in EnderTypes
    BY DEF DraftsSettled, DraftTypes, EnderTypes
  <2>1. main \notin DraftPoints
    BY DEF Quiescent, DraftPoints
  <2>2. ~Unsettled(i)
    BY <2>1 DEF SettleInv, DraftInv
  <2>3. PICK j \in DOMAIN log : j > i /\ log[j].type \in EnderTypes
    BY <2>2 DEF Unsettled
  <2>4. j \in (i + 1)..Len(log)
    BY <2>3 DEF IInv, TypeOK
  <2> QED
    BY <2>3, <2>4
<1> QED
  BY <1>1, SettleInvariance, PTL

(***************************************************************************)
(* Committed calls.                                                        *)
(***************************************************************************)

\* A call's completion is in the log where `seq' says.
SeqInv == \A c \in Launched : seq[c] \in DOMAIN log /\ log[seq[c]].type \in DraftTypes

\* Without a compactor a voided turn is never followed by another one: it ends
\* the run or is retried, and the retry re-arms the void signal.
VoidInv ==
  ~Compacts =>
    /\ main # "request" /\ outcome # "overflow"
    /\ violated => main \in {"abandon", "end", "ended", "threw", "closed"}

\* The first stop or void marker behind the call is a stop.
CommittedCall(c) ==
  \E i \in DOMAIN log :
    /\ i > seq[c] /\ log[i].type = "stop"
    /\ \A j \in DOMAIN log : j > seq[c] /\ log[j].type \in EnderTypes => i <= j

\* This attempt's calls are answered as they end, unless the turn was voided,
\* aborted or failed; an earlier attempt's committed calls have been answered.
AnswerInv ==
  /\ \A c \in Pending : pc[c] = "done" =>
       violated \/ aborted \/ launchError \/ Traced(Results(c))
  /\ ~Compacts => \A c \in Launched \ Pending :
       CommittedCall(c) => In(log, Results(c))

LEMMA VoidMain ==
  ASSUME VoidInv, MainStep
  PROVE  VoidInv'
<1> SUFFICES ASSUME ~Compacts
             PROVE  /\ main' # "request" /\ outcome' # "overflow"
                    /\ violated' => main' \in {"abandon", "end", "ended", "threw",
                                               "closed"}
  BY DEF VoidInv
<1>1. /\ main # "request" /\ outcome # "overflow"
      /\ violated => main \in {"abandon", "end", "ended", "threw", "closed"}
  BY DEF VoidInv
<1> USE DEF At, Goto, EndRun, Abandon, Looking
<1>2. CASE TurnHead \/ Admit \/ OpenTurn \/ Compact \/ BeginRequest \/ Restream
           \/ Receive \/ Drain
  BY <1>1, <1>2 DEF TurnHead, Admit, OpenTurn, Compact, BeginRequest, Restream,
     Receive, Drain
<1>3. CASE Delta \/ CallEnd \/ HoldStop \/ Violation
  BY <1>1, <1>3 DEF Delta, CallEnd, HoldStop, Violation
<1>4. CASE StreamEnd \/ StreamFail
  BY <1>1, <1>4 DEF StreamEnd, StreamFail, VoidFor
<1>5. CASE Abandoned
  BY <1>1, <1>5 DEF Abandoned
<1>6. CASE Committed \/ TakeOrSeal \/ TurnSettles \/ Terminal
  BY <1>1, <1>6 DEF Committed, TakeOrSeal, TurnSettles, Terminal, VoidFor
<1> QED
  BY <1>2, <1>3, <1>4, <1>5, <1>6 DEF MainStep

LEMMA VoidOthers ==
  ASSUME VoidInv, UNCHANGED <<outcome, violated>>, main' \in {main, "closed"}
  PROVE  VoidInv'
BY DEF VoidInv

LEMMA SeqMain ==
  ASSUME TypeOK, CallsLaunched, SeqInv, MainStep
  PROVE  SeqInv'
<1>1. \A i \in DOMAIN log : i \in DOMAIN log' /\ log'[i] = log[i]
  BY MainLog
<1>2. \A c \in Launched : seq'[c] = seq[c]
  BY MainStepCalls
<1>3. CASE CallEnd
  <2>1. /\ n' = n + 1 /\ seq' = [seq EXCEPT ![n + 1] = Len(log) + 1]
        /\ log' = Append(log, Ev("tool_call_end", n + 1))
        /\ n + 1 \in Calls
    BY <1>3, ConstantsAssumption DEF CallEnd, Emit, Calls, TypeOK
  <2>2. seq'[n + 1] \in DOMAIN log' /\ log'[seq'[n + 1]].type \in DraftTypes
    <3>1. seq'[n + 1] = Len(log) + 1
      BY <2>1 DEF TypeOK
    <3>2. Ev("tool_call_end", n + 1) \in Event
      BY <2>1, EvType DEF EventTypes, Calls, TypeOK
    <3> QED
      BY <2>1, <3>1, <3>2, Appended DEF Ev, DraftTypes, TypeOK
  <2> QED
    BY <1>1, <1>2, <2>1, <2>2 DEF SeqInv, Launched, TypeOK
<1>4. CASE ~CallEnd
  BY <1>1, <1>4, MainFrame DEF SeqInv, Launched
<1> QED
  BY <1>3, <1>4

\* An earlier attempt's call has its stop or its marker: what comes later does
\* not commit it.
LEMMA FirstEnderStays ==
  ASSUME TypeOK, CallsLaunched, SeqInv, DraftInv, MainStep,
         NEW c \in Launched \ Pending, CommittedCall(c)'
  PROVE  CommittedCall(c)
<1>1. c \in Calls /\ seq'[c] = seq[c] /\ seq[c] \in Nat /\ turnStart \in Nat
  BY MainStepCalls DEF TypeOK
<1>2. ~Unsettled(seq[c])
  BY <1>1 DEF DraftInv, SeqInv, Pending
<1>3. PICK j \in DOMAIN log : j > seq[c] /\ log[j].type \in EnderTypes
  BY <1>2 DEF Unsettled, SeqInv
<1>4. PICK i \in DOMAIN log' :
        /\ i > seq[c] /\ log'[i].type = "stop"
        /\ \A k \in DOMAIN log' : k > seq[c] /\ log'[k].type \in EnderTypes => i <= k
  BY <1>1 DEF CommittedCall
<1>5. \A k \in DOMAIN log : k \in DOMAIN log' /\ log'[k] = log[k]
  BY MainLog
<1>6. i <= j /\ i \in DOMAIN log
  <2>1. i <= j
    BY <1>3, <1>4, <1>5
  <2> QED
    BY <1>3, <1>4, <2>1, MainLog DEF TypeOK
<1> QED
  BY <1>4, <1>5, <1>6 DEF CommittedCall

LEMMA AnswerMain ==
  ASSUME IInv, SettleInv, VoidInv, SeqInv, AnswerInv, MainStep
  PROVE  AnswerInv'
<1> USE DEF IInv, SettleInv
<1>1. /\ \A c \in Launched : /\ c \in Calls /\ pc'[c] = pc[c] /\ seq'[c] = seq[c]
                             /\ seq[c] \in Nat
      /\ UNCHANGED <<launchError, aborted>>
      /\ turnStart \in Nat
  BY MainStepCalls, MainFrame DEF TypeOK
<1>2. \A c : /\ Traced(Results(c)) => Traced(Results(c))'
             /\ In(log, Results(c)) => In(log', Results(c))
  <2> SUFFICES ASSUME NEW c
               PROVE  /\ Traced(Results(c)) => Traced(Results(c))'
                      /\ In(log, Results(c)) => In(log', Results(c))
    OBVIOUS
  <2>1. \A e \in Results(c) : e.type \in LaunchEvents
    BY DEF Results, LaunchEvents
  <2> QED
    BY <2>1, TraceMain DEF Traced
<1>3. Launched' = Launched \/ (Launched' = Launched \cup {n + 1} /\ CallEnd)
  BY MainFrame DEF CallEnd, Launched, TypeOK
<1>4. CASE UNCHANGED turnStart
  <2>1. ASSUME NEW c \in Launched PROVE c \in Pending' <=> c \in Pending
    BY <1>1, <1>3, <1>4 DEF Pending
  <2>2. violated => violated' \/ Abandoned
    BY DEF MainStep, TurnHead, Admit, OpenTurn, Compact, BeginRequest, Restream,
       Receive, Drain, Delta, CallEnd, HoldStop, Violation, Abandon, StreamEnd,
       StreamFail, Committed, TakeOrSeal, TurnSettles, Terminal
  <2>3. CASE violated => violated'
    <3>1. CallEnd => pc'[n + 1] = "decide" /\ seq'[n + 1] > turnStart'
      <4> SUFFICES ASSUME CallEnd
                   PROVE  pc'[n + 1] = "decide" /\ seq'[n + 1] > turnStart'
        OBVIOUS
      <4>1. n + 1 \in Calls
        BY ConstantsAssumption DEF CallEnd, Calls, TypeOK
      <4> QED
        BY <1>4, <4>1 DEF CallEnd, TypeOK, AttemptInv, FreshAttempt
    <3>2. \A c \in Pending' : pc'[c] = "done" =>
            violated' \/ aborted' \/ launchError' \/ Traced(Results(c))'
      BY <1>1, <1>2, <1>3, <2>1, <2>3, <3>1 DEF AnswerInv, Pending
    <3>3. \A c \in Launched' \ Pending' : c \in Launched \ Pending
      BY <1>3, <2>1, <3>1 DEF Pending
    <3> QED
      BY <1>2, <3>2, <3>3, FirstEnderStays DEF AnswerInv
  <2>4. CASE Abandoned /\ violated /\ ~violated'
    <3>1. turnStart' = Len(log') /\ AllSettled /\ UNCHANGED <<n, pc, seq, execQueue>>
      BY <2>4 DEF Abandoned, Goto, EndRun
    <3>2. Pending' = {}
      BY <3>1, NewAttempt, MainLog
    <3>3. \A c \in Launched' \ Pending' : c \in Launched \ Pending
      BY <1>3, <2>1, <3>1, <3>2 DEF Pending, Launched
    <3> QED
      BY <1>2, <3>2, <3>3, FirstEnderStays DEF AnswerInv
  <2> QED
    BY <2>2, <2>3, <2>4
<1>5. CASE ~UNCHANGED turnStart
  <2>1. /\ AllSettled /\ turnStart' = Len(log') /\ UNCHANGED <<n, pc, seq, execQueue>>
        /\ \/ BeginRequest /\ UNCHANGED log /\ ~aborted
              /\ main \in {"siteC", "request"}
           \/ Abandoned /\ main = "abandon"
    <3>1. BeginRequest \/ Abandoned
      BY <1>5, MainFrame
    <3>2. CASE BeginRequest
      BY <1>5, <3>2
      DEF BeginRequest, At, AttemptInv, Settlement, SettledPoints, EndRun
    <3>3. CASE Abandoned
      BY <1>5, <3>3 DEF Abandoned, At
    <3> QED
      BY <3>1, <3>2, <3>3
  <2>2. Pending' = {} /\ Launched' = Launched
    BY <2>1, NewAttempt, MainLog DEF Launched
  <2>3. ASSUME ~Compacts, NEW c \in Pending, CommittedCall(c)'
        PROVE  In(log', Results(c))
    <3>0. c \in Launched /\ seq[c] > turnStart
      BY DEF Pending
    <3>1. CASE BeginRequest
      <4>1. ~violated /\ ~launchError /\ execQueue = <<>> /\ pc[c] = "done"
        BY <2>1, <2>3, <3>0, <3>1
        DEF VoidInv, AttemptInv, Settlement, SettledPoints, AllSettled, Active,
            BeginRequest, At
      <4>2. Traced(Results(c))
        BY <2>1, <3>1, <4>1 DEF AnswerInv, BeginRequest, Abandoned, At
      <4> QED
        BY <1>2, <4>1, <4>2 DEF Traced, In
    <3>2. CASE Abandoned
      <4>1. ~committed /\ main = "abandon"
        BY <2>1, <3>2 DEF AttemptInv, StopsCommit, Abandoned, At
      <4>2. PICK i \in DOMAIN log' : i > seq[c] /\ log'[i].type = "stop"
        BY <1>1, <2>3, <3>0 DEF CommittedCall
      <4>3. i \notin DOMAIN log
        BY <1>1, <3>0, <4>1, <4>2, MainLog DEF AttemptInv, StopsCommit, TypeOK
      <4>4. log' = Append(log, Ev("model_output_abandoned", 0))
        BY <3>2, <4>2, <4>3 DEF Abandoned, Emit
      <4>5. log'[i].type = "model_output_abandoned"
        BY <4>2, <4>3, <4>4, EvType, Appended, ConstantsAssumption
        DEF TypeOK, EventTypes, Ev
      <4> QED
        BY <4>2, <4>5
    <3> QED
      BY <2>1, <3>1, <3>2
  <2> QED
    BY <1>2, <2>2, <2>3, FirstEnderStays DEF AnswerInv
<1> QED
  BY <1>4, <1>5

LEMMA AnswerLaunch ==
  ASSUME IInv, SettleInv, AnswerInv, NEW c \in Calls, LaunchStep(c) \/ Answer(c)
  PROVE  AnswerInv'
<1> USE DEF IInv, SettleInv
<1>1. /\ UNCHANGED <<log, n, seq, turnStart, violated, aborted>>
      /\ launchError => launchError'
  <2>1. UNCHANGED <<log, n, seq, turnStart, violated, aborted>>
    BY DEF LaunchStep, Decide, PassAskGate, PassCommitGate, Answer,
           PauseEnds, PauseAborted, PassBarrier, Start, Execute, Finish
  <2>2. launchError => launchError'
    BY DEF LaunchStep, Decide, Judge, PassAskGate, PassCommitGate, Answer,
           PauseEnds, PauseAborted, PassBarrier, Start, Execute, Finish
  <2> QED
    BY <2>1, <2>2
<1>2. PICK events : Pushed(c, events) /\ execQueue' = execQueue \o events
  BY LaunchQueues
<1>3. \A x : Traced(Results(x))' <=> Traced(Results(x)) \/ In(events, Results(x))
  BY <1>1, <1>2, TraceLaunch DEF Traced, Pushed
<1>4. ASSUME NEW x \in Pending, pc'[x] = "done"
      PROVE  violated \/ aborted \/ launchError' \/ Traced(Results(x))'
  <2>1. CASE pc[x] = "done"
    BY <1>1, <1>3, <2>1 DEF AnswerInv
  <2>2. CASE pc[x] # "done"
    <3>1. x \in Calls
      BY ConstantsAssumption DEF Pending, Launched, Calls, TypeOK
    <3>2. x = c
      BY <1>4, <2>2, <3>1, LaunchMoves
    <3>3. In(events, Results(c)) \/ launchError' \/ aborted \/ violated
      BY <1>2, <1>4, <2>2, <3>2 DEF Pushed, AttemptInv, StopsCommit
    <3> QED
      BY <1>3, <3>2, <3>3
  <2> QED
    BY <2>1, <2>2
<1>5. Pending' = Pending /\ Launched' = Launched
  BY <1>1 DEF Pending, Launched
<1>6. \A x : CommittedCall(x)' <=> CommittedCall(x)
  BY <1>1 DEF CommittedCall
<1> QED
  BY <1>1, <1>4, <1>5, <1>6 DEF AnswerInv

LEMMA AnswerEnv ==
  ASSUME TypeOK, InFlight, AnswerInv,
         Persist \/ PersistFails \/ Abort \/ Over \/ UNCHANGED vars
  PROVE  AnswerInv'
<1>1. /\ UNCHANGED <<log, n, seq, turnStart, violated, launchError, execQueue>>
      /\ aborted => aborted'
  BY DEF Persist, PersistFails, Abort, Over, vars
<1>2. \A c \in Calls : pc'[c] = "done" => pc[c] = "done"
  BY EnvMoves
<1>3. Pending' = Pending /\ Launched' = Launched /\ Launched \subseteq Calls
  BY <1>1, ConstantsAssumption DEF Pending, Launched, Calls, TypeOK
<1> QED
  BY <1>1, <1>2, <1>3 DEF AnswerInv, CommittedCall, Traced, Pending

LEMMA AnswerInvariance ==
  Spec => [](IInv /\ SettleInv /\ VoidInv /\ SeqInv /\ AnswerInv)
<1> DEFINE Inv == VoidInv /\ SeqInv /\ AnswerInv
<1>1. Init => Inv
  <2> SUFFICES ASSUME Init PROVE Inv
    OBVIOUS
  <2>1. Launched = {} /\ Pending = {} /\ main = "head" /\ outcome = "none"
        /\ ~violated
    BY DEF Init, Launched, Pending
  <2> QED
    BY <2>1 DEF VoidInv, SeqInv, AnswerInv
<1>2. IInv /\ SettleInv /\ Inv /\ [Next]_vars => Inv'
  <2> SUFFICES ASSUME IInv, SettleInv, Inv, [Next]_vars PROVE Inv'
    OBVIOUS
  <2>1. CASE MainStep
    BY <2>1, VoidMain, SeqMain, AnswerMain DEF IInv
  <2>2. ASSUME NEW c \in Calls, LaunchStep(c) \/ Answer(c) PROVE Inv'
    <3>1. UNCHANGED <<log, n, seq, outcome, violated, main>>
      BY <2>2 DEF LaunchStep, Decide, PassAskGate, PassCommitGate, Answer,
         PauseEnds, PauseAborted, PassBarrier, Start, Execute, Finish
    <3>2. SeqInv'
      BY <3>1 DEF SeqInv, Launched
    <3> QED
      BY <2>2, <3>1, <3>2, VoidOthers, AnswerLaunch
  <2>3. CASE Persist \/ PersistFails \/ Abort \/ Over \/ UNCHANGED vars
    <3>1. UNCHANGED <<log, n, seq, outcome, violated>> /\ main' \in {main, "closed"}
      BY <2>3 DEF Persist, PersistFails, Abort, Over, vars
    <3>2. SeqInv'
      BY <3>1 DEF SeqInv, Launched
    <3> QED
      BY <2>3, <3>1, <3>2, VoidOthers, AnswerEnv DEF IInv
  <2> QED
    BY <2>1, <2>2, <2>3 DEF Next
<1> HIDE DEF Inv
<1>3. Spec => []Inv
  BY <1>1, <1>2, Invariance, SettleInvariance, PTL DEF Spec
<1> QED
  BY <1>3, SettleInvariance, PTL DEF Inv

\* A set of numbers that is not empty has a smallest element.
LEMMA FirstOf ==
  ASSUME NEW S \in SUBSET Nat, S # {}
  PROVE  \E m \in S : \A x \in S : m <= x
<1> DEFINE R == OpToRel(<, Nat)
<1>1. \A j \in S, i \in S : i < j => <<i, j>> \in R
  BY DEF OpToRel
<1>2. IsWellFoundedOn(R, Nat)
  BY NatLessThanWellFounded
<1> HIDE DEF R
<1>3. PICK m \in S : \A i \in S : ~(<<i, m>> \in R)
  BY <1>2, WFMin
<1>4. ASSUME NEW x \in S PROVE m <= x
  <2>1. ~(x < m)
    BY <1>1, <1>3
  <2> QED
    BY <2>1
<1> QED
  BY <1>4

\* Without a compactor no model request carries an unanswered call: every call
\* of a committed turn has its result before the next turn streams.  With one
\* the abandon of an overflow leaves the void signal set and the next turn's
\* calls bail on it.
THEOREM EveryCallAnswered == Spec => [](~Compacts => NextRequestAnswersCalls)
<1>1. IInv /\ SettleInv /\ AnswerInv => (~Compacts => NextRequestAnswersCalls)
  <2> SUFFICES ASSUME IInv, SettleInv, AnswerInv, ~Compacts, main = "stream",
                      NEW c \in Launched
               PROVE  LET stops == {i \in DOMAIN log :
                                      i > seq[c] /\ log[i].type \in EnderTypes}
                          first == CHOOSE i \in stops : \A j \in stops : i <= j
                      IN (stops # {} /\ log[first].type = "stop") =>
                           \E i \in DOMAIN log :
                             log[i].type = "tool_result" /\ log[i].call = c
    BY DEF NextRequestAnswersCalls, EnderTypes
  <2> DEFINE stops == {i \in DOMAIN log : i > seq[c] /\ log[i].type \in EnderTypes}
             first == CHOOSE i \in stops : \A j \in stops : i <= j
  <2>1. ASSUME stops # {}, log[first].type = "stop"
        PROVE  CommittedCall(c)
    <3>1. stops \in SUBSET Nat
      BY DEF IInv, TypeOK
    <3>2. first \in stops /\ \A j \in stops : first <= j
      <4> HIDE DEF stops
      <4> QED
        BY <2>1, <3>1, FirstOf
    <3> QED
      BY <2>1, <3>2 DEF CommittedCall
  <2>2. c \in Calls /\ seq[c] \in Nat /\ turnStart \in Nat
    BY ConstantsAssumption DEF IInv, TypeOK, Launched, Calls
  <2>3. CASE c \in Pending
    <3>1. ~committed
      BY DEF IInv, Gated
    <3>2. \A i \in DOMAIN log : i > seq[c] => log[i].type # "stop"
      BY <2>2, <2>3, <3>1
      DEF Pending, SettleInv, AttemptInv, StopsCommit, IInv, TypeOK
    <3> QED
      BY <2>1, <3>2 DEF CommittedCall
  <2>4. CASE c \notin Pending
    BY <2>1, <2>4 DEF AnswerInv, In, Results
  <2> QED
    BY <2>3, <2>4
<1> QED
  BY <1>1, AnswerInvariance, PTL

(***************************************************************************)
(* The loop implements the turn log.  The inductive invariant.             *)
(***************************************************************************)

\* The order in which the events of a call are written.
Rank(e) ==
  IF e.type = "permission_requested" THEN 1
  ELSE IF e.type = "permission_decided" THEN 2
  ELSE IF e.type = "tool_execution_started" THEN 3
  ELSE IF e.type = "tool_execution_receipt" THEN 4 ELSE 5

\* How far a launch's events have come.
Reach(c) ==
  IF pc[c] \in {"idle", "decide"} THEN 0
  ELSE IF pc[c] \in {"ahead", "commit"} THEN IF verdict[c] = "ask" THEN 0 ELSE 2
  ELSE IF pc[c] = "pause" THEN 1
  ELSE IF pc[c] \in {"barrier", "window", "start"} THEN 2
  ELSE IF pc[c] \in {"ack", "acked", "handler"} THEN 3 ELSE 5

\* The events of a call reach the queue, and the log, in this order.
Launches(e) == e.type \in LaunchEvents
LogOfCalls == \A i \in DOMAIN log : Launches(log[i]) => log[i].call \in Launched
WithinReach ==
  \A c \in Calls :
    /\ \A i \in DOMAIN log :
         Launches(log[i]) /\ log[i].call = c => Rank(log[i]) <= Reach(c)
    /\ \A j \in DOMAIN execQueue :
         execQueue[j].call = c => Rank(execQueue[j]) <= Reach(c)
LogFirst ==
  \A i \in DOMAIN log : \A j \in DOMAIN execQueue :
    Launches(log[i]) /\ log[i].call = execQueue[j].call =>
      Rank(log[i]) < Rank(execQueue[j])
QueueInOrder ==
  \A i, j \in DOMAIN execQueue :
    i < j /\ execQueue[i].call = execQueue[j].call =>
      Rank(execQueue[i]) < Rank(execQueue[j])
RankInv == LogOfCalls /\ WithinReach /\ LogFirst /\ QueueInOrder

\* Only a result carries a tag.
Untagged(s) ==
  \A i \in DOMAIN s : s[i].type # "tool_result" => s[i] = Ev(s[i].type, s[i].call)

\* What a call's decision and its events say of each other.
Receipted(c) == Ev("tool_execution_receipt", c)
Approved(c) ==
  verdict[c] = "allow" \/ (verdict[c] = "ask" /\ answer[c] = "allow" /\ Traced({Decided(c)}))
Refused(c) ==
  verdict[c] = "deny" \/ (verdict[c] = "ask" /\ answer[c] = "deny" /\ Traced({Decided(c)}))
FactsOf(c) ==
  /\ Traced({Requested(c)}) => verdict[c] = "ask"
  /\ Traced({Decided(c)}) /\ verdict[c] = "ask" =>
       Traced({Requested(c)}) /\ answer[c] # "none"
  /\ pc[c] = "pause" => verdict[c] = "ask" /\ Traced({Requested(c)})
  /\ pc[c] \in {"ahead", "commit"} => verdict[c] \in {"allow", "ask"}
  /\ pc[c] \in {"barrier"} \cup BeyondBarrier => Approved(c)
  /\ Traced({Receipted(c)}) => StartedOf(c) # {}
  /\ Traced(Results(c)) /\ ~Traced({Receipted(c)}) =>
       ~Traced({Ev("tool_execution_started", c)}) /\ Refused(c)
FactInv == Untagged(log) /\ Untagged(execQueue) /\ \A c \in Calls : FactsOf(c)

\* A receipt's result comes right behind it; between the two the generator is
\* draining.
Unpaired(c) == In(log, {Receipted(c)}) /\ ~In(log, Results(c))
PairInv ==
  /\ \A i \in DOMAIN execQueue : execQueue[i].type = "tool_execution_receipt" =>
       i + 1 \in DOMAIN execQueue /\ execQueue[i + 1] \in Results(execQueue[i].call)
  /\ \A c \in Calls : Unpaired(c) =>
       /\ main \in {"recv", "abandon", "drain", "closed"}
       /\ execQueue # <<>> /\ Head(execQueue) \in Results(c)

\* The log, attempt by attempt.
CallsDeclared ==
  /\ log[1].type = "user_input" /\ turnStart >= 1
  /\ \A c \in Launched : seq[c] \in DOMAIN log /\ log[seq[c]] = Ev("tool_call_end", c)
  /\ \A i \in DOMAIN log : log[i].type = "tool_call_end" =>
       log[i].call \in Launched /\ seq[log[i].call] = i
  /\ \A i \in DOMAIN log : Launches(log[i]) => i > seq[log[i].call]
  /\ \A j \in DOMAIN execQueue : execQueue[j].call \in Pending
Interrupts == {"model_output_abandoned", "user_input"}
NoSummary == \A i \in DOMAIN log : log[i].type # "summarized"
OneAttempt ==
  main \in {"stream", "recv", "abandon", "committed", "drain"} =>
    \A i \in DOMAIN log : i > turnStart => log[i].type \notin Interrupts
OutputFirst ==
  main \in {"stream", "recv", "abandon"} /\ Len(log) > turnStart =>
    log[turnStart + 1].type \in DraftTypes
AttemptClosed ==
  /\ main \in {"committed", "drain", "siteB", "head", "siteA", "compact", "siteC", "end"}
  /\ Len(log) > turnStart
  => \E i \in DOMAIN log : i > turnStart /\ log[i].type \in EnderTypes \cup Interrupts
InputBetween ==
  \A i, j \in DOMAIN log :
    i < j /\ log[i].type \in DraftTypes /\ log[j].type = "user_input" =>
      \E k \in DOMAIN log : i < k /\ k < j /\ log[k].type \in EnderTypes
Segments == NoSummary /\ OneAttempt /\ OutputFirst /\ AttemptClosed /\ InputBetween

\* Where a turn may begin or the run may end, each committed call is answered.
AllAnswered == \A c \in Launched : CommittedCall(c) => In(log, Results(c))
Accountable == \/ main \in {"siteA", "compact", "siteC", "siteB"}
               \/ main = "end" /\ outcome # "aborted"
AnsweredInv == Accountable => AllAnswered

TurnInv ==
  /\ RankInv /\ FactInv /\ PairInv /\ CallsDeclared
  /\ ~Compacts => Segments /\ AnsweredInv

(***************************************************************************)
(* What a launch's step writes.                                            *)
(***************************************************************************)

Begun(c) == Ev("tool_execution_started", c)

LEMMA LaunchEvent ==
  ASSUME NEW c \in Calls
  PROVE  /\ {Requested(c), Decided(c), Begun(c), Receipted(c)} \subseteq Event
         /\ Results(c) \subseteq Event
         /\ Requested(c).type = "permission_requested" /\ Requested(c).call = c
         /\ Decided(c).type = "permission_decided" /\ Decided(c).call = c
         /\ Begun(c).type = "tool_execution_started" /\ Begun(c).call = c
         /\ Receipted(c).type = "tool_execution_receipt" /\ Receipted(c).call = c
         /\ \A r \in Results(c) : r.type = "tool_result" /\ r.call = c /\ Rank(r) = 5
         /\ Rank(Requested(c)) = 1 /\ Rank(Decided(c)) = 2
         /\ Rank(Begun(c)) = 3 /\ Rank(Receipted(c)) = 4
         /\ Ev("tool_result", c) \in Results(c)
         /\ \A b \in BOOLEAN : \E r \in Results(c) : Receipts(c, b) = <<Receipted(c), r>>
<1>1. \A t \in EventTypes : /\ Ev(t, c) \in Event /\ Ev(t, c).type = t
                            /\ Ev(t, c).call = c
  BY ConstantsAssumption DEF Ev, Event, Calls
<1>2. {"permission_requested", "permission_decided", "tool_execution_started",
       "tool_execution_receipt", "tool_result"} \subseteq EventTypes
  BY DEF EventTypes
<1>3. \A r \in Results(c) : r \in Event /\ r.type = "tool_result" /\ r.call = c
  BY DEF Results
<1>4. \A b \in BOOLEAN : \E r \in Results(c) : Receipts(c, b) = <<Receipted(c), r>>
  <2> SUFFICES ASSUME NEW b \in BOOLEAN
               PROVE  \E r \in Results(c) : Receipts(c, b) = <<Receipted(c), r>>
    OBVIOUS
  <2>1. [Ev("tool_result", c) EXCEPT !.endTurn = b] \in Results(c)
    BY ConstantsAssumption DEF Ev, Event, EventTypes, Results, Calls
  <2> QED
    BY <2>1 DEF Receipts, Receipted
<1>5. Ev("tool_result", c) \in Results(c)
  BY <1>1, <1>2 DEF Results
<1> QED
  BY <1>1, <1>2, <1>3, <1>4, <1>5 DEF Requested, Decided, Begun, Receipted, Rank

\* A launch's own step: where it goes, with which events for the queue.
Waits(c) ==
  \/ pc[c] = "ahead" /\ pc'[c] = "commit"
  \/ pc[c] \in {"ahead", "commit"} /\ pc'[c] = "barrier" /\ verdict[c] # "ask"
  \/ pc[c] = "pause" /\ pc'[c] = "done" /\ answer[c] = "none"
  \/ pc[c] = "barrier" /\ pc'[c] \in {"window", "start"}
  \/ pc[c] = "acked" /\ pc'[c] = "handler"
  \/ pc[c] \in {"ahead", "commit", "barrier", "start", "acked", "handler"}
     /\ pc'[c] = "done"
Decides(c, q) ==
  /\ pc[c] = "decide" /\ pc'[c] \in {"ahead", "done"}
  /\ \/ /\ verdict'[c] = "deny" /\ pc'[c] = "done"
        /\ \/ q \in {<<>>, <<Decided(c)>>}
           \/ \E r \in Results(c) : q \in {<<r>>, <<Decided(c), r>>}
     \/ verdict'[c] = "allow" /\ q \in {<<>>, <<Decided(c)>>}
     \/ verdict'[c] = "ask" /\ q = <<>>
     \/ verdict'[c] = "thrown" /\ pc'[c] = "done" /\ q = <<>>
Pauses(c, q) ==
  \/ pc[c] = "commit" /\ pc'[c] = "pause" /\ verdict[c] = "ask" /\ q = <<Requested(c)>>
  \/ /\ pc[c] = "pause" /\ answer[c] # "none"
     /\ \/ answer[c] = "allow" /\ pc'[c] = "barrier" /\ q = <<Decided(c)>>
        \/ pc'[c] = "done" /\ q = <<Decided(c)>>
        \/ /\ answer[c] = "deny" /\ pc'[c] = "done"
           /\ \E r \in Results(c) : q = <<Decided(c), r>>
Runs(c, q) ==
  \/ pc[c] = "start" /\ pc'[c] = "ack" /\ q = <<Begun(c)>>
  \/ /\ pc[c] \in {"acked", "handler"} /\ pc'[c] = "done"
     /\ \E r \in Results(c) : q = <<Receipted(c), r>>
Answers(c) ==
  /\ pc[c] = "pause" /\ pc'[c] = "pause" /\ answer[c] = "none"
  /\ answer'[c] \in {"allow", "deny"}
Writes(c, q) ==
  \/ Decides(c, q) /\ answer'[c] = answer[c]
  \/ Answers(c) /\ q = <<>> /\ verdict'[c] = verdict[c]
  \/ /\ UNCHANGED <<verdict, answer>>
     /\ (Waits(c) /\ q = <<>>) \/ Pauses(c, q) \/ Runs(c, q)

LEMMA LaunchWrites ==
  ASSUME TypeOK, WindowInv, NEW c \in Calls, LaunchStep(c) \/ Answer(c)
  PROVE  \E q : Writes(c, q) /\ execQueue' = execQueue \o q
<1>1. /\ \A p : Step(c, p) => pc'[c] = p
      /\ LeaveWindow(c) /\ pc[c] # "window" => pc'[c] = "done"
  BY DEF Step, LeaveWindow, WindowInv, TypeOK
<1>2. execQueue \o <<>> = execQueue
  BY DEF TypeOK
<1>3. CASE Answer(c)
  BY <1>2, <1>3 DEF Answer, Writes, Answers, TypeOK
<1>4. CASE PassAskGate(c) \/ PassBarrier(c)
  <2>1. UNCHANGED <<verdict, answer, execQueue>> /\ Waits(c)
    BY <1>1, <1>4 DEF PassAskGate, PassBarrier, Waits
  <2> QED
    BY <1>2, <2>1 DEF Writes
<1>5. CASE PassCommitGate(c)
  <2>1. UNCHANGED <<verdict, answer>>
    BY <1>5 DEF PassCommitGate
  <2>2. CASE UNCHANGED execQueue /\ Waits(c)
    BY <1>2, <2>1, <2>2 DEF Writes
  <2>3. CASE /\ verdict[c] = "ask" /\ Step(c, "pause")
             /\ Push(<<Ev("permission_requested", c)>>)
    <3>1. Pauses(c, <<Requested(c)>>)
      BY <1>1, <1>5, <2>3 DEF PassCommitGate, Pauses, Requested
    <3> QED
      BY <2>1, <2>3, <3>1 DEF Writes, Push, Requested
  <2> QED
    BY <1>1, <1>5, <2>2, <2>3 DEF PassCommitGate, Waits
<1>6. CASE PauseEnds(c)
  <2>1. UNCHANGED <<verdict, answer>> /\ pc[c] = "pause" /\ answer[c] # "none"
    BY <1>6 DEF PauseEnds
  <2>2. CASE answer[c] = "allow"
    <3>1. Pauses(c, <<Decided(c)>>) /\ Push(<<Decided(c)>>)
      BY <1>1, <1>6, <2>1, <2>2 DEF PauseEnds, Pauses, Decided
    <3> QED
      BY <2>1, <3>1 DEF Writes, Push
  <2>3. CASE answer[c] # "allow"
    <3>1. answer[c] = "deny"
      BY <2>1, <2>3 DEF TypeOK
    <3>2. Push(<<Decided(c), Ev("tool_result", c)>>) /\ pc'[c] = "done"
      BY <1>1, <1>6, <2>3 DEF PauseEnds, Decided
    <3>3. Pauses(c, <<Decided(c), Ev("tool_result", c)>>)
      BY <2>1, <3>1, <3>2, LaunchEvent DEF Pauses
    <3> QED
      BY <2>1, <3>2, <3>3 DEF Writes, Push
  <2> QED
    BY <2>2, <2>3
<1>7. CASE PauseAborted(c)
  <2>1. UNCHANGED <<verdict, answer>> /\ pc[c] = "pause" /\ pc'[c] = "done"
    BY <1>1, <1>7 DEF PauseAborted
  <2>2. CASE answer[c] = "none"
    <3>1. Push(<<>>) /\ Waits(c)
      BY <1>7, <2>1, <2>2 DEF PauseAborted, Waits
    <3> QED
      BY <2>1, <3>1 DEF Writes, Push
  <2>3. CASE answer[c] # "none"
    <3>1. Push(<<Decided(c)>>) /\ Pauses(c, <<Decided(c)>>)
      BY <1>7, <2>1, <2>3 DEF PauseAborted, Pauses, Decided
    <3> QED
      BY <2>1, <3>1 DEF Writes, Push
  <2> QED
    BY <2>2, <2>3
<1>8. CASE Start(c)
  <2>1. UNCHANGED <<verdict, answer>> /\ pc[c] = "start"
    BY <1>8 DEF Start
  <2>2. CASE LeaveWindow(c) /\ UNCHANGED execQueue
    <3>1. Waits(c)
      BY <1>1, <2>1, <2>2 DEF Waits
    <3> QED
      BY <1>2, <2>1, <2>2, <3>1 DEF Writes
  <2>3. CASE Step(c, "ack") /\ Push(<<Ev("tool_execution_started", c)>>)
    <3>1. Runs(c, <<Begun(c)>>) /\ Push(<<Begun(c)>>)
      BY <1>1, <2>1, <2>3 DEF Runs, Begun
    <3> QED
      BY <2>1, <3>1 DEF Writes, Push
  <2> QED
    BY <1>8, <2>2, <2>3 DEF Start
<1>9. CASE Execute(c) \/ Finish(c)
  <2>1. UNCHANGED <<verdict, answer>> /\ pc[c] \in {"acked", "handler"}
    BY <1>9 DEF Execute, Finish
  <2>2. CASE /\ UNCHANGED execQueue
             /\ \/ pc[c] = "acked" /\ Step(c, "handler")
                \/ LeaveWindow(c)
    <3>1. Waits(c)
      BY <1>1, <2>1, <2>2 DEF Waits
    <3> QED
      BY <1>2, <2>1, <2>2, <3>1 DEF Writes
  <2>3. CASE LeaveWindow(c) /\ \E b \in BOOLEAN : Push(Receipts(c, b))
    <3>1. PICK b \in BOOLEAN : Push(Receipts(c, b))
      BY <2>3
    <3>2. PICK r \in Results(c) : Receipts(c, b) = <<Receipted(c), r>>
      BY LaunchEvent
    <3>3. Runs(c, <<Receipted(c), r>>)
      BY <1>1, <2>1, <2>3 DEF Runs
    <3> QED
      BY <2>1, <3>1, <3>2, <3>3 DEF Writes, Push
  <2>4. CASE Execute(c)
    <3>1. \/ LeaveWindow(c) /\ Push(Receipts(c, FALSE))
          \/ pc[c] = "acked" /\ Step(c, "handler") /\ UNCHANGED execQueue
          \/ LeaveWindow(c) /\ UNCHANGED execQueue
      BY <2>4, Zenon DEF Execute
    <3> QED
      BY <2>2, <2>3, <3>1
  <2>5. CASE Finish(c)
    <3>1. LeaveWindow(c) /\ pc[c] = "handler"
      BY <2>5 DEF Finish
    <3>2. UNCHANGED execQueue \/ \E b \in BOOLEAN : Push(Receipts(c, b))
      BY <2>5, Zenon DEF Finish
    <3> QED
      BY <2>2, <2>3, <3>1, <3>2
  <2> QED
    BY <1>9, <2>4, <2>5
<1>10. CASE Decide(c)
  <2>1. pc[c] = "decide" /\ UNCHANGED answer
    BY <1>10 DEF Decide
  <2>2. ASSUME NEW v \in {"allow", "deny", "ask"}, NEW d \in {<<>>, <<Decided(c)>>},
               Judge(c, v, d), v = "ask" => d = <<>>
        PROVE  \E q : Writes(c, q) /\ execQueue' = execQueue \o q
    <3> DEFINE result == Ev("tool_result", c)
               answered == IF v = "deny" /\ ~violated THEN <<result>> ELSE <<>>
    <3>1. /\ verdict'[c] = v
          /\ pc'[c] = (IF violated \/ v = "deny" THEN "done" ELSE "ahead")
          /\ execQueue' = execQueue \o (d \o answered)
      BY <1>1, <2>2 DEF Judge, Push, TypeOK
    <3>2. /\ result \in Results(c) /\ result \in Event /\ Decided(c) \in Event
      BY LaunchEvent
    <3> HIDE DEF result
    <3>3. /\ <<>> \o <<>> = <<>> /\ <<Decided(c)>> \o <<>> = <<Decided(c)>>
          /\ <<>> \o <<result>> = <<result>>
          /\ <<Decided(c)>> \o <<result>> = <<Decided(c), result>>
      BY <3>2, ShortJoins
    <3>4. /\ d \o answered \in {<<>>, <<Decided(c)>>, <<result>>, <<Decided(c), result>>}
          /\ v # "deny" => d \o answered \in {<<>>, <<Decided(c)>>}
          /\ v = "ask" => d \o answered = <<>>
      BY <2>2, <3>3
    <3> DEFINE q == d \o answered
    <3> HIDE DEF answered
    <3>5. /\ q \in {<<>>, <<Decided(c)>>, <<result>>, <<Decided(c), result>>}
          /\ v # "deny" => q \in {<<>>, <<Decided(c)>>}
          /\ v = "ask" => q = <<>>
          /\ execQueue' = execQueue \o q
      BY <3>1, <3>4
    <3> HIDE DEF q
    <3>6. Decides(c, q)
      BY <2>1, <3>1, <3>2, <3>5 DEF Decides
    <3> QED
      BY <2>1, <3>5, <3>6 DEF Writes
  <2>3. CASE \E v \in {"deny", "ask"} : Judge(c, v, <<>>)
    BY <2>2, <2>3
  <2>4. CASE \E v \in {"allow", "deny"} : Judge(c, v, <<Ev("permission_decided", c)>>)
    BY <2>2, <2>4 DEF Decided
  <2>5. CASE \E v \in {"allow", "deny"} : Judge(c, v, <<>>)
    BY <2>2, <2>5
  <2>6. CASE /\ verdict' = [verdict EXCEPT ![c] = "thrown"]
             /\ Step(c, "done") /\ UNCHANGED execQueue
    <3>1. Decides(c, <<>>)
      BY <1>1, <2>1, <2>6 DEF Decides, TypeOK
    <3> QED
      BY <1>2, <2>1, <2>6, <3>1 DEF Writes
  <2> QED
    BY <1>10, <2>3, <2>4, <2>5, <2>6 DEF Decide
<1> QED
  BY <1>3, <1>4, <1>5, <1>6, <1>7, <1>8, <1>9, <1>10 DEF LaunchStep

\* The sequences of at most two events.
LEMMA ShortSequences ==
  /\ <<>> \in Seq(Event) /\ DOMAIN <<>> = {}
  /\ \A e \in Event : /\ <<e>> \in Seq(Event) /\ DOMAIN <<e>> = {1} /\ <<e>>[1] = e
  /\ \A d, e \in Event : /\ <<d, e>> \in Seq(Event) /\ DOMAIN <<d, e>> = {1, 2}
                         /\ <<d, e>>[1] = d /\ <<d, e>>[2] = e
OBVIOUS

\* What a launch queues is its own and of a higher rank than anything it has
\* queued before; a receipt brings its result.
InTurn(c, q) ==
  /\ q \in Seq(Event) /\ Reach(c) <= Reach(c)'
  /\ \A k \in DOMAIN q :
       /\ Launches(q[k]) /\ q[k].call = c
       /\ Reach(c) < Rank(q[k]) /\ Rank(q[k]) <= Reach(c)'
       /\ q[k].type # "tool_result" => q[k] = Ev(q[k].type, c)
       /\ q[k].type = "tool_execution_receipt" =>
            k + 1 \in DOMAIN q /\ q[k + 1] \in Results(c)
  /\ \A k, l \in DOMAIN q : k < l => Rank(q[k]) < Rank(q[l])

LEMMA NoneInTurn ==
  ASSUME NEW c, Reach(c) <= Reach(c)'
  PROVE  InTurn(c, <<>>)
BY ShortSequences DEF InTurn

LEMMA OneInTurn ==
  ASSUME NEW c, NEW e \in Event, Launches(e), e.call = c,
         Reach(c) < Rank(e), Rank(e) <= Reach(c)', Reach(c) \in Nat, Reach(c)' \in Nat,
         Rank(e) \in Nat, e.type # "tool_execution_receipt",
         e.type # "tool_result" => e = Ev(e.type, c)
  PROVE  InTurn(c, <<e>>)
<1>1. <<e>> \in Seq(Event) /\ DOMAIN <<e>> = {1} /\ <<e>>[1] = e
  BY ShortSequences
<1> QED
  BY <1>1 DEF InTurn

LEMMA TwoInTurn ==
  ASSUME NEW c \in Calls, NEW e \in {Decided(c), Receipted(c)}, NEW r \in Results(c),
         Reach(c) < Rank(e), Reach(c)' = 5, Reach(c) \in Nat
  PROVE  InTurn(c, <<e, r>>)
<1>1. /\ e \in Event /\ e.call = c /\ Launches(e) /\ e.type # "tool_result"
      /\ e = Ev(e.type, c) /\ Rank(e) \in {2, 4}
      /\ r \in Event /\ r.call = c /\ Launches(r) /\ r.type = "tool_result"
      /\ Rank(r) = 5
  BY LaunchEvent DEF Launches, LaunchEvents, Decided, Receipted
<1>2. /\ <<e, r>> \in Seq(Event) /\ DOMAIN <<e, r>> = {1, 2}
      /\ <<e, r>>[1] = e /\ <<e, r>>[2] = r
  BY <1>1, ShortSequences
<1> QED
  BY <1>1, <1>2 DEF InTurn

LEMMA WritesInTurn ==
  ASSUME NEW c \in Calls, NEW q, Writes(c, q)
  PROVE  InTurn(c, q) /\ pc[c] # "idle" /\ pc'[c] # "idle"
<1> DEFINE verdictOf == verdict'[c]
<1>1. /\ \A e \in {Requested(c), Decided(c), Begun(c)} \cup Results(c) :
           /\ e \in Event /\ Launches(e) /\ e.call = c /\ Rank(e) \in Nat
           /\ e.type # "tool_execution_receipt"
           /\ e.type # "tool_result" => e = Ev(e.type, c)
      /\ Rank(Requested(c)) = 1 /\ Rank(Decided(c)) = 2 /\ Rank(Begun(c)) = 3
      /\ Rank(Receipted(c)) = 4 /\ \A r \in Results(c) : Rank(r) = 5
  BY LaunchEvent DEF Launches, LaunchEvents, Requested, Decided, Begun
<1>2. /\ Reach(c) \in Nat /\ Reach(c)' \in Nat
  BY DEF Reach
<1>3. CASE Waits(c) /\ q = <<>> /\ UNCHANGED verdict
  <2>1. Reach(c) <= Reach(c)'
    BY <1>3 DEF Waits, Reach
  <2> QED
    BY <1>3, <2>1, NoneInTurn DEF Waits
<1>4. CASE Answers(c) /\ q = <<>> /\ verdict'[c] = verdict[c]
  <2>1. Reach(c) <= Reach(c)'
    BY <1>4 DEF Answers, Reach
  <2> QED
    BY <1>4, <2>1, NoneInTurn DEF Answers
<1>5. CASE Decides(c, q)
  <2>1. /\ Reach(c) = 0 /\ pc[c] = "decide" /\ pc'[c] \in {"ahead", "done"}
        /\ pc'[c] = "done" => Reach(c)' = 5
        /\ verdict'[c] = "allow" => Reach(c)' \in {2, 5}
    BY <1>5 DEF Decides, Reach
  <2>2. CASE q = <<>>
    BY <1>2, <2>1, <2>2, NoneInTurn
  <2>3. CASE q = <<Decided(c)>>
    <3>1. Reach(c)' \in {2, 5}
      <4>1. <<Decided(c)>> # <<>>
        OBVIOUS
      <4>2. verdict'[c] = "allow" \/ pc'[c] = "done"
        BY <1>5, <2>3, <4>1 DEF Decides
      <4> QED
        BY <2>1, <4>2
    <3> QED
      BY <1>1, <1>2, <2>1, <2>3, <3>1, OneInTurn
  <2>4. CASE pc'[c] = "done" /\ \E r \in Results(c) : q = <<r>>
    BY <1>1, <1>2, <2>1, <2>4, OneInTurn
  <2>5. CASE pc'[c] = "done" /\ \E r \in Results(c) : q = <<Decided(c), r>>
    BY <1>1, <1>2, <2>1, <2>5, TwoInTurn
  <2> QED
    BY <1>5, <2>1, <2>2, <2>3, <2>4, <2>5 DEF Decides
<1>6. CASE Pauses(c, q) /\ UNCHANGED verdict
  <2>1. CASE pc[c] = "commit" /\ q = <<Requested(c)>>
    <3>1. Reach(c) = 0 /\ Reach(c)' = 1 /\ pc'[c] = "pause"
      BY <1>6, <2>1 DEF Pauses, Reach
    <3> QED
      BY <1>1, <2>1, <3>1, OneInTurn
  <2>2. CASE pc[c] = "pause" /\ q = <<Decided(c)>>
    <3>1. Reach(c) = 1 /\ Reach(c)' \in {2, 5} /\ pc'[c] \in {"barrier", "done"}
      BY <1>6, <2>2 DEF Pauses, Reach
    <3> QED
      BY <1>1, <1>2, <2>2, <3>1, OneInTurn
  <2>3. CASE /\ pc[c] = "pause" /\ pc'[c] = "done"
             /\ \E r \in Results(c) : q = <<Decided(c), r>>
    <3>1. Reach(c) = 1 /\ Reach(c)' = 5
      BY <2>3 DEF Reach
    <3> QED
      BY <1>1, <2>3, <3>1, TwoInTurn
  <2> QED
    BY <1>6, <2>1, <2>2, <2>3 DEF Pauses
<1>7. CASE Runs(c, q)
  <2>1. CASE pc[c] = "start" /\ pc'[c] = "ack" /\ q = <<Begun(c)>>
    <3>1. Reach(c) = 2 /\ Reach(c)' = 3
      BY <2>1 DEF Reach
    <3> QED
      BY <1>1, <2>1, <3>1, OneInTurn
  <2>2. CASE /\ pc[c] \in {"acked", "handler"} /\ pc'[c] = "done"
             /\ \E r \in Results(c) : q = <<Receipted(c), r>>
    <3>1. Reach(c) = 3 /\ Reach(c)' = 5
      BY <2>2 DEF Reach
    <3> QED
      BY <1>1, <2>2, <3>1, TwoInTurn
  <2> QED
    BY <1>7, <2>1, <2>2 DEF Runs
<1> QED
  BY <1>3, <1>4, <1>5, <1>6, <1>7 DEF Writes

\* The other launches: one may get the slot that was left.
LEMMA OthersStay ==
  ASSUME TypeOK, WindowInv, NEW c \in Calls, LaunchStep(c) \/ Answer(c),
         NEW d \in Calls, d # c
  PROVE  /\ Reach(d)' = Reach(d) /\ verdict'[d] = verdict[d] /\ answer'[d] = answer[d]
         /\ pc'[d] = pc[d] \/ (pc[d] = "window" /\ pc'[d] = "start")
<1>1. answer'[d] = answer[d]
  BY DEF LaunchStep, Decide, PassAskGate, PassCommitGate, PauseEnds,
     Answer, PauseAborted, PassBarrier, Start, Execute, Finish, TypeOK
<1>2. /\ verdict'[d] = verdict[d]
      /\ pc'[d] = pc[d] \/ (pc[d] = "window" /\ pc'[d] = "start")
  BY LaunchMoves
<1> QED
  BY <1>1, <1>2 DEF Reach

LEMMA CallRange ==
  ASSUME TypeOK
  PROVE  Launched \subseteq Calls /\ Calls \subseteq Nat
BY ConstantsAssumption DEF Launched, Calls, TypeOK

LEMMA RankNat == \A e : Rank(e) \in 1..5
BY DEF Rank

LEMMA ReachNat == \A c : Reach(c) \in Nat
BY DEF Reach

LEMMA RankLaunch ==
  ASSUME TypeOK, CallsLaunched, WindowInv, QueueOfCalls, RankInv,
         NEW c \in Calls, LaunchStep(c) \/ Answer(c)
  PROVE  RankInv'
<1>1. PICK q : Writes(c, q) /\ execQueue' = execQueue \o q
  BY LaunchWrites
<1>2. InTurn(c, q)
  BY <1>1, WritesInTurn
<1>3. /\ execQueue \in Seq(Event) /\ q \in Seq(Event) /\ log \in Seq(Event)
      /\ UNCHANGED <<log, n>> /\ Launched' = Launched /\ Launched \subseteq Calls
      /\ Len(execQueue) \in Nat /\ DOMAIN execQueue = 1..Len(execQueue)
  BY <1>2, LaunchMoves, CallRange DEF InTurn, TypeOK, Launched
<1>4. \A d \in Calls : Reach(d) <= Reach(d)'
  BY <1>2, OthersStay, ReachNat DEF InTurn
<1>5. \A i \in DOMAIN execQueue' :
        \/ i \in DOMAIN execQueue /\ execQueue'[i] = execQueue[i]
        \/ /\ i - Len(execQueue) \in DOMAIN q
           /\ execQueue'[i] = q[i - Len(execQueue)]
           /\ i > Len(execQueue)
  <2>1. \A i \in DOMAIN execQueue : execQueue'[i] = execQueue[i]
    BY <1>1, <1>3, Joined
  <2>2. \A i \in DOMAIN execQueue' :
          \/ i \in DOMAIN execQueue
          \/ i - Len(execQueue) \in DOMAIN q /\ execQueue'[i] = q[i - Len(execQueue)]
    BY <1>1, <1>3, Joined
  <2>3. \A i \in DOMAIN execQueue' : i - Len(execQueue) \in DOMAIN q => i > Len(execQueue)
    BY <1>1, <1>3
  <2> QED
    BY <2>1, <2>2, <2>3
<1>6. /\ \A e : Rank(e) \in Nat
      /\ \A d : Reach(d) \in Nat /\ Reach(d)' \in Nat
  BY RankNat, ReachNat DEF Reach
<1>7. LogOfCalls'
  BY <1>3 DEF RankInv, LogOfCalls
<1>8. ASSUME NEW d \in Calls, NEW i \in DOMAIN log', Launches(log'[i]), log'[i].call = d
      PROVE  Rank(log'[i]) <= Reach(d)'
  <2>1. Rank(log[i]) <= Reach(d)
    BY <1>3, <1>8 DEF RankInv, WithinReach
  <2> QED
    BY <1>3, <1>4, <1>6, <2>1
<1>9. ASSUME NEW d \in Calls, NEW j \in DOMAIN execQueue', execQueue'[j].call = d
      PROVE  Rank(execQueue'[j]) <= Reach(d)'
  <2>1. CASE j \in DOMAIN execQueue /\ execQueue'[j] = execQueue[j]
    <3>1. Rank(execQueue[j]) <= Reach(d)
      BY <1>9, <2>1 DEF RankInv, WithinReach
    <3> QED
      BY <1>4, <1>6, <2>1, <3>1
  <2>2. CASE \E k \in DOMAIN q : execQueue'[j] = q[k]
    BY <1>2, <1>9, <2>2 DEF InTurn
  <2> QED
    BY <1>5, <2>1, <2>2
<1>10. ASSUME NEW i \in DOMAIN log', NEW j \in DOMAIN execQueue',
              Launches(log'[i]), log'[i].call = execQueue'[j].call
       PROVE  Rank(log'[i]) < Rank(execQueue'[j])
  <2>1. CASE j \in DOMAIN execQueue /\ execQueue'[j] = execQueue[j]
    BY <1>3, <1>10, <2>1 DEF RankInv, LogFirst
  <2>2. CASE \E k \in DOMAIN q : execQueue'[j] = q[k]
    <3>1. PICK k \in DOMAIN q : execQueue'[j] = q[k]
      BY <2>2
    <3>2. q[k].call = c /\ Reach(c) < Rank(q[k])
      BY <1>2 DEF InTurn
    <3>3. Rank(log[i]) <= Reach(c)
      BY <1>3, <1>10, <3>1, <3>2 DEF RankInv, WithinReach
    <3> QED
      BY <1>3, <1>6, <3>1, <3>2, <3>3
  <2> QED
    BY <1>5, <2>1, <2>2
<1>11. ASSUME NEW i \in DOMAIN execQueue', NEW j \in DOMAIN execQueue',
              i < j, execQueue'[i].call = execQueue'[j].call
       PROVE  Rank(execQueue'[i]) < Rank(execQueue'[j])
  <2>0. i \in Nat /\ j \in Nat
    BY <1>1, <1>3
  <2>1. CASE j \in DOMAIN execQueue /\ execQueue'[j] = execQueue[j]
    BY <1>3, <1>5, <1>11, <2>0, <2>1 DEF RankInv, QueueInOrder
  <2>2. CASE /\ j - Len(execQueue) \in DOMAIN q
             /\ execQueue'[j] = q[j - Len(execQueue)]
    <3>1. CASE i \in DOMAIN execQueue /\ execQueue'[i] = execQueue[i]
      <4>1. execQueue'[j].call = c /\ Reach(c) < Rank(execQueue'[j])
        BY <1>2, <2>2 DEF InTurn
      <4>2. Rank(execQueue[i]) <= Reach(c)
        BY <1>11, <3>1, <4>1 DEF RankInv, WithinReach
      <4> QED
        BY <1>6, <3>1, <4>1, <4>2
    <3>2. CASE /\ i - Len(execQueue) \in DOMAIN q
               /\ execQueue'[i] = q[i - Len(execQueue)]
      BY <1>2, <1>3, <1>11, <2>0, <2>2, <3>2 DEF InTurn
    <3> QED
      BY <1>5, <3>1, <3>2
  <2> QED
    BY <1>5, <2>1, <2>2
<1>12. WithinReach'
  BY <1>8, <1>9 DEF WithinReach
<1>13. LogFirst' /\ QueueInOrder'
  BY <1>10, <1>11 DEF LogFirst, QueueInOrder
<1> QED
  BY <1>7, <1>12, <1>13 DEF RankInv

\* What a step of the generator leaves of the calls and of the queue.
LEMMA MainKeepsReach ==
  ASSUME TypeOK, CallsLaunched, MainStep
  PROVE  /\ Launched \subseteq Launched'
         /\ \A c \in Launched : Reach(c)' = Reach(c)
<1>1. \A c \in Launched : pc'[c] = pc[c] /\ verdict'[c] = verdict[c]
  BY MainStepCalls
<1>2. n' = n \/ n' = n + 1
  BY MainFrame DEF CallEnd
<1> QED
  BY <1>1, <1>2 DEF Reach, Launched, TypeOK

LEMMA Drained ==
  ASSUME TypeOK, Drain
  PROVE  /\ execQueue # <<>> /\ 1 \in DOMAIN execQueue
         /\ Head(execQueue) = execQueue[1] /\ execQueue[1] \in Event
         /\ log' = Append(log, execQueue[1]) /\ log'[Len(log) + 1] = execQueue[1]
         /\ DOMAIN log' = DOMAIN log \cup {Len(log) + 1} /\ Len(log) + 1 \notin DOMAIN log
         /\ Len(log') = Len(log) + 1
         /\ \A i \in DOMAIN log : log'[i] = log[i]
         /\ \A i \in DOMAIN execQueue' :
              i + 1 \in DOMAIN execQueue /\ execQueue'[i] = execQueue[i + 1]
         /\ \A i \in DOMAIN execQueue : i + 1 \in DOMAIN execQueue => i \in DOMAIN execQueue'
         /\ DOMAIN execQueue \subseteq Nat /\ DOMAIN execQueue' \subseteq Nat
         /\ UNCHANGED <<main, outcome, n, pc, seq, tool, verdict, answer, turnStart,
                        durable, committed, settled, violated, launchError, aborted>>
<1>1. /\ execQueue # <<>> /\ log' = Append(log, Head(execQueue))
      /\ execQueue' = Tail(execQueue)
      /\ execQueue \in Seq(Event) /\ log \in Seq(Event)
  BY DEF Drain, Emit, TypeOK
<1>2. /\ 1 \in DOMAIN execQueue
      /\ Head(execQueue) = execQueue[1] /\ execQueue[1] \in Event
      /\ DOMAIN execQueue = 1..Len(execQueue) /\ Len(execQueue) \in Nat
      /\ DOMAIN Tail(execQueue) = 1..(Len(execQueue) - 1)
      /\ \A i \in DOMAIN Tail(execQueue) :
           i + 1 \in DOMAIN execQueue /\ Tail(execQueue)[i] = execQueue[i + 1]
  BY <1>1
<1>3. \A i \in DOMAIN execQueue : i + 1 \in DOMAIN execQueue => i \in DOMAIN execQueue'
  BY <1>1, <1>2
<1> QED
  BY <1>1, <1>2, <1>3, Appended DEF Drain, Emit

LEMMA Grown ==
  ASSUME TypeOK, MainStep, ~Drain
  PROVE  /\ UNCHANGED execQueue
         /\ \/ UNCHANGED log
            \/ \E t \in KernelEvents, k \in 0..MaxCalls :
                 /\ Ev(t, k) \in Event /\ ~Launches(Ev(t, k))
                 /\ Ev(t, k).type = t /\ Ev(t, k).call = k
                 /\ log' = Append(log, Ev(t, k)) /\ log'[Len(log) + 1] = Ev(t, k)
                 /\ DOMAIN log' = DOMAIN log \cup {Len(log) + 1}
                 /\ Len(log) + 1 \notin DOMAIN log
                 /\ Len(log') = Len(log) + 1
                 /\ \A i \in DOMAIN log : log'[i] = log[i]
<1>1. \A t \in KernelEvents, k \in 0..MaxCalls :
        /\ Ev(t, k) \in Event /\ Ev(t, k).type = t /\ Ev(t, k).call = k
        /\ ~Launches(Ev(t, k))
  BY ConstantsAssumption DEF Ev, Event, KernelEvents, Launches
<1>2. log \in Seq(Event)
  BY DEF TypeOK
<1>3. ASSUME NEW t \in KernelEvents, NEW k \in 0..MaxCalls, log' = Append(log, Ev(t, k))
      PROVE  /\ log'[Len(log) + 1] = Ev(t, k)
             /\ DOMAIN log' = DOMAIN log \cup {Len(log) + 1}
             /\ Len(log) + 1 \notin DOMAIN log
             /\ Len(log') = Len(log) + 1
             /\ \A i \in DOMAIN log : log'[i] = log[i]
  BY <1>1, <1>2, <1>3, Appended
<1> QED
  BY <1>1, <1>3, OwnAppends DEF OwnAppend

LEMMA RankMain ==
  ASSUME TypeOK, CallsLaunched, QueueOfCalls, RankInv, MainStep
  PROVE  RankInv'
<1>1. /\ Launched \subseteq Launched' /\ \A c \in Launched : Reach(c)' = Reach(c)
      /\ \A e : Rank(e) \in Nat
  BY MainKeepsReach, RankNat
<1>2. CASE Drain
  <2>1. /\ 1 \in DOMAIN execQueue
        /\ log'[Len(log) + 1] = execQueue[1]
        /\ DOMAIN log' = DOMAIN log \cup {Len(log) + 1}
        /\ \A i \in DOMAIN log : log'[i] = log[i]
        /\ \A i \in DOMAIN execQueue' :
             i + 1 \in DOMAIN execQueue /\ execQueue'[i] = execQueue[i + 1]
        /\ DOMAIN execQueue' \subseteq Nat /\ DOMAIN execQueue \subseteq Nat
        /\ 0 \notin DOMAIN execQueue'
    <3>1. 0 \notin DOMAIN execQueue'
      <4>1. execQueue' \in Seq(Event)
        BY <1>2, InSplit DEF Drain, TypeOK
      <4> QED
        BY <4>1
    <3> QED
      BY <1>2, <3>1, Drained
  <2>2. LogOfCalls'
    BY <1>1, <2>1 DEF RankInv, LogOfCalls, QueueOfCalls
  <2>3. WithinReach'
    BY <1>1, <2>1 DEF RankInv, LogOfCalls, WithinReach, QueueOfCalls
  <2>4. LogFirst'
    <3> SUFFICES ASSUME NEW i \in DOMAIN log', NEW j \in DOMAIN execQueue',
                        Launches(log'[i]), log'[i].call = execQueue'[j].call
                 PROVE  Rank(log'[i]) < Rank(execQueue'[j])
      BY DEF LogFirst
    <3>1. CASE i \in DOMAIN log
      BY <2>1, <3>1 DEF RankInv, LogFirst
    <3>2. CASE i = Len(log) + 1
      <4>1. 1 < j + 1 /\ j + 1 \in DOMAIN execQueue /\ execQueue'[j] = execQueue[j + 1]
        BY <2>1
      <4> QED
        BY <2>1, <3>2, <4>1 DEF RankInv, QueueInOrder
    <3> QED
      BY <2>1, <3>1, <3>2
  <2>5. QueueInOrder'
    <3> SUFFICES ASSUME NEW i \in DOMAIN execQueue', NEW j \in DOMAIN execQueue',
                        i < j, execQueue'[i].call = execQueue'[j].call
                 PROVE  Rank(execQueue'[i]) < Rank(execQueue'[j])
      BY DEF QueueInOrder
    <3>1. i + 1 < j + 1
      BY <2>1
    <3> QED
      BY <2>1, <3>1 DEF RankInv, QueueInOrder
  <2> QED
    BY <2>2, <2>3, <2>4, <2>5 DEF RankInv
<1>3. CASE ~Drain /\ UNCHANGED log
  <2>1. UNCHANGED execQueue
    BY <1>3, Grown
  <2> QED
    BY <1>1, <1>3, <2>1 DEF RankInv, LogOfCalls, WithinReach, LogFirst, QueueInOrder,
                            QueueOfCalls
<1>4. CASE ~Drain /\ ~UNCHANGED log
  <2>1. PICK e : /\ ~Launches(e) /\ log'[Len(log) + 1] = e
                 /\ DOMAIN log' = DOMAIN log \cup {Len(log) + 1}
                 /\ \A i \in DOMAIN log : log'[i] = log[i]
    BY <1>4, Grown
  <2>2. UNCHANGED execQueue
    BY <1>4, Grown
  <2> QED
    BY <1>1, <2>1, <2>2 DEF RankInv, LogOfCalls, WithinReach, LogFirst, QueueInOrder,
                            QueueOfCalls
<1> QED
  BY <1>2, <1>3, <1>4

LEMMA RankEnv ==
  ASSUME TypeOK, InFlight, QueueOfCalls, RankInv,
         Persist \/ PersistFails \/ Abort \/ Over \/ UNCHANGED vars
  PROVE  RankInv'
<1>1. /\ UNCHANGED <<log, n, verdict, execQueue>>
      /\ \A c \in Calls : pc'[c] = pc[c] \/ (pc[c] = "ack" /\ pc'[c] = "acked")
  BY EnvMoves
<1>2. \A c \in Calls : Reach(c)' = Reach(c)
  BY <1>1 DEF Reach
<1>3. Launched \subseteq Calls /\ Launched' = Launched
  BY <1>1, CallRange DEF Launched
<1> QED
  BY <1>1, <1>2, <1>3 DEF RankInv, LogOfCalls, WithinReach, LogFirst, QueueInOrder,
                          QueueOfCalls

(***************************************************************************)
(* What a call's events say of it.                                         *)
(***************************************************************************)

\* Nothing of a launch is traced beyond where it is.
LEMMA NotYet ==
  ASSUME RankInv, NEW c \in Calls
  PROVE  /\ \A e : Launches(e) /\ e.call = c /\ Reach(c) < Rank(e) => ~Traced({e})
         /\ Reach(c) < 5 => ~Traced(Results(c))
<1>1. ASSUME NEW e, Launches(e), e.call = c, Reach(c) < Rank(e), Traced({e})
      PROVE  FALSE
  <2>1. Rank(e) <= Reach(c)
    BY <1>1 DEF RankInv, WithinReach, Traced, In
  <2> QED
    BY <1>1, <2>1, RankNat, ReachNat
<1>2. ASSUME Reach(c) < 5, Traced(Results(c))
      PROVE  FALSE
  <2>1. PICK e \in Results(c) : In(log, {e}) \/ In(execQueue, {e})
    BY <1>2 DEF Traced, In
  <2>2. Launches(e) /\ e.call = c /\ Rank(e) = 5
    BY LaunchEvent DEF Launches, LaunchEvents
  <2> QED
    BY <1>1, <1>2, <2>1, <2>2 DEF Traced
<1> QED
  BY <1>1, <1>2

SameTrace(E) == (In(log', E) \/ In(execQueue', E)) <=> Traced(E)
LEMMA FactsStay ==
  ASSUME NEW c \in Calls, FactsOf(c),
         verdict'[c] = verdict[c], answer'[c] = answer[c],
         \/ pc'[c] = pc[c] \/ pc'[c] \in Undecided
         \/ pc[c] \in BeyondBarrier /\ pc'[c] \in BeyondBarrier,
         StartedOf(c) # {} => StartedOf(c)' # {},
         SameTrace({Requested(c)}), SameTrace({Decided(c)}), SameTrace({Begun(c)}),
         SameTrace({Receipted(c)}), SameTrace(Results(c))
  PROVE  FactsOf(c)'
<1>1. /\ Traced({Requested(c)})' <=> Traced({Requested(c)})
      /\ Traced({Decided(c)})' <=> Traced({Decided(c)})
      /\ Traced({Begun(c)})' <=> Traced({Begun(c)})
      /\ Traced({Receipted(c)})' <=> Traced({Receipted(c)})
      /\ Traced(Results(c))' <=> Traced(Results(c))
  BY DEF SameTrace, Traced
<1> QED
  BY <1>1 DEF FactsOf, Approved, Refused, Begun, Undecided, BeyondBarrier

LEMMA FactMain ==
  ASSUME TypeOK, CallsLaunched, FactInv, MainStep
  PROVE  FactInv'
<1>1. Untagged(log') /\ Untagged(execQueue')
  <2>1. CASE Drain
    <3>1. /\ 1 \in DOMAIN execQueue /\ log'[Len(log) + 1] = execQueue[1]
          /\ DOMAIN log' = DOMAIN log \cup {Len(log) + 1}
          /\ \A i \in DOMAIN log : log'[i] = log[i]
          /\ \A i \in DOMAIN execQueue' :
               i + 1 \in DOMAIN execQueue /\ execQueue'[i] = execQueue[i + 1]
      BY <2>1, Drained
    <3> QED
      BY <3>1 DEF FactInv, Untagged
  <2>2. CASE ~Drain /\ UNCHANGED log
    BY <2>2, Grown DEF FactInv
  <2>3. CASE ~Drain /\ ~UNCHANGED log
    <3>1. PICK t \in KernelEvents : \E k \in 0..MaxCalls :
                 /\ Ev(t, k).type = t /\ Ev(t, k).call = k
                 /\ log'[Len(log) + 1] = Ev(t, k)
                 /\ DOMAIN log' = DOMAIN log \cup {Len(log) + 1}
                 /\ \A i \in DOMAIN log : log'[i] = log[i]
      BY <2>3, Grown
    <3>2. UNCHANGED execQueue
      BY <2>3, Grown
    <3> QED
      BY <3>1, <3>2 DEF FactInv, Untagged
  <2> QED
    BY <2>1, <2>2, <2>3
<1>2. ASSUME NEW c \in Calls
      PROVE  FactsOf(c)'
  <2>1. /\ verdict'[c] = verdict[c] /\ answer'[c] = answer[c]
        /\ pc'[c] = pc[c] \/ pc'[c] \in Undecided
    BY MainFrame, MainStepCalls, MainLaunches
  <2>2. StartedOf(c) # {} => StartedOf(c)' # {}
    BY MainLog DEF StartedOf
  <2>3. \A E : (\A e \in E : e.type \in LaunchEvents) => SameTrace(E)
    BY TraceMain DEF SameTrace
  <2>4. /\ \A e \in {Requested(c), Decided(c), Begun(c), Receipted(c)} : e.type \in LaunchEvents
        /\ \A e \in Results(c) : e.type \in LaunchEvents
    BY LaunchEvent DEF LaunchEvents
  <2>5. /\ SameTrace({Requested(c)}) /\ SameTrace({Decided(c)}) /\ SameTrace({Begun(c)})
        /\ SameTrace({Receipted(c)}) /\ SameTrace(Results(c))
    BY <2>3, <2>4
  <2> QED
    BY <2>1, <2>2, <2>5, FactsStay DEF FactInv
<1> QED
  BY <1>1, <1>2 DEF FactInv, Untagged

LEMMA FactEnv ==
  ASSUME TypeOK, InFlight, FactInv,
         Persist \/ PersistFails \/ Abort \/ Over \/ UNCHANGED vars
  PROVE  FactInv'
<1>1. /\ UNCHANGED <<log, n, verdict, answer, execQueue>>
      /\ \A c \in Calls : pc'[c] = pc[c] \/ (pc[c] = "ack" /\ pc'[c] = "acked")
  BY EnvMoves
<1>2. ASSUME NEW c \in Calls
      PROVE  FactsOf(c)'
  <2>1. StartedOf(c)' = StartedOf(c) /\ \A E : SameTrace(E)
    BY <1>1 DEF StartedOf, SameTrace, Traced
  <2> QED
    BY <1>1, <2>1, FactsStay DEF FactInv, BeyondBarrier
<1> QED
  BY <1>1, <1>2 DEF FactInv, Untagged

\* A launch's own facts.
LEMMA FactOwn ==
  ASSUME TypeOK, AckedDurable, RankInv, NEW c \in Calls, FactsOf(c),
         NEW q, Writes(c, q), q \in Seq(Event), UNCHANGED log,
         \A E : In(execQueue', E) <=> In(execQueue, E) \/ In(q, E)
  PROVE  FactsOf(c)'
<1>1. /\ \A e \in {Requested(c), Decided(c), Begun(c), Receipted(c)} :
           e \in Event /\ Launches(e) /\ e.call = c
      /\ Results(c) \subseteq Event
      /\ Rank(Requested(c)) = 1 /\ Rank(Decided(c)) = 2 /\ Rank(Begun(c)) = 3
      /\ Rank(Receipted(c)) = 4
      /\ \A r \in Results(c) :
           r \notin {Requested(c), Decided(c), Begun(c), Receipted(c)}
      /\ Requested(c) # Decided(c) /\ Requested(c) # Begun(c)
      /\ Requested(c) # Receipted(c) /\ Decided(c) # Begun(c)
      /\ Decided(c) # Receipted(c) /\ Begun(c) # Receipted(c)
      /\ {Requested(c), Decided(c), Begun(c), Receipted(c)} \cap Results(c) = {}
  BY LaunchEvent DEF Launches, LaunchEvents
<1>2. \A E : /\ Traced(E)' <=> Traced(E) \/ In(q, E)
  BY DEF Traced
<1>3. StartedOf(c)' = StartedOf(c)
  BY DEF StartedOf
<1>4. /\ Reach(c) < 1 => ~Traced({Requested(c)})
      /\ Reach(c) < 2 => ~Traced({Decided(c)})
      /\ Reach(c) < 3 => ~Traced({Begun(c)})
      /\ Reach(c) < 4 => ~Traced({Receipted(c)})
      /\ Reach(c) < 5 => ~Traced(Results(c))
  BY <1>1, NotYet
<1>5. /\ \A E : ~In(<<>>, E)
      /\ \A e \in Event : \A E : In(<<e>>, E) <=> e \in E
      /\ \A d, e \in Event : \A E : In(<<d, e>>, E) <=> d \in E \/ e \in E
  BY Shapes
<1>6. CASE q = <<>> /\ UNCHANGED <<verdict, answer>> /\ Waits(c)
  <2>1. \A E : Traced(E)' <=> Traced(E)
    BY <1>2, <1>5, <1>6
  <2> QED
    BY <1>3, <1>6, <2>1 DEF FactsOf, Waits, Approved, Refused, BeyondBarrier
<1>7. CASE Answers(c) /\ q = <<>> /\ verdict'[c] = verdict[c]
  <2>1. \A E : Traced(E)' <=> Traced(E)
    BY <1>2, <1>5, <1>7
  <2>2. ~Traced(Results(c))
    BY <1>4, <1>7 DEF Answers, Reach
  <2> QED
    BY <1>3, <1>7, <2>1, <2>2 DEF FactsOf, Answers, Approved, Refused, BeyondBarrier
<1>8. CASE Decides(c, q)
  <2>1. /\ ~Traced({Requested(c)}) /\ ~Traced({Decided(c)}) /\ ~Traced({Begun(c)})
        /\ ~Traced({Receipted(c)}) /\ ~Traced(Results(c))
        /\ pc'[c] \in {"ahead", "done"}
    BY <1>4, <1>8 DEF Decides, Reach
  <2>2. /\ ~Traced({Requested(c)})' /\ ~Traced({Begun(c)})' /\ ~Traced({Receipted(c)})'
        /\ verdict'[c] # "deny" => ~Traced(Results(c))'
        /\ verdict'[c] = "ask" => ~Traced({Decided(c)})'
        /\ pc'[c] = "ahead" => verdict'[c] \in {"allow", "ask"}
    <3>1. CASE verdict'[c] = "deny" /\ q \in {<<>>, <<Decided(c)>>} /\ pc'[c] = "done"
      BY <1>1, <1>2, <1>5, <2>1, <3>1
    <3>2. CASE /\ verdict'[c] = "deny" /\ pc'[c] = "done"
               /\ \E r \in Results(c) : q \in {<<r>>, <<Decided(c), r>>}
      BY <1>1, <1>2, <1>5, <2>1, <3>2
    <3>3. CASE verdict'[c] = "allow" /\ q \in {<<>>, <<Decided(c)>>}
      BY <1>1, <1>2, <1>5, <2>1, <3>3
    <3>4. CASE verdict'[c] = "ask" /\ q = <<>>
      BY <1>2, <1>5, <2>1, <3>4
    <3>5. CASE verdict'[c] = "thrown" /\ pc'[c] = "done" /\ q = <<>>
      BY <1>2, <1>5, <2>1, <3>5
    <3> QED
      BY <1>8, <3>1, <3>2, <3>3, <3>4, <3>5 DEF Decides
  <2> QED
    BY <1>3, <2>1, <2>2 DEF FactsOf, Approved, Refused, BeyondBarrier, Begun
<1>9. CASE UNCHANGED <<verdict, answer>> /\ Pauses(c, q)
  <2>1. CASE pc[c] = "commit" /\ pc'[c] = "pause" /\ verdict[c] = "ask" /\ q = <<Requested(c)>>
    <3>1. ~Traced({Decided(c)}) /\ ~Traced({Receipted(c)}) /\ ~Traced(Results(c))
      BY <1>4, <2>1 DEF Reach
    <3>2. /\ ~Traced({Decided(c)})' /\ ~Traced({Receipted(c)})' /\ ~Traced(Results(c))'
          /\ Traced({Requested(c)})'
      BY <1>1, <1>2, <1>5, <2>1, <3>1
    <3> QED
      BY <1>9, <2>1, <3>2 DEF FactsOf, BeyondBarrier
  <2>2. CASE pc[c] = "pause" /\ answer[c] # "none"
    <3>1. /\ ~Traced({Begun(c)}) /\ ~Traced({Receipted(c)}) /\ ~Traced(Results(c))
          /\ verdict[c] = "ask" /\ Traced({Requested(c)})
      BY <1>4, <2>2 DEF Reach, FactsOf
    <3>2. /\ ~Traced({Begun(c)})' /\ ~Traced({Receipted(c)})'
          /\ Traced({Requested(c)})' /\ Traced({Decided(c)})'
          /\ answer[c] # "deny" => ~Traced(Results(c))'
          /\ pc'[c] = "done" \/ (answer[c] = "allow" /\ pc'[c] = "barrier")
      <4>1. CASE answer[c] = "allow" /\ pc'[c] = "barrier" /\ q = <<Decided(c)>>
        BY <1>1, <1>2, <1>5, <3>1, <4>1
      <4>2. CASE pc'[c] = "done" /\ q = <<Decided(c)>>
        BY <1>1, <1>2, <1>5, <3>1, <4>2
      <4>3. CASE /\ answer[c] = "deny" /\ pc'[c] = "done"
                 /\ \E r \in Results(c) : q = <<Decided(c), r>>
        BY <1>1, <1>2, <1>5, <3>1, <4>3
      <4> QED
        BY <1>9, <2>2, <4>1, <4>2, <4>3 DEF Pauses
    <3>3. answer[c] \in {"allow", "deny"}
      BY <2>2 DEF TypeOK
    <3> QED
      BY <1>9, <2>2, <3>1, <3>2, <3>3 DEF FactsOf, BeyondBarrier, Approved, Refused, Begun
  <2> QED
    BY <1>9, <2>1, <2>2 DEF Pauses
<1>10. CASE UNCHANGED <<verdict, answer>> /\ Runs(c, q)
  <2>1. CASE pc[c] = "start" /\ pc'[c] = "ack" /\ q = <<Begun(c)>>
    <3>1. ~Traced(Results(c)) /\ ~Traced({Receipted(c)})
      BY <1>4, <2>1 DEF Reach
    <3>2. /\ ~Traced({Receipted(c)})' /\ ~Traced(Results(c))'
          /\ Traced({Requested(c)})' <=> Traced({Requested(c)})
          /\ Traced({Decided(c)})' <=> Traced({Decided(c)})
      BY <1>1, <1>2, <1>5, <2>1, <3>1
    <3> QED
      BY <1>10, <2>1, <3>2 DEF FactsOf, BeyondBarrier, Approved
  <2>2. CASE /\ pc[c] \in {"acked", "handler"} /\ pc'[c] = "done"
             /\ \E r \in Results(c) : q = <<Receipted(c), r>>
    <3>1. StartedOf(c)' # {}
      BY <1>3, <2>2 DEF AckedDurable
    <3>2. /\ Traced({Receipted(c)})'
          /\ Traced({Requested(c)})' <=> Traced({Requested(c)})
          /\ Traced({Decided(c)})' <=> Traced({Decided(c)})
      BY <1>1, <1>2, <1>5, <2>2
    <3> QED
      BY <1>10, <2>2, <3>1, <3>2 DEF FactsOf, BeyondBarrier, Approved
  <2> QED
    BY <1>10, <2>1, <2>2 DEF Runs
<1> QED
  BY <1>6, <1>7, <1>8, <1>9, <1>10 DEF Writes

LEMMA FactLaunch ==
  ASSUME TypeOK, CallsLaunched, WindowInv, AckedDurable, RankInv, FactInv,
         NEW c \in Calls, LaunchStep(c) \/ Answer(c)
  PROVE  FactInv'
<1>1. PICK q : Writes(c, q) /\ execQueue' = execQueue \o q
  BY LaunchWrites
<1>2. InTurn(c, q)
  BY <1>1, WritesInTurn
<1>3. q \in Seq(Event) /\ UNCHANGED log /\ execQueue \in Seq(Event)
  BY <1>2, LaunchMoves DEF InTurn, TypeOK
<1>4. \A E : In(execQueue', E) <=> In(execQueue, E) \/ In(q, E)
  BY <1>1, <1>3, InJoined
<1>5. FactsOf(c)'
  BY <1>1, <1>3, <1>4, FactOwn DEF FactInv
<1>6. ASSUME NEW d \in Calls, d # c
      PROVE  FactsOf(d)'
  <2>1. /\ verdict'[d] = verdict[d] /\ answer'[d] = answer[d]
        /\ pc'[d] = pc[d] \/ (pc[d] = "window" /\ pc'[d] = "start")
    BY <1>6, OthersStay
  <2>2. StartedOf(d)' = StartedOf(d)
    BY <1>3 DEF StartedOf
  <2>3. \A E : (\A e \in E : e.call = d) => SameTrace(E)
    <3> SUFFICES ASSUME NEW E, \A e \in E : e.call = d PROVE SameTrace(E)
      OBVIOUS
    <3>1. ~In(q, E)
      BY <1>2, <1>6 DEF In, InTurn
    <3>2. In(log', E) <=> In(log, E)
      BY <1>3
    <3> QED
      BY <1>4, <3>1, <3>2 DEF SameTrace, Traced
  <2>4. /\ \A e \in {Requested(d), Decided(d), Begun(d), Receipted(d)} : e.call = d
        /\ \A e \in Results(d) : e.call = d
    BY LaunchEvent
  <2>5. /\ SameTrace({Requested(d)}) /\ SameTrace({Decided(d)}) /\ SameTrace({Begun(d)})
        /\ SameTrace({Receipted(d)}) /\ SameTrace(Results(d))
    BY <2>3, <2>4
  <2> QED
    BY <2>1, <2>2, <2>5, FactsStay DEF FactInv, BeyondBarrier
<1>7. Untagged(log') /\ Untagged(execQueue')
  <2>1. \A i \in DOMAIN execQueue' :
          \/ i \in DOMAIN execQueue /\ execQueue'[i] = execQueue[i]
          \/ i - Len(execQueue) \in DOMAIN q /\ execQueue'[i] = q[i - Len(execQueue)]
    BY <1>1, <1>3, Joined
  <2> QED
    BY <1>2, <1>3, <2>1 DEF FactInv, Untagged, InTurn
<1> QED
  BY <1>5, <1>6, <1>7 DEF FactInv, Untagged

(***************************************************************************)
(* A receipt and its result.                                               *)
(***************************************************************************)

Paired(s) ==
  \A i \in DOMAIN s : s[i].type = "tool_execution_receipt" =>
    i + 1 \in DOMAIN s /\ s[i + 1] \in Results(s[i].call)

LEMMA PairLaunch ==
  ASSUME TypeOK, WindowInv, PairInv, NEW c \in Calls, LaunchStep(c) \/ Answer(c)
  PROVE  PairInv'
<1>1. PICK q : Writes(c, q) /\ execQueue' = execQueue \o q
  BY LaunchWrites
<1>2. InTurn(c, q) /\ UNCHANGED <<log, main>>
  BY <1>1, WritesInTurn, LaunchMoves
<1>3. /\ execQueue \in Seq(Event) /\ q \in Seq(Event) /\ Len(execQueue) \in Nat
      /\ DOMAIN execQueue = 1..Len(execQueue)
  BY <1>2 DEF InTurn, TypeOK
<1>4. /\ \A i \in DOMAIN execQueue : i \in DOMAIN execQueue' /\ execQueue'[i] = execQueue[i]
      /\ \A j \in DOMAIN q : /\ Len(execQueue) + j \in DOMAIN execQueue'
                             /\ execQueue'[Len(execQueue) + j] = q[j]
      /\ \A i \in DOMAIN execQueue' : i \in DOMAIN execQueue \/ i - Len(execQueue) \in DOMAIN q
  BY <1>1, <1>3, Joined
<1>5. ASSUME NEW i \in DOMAIN execQueue', execQueue'[i].type = "tool_execution_receipt"
      PROVE  i + 1 \in DOMAIN execQueue' /\ execQueue'[i + 1] \in Results(execQueue'[i].call)
  <2>1. CASE i \in DOMAIN execQueue
    BY <1>4, <1>5, <2>1 DEF PairInv
  <2>2. CASE i - Len(execQueue) \in DOMAIN q
    <3> DEFINE k == i - Len(execQueue)
    <3>1. i \in Nat /\ k \in Nat /\ i = Len(execQueue) + k
      <4>1. execQueue' \in Seq(Event)
        BY <1>1, <1>3, Joined
      <4> QED
        BY <1>3, <2>2, <4>1
    <3>2. q[k] = execQueue'[i]
      BY <1>4, <2>2, <3>1
    <3>3. q[k].call = c /\ k + 1 \in DOMAIN q /\ q[k + 1] \in Results(c)
      BY <1>2, <1>5, <2>2, <3>2 DEF InTurn
    <3>4. Len(execQueue) + (k + 1) = i + 1
      BY <1>3, <3>1
    <3> QED
      BY <1>4, <3>2, <3>3, <3>4
  <2> QED
    BY <1>4, <2>1, <2>2
<1>6. ASSUME NEW d \in Calls, Unpaired(d)'
      PROVE  /\ main' \in {"recv", "abandon", "drain", "closed"}
             /\ execQueue' # <<>> /\ Head(execQueue') \in Results(d)
  <2>1. Unpaired(d)
    BY <1>2, <1>6 DEF Unpaired
  <2>2. /\ main \in {"recv", "abandon", "drain", "closed"}
        /\ execQueue # <<>> /\ Head(execQueue) \in Results(d)
    BY <2>1 DEF PairInv
  <2>3. 1 \in DOMAIN execQueue /\ Head(execQueue) = execQueue[1]
    BY <1>3, <2>2
  <2>4. execQueue' \in Seq(Event) /\ 1 \in DOMAIN execQueue' /\ execQueue'[1] = execQueue[1]
    BY <1>1, <1>3, <1>4, <2>3, Joined
  <2> QED
    BY <1>2, <2>2, <2>3, <2>4
<1> QED
  BY <1>5, <1>6 DEF PairInv

LEMMA PairMain ==
  ASSUME TypeOK, PairInv, MainStep
  PROVE  PairInv'
<1>1. CASE Drain
  <2>1. /\ execQueue # <<>> /\ 1 \in DOMAIN execQueue /\ Head(execQueue) = execQueue[1]
        /\ log' = Append(log, execQueue[1]) /\ execQueue[1] \in Event
        /\ \A i \in DOMAIN execQueue' :
             i + 1 \in DOMAIN execQueue /\ execQueue'[i] = execQueue[i + 1]
        /\ \A i \in DOMAIN execQueue : i + 1 \in DOMAIN execQueue => i \in DOMAIN execQueue'
        /\ DOMAIN execQueue \subseteq Nat /\ DOMAIN execQueue' \subseteq Nat
        /\ UNCHANGED main
    BY <1>1, Drained
  <2>2. main \in {"recv", "abandon", "drain"} /\ execQueue' \in Seq(Event) /\ log \in Seq(Event)
    BY <1>1, InSplit DEF Drain, TypeOK
  <2>3. ASSUME NEW i \in DOMAIN execQueue', execQueue'[i].type = "tool_execution_receipt"
        PROVE  i + 1 \in DOMAIN execQueue' /\ execQueue'[i + 1] \in Results(execQueue'[i].call)
    <3>1. /\ i + 1 \in DOMAIN execQueue /\ execQueue'[i] = execQueue[i + 1]
      BY <2>1
    <3>2. /\ (i + 1) + 1 \in DOMAIN execQueue
          /\ execQueue[(i + 1) + 1] \in Results(execQueue[i + 1].call)
      BY <2>3, <3>1 DEF PairInv
    <3>3. i + 1 \in DOMAIN execQueue'
      BY <2>1, <3>1, <3>2
    <3>4. execQueue'[i + 1] = execQueue[(i + 1) + 1]
      BY <2>1, <3>3
    <3> QED
      BY <3>1, <3>2, <3>3, <3>4
  <2>4. ASSUME NEW c \in Calls, Unpaired(c)'
        PROVE  execQueue' # <<>> /\ Head(execQueue') \in Results(c)
    <3>1. \A E : In(log', E) <=> In(log, E) \/ execQueue[1] \in E
      BY <2>1, <2>2, InAppend
    <3>2. /\ ~In(log, Results(c)) /\ execQueue[1] \notin Results(c)
          /\ In(log, {Receipted(c)}) \/ execQueue[1] = Receipted(c)
      BY <2>4, <3>1 DEF Unpaired
    <3>3. execQueue[1] = Receipted(c)
      BY <2>1, <3>2 DEF PairInv, Unpaired
    <3>4. 1 + 1 \in DOMAIN execQueue /\ execQueue[1 + 1] \in Results(c)
      BY <2>1, <3>3, LaunchEvent DEF PairInv
    <3>5. 1 \in DOMAIN execQueue' /\ execQueue'[1] \in Results(c)
      BY <2>1, <3>4
    <3> QED
      BY <2>2, <3>5
  <2> QED
    BY <2>1, <2>2, <2>3, <2>4 DEF PairInv
<1>2. CASE ~Drain
  <2>1. UNCHANGED execQueue
    BY <1>2, Grown
  <2>2. ASSUME NEW c \in Calls, Unpaired(c)'
        PROVE  FALSE
    <3>1. Unpaired(c)
      <4>1. \A E : (\A e \in E : e.type \in LaunchEvents) => (In(log', E) <=> In(log, E))
        <5>1. CASE UNCHANGED log
          BY <5>1
        <5>2. CASE ~UNCHANGED log
          <6>1. PICK t \in KernelEvents :
                  \E k \in 0..MaxCalls : Ev(t, k) \in Event /\ log' = Append(log, Ev(t, k))
                                         /\ ~Launches(Ev(t, k))
            BY <1>2, <5>2, Grown
          <6> QED
            BY <6>1, InAppend DEF TypeOK, Launches
        <5> QED
          BY <5>1, <5>2
      <4>2. /\ \A e \in {Receipted(c)} : e.type \in LaunchEvents
            /\ \A e \in Results(c) : e.type \in LaunchEvents
        BY LaunchEvent DEF LaunchEvents
      <4>3. /\ In(log', {Receipted(c)}) <=> In(log, {Receipted(c)})
            /\ In(log', Results(c)) <=> In(log, Results(c))
        BY <4>1, <4>2
      <4> QED
        BY <2>2, <4>3 DEF Unpaired
    <3>2. main \in {"recv", "abandon", "drain", "closed"} /\ execQueue # <<>>
      BY <3>1 DEF PairInv
    <3> QED
      BY <1>2, <3>2 DEF MainStep, TurnHead, Admit, OpenTurn, Compact, BeginRequest, Restream,
         Receive, Delta, CallEnd, HoldStop, Violation, StreamEnd, StreamFail, Abandoned,
         Committed, TakeOrSeal, TurnSettles, Terminal, At, Looking, AllSettled
  <2> QED
    BY <2>1, <2>2 DEF PairInv
<1> QED
  BY <1>1, <1>2

LEMMA PairEnv ==
  ASSUME TypeOK, InFlight, PairInv,
         Persist \/ PersistFails \/ Abort \/ Over \/ UNCHANGED vars
  PROVE  PairInv'
<1>1. UNCHANGED <<log, execQueue>>
  BY EnvMoves
<1>2. main' \in {main, "closed"}
  BY DEF Persist, PersistFails, Abort, Over, vars
<1> QED
  BY <1>1, <1>2 DEF PairInv, Unpaired

(***************************************************************************)
(* The calls of the log.                                                   *)
(***************************************************************************)

LEMMA FirstEvent ==
  ASSUME TypeOK, FreshAttempt, CallsDeclared
  PROVE  /\ 1 \in DOMAIN log /\ DOMAIN log = 1..Len(log) /\ Len(log) \in Nat
         /\ turnStart \in DOMAIN log
BY DEF TypeOK, FreshAttempt, CallsDeclared

\* Of the generator's events only CallEnd's is a tool_call_end.
LEMMA DeclaresOnce ==
  ASSUME TypeOK, QueueOfCalls, MainStep, ~CallEnd, NEW e \in Event, log' = Append(log, e)
  PROVE  e.type # "tool_call_end"
<1>1. log \in Seq(Event)
  BY DEF TypeOK
<1>2. log'[Len(log) + 1] = e /\ log' # log
  <2>1. Len(log') = Len(log) + 1 /\ log'[Len(log) + 1] = e
    BY <1>1, Appended
  <2> QED
    BY <1>1, <2>1
<1>3. PICK f \in Event :
        /\ log' = Append(log, f)
        /\ \/ Drain /\ execQueue # <<>> /\ f = execQueue[1]
           \/ Terminal /\ f.type = "terminal"
           \/ StreamEnd /\ f.type = "stop"
           \/ Abandoned /\ f.type = "model_output_abandoned"
           \/ (Delta \/ CallEnd) /\ f.type \in DraftTypes
           \/ f.type \in {"user_input", "summarized"}
  BY <1>2, WhoAppends
<1>4. f = e
  BY <1>1, <1>2, <1>3, Appended
<1>5. CASE Drain /\ execQueue # <<>> /\ f = execQueue[1]
  BY <1>4, <1>5, Drained DEF QueueOfCalls, LaunchEvents
<1>6. CASE Delta
  <2>1. log' = Append(log, Ev("delta", 0))
    BY <1>2, <1>6 DEF Delta, Emit
  <2>2. Ev("delta", 0) \in Event /\ Ev("delta", 0).type = "delta"
    BY ConstantsAssumption DEF Event, Ev, EventTypes
  <2> QED
    BY <1>1, <1>2, <2>1, <2>2, Appended
<1> QED
  BY <1>3, <1>4, <1>5, <1>6

LEMMA DeclaredMain ==
  ASSUME TypeOK, CallsLaunched, QueueOfCalls, AttemptInv, LogOfCalls, CallsDeclared,
         MainStep
  PROVE  CallsDeclared'
<1>1. /\ 1 \in DOMAIN log /\ DOMAIN log = 1..Len(log) /\ Len(log) \in Nat
      /\ \A c \in Launched : c \in Calls /\ seq'[c] = seq[c]
      /\ log \in Seq(Event) /\ log' \in Seq(Event)
      /\ \A i \in DOMAIN log : i \in DOMAIN log' /\ log'[i] = log[i]
      /\ Len(log) <= Len(log') /\ Len(log') \in Nat
  BY FirstEvent, MainStepCalls, MainLog DEF AttemptInv, TypeOK
<1>2. Launched \subseteq Launched'
  BY MainKeepsReach
<1>3. log'[1].type = "user_input" /\ turnStart' >= 1
  <2>1. turnStart' = turnStart \/ turnStart' = Len(log')
    BY MainFrame DEF BeginRequest, Abandoned
  <2> QED
    BY <1>1, <2>1 DEF CallsDeclared
<1>4. \A j \in DOMAIN execQueue' : execQueue'[j].call \in Pending'
  <2>1. CASE UNCHANGED turnStart
    <3>1. Pending \subseteq Pending'
      BY <1>1, <1>2, <2>1 DEF Pending
    <3>2. \A j \in DOMAIN execQueue' : \E i \in DOMAIN execQueue : execQueue'[j] = execQueue[i]
      BY Drained, Grown
    <3> QED
      BY <3>1, <3>2 DEF CallsDeclared
  <2>2. CASE ~UNCHANGED turnStart
    <3>1. BeginRequest \/ Abandoned
      BY <2>2, MainFrame
    <3>2. AllSettled /\ UNCHANGED execQueue
      BY <3>1 DEF BeginRequest, Abandoned, AttemptInv, Settlement, SettledPoints, At
    <3> QED
      BY <3>2 DEF AllSettled
  <2> QED
    BY <2>1, <2>2
<1>5. CASE CallEnd
  <2>1. /\ n' = n + 1 /\ n \in Nat /\ n + 1 \in Calls /\ n + 1 \notin Launched
        /\ Launched' = Launched \cup {n + 1} /\ seq'[n + 1] = Len(log) + 1
        /\ log' = Append(log, Ev("tool_call_end", n + 1))
        /\ UNCHANGED execQueue
    BY <1>5, ConstantsAssumption DEF CallEnd, Emit, Launched, Calls, TypeOK
  <2>2. /\ Ev("tool_call_end", n + 1) \in Event
        /\ Ev("tool_call_end", n + 1).type = "tool_call_end"
        /\ Ev("tool_call_end", n + 1).call = n + 1
        /\ ~Launches(Ev("tool_call_end", n + 1))
    BY <2>1 DEF Ev, Event, EventTypes, Calls, Launches, LaunchEvents
  <2>3. /\ DOMAIN log' = DOMAIN log \cup {Len(log) + 1} /\ Len(log) + 1 \notin DOMAIN log
        /\ log'[Len(log) + 1] = Ev("tool_call_end", n + 1)
    BY <1>1, <2>1, <2>2, Appended
  <2>4. \A i \in DOMAIN log : log'[i].type = "tool_call_end" =>
          log'[i].call \in Launched' /\ seq'[log'[i].call] = i
    BY <1>1, <1>2 DEF CallsDeclared
  <2>5. \A i \in DOMAIN log : Launches(log'[i]) => i > seq'[log'[i].call]
    BY <1>1 DEF CallsDeclared, LogOfCalls
  <2> QED
    BY <1>1, <1>2, <1>3, <1>4, <2>1, <2>2, <2>3, <2>4, <2>5 DEF CallsDeclared
<1>6. CASE ~CallEnd
  <2>1. UNCHANGED <<n, seq>> /\ Launched' = Launched
    BY <1>6, MainFrame DEF Launched
  <2>2. CASE UNCHANGED log
    BY <1>3, <1>4, <2>1, <2>2 DEF CallsDeclared
  <2>3. CASE ~UNCHANGED log
    <3>1. PICK e \in Event : /\ log' = Append(log, e) /\ Len(log') = Len(log) + 1
                             /\ log'[Len(log) + 1] = e
                             /\ DOMAIN log' = DOMAIN log \cup {Len(log) + 1}
      BY <2>3, MainLog
    <3>2. e.type # "tool_call_end"
      BY <1>6, <3>1, DeclaresOnce
    <3>3. Launches(e) => Len(log) + 1 > seq[e.call]
      <4>1. CASE Drain
        <5>1. e = execQueue[1] /\ 1 \in DOMAIN execQueue
          BY <3>1, <4>1, Drained
        <5>2. e.call \in Launched
          BY <5>1 DEF CallsDeclared, Pending
        <5> QED
          BY <1>1, <5>2 DEF CallsDeclared
      <4>2. CASE ~Drain
        BY <2>3, <3>1, <4>2, Grown
      <4> QED
        BY <4>1, <4>2
    <3>4. \A i \in DOMAIN log' : i \in DOMAIN log \/ i = Len(log) + 1
      BY <3>1
    <3>5. /\ \A c \in Launched' : seq'[c] \in DOMAIN log' /\ log'[seq'[c]] = Ev("tool_call_end", c)
      BY <1>1, <2>1 DEF CallsDeclared
    <3>6. \A i \in DOMAIN log' : log'[i].type = "tool_call_end" =>
            log'[i].call \in Launched' /\ seq'[log'[i].call] = i
      BY <1>1, <2>1, <3>1, <3>2, <3>4 DEF CallsDeclared
    <3>7. \A i \in DOMAIN log' : Launches(log'[i]) => i > seq'[log'[i].call]
      BY <1>1, <2>1, <3>1, <3>3, <3>4 DEF CallsDeclared
    <3> QED
      BY <1>3, <1>4, <3>5, <3>6, <3>7 DEF CallsDeclared
  <2> QED
    BY <2>2, <2>3
<1> QED
  BY <1>5, <1>6

LEMMA DeclaredLaunch ==
  ASSUME TypeOK, CallsLaunched, WindowInv, AttemptInv, CallsDeclared,
         NEW c \in Calls, LaunchStep(c) \/ Answer(c)
  PROVE  CallsDeclared'
<1>1. PICK q : Writes(c, q) /\ execQueue' = execQueue \o q
  BY LaunchWrites
<1>2. InTurn(c, q) /\ UNCHANGED <<log, n, seq, turnStart>>
  <2>1. UNCHANGED turnStart
    BY DEF LaunchStep, Decide, PassAskGate, PassCommitGate, PauseEnds, Answer,
       PauseAborted, PassBarrier, Start, Execute, Finish
  <2> QED
    BY <1>1, <2>1, WritesInTurn, LaunchMoves
<1>3. c \in Pending
  <2>1. pc[c] \notin {"idle", "done"}
    BY <1>1 DEF Writes, Decides, Answers, Waits, Pauses, Runs
  <2>2. c \in Launched
    BY <2>1, LaunchedCalls
  <2> QED
    BY <2>1, <2>2 DEF AttemptInv, Settlement, Active
<1>4. Pending' = Pending /\ Launched' = Launched
  BY <1>2 DEF Pending, Launched
<1>5. \A i \in DOMAIN execQueue' :
        \/ i \in DOMAIN execQueue /\ execQueue'[i] = execQueue[i]
        \/ i - Len(execQueue) \in DOMAIN q /\ execQueue'[i] = q[i - Len(execQueue)]
  BY <1>1, <1>2, Joined DEF InTurn, TypeOK
<1>6. \A i \in DOMAIN execQueue' : execQueue'[i].call \in Pending'
  BY <1>2, <1>3, <1>4, <1>5 DEF CallsDeclared, InTurn
<1> QED
  BY <1>2, <1>4, <1>6 DEF CallsDeclared

LEMMA DeclaredEnv ==
  ASSUME TypeOK, InFlight, CallsDeclared,
         Persist \/ PersistFails \/ Abort \/ Over \/ UNCHANGED vars
  PROVE  CallsDeclared'
<1>1. UNCHANGED <<log, n, seq, execQueue>>
  BY EnvMoves
<1>2. UNCHANGED turnStart
  BY DEF Persist, PersistFails, Abort, Over, vars
<1> QED
  BY <1>1, <1>2 DEF CallsDeclared, Pending, Launched

(***************************************************************************)
(* The log, attempt by attempt, where nothing is compacted.                *)
(***************************************************************************)

LEMMA SegmentsMain ==
  ASSUME ~Compacts, TypeOK, CallsLaunched, Gated, SpeculationIsSafe, QueueOfCalls,
         AttemptInv, DraftInv, VoidInv, CallsDeclared, Segments, MainStep
  PROVE  Segments'
<1>0. log \in Seq(Event) /\ log' \in Seq(Event)
  BY MainLog DEF TypeOK
<1>1. /\ Len(log) \in Nat /\ Len(log') \in Nat /\ turnStart \in Nat
      /\ turnStart <= Len(log) /\ 1 <= turnStart
      /\ Len(log) <= Len(log')
      /\ \A i : i \in DOMAIN log <=> i \in Nat /\ 1 <= i /\ i <= Len(log)
      /\ \A i : i \in DOMAIN log' <=> i \in Nat /\ 1 <= i /\ i <= Len(log')
      /\ \A i \in DOMAIN log : log'[i] = log[i]
      /\ log' = log \/ Len(log') = Len(log) + 1
  <2>1. /\ Len(log) \in Nat /\ Len(log') \in Nat /\ Len(log) <= Len(log')
        /\ DOMAIN log = 1..Len(log) /\ DOMAIN log' = 1..Len(log')
    BY <1>0, MainLog
  <2>a. /\ \A i : i \in DOMAIN log <=> i \in Nat /\ 1 <= i /\ i <= Len(log)
        /\ \A i : i \in DOMAIN log' <=> i \in Nat /\ 1 <= i /\ i <= Len(log')
    <3> DEFINE L == Len(log) M == Len(log')
    <3>1. L \in Nat /\ M \in Nat /\ DOMAIN log = 1..L /\ DOMAIN log' = 1..M
      BY <2>1
    <3> HIDE DEF L, M
    <3>2. /\ \A i : i \in DOMAIN log <=> i \in Nat /\ 1 <= i /\ i <= L
          /\ \A i : i \in DOMAIN log' <=> i \in Nat /\ 1 <= i /\ i <= M
      BY <3>1
    <3> QED
      BY <3>2 DEF L, M
  <2>2. \A i \in DOMAIN log : log'[i] = log[i]
    BY MainLog
  <2>3. log' = log \/ Len(log') = Len(log) + 1
    BY MainLog
  <2>4. turnStart \in Nat /\ turnStart <= Len(log) /\ 1 <= turnStart
    BY DEF TypeOK, AttemptInv, FreshAttempt, CallsDeclared
  <2> QED
    BY <2>1, <2>a, <2>2, <2>3, <2>4
<1>2. log' # log =>
        \E e \in Event :
           /\ log' = Append(log, e) /\ log'[Len(log) + 1] = e
           /\ DOMAIN log' = DOMAIN log \cup {Len(log) + 1} /\ Len(log') = Len(log) + 1
           /\ \/ Drain /\ execQueue # <<>> /\ e = execQueue[1] /\ UNCHANGED main
              \/ Terminal /\ e.type = "terminal" /\ main' = "ended"
              \/ StreamEnd /\ e.type = "stop" /\ main' = "committed"
              \/ Abandoned /\ e.type = "model_output_abandoned"
              \/ (Delta \/ CallEnd) /\ e.type \in DraftTypes
              \/ (Admit \/ TakeOrSeal) /\ e.type = "user_input"
  <2> SUFFICES ASSUME log' # log
               PROVE  \E e \in Event :
                         /\ log' = Append(log, e) /\ log'[Len(log) + 1] = e
                         /\ DOMAIN log' = DOMAIN log \cup {Len(log) + 1}
                         /\ Len(log') = Len(log) + 1
                         /\ \/ Drain /\ execQueue # <<>> /\ e = execQueue[1] /\ UNCHANGED main
                            \/ Terminal /\ e.type = "terminal" /\ main' = "ended"
                            \/ StreamEnd /\ e.type = "stop" /\ main' = "committed"
                            \/ Abandoned /\ e.type = "model_output_abandoned"
                            \/ (Delta \/ CallEnd) /\ e.type \in DraftTypes
                            \/ (Admit \/ TakeOrSeal) /\ e.type = "user_input"
    OBVIOUS
  <2>1. PICK e \in Event :
           /\ log' = Append(log, e)
           /\ \/ Drain /\ execQueue # <<>> /\ e = execQueue[1] /\ UNCHANGED main
              \/ Terminal /\ e.type = "terminal" /\ main' = "ended"
              \/ StreamEnd /\ e.type = "stop" /\ main' = "committed"
              \/ Abandoned /\ e.type = "model_output_abandoned"
              \/ (Delta \/ CallEnd) /\ e.type \in DraftTypes
              \/ /\ Admit \/ Compact \/ TakeOrSeal
                 /\ e.type \in {"user_input", "summarized"}
    BY WhoAppends
  <2>2. /\ log'[Len(log) + 1] = e /\ DOMAIN log' = DOMAIN log \cup {Len(log) + 1}
        /\ Len(log') = Len(log) + 1
    BY <1>0, <2>1, Appended
  <2>3. ASSUME Admit \/ TakeOrSeal
        PROVE  e.type = "user_input"
    <3>1. log' = Append(log, Ev("user_input", 0))
      BY <2>3 DEF Admit, TakeOrSeal, Emit
    <3>2. Ev("user_input", 0) \in Event /\ Ev("user_input", 0).type = "user_input"
      BY ConstantsAssumption DEF Event, Ev, EventTypes
    <3> QED
      BY <1>0, <2>2, <3>1, <3>2, Appended
  <2>4. ~Compact
    BY DEF Compact
  <2> QED
    BY <2>1, <2>2, <2>3, <2>4
<1>3. \A i \in DOMAIN execQueue : execQueue[i].type \in LaunchEvents
  BY DEF QueueOfCalls
<1>4. \A e : Drain /\ execQueue # <<>> /\ e = execQueue[1] => e.type \in LaunchEvents
  BY <1>3, Drained
<1>5. NoSummary'
  <2>1. CASE UNCHANGED log
    BY <2>1 DEF Segments, NoSummary
  <2>2. CASE ~UNCHANGED log
    BY <1>1, <1>2, <1>4, <2>2 DEF Segments, NoSummary, LaunchEvents, DraftTypes
  <2> QED
    BY <2>1, <2>2
<1>6. /\ main' \in {"stream", "recv", "abandon", "committed", "drain"} =>
           \/ turnStart' = Len(log')
           \/ /\ UNCHANGED turnStart
              /\ main \in {"stream", "recv", "abandon", "committed", "drain"}
              /\ ~Abandoned /\ ~Admit /\ ~TakeOrSeal /\ ~Terminal
      /\ main' \in {"stream", "recv", "abandon"} =>
           \/ turnStart' = Len(log')
           \/ UNCHANGED turnStart /\ main \in {"stream", "recv", "abandon"} /\ ~StreamEnd
           \/ UNCHANGED <<log, turnStart>> /\ main \in {"stream", "recv", "abandon"}
  <2>1. CASE BeginRequest \/ Restream \/ Abandoned
    BY <2>1 DEF BeginRequest, Restream, Abandoned, At, Goto, EndRun, AttemptInv, FreshAttempt
  <2>2. CASE ~BeginRequest /\ ~Restream /\ ~Abandoned
    <3>1. UNCHANGED turnStart
      BY <2>2, MainFrame
    <3>2. CASE TurnHead \/ Admit \/ OpenTurn \/ Compact \/ TakeOrSeal \/ Terminal
      BY <3>2 DEF TurnHead, Admit, OpenTurn, Compact, TakeOrSeal, Terminal, At, Goto, EndRun
    <3>3. CASE Receive \/ Drain \/ Delta \/ CallEnd \/ HoldStop \/ Violation \/ StreamFail
      BY <2>2, <3>1, <3>3 DEF Receive, Drain, Delta, CallEnd, HoldStop, Violation, StreamFail,
         At, Goto, Looking, Abandon, Abandoned, Admit, TakeOrSeal, Terminal, StreamEnd
    <3>4. CASE StreamEnd
      BY <2>2, <3>1, <3>4 DEF StreamEnd, At, Goto, Abandon, Abandoned, Admit, TakeOrSeal,
         Terminal
    <3>5. CASE Committed \/ TurnSettles
      BY <2>2, <3>1, <3>5 DEF Committed, TurnSettles, At, Goto, EndRun, Admit, TakeOrSeal,
         Terminal
    <3> QED
      BY <2>2, <3>2, <3>3, <3>4, <3>5 DEF MainStep
  <2> QED
    BY <2>1, <2>2
<1>7. OneAttempt'
  <2>1. CASE turnStart' = Len(log')
    BY <1>1, <2>1 DEF OneAttempt
  <2>2. CASE /\ UNCHANGED turnStart
             /\ main \in {"stream", "recv", "abandon", "committed", "drain"}
             /\ ~Abandoned /\ ~Admit /\ ~TakeOrSeal /\ ~Terminal
    <3>1. CASE UNCHANGED log
      BY <2>2, <3>1 DEF OneAttempt, Segments
    <3>2. CASE ~UNCHANGED log
      <4>1. PICK e \in Event : /\ log'[Len(log) + 1] = e /\ e.type \notin Interrupts
                               /\ DOMAIN log' = DOMAIN log \cup {Len(log) + 1}
        BY <1>2, <1>4, <2>2, <3>2 DEF Interrupts, LaunchEvents, DraftTypes
      <4> QED
        BY <1>1, <2>2, <4>1 DEF OneAttempt, Segments
    <3> QED
      BY <3>1, <3>2
  <2> QED
    BY <1>6, <2>1, <2>2 DEF OneAttempt
<1>8. OutputFirst'
  <2> SUFFICES ASSUME main' \in {"stream", "recv", "abandon"}, Len(log') > turnStart'
               PROVE  log'[turnStart' + 1].type \in DraftTypes
    BY DEF OutputFirst
  <2>1. UNCHANGED turnStart /\ main \in {"stream", "recv", "abandon"}
    BY <1>1, <1>6
  <2>2. CASE Len(log) > turnStart
    <3>1. turnStart + 1 \in DOMAIN log
      BY <1>1, <2>2
    <3> QED
      BY <1>1, <2>1, <2>2, <3>1 DEF OutputFirst, Segments
  <2>3. CASE Len(log) = turnStart
    <3>1. ~UNCHANGED log
      BY <1>1, <2>1, <2>3
    <3>2. PICK e \in Event :
            /\ log'[Len(log) + 1] = e
            /\ \/ Drain /\ execQueue # <<>> /\ e = execQueue[1]
               \/ e.type \in DraftTypes
      <4>1. ~Terminal /\ ~Admit /\ ~TakeOrSeal /\ ~Abandoned /\ ~StreamEnd
        <5>1. ~Terminal /\ ~Admit /\ ~TakeOrSeal
          BY <2>1 DEF Terminal, Admit, TakeOrSeal, At
        <5>2. Abandoned => turnStart' = Len(log') \/ main' \notin {"stream", "recv", "abandon"}
          BY DEF Abandoned, Goto, EndRun
        <5>3. StreamEnd => UNCHANGED log \/ main' = "committed"
          BY DEF StreamEnd, Goto
        <5> QED
          BY <1>1, <3>1, <5>1, <5>2, <5>3
      <4> QED
        BY <1>2, <3>1, <4>1
    <3>3. ~Drain
      <4>1. Drain => execQueue[1].call \in Pending
        BY Drained DEF CallsDeclared
      <4>2. Pending = {}
        BY <1>1, <2>3 DEF Pending, CallsDeclared
      <4> QED
        BY <4>1, <4>2
    <3> QED
      BY <2>1, <2>3, <3>2, <3>3
  <2> QED
    BY <1>1, <2>2, <2>3
<1>9. AttemptClosed'
  <2> DEFINE Behind == {"committed", "drain", "siteB", "head", "siteA", "compact", "siteC", "end"}
  <2> SUFFICES ASSUME main' \in Behind, Len(log') > turnStart'
               PROVE  \E i \in DOMAIN log' : /\ i > turnStart'
                                             /\ log'[i].type \in EnderTypes \cup Interrupts
    BY DEF AttemptClosed
  <2>1. CASE Abandoned
    <3>1. outcome # "overflow" /\ main = "abandon"
      BY <2>1 DEF VoidInv, Abandoned, At
    <3>2. /\ UNCHANGED turnStart /\ ~launchError
          /\ IF DraftToVoid THEN Emit(Ev("model_output_abandoned", 0)) ELSE UNCHANGED logVars
      BY <2>1, <3>1 DEF Abandoned, Goto
    <3>3. CASE DraftToVoid
      <4>1. Ev("model_output_abandoned", 0) \in Event
        BY ConstantsAssumption DEF Event, Ev, EventTypes
      <4>2. /\ Len(log) + 1 \in DOMAIN log'
            /\ log'[Len(log) + 1] = Ev("model_output_abandoned", 0)
        BY <1>0, <3>2, <3>3, <4>1, Appended DEF Emit
      <4>3. log'[Len(log) + 1].type \in EnderTypes
        BY <4>2 DEF Ev, EnderTypes
      <4> QED
        BY <1>1, <3>2, <4>2, <4>3
    <3>4. CASE ~DraftToVoid
      <4>1. Len(log) = turnStart
        BY <1>1, <3>1, <3>4, NothingUnsafe DEF DraftToVoid
      <4> QED
        BY <3>2, <3>4, <4>1
    <3> QED
      BY <3>3, <3>4
  <2>2. CASE StreamEnd
    <3>1. main' = "committed" /\ log' = Append(log, Ev("stop", 0)) /\ UNCHANGED turnStart
      BY <2>2 DEF StreamEnd, Goto, Emit, Abandon
    <3>2. Ev("stop", 0) \in Event
      BY ConstantsAssumption DEF Event, Ev, EventTypes
    <3>3. Len(log) + 1 \in DOMAIN log' /\ log'[Len(log) + 1] = Ev("stop", 0)
      BY <1>0, <3>1, <3>2, Appended
    <3>4. log'[Len(log) + 1].type \in EnderTypes
      BY <3>3 DEF Ev, EnderTypes
    <3> QED
      BY <1>1, <3>1, <3>3, <3>4
  <2>3. CASE Restream
    BY <1>1, <2>3 DEF Restream, At, AttemptInv, FreshAttempt
  <2>4. CASE ~Abandoned /\ ~StreamEnd /\ ~Restream
    <3>1. UNCHANGED turnStart /\ main \in Behind
      <4>1. UNCHANGED turnStart
        BY <2>4, MainFrame DEF BeginRequest, Goto
      <4>2. ~BeginRequest => main \in Behind
        <5>1. CASE TurnHead \/ Admit \/ OpenTurn \/ Compact \/ TakeOrSeal \/ Committed \/ TurnSettles
          BY <5>1 DEF TurnHead, Admit, OpenTurn, Compact, TakeOrSeal, Committed, TurnSettles, At
        <5>2. CASE Receive \/ Drain \/ Delta \/ CallEnd \/ HoldStop \/ Violation \/ StreamFail \/ Terminal
          BY <5>2 DEF Receive, Drain, Delta, CallEnd, HoldStop, Violation, StreamFail, Terminal,
             At, Goto, Looking, Abandon
        <5> QED
          BY <2>4, <5>1, <5>2 DEF MainStep
      <4>3. BeginRequest => main \in Behind
        BY DEF BeginRequest, At, VoidInv
      <4> QED
        BY <4>1, <4>2, <4>3
    <3>2. CASE Len(log) > turnStart
      BY <1>1, <3>1, <3>2 DEF AttemptClosed, Segments
    <3>3. CASE Len(log) = turnStart
      <4>1. log' # log
        BY <1>1, <3>1, <3>3
      <4>2. PICK e \in Event :
              /\ log'[Len(log) + 1] = e /\ Len(log) + 1 \in DOMAIN log'
              /\ \/ Drain /\ execQueue # <<>> /\ e = execQueue[1]
                 \/ e.type = "user_input"
        <5>1. ~Terminal /\ ~Delta /\ ~CallEnd
          BY DEF Terminal, Delta, CallEnd, Goto
        <5> QED
          BY <1>1, <1>2, <2>4, <4>1, <5>1
      <4>3. ~Drain
        <5>1. Drain => execQueue[1].call \in Pending
          BY Drained DEF CallsDeclared
        <5>2. Pending = {}
          BY <1>1, <3>3 DEF Pending, CallsDeclared
        <5> QED
          BY <5>1, <5>2
      <4> QED
        BY <1>1, <3>1, <3>3, <4>2, <4>3 DEF Interrupts
    <3> QED
      BY <1>1, <3>2, <3>3
  <2> QED
    BY <2>1, <2>2, <2>3, <2>4
<1>10. InputBetween'
  <2> SUFFICES ASSUME NEW i \in DOMAIN log', NEW j \in DOMAIN log', i < j,
                      log'[i].type \in DraftTypes, log'[j].type = "user_input"
               PROVE  \E k \in DOMAIN log' : i < k /\ k < j /\ log'[k].type \in EnderTypes
    BY DEF InputBetween
  <2>1. CASE j \in DOMAIN log
    <3>1. i \in DOMAIN log
      BY <1>1, <2>1
    <3>2. \E k \in DOMAIN log : i < k /\ k < j /\ log[k].type \in EnderTypes
      BY <1>1, <2>1, <3>1 DEF Segments, InputBetween
    <3> QED
      BY <1>1, <3>2
  <2>2. CASE j \notin DOMAIN log
    <3>1. j = Len(log) + 1 /\ log' # log /\ i \in DOMAIN log
      BY <1>1, <2>2
    <3>2. Admit \/ TakeOrSeal
      BY <1>2, <1>4, <3>1 DEF LaunchEvents, DraftTypes
    <3>3. ~Unsettled(i)
      BY <3>1, <3>2 DEF DraftInv, DraftPoints, Admit, TakeOrSeal, At
    <3>4. PICK k \in DOMAIN log : k > i /\ log[k].type \in EnderTypes
      BY <1>1, <3>1, <3>3 DEF Unsettled
    <3> QED
      BY <1>1, <3>1, <3>4
  <2> QED
    BY <2>1, <2>2
<1> QED
  BY <1>5, <1>7, <1>8, <1>9, <1>10 DEF Segments

LEMMA SegmentsStay ==
  ASSUME Segments, UNCHANGED <<log, turnStart>>, main' \in {main, "closed"}
  PROVE  Segments'
BY DEF Segments, NoSummary, OneAttempt, OutputFirst, AttemptClosed, InputBetween

(***************************************************************************)
(* Where a turn may begin, its predecessors' calls are answered.           *)
(***************************************************************************)

LEMMA CommittedNoLater ==
  ASSUME TypeOK, CallsLaunched, CallsDeclared, MainStep, NEW c \in Launched,
         ~(StreamEnd /\ main' = "committed"), QueueOfCalls, CommittedCall(c)'
  PROVE  CommittedCall(c)
<1>1. PICK i \in DOMAIN log' :
        /\ i > seq'[c] /\ log'[i].type = "stop"
        /\ \A j \in DOMAIN log' : j > seq'[c] /\ log'[j].type \in EnderTypes => i <= j
  BY DEF CommittedCall
<1>2. /\ seq'[c] = seq[c]
      /\ \A j \in DOMAIN log : j \in DOMAIN log' /\ log'[j] = log[j]
  BY MainStepCalls, MainLog
<1>3. i \in DOMAIN log
  <2>1. CASE UNCHANGED log
    BY <1>1, <2>1
  <2>2. CASE log' # log
    <3>1. PICK e \in Event :
             /\ log' = Append(log, e)
             /\ \/ Drain /\ execQueue # <<>> /\ e = execQueue[1]
                \/ e.type # "stop"
      BY <2>2, WhoAppends DEF DraftTypes
    <3>2. e.type # "stop"
      BY <3>1, Drained DEF QueueOfCalls, LaunchEvents
    <3>3. log'[Len(log) + 1] = e /\ DOMAIN log' = DOMAIN log \cup {Len(log) + 1}
      BY <3>1, Appended DEF TypeOK
    <3> QED
      BY <1>1, <3>2, <3>3
  <2> QED
    BY <2>1, <2>2
<1> QED
  BY <1>1, <1>2, <1>3 DEF CommittedCall

LEMMA AnsweredMain ==
  ASSUME ~Compacts, IInv, SettleInv, VoidInv, AnswerInv, CallsDeclared, AnsweredInv, MainStep
  PROVE  AnsweredInv'
<1> SUFFICES ASSUME Accountable', NEW c \in Launched', CommittedCall(c)'
             PROVE  In(log', Results(c))
  BY DEF AnsweredInv, AllAnswered
<1>1. ~CallEnd /\ ~(StreamEnd /\ main' = "committed")
  BY DEF Accountable, CallEnd, Goto
<1>2. c \in Launched /\ UNCHANGED <<n, seq>>
  BY <1>1, MainFrame DEF Launched
<1>3. CommittedCall(c)
  BY <1>1, <1>2, CommittedNoLater DEF IInv, SettleInv
<1>4. In(log, Results(c)) => In(log', Results(c))
  BY MainLog DEF In, IInv
<1>5. CASE Accountable
  BY <1>2, <1>3, <1>4, <1>5 DEF AnsweredInv, AllAnswered
<1>6. CASE TurnHead
  <2>1. /\ main = "head" /\ ~aborted
    BY <1>6 DEF TurnHead, At, Accountable, EndRun
  <2>2. AllSettled /\ ~launchError /\ ~violated
    BY <2>1 DEF SettleInv, AttemptInv, Settlement, SettledPoints, VoidInv
  <2>3. c \in Pending => In(log, Results(c))
    BY <1>2, <2>1, <2>2 DEF AnswerInv, AllSettled, Active, Traced, In, Pending
  <2> QED
    BY <1>2, <1>3, <1>4, <2>3 DEF AnswerInv
<1>7. CASE Committed
  <2>1. Pending = {}
    BY <1>7 DEF Committed, Accountable, Goto
  <2> QED
    BY <1>2, <1>3, <1>4, <2>1 DEF AnswerInv
<1>8. CASE Abandoned
  <2>1. main = "abandon" /\ ~committed
    BY <1>8 DEF Abandoned, At, SettleInv, AttemptInv, StopsCommit
  <2>2. c \notin Pending
    <3>1. ASSUME c \in Pending
          PROVE  FALSE
      <4>1. PICK i \in DOMAIN log : i > seq[c] /\ log[i].type = "stop"
        BY <1>3 DEF CommittedCall
      <4>2. i > turnStart
        BY <1>2, <3>1, <4>1 DEF Pending, CallsDeclared, IInv, TypeOK
      <4> QED
        BY <2>1, <4>1, <4>2 DEF SettleInv, AttemptInv, StopsCommit
    <3> QED
      BY <3>1
  <2> QED
    BY <1>2, <1>3, <1>4, <2>2 DEF AnswerInv
<1>9. CASE ~Accountable /\ ~TurnHead /\ ~Committed /\ ~Abandoned
  <2>1. CASE Restream \/ BeginRequest \/ TurnSettles \/ StreamEnd \/ StreamFail \/ Violation
    BY <1>9, <2>1 DEF Restream, BeginRequest, TurnSettles, StreamEnd, StreamFail, Violation,
       Goto, EndRun, Abandon, Accountable
  <2>2. CASE Receive \/ Drain \/ Delta \/ CallEnd \/ HoldStop \/ Terminal
    BY <1>9, <2>2 DEF Receive, Drain, Delta, CallEnd, HoldStop, Terminal, Goto, Accountable
  <2>3. CASE Admit \/ OpenTurn \/ Compact \/ TakeOrSeal
    BY <1>9, <2>3 DEF Admit, OpenTurn, Compact, TakeOrSeal, At, Accountable
  <2> QED
    BY <1>9, <2>1, <2>2, <2>3 DEF MainStep
<1> QED
  BY <1>5, <1>6, <1>7, <1>8, <1>9

LEMMA AnsweredStays ==
  ASSUME AnsweredInv, UNCHANGED <<log, n, seq, outcome>>, main' \in {main, "closed"}
  PROVE  AnsweredInv'
BY DEF AnsweredInv, Accountable, AllAnswered, CommittedCall, Launched

(***************************************************************************)
(* The invariant of the refinement.                                        *)
(***************************************************************************)

LEMMA InitTurn == Init => TurnInv
<1> SUFFICES ASSUME Init PROVE TurnInv
  OBVIOUS
<1>1. /\ DOMAIN log = {1} /\ log[1] = Ev("user_input", 0) /\ Len(log) = 1
      /\ DOMAIN execQueue = {} /\ execQueue = <<>>
      /\ n = 0 /\ Launched = {} /\ turnStart = 1 /\ main = "head"
      /\ \A c \in Calls : pc[c] = "idle" /\ verdict[c] = "none" /\ answer[c] = "none"
  BY DEF Init, Launched
<1>2. log[1].type = "user_input" /\ log[1].call = 0 /\ ~Launches(log[1])
  BY <1>1 DEF Ev, Launches, LaunchEvents
<1>3. \A c \in Calls : \A E : (\A e \in E : Launches(e)) => ~Traced(E)
  BY <1>1, <1>2 DEF Traced, In
<1>4. \A c \in Calls : /\ ~Traced({Requested(c)}) /\ ~Traced({Decided(c)})
                       /\ ~Traced({Begun(c)}) /\ ~Traced({Receipted(c)})
                       /\ ~Traced(Results(c))
  <2> TAKE c \in Calls
  <2>1. /\ \A e \in {Requested(c), Decided(c), Begun(c), Receipted(c)} : Launches(e)
        /\ \A e \in Results(c) : Launches(e)
    BY LaunchEvent DEF Launches, LaunchEvents
  <2> QED
    BY <1>3, <2>1
<1>5. RankInv
  BY <1>1, <1>2 DEF RankInv, LogOfCalls, WithinReach, LogFirst, QueueInOrder
<1>6. FactInv
  BY <1>1, <1>2, <1>4 DEF FactInv, FactsOf, Untagged, BeyondBarrier, Ev
<1>7. PairInv
  BY <1>1, <1>4 DEF PairInv, Unpaired, Traced
<1>8. CallsDeclared
  BY <1>1, <1>2 DEF CallsDeclared, Pending
<1>9. Segments /\ AnsweredInv
  BY <1>1, <1>2 DEF Segments, NoSummary, OneAttempt, OutputFirst, AttemptClosed,
     InputBetween, AnsweredInv, Accountable, DraftTypes
<1> QED
  BY <1>5, <1>6, <1>7, <1>8, <1>9 DEF TurnInv

KnownInv == IInv /\ SettleInv /\ VoidInv /\ SeqInv /\ AnswerInv
LEMMA StepTurn ==
  ASSUME KnownInv, TurnInv, [Next]_vars
  PROVE  TurnInv'
<1> USE DEF KnownInv
<1>1. CASE MainStep
  <2>1. RankInv' /\ FactInv' /\ PairInv'
    BY <1>1, RankMain, FactMain, PairMain DEF TurnInv, IInv, SettleInv
  <2>2. CallsDeclared'
    BY <1>1, DeclaredMain DEF TurnInv, RankInv, IInv, SettleInv
  <2>3. ~Compacts => Segments' /\ AnsweredInv'
    BY <1>1, SegmentsMain, AnsweredMain DEF TurnInv, IInv, SettleInv
  <2> QED
    BY <2>1, <2>2, <2>3 DEF TurnInv
<1>2. ASSUME NEW c \in Calls, LaunchStep(c) \/ Answer(c)
      PROVE  TurnInv'
  <2>1. RankInv' /\ FactInv' /\ PairInv'
    BY <1>2, RankLaunch, FactLaunch, PairLaunch DEF TurnInv, IInv, SettleInv
  <2>2. CallsDeclared'
    BY <1>2, DeclaredLaunch DEF TurnInv, IInv, SettleInv
  <2>3. UNCHANGED <<log, n, seq, main, turnStart, outcome>>
    BY <1>2 DEF LaunchStep, Decide, PassAskGate, PassCommitGate, PauseEnds, Answer,
       PauseAborted, PassBarrier, Start, Execute, Finish
  <2>4. ~Compacts => Segments' /\ AnsweredInv'
    BY <2>3, SegmentsStay, AnsweredStays DEF TurnInv
  <2> QED
    BY <2>1, <2>2, <2>4 DEF TurnInv
<1>3. CASE Persist \/ PersistFails \/ Abort \/ Over \/ UNCHANGED vars
  <2>1. RankInv' /\ FactInv' /\ PairInv' /\ CallsDeclared'
    BY <1>3, RankEnv, FactEnv, PairEnv, DeclaredEnv DEF TurnInv, IInv, SettleInv
  <2>2. UNCHANGED <<log, n, seq, turnStart, outcome>> /\ main' \in {main, "closed"}
    BY <1>3 DEF Persist, PersistFails, Abort, Over, vars
  <2>3. ~Compacts => Segments' /\ AnsweredInv'
    BY <2>2, SegmentsStay, AnsweredStays DEF TurnInv
  <2> QED
    BY <2>1, <2>3 DEF TurnInv
<1> QED
  BY <1>1, <1>2, <1>3 DEF Next

LEMMA TurnInvariance == Spec => [](KnownInv /\ TurnInv)
<1>1. Spec => []KnownInv
  BY AnswerInvariance DEF KnownInv
<1>2. KnownInv /\ TurnInv /\ [Next]_vars => TurnInv'
  BY StepTurn
<1> QED
  BY <1>1, <1>2, InitTurn, PTL DEF Spec

(***************************************************************************)
(* The log as TurnLog reads it.                                            *)
(***************************************************************************)

LEMMA MappedLog ==
  ASSUME TypeOK
  PROVE  /\ DOMAIN Mapped = DOMAIN log /\ DOMAIN log = 1..Len(log) /\ Len(log) \in Nat
         /\ Len(Mapped) = Len(log)
         /\ \A i \in DOMAIN log :
              /\ Mapped[i] = MappedEvent(i)
              /\ Mapped[i].type = (IF log[i].type = "delta" THEN "text" ELSE log[i].type)
              /\ Mapped[i].call = log[i].call /\ Mapped[i].tag = TagOf(i)
              /\ Mapped[i].run = 1
              /\ Mapped[i].from =
                   (IF log[i].type = "model_output_abandoned" THEN VoidFrom(i) ELSE 0)
<1>1. DOMAIN log = 1..Len(log) /\ Len(log) \in Nat
  BY DEF TypeOK
<1>2. \A i \in DOMAIN log :
        /\ MappedEvent(i).type = (IF log[i].type = "delta" THEN "text" ELSE log[i].type)
        /\ MappedEvent(i).call = log[i].call /\ MappedEvent(i).tag = TagOf(i)
        /\ MappedEvent(i).run = 1
        /\ MappedEvent(i).from =
             (IF log[i].type = "model_output_abandoned" THEN VoidFrom(i) ELSE 0)
  BY DEF MappedEvent
<1>3. DOMAIN Mapped = DOMAIN log /\ \A i \in DOMAIN log : Mapped[i] = MappedEvent(i)
  BY DEF Mapped
<1>4. Len(Mapped) = Len(log)
  <2> DEFINE S == {MappedEvent(i) : i \in DOMAIN log}
  <2>1. Mapped \in [DOMAIN log -> S]
    BY DEF Mapped
  <2>2. Mapped \in Seq(S)
    BY <1>1, <2>1
  <2> QED
    BY <1>1, <1>3, <2>2
<1> QED
  BY <1>1, <1>2, <1>3, <1>4

HasType(t, c) == \E i \in DOMAIN log : log[i].type = t /\ log[i].call = c
LEMMA ReadHas ==
  ASSUME TypeOK, NEW t, t \notin {"delta", "text"}, NEW c
  PROVE  /\ Abstract!Has(t, c) <=> HasType(t, c)
         /\ Abstract!Events(t, c) = {i \in DOMAIN log : log[i].type = t /\ log[i].call = c}
<1>1. \A i \in DOMAIN log : (Mapped[i].type = t <=> log[i].type = t) /\ Mapped[i].call = log[i].call
  BY MappedLog
<1>2. Abstract!Events(t, c) = {i \in DOMAIN log : log[i].type = t /\ log[i].call = c}
  BY <1>1, MappedLog DEF Abstract!Events
<1> QED
  BY <1>2 DEF Abstract!Has, HasType

LEMMA ReadLaunch ==
  ASSUME TypeOK, Untagged(log), NEW c \in Calls
  PROVE  /\ Abstract!Has("permission_requested", c) <=> In(log, {Requested(c)})
         /\ Abstract!Has("permission_decided", c) <=> In(log, {Decided(c)})
         /\ Abstract!Has("tool_execution_started", c) <=> In(log, {Begun(c)})
         /\ Abstract!Has("tool_execution_receipt", c) <=> In(log, {Receipted(c)})
         /\ Abstract!Has("tool_result", c) <=> In(log, Results(c))
         /\ In(log, {Begun(c)}) <=> StartedOf(c) # {}
<1>1. \A t \in LaunchEvents \ {"tool_result"} : Abstract!Has(t, c) <=> In(log, {Ev(t, c)})
  <2> TAKE t \in LaunchEvents \ {"tool_result"}
  <2>1. Ev(t, c).type = t /\ Ev(t, c).call = c /\ t \notin {"delta", "text"}
    BY DEF Ev, LaunchEvents
  <2>2. HasType(t, c) <=> In(log, {Ev(t, c)})
    BY <2>1 DEF HasType, In, Untagged
  <2> QED
    BY <2>1, <2>2, ReadHas
<1>2. Abstract!Has("tool_result", c) <=> In(log, Results(c))
  <2>1. HasType("tool_result", c) <=> In(log, Results(c))
    BY DEF HasType, In, Results, TypeOK
  <2> QED
    BY <2>1, ReadHas
<1> QED
  BY <1>1, <1>2 DEF LaunchEvents, Requested, Decided, Begun, Receipted, StartedOf, In

LEMMA ReadCalls ==
  ASSUME TypeOK, CallsDeclared
  PROVE  /\ Abstract!Calls = Calls
         /\ Abstract!Declared = Launched /\ Abstract!OwnCalls = Launched
         /\ Cardinality(Abstract!Declared) = n
         /\ \A c \in Launched : /\ Abstract!Position(c) = seq[c]
                                /\ Abstract!Safe(c) <=> PrecommitSafe(c)
<1>1. Abstract!Calls = Calls
  BY DEF Abstract!Calls, Calls
<1>2. \A c : Abstract!Has("tool_call_end", c) <=> HasType("tool_call_end", c)
  BY ReadHas
<1>3. \A c \in Launched : /\ c \in Calls /\ c \in Nat
                          /\ seq[c] \in DOMAIN log /\ log[seq[c]] = Ev("tool_call_end", c)
                          /\ log[seq[c]].type = "tool_call_end" /\ log[seq[c]].call = c
                          /\ seq[c] \in Nat /\ seq[c] > 1
  <2> TAKE c \in Launched
  <2>1. /\ c \in Calls /\ c \in Nat
        /\ seq[c] \in DOMAIN log /\ log[seq[c]] = Ev("tool_call_end", c)
    BY CallRange DEF CallsDeclared
  <2>2. log[seq[c]].type = "tool_call_end" /\ log[seq[c]].call = c
    BY <2>1 DEF Ev
  <2>3. seq[c] # 1
    BY <2>2 DEF CallsDeclared
  <2>4. seq[c] \in Nat /\ seq[c] >= 1
    BY <2>1 DEF TypeOK
  <2> QED
    BY <2>1, <2>2, <2>3, <2>4
<1>4. Abstract!Declared = Launched
  <2>1. \A c \in Calls : HasType("tool_call_end", c) <=> c \in Launched
    BY <1>3 DEF HasType, CallsDeclared
  <2> QED
    BY <1>1, <1>2, <1>3, <2>1 DEF Abstract!Declared
<1>5. ASSUME NEW c \in Launched
      PROVE  /\ Abstract!Position(c) = seq[c]
             /\ Abstract!Safe(c) <=> PrecommitSafe(c)
  <2>1. Abstract!Events("tool_call_end", c) = {seq[c]}
    <3>1. {i \in DOMAIN log : log[i].type = "tool_call_end" /\ log[i].call = c} = {seq[c]}
      BY <1>3 DEF CallsDeclared
    <3> QED
      BY <3>1, ReadHas
  <2>2. Mapped[seq[c]].tag = (IF PrecommitSafe(c) THEN "safe" ELSE "plain")
    BY <1>3, MappedLog DEF TagOf
  <2> QED
    BY <2>1, <2>2 DEF Abstract!Position, Abstract!Safe, Abstract!HasTag
<1>6. Abstract!OwnCalls = Launched
  BY <1>3, <1>4, <1>5 DEF Abstract!OwnCalls
<1>7. Cardinality(Launched) = n
  BY FS_Interval DEF Launched, TypeOK
<1> QED
  BY <1>1, <1>4, <1>5, <1>6, <1>7

\* What TurnLog reads of the log as a whole.
Unbroken ==
  \A i \in DOMAIN log : i > turnStart =>
    log[i].type \notin {"stop", "model_output_abandoned", "user_input"}
LEMMA ReadWhole ==
  ASSUME TypeOK, FreshAttempt, Untagged(log), CallsDeclared
  PROVE  /\ Abstract!Ended <=> \E i \in DOMAIN log : log[i].type = "terminal"
         /\ Abstract!Streaming <=> Unbroken
         /\ Abstract!OpenDraft <=> Unbroken /\ Len(log) > turnStart
         /\ Abstract!Settled <=>
              \A c \in Launched : StartedOf(c) # {} => In(log, Results(c))
         /\ Abstract!Answered <=>
              \A c \in Launched : Abstract!Committed(c) => In(log, Results(c))
         /\ Abstract!Unpaired = {c \in Launched : Unpaired(c)}
<1>1. /\ DOMAIN Mapped = DOMAIN log /\ Len(Mapped) = Len(log)
      /\ \A i \in DOMAIN log : /\ Mapped[i].run = 1
                               /\ \A t \in {"stop", "model_output_abandoned", "user_input",
                                            "terminal"} :
                                    Mapped[i].type = t <=> log[i].type = t
  BY MappedLog
<1>2. Abstract!Ended <=> \E i \in DOMAIN log : log[i].type = "terminal"
  BY <1>1 DEF Abstract!Ended
<1>3. Abstract!Streaming <=> Unbroken
  <2>1. /\ turnStart \in Nat /\ turnStart >= 1 /\ Len(log) \in Nat
        /\ \A i : i \in DOMAIN log /\ i > turnStart <=> i \in (turnStart + 1)..Len(Mapped)
    <3>1. /\ turnStart \in Nat /\ turnStart >= 1 /\ Len(log) \in Nat
          /\ DOMAIN log = 1..Len(log) /\ Len(Mapped) = Len(log)
      BY MappedLog DEF TypeOK, CallsDeclared
    <3> DEFINE L == Len(log)
    <3> HIDE DEF L
    <3>2. \A i : i \in 1..L /\ i > turnStart <=> i \in (turnStart + 1)..L
      BY <3>1 DEF L
    <3> QED
      BY <3>1, <3>2 DEF L
  <2>2. turnStart # 0
    BY <2>1
  <2>3. \A i \in (turnStart + 1)..Len(Mapped) : i \in DOMAIN log
    BY <2>1
  <2> QED
    BY <1>1, <2>1, <2>2, <2>3 DEF Abstract!Streaming, Unbroken
<1>4. Abstract!OpenDraft <=> Unbroken /\ Len(log) > turnStart
  BY <1>1, <1>3 DEF Abstract!OpenDraft
<1>5. \A c \in Launched :
        /\ Abstract!Has("tool_execution_started", c) <=> StartedOf(c) # {}
        /\ Abstract!Has("tool_execution_receipt", c) <=> In(log, {Receipted(c)})
        /\ Abstract!Has("tool_result", c) <=> In(log, Results(c))
  BY ReadLaunch, CallRange
<1> QED
  BY <1>2, <1>3, <1>4, <1>5, ReadCalls
  DEF Abstract!Settled, Abstract!Answered, Abstract!Unpaired, Unpaired

(***************************************************************************)
(* What is mapped stays as it is.                                          *)
(***************************************************************************)

LEMMA EventStays ==
  ASSUME NEW i \in DOMAIN log, i \in Nat, \A j \in 1..i : log'[j] = log[j],
         log'[i] = log[i], NEW c, c = log[i].call,
         log[i].type = "tool_call_end" => tool'[c] = tool[c],
         log[i].type = "permission_decided" =>
           verdict'[c] = verdict[c] /\ answer'[c] = answer[c],
         log[i].type = "tool_result" => (StartedOf(c)' = {} <=> StartedOf(c) = {}),
         log[i].type = "terminal" => outcome' = outcome
  PROVE  MappedEvent(i)' = MappedEvent(i)
<1>1. Output(i)' = Output(i)
  <2>1. \A j \in 1..(i - 1) : log'[j] = log[j] /\ \A k \in j..(i - 1) : log'[k] = log[k]
    OBVIOUS
  <2> QED
    BY <2>1 DEF Output
<1>2. VoidFrom(i)' = VoidFrom(i)
  BY <1>1 DEF VoidFrom
<1>3. TagOf(i)' = TagOf(i)
  <2>1. CASE log[i].type = "tool_call_end"
    BY <2>1 DEF TagOf, PrecommitSafe
  <2>2. CASE log[i].type = "permission_decided"
    BY <2>2 DEF TagOf, DecisionTag
  <2>3. CASE log[i].type = "tool_result"
    BY <2>3 DEF TagOf, StartedOf
  <2>4. CASE log[i].type = "terminal"
    BY <2>4 DEF TagOf
  <2>5. CASE log[i].type \notin {"tool_call_end", "permission_decided", "tool_result", "terminal"}
    BY <2>5 DEF TagOf
  <2> QED
    BY <2>1, <2>2, <2>3, <2>4, <2>5
<1> QED
  BY <1>2, <1>3 DEF MappedEvent

LEMMA GrownFunction ==
  ASSUME NEW m \in Nat, NEW s, NEW t,
         s = [i \in 1..m |-> s[i]], t = [i \in 1..(m + 1) |-> t[i]],
         \A i \in 1..m : t[i] = s[i]
  PROVE  t = Append(s, t[m + 1])
<1> DEFINE S == {t[i] : i \in 1..(m + 1)}
<1>1. \A i \in 1..m : i \in 1..(m + 1) /\ s[i] \in S
  OBVIOUS
<1>2. m + 1 \in 1..(m + 1) /\ t[m + 1] \in S
  OBVIOUS
<1>3. s \in [1..m -> S] /\ t \in [1..(m + 1) -> S]
  BY <1>1, <1>2
<1> HIDE DEF S
<1>4. s \in Seq(S) /\ t \in Seq(S)
  BY <1>3
<1>5. Len(s) = m /\ Len(t) = m + 1
  BY <1>3, <1>4
<1>6. /\ Append(s, t[m + 1]) \in Seq(S) /\ Len(Append(s, t[m + 1])) = m + 1
      /\ \A i \in 1..m : Append(s, t[m + 1])[i] = s[i]
      /\ Append(s, t[m + 1])[m + 1] = t[m + 1]
  BY <1>2, <1>4, <1>5
<1>7. \A i \in 1..(m + 1) : i \in 1..m \/ i = m + 1
  OBVIOUS
<1>8. \A i \in 1..Len(t) : t[i] = Append(s, t[m + 1])[i]
  BY <1>5, <1>6, <1>7
<1> QED
  BY <1>4, <1>5, <1>6, <1>8, SeqEqual

LEMMA MappedStays ==
  ASSUME UNCHANGED log, \A i \in DOMAIN log : MappedEvent(i)' = MappedEvent(i)
  PROVE  Mapped' = Mapped
BY DEF Mapped

LEMMA MappedGrows ==
  ASSUME TypeOK, NEW e \in Event, log' = Append(log, e), NEW m, m = Len(log) + 1,
         \A i \in DOMAIN log : MappedEvent(i)' = MappedEvent(i),
         NEW f, MappedEvent(m)' = f
  PROVE  Mapped' = Append(Mapped, f)
<1>1. /\ log \in Seq(Event) /\ Len(log) \in Nat /\ DOMAIN log = 1..Len(log)
      /\ DOMAIN log' = 1..(Len(log) + 1)
  BY DEF TypeOK
<1>2. /\ DOMAIN Mapped = 1..Len(log) /\ DOMAIN Mapped' = 1..(Len(log) + 1)
      /\ \A i \in 1..Len(log) : Mapped[i] = MappedEvent(i)
      /\ \A i \in 1..(Len(log) + 1) : Mapped'[i] = MappedEvent(i)'
  BY <1>1 DEF Mapped
<1>3. /\ Mapped = [i \in 1..Len(log) |-> Mapped[i]]
      /\ Mapped' = [i \in 1..(Len(log) + 1) |-> Mapped'[i]]
  BY <1>1 DEF Mapped
<1>4. \A i \in 1..Len(log) : Mapped'[i] = Mapped[i]
  BY <1>1, <1>2
<1>5. Mapped' = Append(Mapped, Mapped'[Len(log) + 1])
  BY <1>1, <1>3, <1>4, GrownFunction
<1>6. Mapped'[Len(log) + 1] = f
  <2>1. m \in 1..(Len(log) + 1)
    BY <1>1
  <2> QED
    BY <1>2, <2>1
<1> QED
  BY <1>5, <1>6

\* The launches rewrite nothing that is logged.
LEMMA LaunchKeepsMapped ==
  ASSUME TypeOK, CallsLaunched, WindowInv, VerdictInv, RankInv, FactInv,
         NEW c \in Calls, LaunchStep(c) \/ Answer(c)
  PROVE  Mapped' = Mapped
<1>1. UNCHANGED <<log, n, tool>>
  BY LaunchMoves
<1>2. UNCHANGED outcome
  BY DEF LaunchStep, Decide, PassAskGate, PassCommitGate, PauseEnds, Answer,
     PauseAborted, PassBarrier, Start, Execute, Finish
<1>3. PICK q : Writes(c, q) /\ execQueue' = execQueue \o q
  BY LaunchWrites
<1>4. In(log, {Decided(c)}) => verdict'[c] = verdict[c] /\ answer'[c] = answer[c]
  <2> SUFFICES ASSUME In(log, {Decided(c)})
               PROVE  verdict'[c] = verdict[c] /\ answer'[c] = answer[c]
    OBVIOUS
  <2>1. Traced({Decided(c)})
    BY DEF Traced
  <2>2. ~Answers(c)
    BY <2>1 DEF Answers, VerdictInv, VerdictOf
  <2>3. \A p : ~Decides(c, p)
    BY <2>1 DEF Decides, VerdictInv, VerdictOf
  <2> QED
    BY <1>3, <2>2, <2>3 DEF Writes
<1>5. ASSUME NEW i \in DOMAIN log
      PROVE  MappedEvent(i)' = MappedEvent(i)
  <2>1. i \in Nat /\ \A j \in 1..i : log'[j] = log[j]
    BY <1>1, MappedLog
  <2>0. PICK d : d = log[i].call
    OBVIOUS
  <2>2. ASSUME log[i].type = "permission_decided"
        PROVE  verdict'[d] = verdict[d] /\ answer'[d] = answer[d]
    <3>1. log[i] = Decided(d) /\ d \in Calls
      BY <2>0, <2>2, CallRange
      DEF FactInv, Untagged, Decided, RankInv, LogOfCalls, Launches, LaunchEvents
    <3>2. CASE d = c
      BY <1>4, <3>1, <3>2 DEF In
    <3>3. CASE d # c
      BY <3>1, <3>3, OthersStay
    <3> QED
      BY <3>2, <3>3
  <2>3. StartedOf(d)' = {} <=> StartedOf(d) = {}
    BY <1>1 DEF StartedOf
  <2> QED
    BY <1>1, <1>2, <2>0, <2>1, <2>2, <2>3, EventStays
<1> QED
  BY <1>1, <1>5, MappedStays

LEMMA EnvKeepsMapped ==
  ASSUME TypeOK, InFlight, Persist \/ PersistFails \/ Abort \/ Over \/ UNCHANGED vars
  PROVE  Mapped' = Mapped
<1>1. UNCHANGED <<log, tool, verdict, answer>>
  BY EnvMoves
<1>2. UNCHANGED outcome
  BY DEF Persist, PersistFails, Abort, Over, vars
<1>3. ASSUME NEW i \in DOMAIN log
      PROVE  MappedEvent(i)' = MappedEvent(i)
  <2>1. i \in Nat /\ \A j \in 1..i : log'[j] = log[j]
    BY <1>1, MappedLog
  <2>2. PICK d : d = log[i].call
    OBVIOUS
  <2>3. StartedOf(d)' = {} <=> StartedOf(d) = {}
    BY <1>1 DEF StartedOf
  <2> QED
    BY <1>1, <1>2, <2>1, <2>2, <2>3, EventStays
<1> QED
  BY <1>1, <1>3, MappedStays

LEMMA MainKeepsMapped ==
  ASSUME TypeOK, CallsLaunched, TerminalLast, RankInv, FactInv, CallsDeclared, MainStep,
         NEW i \in DOMAIN log
  PROVE  MappedEvent(i)' = MappedEvent(i)
<1>1. UNCHANGED <<verdict, answer>> /\ \A c \in Launched : tool'[c] = tool[c]
  BY MainFrame, MainStepCalls
<1>2. i \in Nat /\ \A j \in 1..i : log'[j] = log[j]
  BY MainLog, MappedLog
<1>3. log[i].type # "terminal"
  <2>1. main \notin {"ended", "closed"}
    BY DEF MainStep, TurnHead, Admit, OpenTurn, Compact, BeginRequest, Restream,
       Receive, Drain, Delta, CallEnd, HoldStop, Violation, StreamEnd, StreamFail, Abandoned,
       Committed, TakeOrSeal, TurnSettles, Terminal, At, Looking
  <2> QED
    BY <2>1 DEF TerminalLast
<1>0. PICK c : c = log[i].call
  OBVIOUS
<1>4. log[i].type = "tool_call_end" => tool'[c] = tool[c]
  BY <1>0, <1>1 DEF CallsDeclared
<1>5. ASSUME log[i].type = "tool_result"
      PROVE  StartedOf(c)' = {} <=> StartedOf(c) = {}
  <2>1. c \in Calls /\ Launches(log[i]) /\ Rank(log[i]) = 5
    BY <1>0, <1>5, CallRange DEF RankInv, LogOfCalls, Launches, LaunchEvents, Rank
  <2>2. \A j \in DOMAIN log : log'[j] = log[j] /\ j \in DOMAIN log'
    BY MainLog
  <2>3. ASSUME NEW j \in DOMAIN log', j \notin DOMAIN log, log'[j] = Begun(c)
        PROVE  FALSE
    <3>1. CASE Drain
      <4>1. 1 \in DOMAIN execQueue /\ execQueue[1] = Begun(c)
        BY <2>3, <3>1, Drained
      <4>2. Rank(Begun(c)) = 3 /\ Begun(c).call = c
        BY <2>1, LaunchEvent
      <4>3. Rank(log[i]) < Rank(execQueue[1])
        BY <1>0, <2>1, <4>1, <4>2 DEF RankInv, LogFirst
      <4> QED
        BY <2>1, <4>1, <4>2, <4>3
    <3>2. CASE ~Drain
      <4>1. ~Launches(log'[j])
        BY <2>3, <3>2, Grown
      <4> QED
        BY <2>1, <2>3, <4>1, LaunchEvent DEF Launches, LaunchEvents
    <3> QED
      BY <3>1, <3>2
  <2> QED
    BY <2>2, <2>3 DEF StartedOf, Begun
<1> QED
  BY <1>0, <1>1, <1>2, <1>3, <1>4, <1>5, MainLog, EventStays

(***************************************************************************)
(* What a marker voids.                                                    *)
(***************************************************************************)

LEMMA CommittedThere ==
  ASSUME TypeOK, CallsLaunched, CallsDeclared, Segments, NEW c \in Launched,
         Abstract!Committed(c)
  PROVE  CommittedCall(c)
<1>1. /\ DOMAIN log = 1..Len(log) /\ Len(log) \in Nat
      /\ DOMAIN Mapped = DOMAIN log
      /\ \A i \in DOMAIN log : /\ Mapped[i].type = "stop" <=> log[i].type = "stop"
                               /\ log[i].type = "model_output_abandoned" =>
                                    /\ Mapped[i].type = "model_output_abandoned"
                                    /\ Mapped[i].from = VoidFrom(i)
  BY MappedLog
<1>2. /\ seq[c] \in DOMAIN log /\ seq[c] \in Nat /\ 1 <= seq[c]
      /\ log[seq[c]].type = "tool_call_end" /\ Abstract!Position(c) = seq[c]
  <2>1. seq[c] \in DOMAIN log /\ log[seq[c]] = Ev("tool_call_end", c)
    BY DEF CallsDeclared
  <2>2. Abstract!Position(c) = seq[c]
    BY ReadCalls
  <2>3. Ev("tool_call_end", c).type = "tool_call_end"
    BY DEF Ev
  <2> QED
    BY <1>1, <2>1, <2>2, <2>3
<1> DEFINE Enders == {i \in DOMAIN log : i > seq[c] /\ log[i].type \in EnderTypes}
<1>3. Enders # {} /\ Enders \in SUBSET Nat
  BY <1>1, <1>2 DEF Abstract!Committed, EnderTypes
<1>4. PICK m \in Enders : \A x \in Enders : m <= x
  <2> HIDE DEF Enders
  <2> QED
    BY <1>3, FirstOf
<1>5. CASE log[m].type = "stop"
  BY <1>4, <1>5 DEF CommittedCall
<1>6. CASE log[m].type = "model_output_abandoned"
  <2>1. m \in Nat /\ seq[c] < m /\ m \in DOMAIN log /\ m <= Len(log)
    BY <1>1, <1>4
  <2>2. ASSUME NEW k \in seq[c]..(m - 1)
        PROVE  log[k].type \notin Boundaries
    <3>1. k \in DOMAIN log /\ k \in Nat /\ k >= seq[c] /\ k < m
      BY <1>1, <1>2, <2>1
    <3>2. CASE k = seq[c]
      BY <1>2, <3>2 DEF Boundaries
    <3>3. CASE k > seq[c]
      <4>1. \A x \in DOMAIN log : x > seq[c] /\ x < m => log[x].type \notin EnderTypes
        BY <1>1, <1>2, <1>4, <2>1
      <4>2. log[k].type # "user_input"
        <5>1. ASSUME log[k].type = "user_input"
              PROVE  FALSE
          <6>1. log[seq[c]].type \in DraftTypes
            BY <1>2 DEF DraftTypes
          <6>2. PICK x \in DOMAIN log : seq[c] < x /\ x < k /\ log[x].type \in EnderTypes
            BY <1>2, <3>1, <3>3, <5>1, <6>1 DEF Segments, InputBetween
          <6> QED
            BY <1>1, <1>2, <2>1, <3>1, <4>1, <6>2
        <5> QED
          BY <5>1
      <4>3. log[k].type # "summarized"
        BY <3>1 DEF Segments, NoSummary
      <4> QED
        BY <3>1, <3>3, <4>1, <4>2, <4>3 DEF Boundaries, EnderTypes
    <3> QED
      BY <1>2, <3>1, <3>2, <3>3
  <2>3. seq[c] \in Output(m) /\ Output(m) \in SUBSET Nat
    BY <1>2, <2>1, <2>2 DEF Output
  <2>4. \E p \in Output(m) : \A k \in Output(m) : p <= k
    BY <2>3, FirstOf
  <2> DEFINE first == CHOOSE j \in Output(m) : \A k \in Output(m) : j <= k
  <2>5. first \in Output(m) /\ \A k \in Output(m) : first <= k
    BY <2>4
  <2>6. first \in Nat /\ first <= seq[c] /\ VoidFrom(m) = first - 1
    BY <2>3, <2>5 DEF VoidFrom
  <2> HIDE DEF first
  <2>7. VoidFrom(m) < seq[c]
    BY <1>2, <2>6
  <2>8. Abstract!Voided(c)
    BY <1>1, <1>2, <1>6, <2>1, <2>7 DEF Abstract!Voided
  <2> QED
    BY <2>8 DEF Abstract!Committed
<1> QED
  BY <1>4, <1>5, <1>6 DEF EnderTypes

LEMMA NotVoided ==
  ASSUME TypeOK, CallsDeclared, OneAttempt, NEW c \in Pending,
         main \in {"stream", "recv", "abandon", "committed", "drain"}
  PROVE  ~Abstract!Voided(c)
<1>1. Abstract!Position(c) = seq[c] /\ seq[c] > turnStart /\ seq[c] \in Nat /\ turnStart \in Nat
  BY ReadCalls, CallRange DEF Pending, TypeOK
<1>2. ASSUME NEW i \in DOMAIN log, log[i].type = "model_output_abandoned", seq[c] < i
      PROVE  FALSE
  <2>1. i \in Nat /\ i > turnStart
    BY <1>1, <1>2, MappedLog
  <2> QED
    BY <1>2, <2>1 DEF OneAttempt, Interrupts
<1> QED
  BY <1>1, <1>2, MappedLog DEF Abstract!Voided

LEMMA VoidsAttempt ==
  ASSUME TypeOK, FreshAttempt, DraftInv, NoSummary, OutputFirst, Unbroken,
         Len(log) > turnStart, main = "abandon",
         NEW e \in Event, log' = Append(log, e), NEW m, m = Len(log) + 1
  PROVE  VoidFrom(m)' = turnStart
<1>1. /\ DOMAIN log = 1..Len(log) /\ Len(log) \in Nat /\ turnStart \in Nat
      /\ m \in Nat /\ m - 1 = Len(log) /\ \A i \in 1..(m - 1) : i \in DOMAIN log /\ log'[i] = log[i]
  BY MappedLog, Appended DEF TypeOK
<1> DEFINE O == Output(m)'  t == turnStart + 1
<1>2. t \in O
  <2>1. t \in 1..(m - 1) /\ log'[t].type \in DraftTypes
    BY <1>1 DEF OutputFirst
  <2>2. ASSUME NEW k \in t..(m - 1)
        PROVE  log'[k].type \notin Boundaries
    <3>1. k \in DOMAIN log /\ k > turnStart /\ log'[k] = log[k]
      BY <1>1, <2>1, <2>2
    <3> QED
      BY <3>1 DEF Unbroken, NoSummary, Boundaries
  <2> QED
    BY <2>1, <2>2 DEF Output, DraftTypes
<1>3. ASSUME NEW j \in O
      PROVE  j \in Nat /\ t <= j
  <2>1. /\ j \in 1..(m - 1) /\ log'[j].type \in DraftTypes
        /\ \A k \in j..(m - 1) : log'[k].type \notin Boundaries
    BY <1>3 DEF Output, DraftTypes
  <2>2. j \in DOMAIN log /\ j \in Nat /\ log[j].type \in DraftTypes
    BY <1>1, <2>1
  <2>3. ASSUME NEW k \in DOMAIN log, k > j, log[k].type \in EnderTypes
        PROVE  FALSE
    <3>1. k \in j..(m - 1)
      BY <1>1, <2>2, <2>3
    <3>2. log'[k] = log[k]
      BY <1>1, <2>1, <3>1
    <3> QED
      BY <2>1, <2>3, <3>1, <3>2 DEF EnderTypes, Boundaries
  <2>4. Unsettled(j)
    BY <2>2, <2>3 DEF Unsettled
  <2> QED
    BY <1>1, <2>2, <2>4 DEF DraftInv
<1> HIDE DEF O
<1> DEFINE first == CHOOSE j \in O : \A k \in O : j <= k
<1>4. first \in O /\ \A k \in O : first <= k
  BY <1>2, <1>3
<1>5. VoidFrom(m)' = first - 1
  BY DEF VoidFrom, O
<1> HIDE DEF first
<1>6. first = turnStart + 1
  BY <1>1, <1>2, <1>3, <1>4
<1> QED
  BY <1>1, <1>5, <1>6

(***************************************************************************)
(* The generator's own steps.                                              *)
(***************************************************************************)

LEMMA NothingOpen ==
  ASSUME TypeOK, FreshAttempt, TerminalLast, FactInv, PairInv, CallsDeclared,
         main \notin {"ended", "closed"},
         \A c \in Calls : ~(execQueue # <<>> /\ Head(execQueue) \in Results(c))
  PROVE  Abstract!Open
<1>1. ~Abstract!Ended
  BY ReadWhole DEF TerminalLast, FactInv
<1>2. Abstract!Unpaired = {}
  BY ReadWhole, CallRange DEF PairInv, FactInv
<1> QED
  BY <1>1, <1>2 DEF Abstract!Open

LEMMA AtRest ==
  ASSUME TypeOK, CallsLaunched, SettleInv, FactInv, PairInv, CallsDeclared,
         AllSettled, ~launchError, main \notin {"ended", "closed"}
  PROVE  Abstract!Open /\ Abstract!Settled
<1>1. execQueue = <<>> /\ \A c \in Launched : c \in Calls /\ pc[c] = "done"
  BY CallRange DEF AllSettled, Active
<1>2. ASSUME NEW c \in Launched, StartedOf(c) # {}
      PROVE  In(log, Results(c))
  <2>1. Traced(Results(c))
    BY <1>1, <1>2 DEF SettleInv, ExecInv
  <2> QED
    BY <1>1, <2>1 DEF Traced, In
<1>3. Abstract!Settled
  BY <1>2, ReadWhole DEF SettleInv, AttemptInv, FactInv
<1>4. Abstract!Open
  BY <1>1, NothingOpen DEF SettleInv, AttemptInv
<1> QED
  BY <1>3, <1>4

\* Before a turn, an input or the terminal.
LEMMA BetweenTurns ==
  ASSUME ~Compacts, KnownInv, TurnInv,
         main \in {"siteB", "siteA", "compact", "siteC", "end"}
  PROVE  /\ Abstract!Open /\ Abstract!Settled /\ ~Abstract!OpenDraft
         /\ Accountable => Abstract!Answered
<1> USE DEF KnownInv, IInv, SettleInv, TurnInv
<1>1. AllSettled /\ ~launchError
  BY DEF AttemptInv, Settlement, SettledPoints
<1>2. Abstract!Open /\ Abstract!Settled
  BY <1>1, AtRest
<1>3. ~Abstract!OpenDraft
  <2>1. Abstract!OpenDraft <=> Unbroken /\ Len(log) > turnStart
    BY ReadWhole DEF AttemptInv, FactInv
  <2>2. Len(log) > turnStart => ~Unbroken
    BY DEF Segments, AttemptClosed, Unbroken, EnderTypes, Interrupts
  <2> QED
    BY <2>1, <2>2
<1>4. Accountable => Abstract!Answered
  <2>1. Abstract!Answered <=>
          \A c \in Launched : Abstract!Committed(c) => In(log, Results(c))
    BY ReadWhole DEF AttemptInv, FactInv
  <2>2. \A c \in Launched : Abstract!Committed(c) => CommittedCall(c)
    BY CommittedThere
  <2> QED
    BY <2>1, <2>2 DEF AnsweredInv, AllAnswered
<1> QED
  BY <1>2, <1>3, <1>4

\* An appended event is an abstract Emit.
LEMMA Emits ==
  ASSUME TypeOK, CallsLaunched, TerminalLast, RankInv, FactInv, CallsDeclared, MainStep,
         NEW e \in Event, log' = Append(log, e), e.type # "model_output_abandoned",
         NEW m, m = Len(log) + 1, UNCHANGED turnStart
  PROVE  Abstract!Emit(IF e.type = "delta" THEN "text" ELSE e.type, e.call, TagOf(m)')
<1>1. \A i \in DOMAIN log : MappedEvent(i)' = MappedEvent(i)
  BY MainKeepsMapped
<1>2. log'[m] = e
  BY Appended DEF TypeOK
<1> DEFINE type == IF e.type = "delta" THEN "text" ELSE e.type
           f == [type |-> type, call |-> e.call, tag |-> TagOf(m)', run |-> 1, from |-> 0]
<1>3. MappedEvent(m)' = f
  BY <1>2 DEF MappedEvent
<1>4. f = Abstract!Ev(1, type, e.call, TagOf(m)')
  BY DEF Abstract!Ev
<1> HIDE DEF f, type
<1>5. Mapped' = Append(Mapped, f)
  BY <1>1, <1>3, MappedGrows
<1>6. Abstract!Emit(type, e.call, TagOf(m)')
  BY <1>4, <1>5 DEF Abstract!Emit
<1> QED
  BY <1>6 DEF type

LEMMA PlainEmit ==
  ASSUME TypeOK, CallsLaunched, TerminalLast, RankInv, FactInv, CallsDeclared, MainStep,
         NEW t \in {"user_input", "delta", "stop"}, Emit(Ev(t, 0)), UNCHANGED turnStart
  PROVE  Abstract!Emit(IF t = "delta" THEN "text" ELSE t, 0, "plain")
<1>1. Ev(t, 0) \in Event /\ Ev(t, 0).type = t /\ Ev(t, 0).call = 0
  BY ConstantsAssumption DEF Event, Ev, EventTypes
<1>2. PICK m : m = Len(log) + 1
  OBVIOUS
<1>3. log'[m] = Ev(t, 0)
  BY <1>1, <1>2, Appended DEF Emit, TypeOK
<1>4. TagOf(m)' = "plain"
  BY <1>1, <1>3 DEF TagOf
<1> QED
  BY <1>1, <1>2, <1>4, Emits DEF Emit

Refines == UNCHANGED <<Mapped, 1, 1, turnStart>> \/ Abstract!Next
LEMMA Stutters ==
  ASSUME TypeOK, CallsLaunched, TerminalLast, RankInv, FactInv, CallsDeclared, MainStep,
         UNCHANGED <<log, turnStart>>
  PROVE  UNCHANGED <<Mapped, 1, 1, turnStart>>
<1>1. Mapped' = Mapped
  BY MainKeepsMapped, MappedStays
<1> QED
  BY <1>1

LEMMA InputRefines ==
  ASSUME ~Compacts, KnownInv, TurnInv, Admit \/ TakeOrSeal
  PROVE  UNCHANGED <<Mapped, 1, 1, turnStart>> \/ Abstract!Input
<1> USE DEF KnownInv, IInv, SettleInv, TurnInv
<1>1. MainStep /\ UNCHANGED turnStart /\ main \in {"siteA", "siteB", "siteC"}
  BY DEF MainStep, Admit, TakeOrSeal, At
<1>2. CASE UNCHANGED log
  BY <1>1, <1>2, Stutters
<1>3. CASE Emit(Ev("user_input", 0))
  <2>1. Abstract!Emit("user_input", 0, "plain")
    BY <1>1, <1>3, PlainEmit
  <2>2. Abstract!Open /\ ~Abstract!OpenDraft /\ Abstract!Settled /\ Abstract!Answered
    BY <1>1, BetweenTurns DEF Accountable
  <2> QED
    BY <2>1, <2>2 DEF Abstract!Input
<1> QED
  BY <1>2, <1>3 DEF Admit, TakeOrSeal

LEMMA BeginRefines ==
  ASSUME ~Compacts, KnownInv, TurnInv, BeginRequest
  PROVE  UNCHANGED <<Mapped, 1, 1, turnStart>> \/ Abstract!BeginTurn
<1> USE DEF KnownInv, IInv, SettleInv, TurnInv
<1>1. MainStep /\ UNCHANGED log /\ main = "siteC"
  BY DEF MainStep, BeginRequest, At, VoidInv
<1>2. Mapped' = Mapped
  BY <1>1, MainKeepsMapped, MappedStays
<1>3. CASE UNCHANGED turnStart
  BY <1>2, <1>3
<1>4. CASE turnStart' = Len(log)
  <2>1. Abstract!Open /\ ~Abstract!OpenDraft /\ Abstract!Settled /\ Abstract!Answered
    BY <1>1, BetweenTurns DEF Accountable
  <2>2. turnStart' = Len(Mapped)
    BY <1>4, MappedLog
  <2> QED
    BY <1>2, <2>1, <2>2 DEF Abstract!BeginTurn
<1> QED
  BY <1>3, <1>4 DEF BeginRequest

\* While the attempt streams.
LEMMA WhileStreaming ==
  ASSUME ~Compacts, KnownInv, TurnInv, main \in {"stream", "recv", "abandon"}
  PROVE  /\ Abstract!Streaming
         /\ main = "stream" \/ execQueue = <<>> => Abstract!Open
<1> USE DEF KnownInv, IInv, SettleInv, TurnInv
<1>1. ~committed
  BY DEF Gated, AttemptInv, StopsCommit
<1>2. Unbroken
  BY <1>1 DEF Unbroken, AttemptInv, StopsCommit, Segments, OneAttempt, Interrupts
<1>3. Abstract!Streaming
  BY <1>2, ReadWhole DEF AttemptInv, FactInv
<1>4. ASSUME main = "stream" \/ execQueue = <<>>
      PROVE  Abstract!Open
  <2>1. Abstract!Unpaired = {}
    BY <1>4, ReadWhole, CallRange DEF PairInv, AttemptInv, FactInv
  <2>2. ~Abstract!Ended
    BY ReadWhole DEF TerminalLast, AttemptInv, FactInv
  <2> QED
    BY <2>1, <2>2 DEF Abstract!Open
<1> QED
  BY <1>3, <1>4

LEMMA DeltaRefines ==
  ASSUME ~Compacts, KnownInv, TurnInv, Delta
  PROVE  UNCHANGED <<Mapped, 1, 1, turnStart>> \/ Abstract!Text
<1> USE DEF KnownInv, IInv, SettleInv, TurnInv
<1>1. MainStep /\ UNCHANGED turnStart /\ main = "recv" /\ execQueue = <<>>
  BY DEF MainStep, Delta, Looking, At
<1>2. CASE UNCHANGED log
  BY <1>1, <1>2, Stutters
<1>3. CASE Emit(Ev("delta", 0))
  <2>1. Abstract!Emit("text", 0, "plain")
    BY <1>1, <1>3, PlainEmit
  <2> QED
    BY <1>1, <2>1, WhileStreaming DEF Abstract!Text
<1> QED
  BY <1>2, <1>3 DEF Delta

LEMMA StopRefines ==
  ASSUME ~Compacts, KnownInv, TurnInv, StreamEnd
  PROVE  UNCHANGED <<Mapped, 1, 1, turnStart>> \/ Abstract!Stop
<1> USE DEF KnownInv, IInv, SettleInv, TurnInv
<1>1. MainStep /\ UNCHANGED turnStart /\ main = "stream"
  BY DEF MainStep, StreamEnd, At, Abandon
<1>2. CASE UNCHANGED log
  BY <1>1, <1>2, Stutters
<1>3. CASE Emit(Ev("stop", 0))
  <2>1. Abstract!Emit("stop", 0, "plain")
    BY <1>1, <1>3, PlainEmit
  <2> QED
    BY <1>1, <2>1, WhileStreaming DEF Abstract!Stop
<1> QED
  BY <1>2, <1>3 DEF StreamEnd

LEMMA SameCard == \A S : Abstract!Cardinality(S) = Cardinality(S)
BY DEF Cardinality, Abstract!Cardinality

LEMMA CallRefines ==
  ASSUME ~Compacts, KnownInv, TurnInv, CallEnd
  PROVE  Abstract!CallEnd
<1> USE DEF KnownInv, IInv, SettleInv, TurnInv
<1>1. MainStep
  BY DEF MainStep
<1>2. /\ UNCHANGED turnStart /\ main = "recv" /\ execQueue = <<>>
      /\ n < MaxCalls /\ log' = Append(log, Ev("tool_call_end", n + 1))
  BY DEF CallEnd, Looking, At, Emit
<1>3. n \in Nat /\ n + 1 \in 0..MaxCalls /\ log \in Seq(Event) /\ Len(log) \in Nat
  BY <1>2, ConstantsAssumption DEF TypeOK
<1>4. /\ Ev("tool_call_end", n + 1) \in Event
      /\ Ev("tool_call_end", n + 1).type = "tool_call_end"
      /\ Ev("tool_call_end", n + 1).call = n + 1
  BY <1>3 DEF Event, Ev, EventTypes
<1>5. PICK m : m = Len(log) + 1
  OBVIOUS
<1>6. log'[m] = Ev("tool_call_end", n + 1)
  BY <1>2, <1>3, <1>4, <1>5, Appended
<1>7. TagOf(m)' \in {"plain", "safe"}
  BY <1>4, <1>6 DEF TagOf
<1>8. Abstract!Emit("tool_call_end", n + 1, TagOf(m)')
  BY <1>1, <1>2, <1>4, <1>5, Emits
<1>9. Abstract!Cardinality(Abstract!Declared) = n
  BY ReadCalls, SameCard
<1>10. Abstract!Open /\ Abstract!Streaming
  BY <1>2, WhileStreaming
<1> QED
  BY <1>2, <1>7, <1>8, <1>9, <1>10 DEF Abstract!CallEnd

LEMMA TerminalRefines ==
  ASSUME ~Compacts, KnownInv, TurnInv, Terminal
  PROVE  Abstract!Terminal
<1> USE DEF KnownInv, IInv, SettleInv, TurnInv
<1>1. /\ MainStep /\ UNCHANGED <<turnStart, outcome>> /\ main = "end"
      /\ log' = Append(log, Ev("terminal", 0))
  BY DEF MainStep, Terminal, At, Emit, Goto
<1>2. /\ Ev("terminal", 0) \in Event
      /\ Ev("terminal", 0).type = "terminal" /\ Ev("terminal", 0).call = 0
  BY ConstantsAssumption DEF Event, Ev, EventTypes
<1>3. PICK m : m = Len(log) + 1
  OBVIOUS
<1>4. log'[m] = Ev("terminal", 0)
  BY <1>1, <1>2, <1>3, Appended DEF TypeOK
<1>5. /\ TagOf(m)' \in {"plain", "aborted"}
      /\ TagOf(m)' = "plain" => outcome # "aborted"
  BY <1>1, <1>2, <1>4 DEF TagOf
<1>6. Abstract!Emit("terminal", 0, TagOf(m)')
  BY <1>1, <1>2, <1>3, Emits
<1>7. /\ Abstract!Open /\ ~Abstract!OpenDraft /\ Abstract!Settled
      /\ TagOf(m)' = "plain" => Abstract!Answered
  BY <1>1, <1>5, BetweenTurns DEF Accountable
<1> QED
  BY <1>5, <1>6, <1>7 DEF Abstract!Terminal

LEMMA VoidRefines ==
  ASSUME ~Compacts, KnownInv, TurnInv, Abandoned
  PROVE  UNCHANGED <<Mapped, 1, 1, turnStart>> \/ Abstract!Void
<1> USE DEF KnownInv, IInv, SettleInv, TurnInv
<1>1. MainStep /\ main = "abandon" /\ AllSettled /\ outcome # "overflow"
  BY DEF MainStep, Abandoned, At, VoidInv
<1>2. CASE launchError
  <2>1. UNCHANGED <<log, turnStart>>
    BY <1>2 DEF Abandoned
  <2> QED
    BY <1>1, <2>1, Stutters
<1>3. CASE ~launchError /\ ~DraftToVoid
  <2>1. UNCHANGED log /\ turnStart' \in {turnStart, Len(log')}
    BY <1>1, <1>3 DEF Abandoned
  <2>2. Len(log) = turnStart
    BY <1>1, <1>3, NothingUnsafe DEF DraftToVoid, AttemptInv, FreshAttempt, TypeOK
  <2> QED
    BY <1>1, <2>1, <2>2, Stutters
<1>4. CASE ~launchError /\ DraftToVoid
  <2> DEFINE e == Ev("model_output_abandoned", 0)
  <2>1. log' = Append(log, e) /\ turnStart' \in {turnStart, Len(log')}
    BY <1>1, <1>4 DEF Abandoned, Emit
  <2>2. e \in Event /\ e.type = "model_output_abandoned" /\ e.call = 0
    BY ConstantsAssumption DEF Event, Ev, EventTypes
  <2> HIDE DEF e
  <2>3. PICK m : m = Len(log) + 1
    OBVIOUS
  <2>4. log'[m] = e /\ Len(log') = m
    BY <2>1, <2>2, <2>3, Appended DEF TypeOK
  <2>5. Abstract!Open /\ Abstract!Settled
    BY <1>1, <1>4, AtRest
  <2>6. Abstract!Streaming /\ Unbroken /\ Len(log) > turnStart
    BY <1>1, <1>4, WhileStreaming, ReadWhole DEF AttemptInv, FactInv, DraftToVoid
  <2>7. Abstract!OpenDraft
    BY <2>6, MappedLog DEF Abstract!OpenDraft
  <2>8. VoidFrom(m)' = turnStart
    BY <1>1, <2>1, <2>2, <2>3, <2>6, VoidsAttempt DEF AttemptInv, Segments
  <2>9. \A c \in Abstract!OwnCalls :
          \/ /\ Abstract!Position(c) > turnStart
             /\ Abstract!Has("tool_execution_started", c) => Abstract!Safe(c)
          \/ Abstract!Position(c) <= turnStart
    <3> SUFFICES ASSUME NEW c \in Launched, seq[c] > turnStart, StartedOf(c) # {}
                 PROVE  PrecommitSafe(c)
      <4>1. \A c \in Launched : seq[c] \in Nat /\ turnStart \in Nat
        BY CallRange DEF TypeOK
      <4>2. \A c \in Launched : Abstract!Has("tool_execution_started", c) => StartedOf(c) # {}
        BY ReadLaunch, CallRange DEF FactInv
      <4> QED
        BY <4>1, <4>2, ReadCalls
    <3>1. PICK i \in DOMAIN log : log[i] = Begun(c)
      BY DEF StartedOf, Begun
    <3>2. Launches(log[i]) /\ log[i].call = c /\ log[i].type = "tool_execution_started"
      BY <3>1, CallRange, LaunchEvent DEF Launches, LaunchEvents
    <3>3. i > turnStart
      BY <3>2, CallRange, MappedLog DEF CallsDeclared, TypeOK
    <3> QED
      BY <1>4, <3>2, <3>3 DEF DraftToVoid, UnsafeStartedInDraft
  <2>10. Mapped' = Append(Mapped, [Abstract!Ev(1, "model_output_abandoned", 0, "plain")
                                     EXCEPT !.from = turnStart])
    <3> DEFINE f == [type |-> "model_output_abandoned", call |-> 0, tag |-> "plain",
                     run |-> 1, from |-> turnStart]
    <3>1. MappedEvent(m)' = f
      BY <2>2, <2>4, <2>8 DEF MappedEvent, TagOf
    <3>2. f = [Abstract!Ev(1, "model_output_abandoned", 0, "plain") EXCEPT !.from = turnStart]
      BY DEF Abstract!Ev
    <3> HIDE DEF f
    <3>3. Mapped' = Append(Mapped, f)
      BY <1>1, <2>1, <2>2, <2>3, <3>1, MainKeepsMapped, MappedGrows
    <3> QED
      BY <3>2, <3>3
  <2>11. Len(Mapped') = m
    <3>1. Len(Mapped') = Len(Mapped) + 1
      <4> DEFINE S == {Mapped[i] : i \in DOMAIN log}
                       \cup {[Abstract!Ev(1, "model_output_abandoned", 0, "plain")
                                EXCEPT !.from = turnStart]}
      <4>1. Mapped \in Seq(S)
        <5>1. Mapped \in [1..Len(log) -> S] /\ Len(log) \in Nat
          BY MappedLog DEF Mapped
        <5> HIDE DEF S
        <5> QED
          BY <5>1
      <4>2. [Abstract!Ev(1, "model_output_abandoned", 0, "plain") EXCEPT !.from = turnStart] \in S
        OBVIOUS
      <4> HIDE DEF S
      <4> QED
        BY <2>10, <4>1, <4>2, AppendProperties
    <3> QED
      BY <2>3, <3>1, MappedLog
  <2> QED
    BY <2>1, <2>4, <2>5, <2>7, <2>9, <2>10, <2>11 DEF Abstract!Void
<1> QED
  BY <1>2, <1>3, <1>4

(***************************************************************************)
(* The launches' events.                                                   *)
(***************************************************************************)

\* What of a call's decision is logged, TurnLog reads with its tag.
LEMMA ReadDecision ==
  ASSUME TypeOK, Untagged(log), NEW c \in Calls
  PROVE  /\ \A tag : Abstract!HasTag("permission_decided", c, tag) <=>
                       In(log, {Decided(c)}) /\ tag = DecisionTag(c)
         /\ Abstract!Denied(c) <=>
              In(log, {Decided(c)}) /\ DecisionTag(c) \in {"policyDeny", "humanDeny"}
<1>1. \A i \in DOMAIN log :
        log[i].type = "permission_decided" /\ log[i].call = c =>
          Mapped[i].tag = DecisionTag(c)
  BY MappedLog DEF TagOf
<1>2. Abstract!Events("permission_decided", c) =
        {i \in DOMAIN log : log[i].type = "permission_decided" /\ log[i].call = c}
  BY ReadHas
<1>3. Abstract!Events("permission_decided", c) # {} <=> In(log, {Decided(c)})
  BY ReadLaunch DEF Abstract!Has
<1>4. \A tag : Abstract!HasTag("permission_decided", c, tag) <=>
                 In(log, {Decided(c)}) /\ tag = DecisionTag(c)
  BY <1>1, <1>2, <1>3 DEF Abstract!HasTag
<1> QED
  BY <1>4 DEF Abstract!Denied

\* What stands before the head of the queue, of its call: everything of a
\* lower rank that was written, and nothing else.
LEMMA AtHead ==
  ASSUME TypeOK, RankInv, execQueue # <<>>,
         NEW e, e = Head(execQueue), NEW x, Launches(x), x.call = e.call
  PROVE  /\ Rank(e) <= Rank(x) => ~In(log, {x})
         /\ Rank(x) < Rank(e) /\ Traced({x}) => In(log, {x})
<1>1. /\ 1 \in DOMAIN execQueue /\ e = execQueue[1]
      /\ \A j \in DOMAIN execQueue : j = 1 \/ 1 < j
  BY DEF TypeOK
<1>2. Rank(e) \in Nat /\ Rank(x) \in Nat
  BY RankNat
<1>3. ASSUME In(log, {x})
      PROVE  Rank(x) < Rank(e)
  <2>1. PICK i \in DOMAIN log : log[i] = x
    BY <1>3 DEF In
  <2> QED
    BY <1>1, <2>1 DEF RankInv, LogFirst
<1>4. ASSUME Rank(x) < Rank(e), In(execQueue, {x})
      PROVE  FALSE
  <2>1. PICK j \in DOMAIN execQueue : execQueue[j] = x
    BY <1>4 DEF In
  <2>2. j = 1 \/ Rank(e) < Rank(x)
    BY <1>1, <2>1 DEF RankInv, QueueInOrder
  <2> QED
    BY <1>1, <1>2, <1>4, <2>1, <2>2
<1> QED
  BY <1>2, <1>3, <1>4 DEF Traced

LEMMA StopCommits ==
  ASSUME TypeOK, CallsDeclared, NEW c \in Launched, AfterStop(c), ~Abstract!Voided(c)
  PROVE  Abstract!Committed(c)
<1>1. PICK j \in DOMAIN log : log[j].type = "stop" /\ seq[c] < j
  BY DEF AfterStop
<1>2. j \in DOMAIN Mapped /\ Mapped[j].type = "stop" /\ Abstract!Position(c) = seq[c]
  BY <1>1, MappedLog, ReadCalls
<1> QED
  BY <1>1, <1>2 DEF Abstract!Committed

\* The head of the queue as it is drained.
LEMMA DrainedHead ==
  ASSUME ~Compacts, KnownInv, TurnInv, Drain, NEW e, e = Head(execQueue),
         NEW c, c = e.call, NEW m, m = Len(log) + 1
  PROVE  /\ execQueue # <<>> /\ e = execQueue[1] /\ 1 \in DOMAIN execQueue /\ e \in Event
         /\ c \in Calls /\ c \in Launched /\ c \in Abstract!OwnCalls
         /\ Launches(e) /\ In(execQueue, {e}) /\ log'[m] = e
         /\ e.type # "tool_result" => e = Ev(e.type, c) /\ Abstract!Open
         /\ ~Abstract!Voided(c) /\ ~Abstract!Ended
         /\ Abstract!Emit(e.type, c, TagOf(m)')
         /\ UNCHANGED <<verdict, answer>>
<1> USE DEF KnownInv, IInv, SettleInv, TurnInv
<1>1. MainStep /\ UNCHANGED <<turnStart, verdict, answer>>
      /\ main \in {"recv", "abandon", "drain"}
  BY DEF MainStep, Drain
<1>2. /\ execQueue # <<>> /\ 1 \in DOMAIN execQueue /\ e = execQueue[1] /\ e \in Event
      /\ log' = Append(log, e) /\ log'[m] = e
  BY Drained
<1>3. c \in Pending /\ c \in Launched /\ c \in Calls
  BY <1>2, CallRange DEF CallsDeclared, Pending
<1>4. Launches(e) /\ In(execQueue, {e})
  BY <1>2 DEF QueueOfCalls, Launches, In
<1>5. e.type # "tool_result" => e = Ev(e.type, c)
  BY <1>2 DEF FactInv, Untagged
<1>6. ~Abstract!Voided(c)
  BY <1>1, <1>3, NotVoided DEF Segments
<1>7. c \in Abstract!OwnCalls
  BY <1>3, ReadCalls
<1>8. ~Abstract!Ended
  BY <1>1, ReadWhole DEF AttemptInv, FactInv, TerminalLast
<1>9. e.type # "tool_result" => Abstract!Open
  BY <1>1, NothingOpen DEF AttemptInv, Results
<1>10. e.type \notin {"delta", "model_output_abandoned"}
  BY <1>4 DEF Launches, LaunchEvents
<1>11. Abstract!Emit(e.type, c, TagOf(m)')
  BY <1>1, <1>2, <1>10, Emits
<1> QED
  BY <1>1, <1>2, <1>3, <1>4, <1>5, <1>6, <1>7, <1>8, <1>9, <1>11

LEMMA DrainRefines ==
  ASSUME ~Compacts, KnownInv, TurnInv, Drain
  PROVE  \E c \in Abstract!Calls : Abstract!CallStep(c)
<1> USE DEF KnownInv, IInv, SettleInv, TurnInv
<1>1. PICK e : e = Head(execQueue)
  OBVIOUS
<1>2. PICK c : c = e.call
  OBVIOUS
<1>3. PICK m : m = Len(log) + 1
  OBVIOUS
<1>4. /\ execQueue # <<>> /\ e = execQueue[1] /\ 1 \in DOMAIN execQueue /\ e \in Event
      /\ c \in Calls /\ c \in Launched /\ c \in Abstract!OwnCalls
      /\ Launches(e) /\ In(execQueue, {e}) /\ log'[m] = e
      /\ e.type # "tool_result" => e = Ev(e.type, c) /\ Abstract!Open
      /\ ~Abstract!Voided(c) /\ ~Abstract!Ended
      /\ Abstract!Emit(e.type, c, TagOf(m)')
      /\ UNCHANGED <<verdict, answer>>
  BY <1>1, <1>2, <1>3, DrainedHead
<1>5. /\ \A x : Launches(x) /\ x.call = c /\ Rank(e) <= Rank(x) => ~In(log, {x})
      /\ \A x : Launches(x) /\ x.call = c /\ Rank(x) < Rank(e) /\ Traced({x}) =>
           In(log, {x})
  BY <1>1, <1>2, <1>4, AtHead
<1>6. /\ \A x \in {Requested(c), Decided(c), Begun(c), Receipted(c)} \cup Results(c) :
           Launches(x) /\ x.call = c
      /\ Rank(Requested(c)) = 1 /\ Rank(Decided(c)) = 2 /\ Rank(Begun(c)) = 3
      /\ Rank(Receipted(c)) = 4 /\ \A r \in Results(c) : Rank(r) = 5
  BY <1>4, LaunchEvent DEF Launches, LaunchEvents, Rank
<1>7. /\ Abstract!Has("permission_requested", c) <=> In(log, {Requested(c)})
      /\ Abstract!Has("permission_decided", c) <=> In(log, {Decided(c)})
      /\ Abstract!Has("tool_execution_started", c) <=> In(log, {Begun(c)})
      /\ Abstract!Has("tool_execution_receipt", c) <=> In(log, {Receipted(c)})
      /\ Abstract!Has("tool_result", c) <=> In(log, Results(c))
      /\ In(log, {Begun(c)}) <=> StartedOf(c) # {}
      /\ \A tag : Abstract!HasTag("permission_decided", c, tag) <=>
                    In(log, {Decided(c)}) /\ tag = DecisionTag(c)
      /\ Abstract!Denied(c) <=>
           In(log, {Decided(c)}) /\ DecisionTag(c) \in {"policyDeny", "humanDeny"}
  BY <1>4, ReadLaunch, ReadDecision DEF FactInv
<1>8. FactsOf(c) /\ verdict[c] \in {"none", "allow", "deny", "ask", "thrown"}
      /\ answer[c] \in {"none", "allow", "deny"}
  BY <1>4 DEF FactInv, TypeOK
<1>9. Rank(e) <= 5 => ~In(log, Results(c))
  <2>1. ASSUME NEW r \in Results(c), Rank(e) <= 5
        PROVE  ~In(log, {r})
    BY <1>5, <1>6, <2>1
  <2> QED
    BY <2>1 DEF In
<1>10. ~In(log, Results(c))
  <2>1. Rank(e) \in 1..5
    BY RankNat
  <2> QED
    BY <1>9, <2>1
<1>11. SUFFICES Abstract!CallStep(c)
  BY <1>4, ReadCalls
<1>12. CASE e.type = "permission_requested"
  <2>1. e = Requested(c) /\ Abstract!Emit("permission_requested", c, "plain")
    <3>1. TagOf(m)' = "plain"
      BY <1>4, <1>12 DEF TagOf
    <3> QED
      BY <1>4, <1>12, <3>1 DEF Requested
  <2>2. ~In(log, {Requested(c)}) /\ ~In(log, {Decided(c)}) /\ ~In(log, {Begun(c)})
    BY <1>5, <1>6, <2>1
  <2>3. AfterStop(c)
    BY <1>2, <1>4, <1>12 DEF Gated
  <2>4. Abstract!Committed(c)
    BY <1>4, <2>3, StopCommits
  <2>5. Abstract!Request(c)
    BY <1>4, <1>7, <1>10, <1>12, <2>1, <2>2, <2>4
    DEF Abstract!Request, Abstract!Undecided
  <2> QED
    BY <2>5 DEF Abstract!CallStep
<1>13. CASE e.type = "permission_decided"
  <2>1. e = Decided(c) /\ Abstract!Emit("permission_decided", c, DecisionTag(c))
    <3>1. TagOf(m)' = DecisionTag(c)
      <4>1. TagOf(m)' = DecisionTag(c)'
        BY <1>2, <1>4, <1>13 DEF TagOf
      <4>2. DecisionTag(c)' = DecisionTag(c)
        BY <1>4 DEF DecisionTag
      <4> QED
        BY <4>1, <4>2
    <3> QED
      BY <1>4, <1>13, <3>1 DEF Decided
  <2>2. ~In(log, {Decided(c)}) /\ ~In(log, {Begun(c)}) /\ Traced({Decided(c)})
    BY <1>4, <1>5, <1>6, <2>1 DEF Traced
  <2>3. CASE verdict[c] = "ask"
    <3>1. In(log, {Requested(c)})
      BY <1>5, <1>6, <1>8, <2>1, <2>2, <2>3 DEF FactsOf
    <3>2. DecisionTag(c) \in {"humanAllow", "humanDeny"}
      BY <2>3 DEF DecisionTag
    <3>3. Abstract!HumanDecides(c)
      BY <1>4, <1>7, <1>10, <1>13, <2>1, <2>2, <3>1, <3>2
      DEF Abstract!HumanDecides, Abstract!Undecided
    <3> QED
      BY <3>3 DEF Abstract!CallStep
  <2>4. CASE verdict[c] # "ask"
    <3>1. ~In(log, {Requested(c)})
      BY <1>8, <2>4 DEF FactsOf, Traced
    <3>2. DecisionTag(c) \in {"policyAllow", "policyDeny"}
      BY <2>4 DEF DecisionTag
    <3>3. Abstract!Decide(c)
      BY <1>4, <1>7, <1>10, <1>13, <2>1, <2>2, <3>1, <3>2
      DEF Abstract!Decide, Abstract!Undecided
    <3> QED
      BY <3>3 DEF Abstract!CallStep
  <2> QED
    BY <2>3, <2>4
<1>14. CASE e.type = "tool_execution_started"
  <2>1. e = Begun(c) /\ Abstract!Emit("tool_execution_started", c, "plain")
    <3>1. TagOf(m)' = "plain"
      BY <1>4, <1>14 DEF TagOf
    <3> QED
      BY <1>4, <1>14, <3>1 DEF Begun
  <2>2. ~In(log, {Begun(c)})
    BY <1>5, <1>6, <2>1
  <2>3. pc[c] = "ack"
    BY <1>2, <1>4, <1>14 DEF InFlight, Started, AwaitsAck
  <2>4. Approved(c)
    BY <1>8, <2>3 DEF FactsOf, BeyondBarrier
  <2>5. ~Abstract!Denied(c)
    BY <1>7, <2>4 DEF Approved, DecisionTag
  <2>6. Abstract!Committed(c) \/ Abstract!Safe(c)
    <3>1. AfterStop(c) \/ Exempt(c)
      BY <1>4, <2>3 DEF Gated, PastGate
    <3> QED
      BY <1>4, <3>1, StopCommits, ReadCalls DEF Exempt
  <2>7. Abstract!Has("permission_requested", c) =>
          Abstract!HasTag("permission_decided", c, "humanAllow")
    <3> SUFFICES ASSUME In(log, {Requested(c)})
                 PROVE  In(log, {Decided(c)}) /\ DecisionTag(c) = "humanAllow"
      BY <1>7
    <3>1. verdict[c] = "ask"
      BY <1>8 DEF FactsOf, Traced
    <3>2. answer[c] = "allow" /\ Traced({Decided(c)})
      BY <2>4, <3>1 DEF Approved
    <3> QED
      BY <1>5, <1>6, <2>1, <3>1, <3>2 DEF DecisionTag
  <2>8. Abstract!Start(c)
    BY <1>4, <1>7, <1>10, <1>14, <2>1, <2>2, <2>5, <2>6, <2>7 DEF Abstract!Start
  <2> QED
    BY <2>8 DEF Abstract!CallStep
<1>15. CASE e.type = "tool_execution_receipt"
  <2>1. e = Receipted(c) /\ Abstract!Emit("tool_execution_receipt", c, "plain")
    <3>1. TagOf(m)' = "plain"
      BY <1>4, <1>15 DEF TagOf
    <3> QED
      BY <1>4, <1>15, <3>1 DEF Receipted
  <2>2. ~In(log, {Receipted(c)}) /\ Traced({Receipted(c)})
    BY <1>4, <1>5, <1>6, <2>1 DEF Traced
  <2>3. StartedOf(c) # {}
    BY <1>8, <2>2 DEF FactsOf
  <2>4. Abstract!Receipt(c)
    BY <1>4, <1>7, <1>15, <2>1, <2>2, <2>3 DEF Abstract!Receipt
  <2> QED
    BY <2>4 DEF Abstract!CallStep
<1>16. CASE e.type = "tool_result"
  <2>1. e \in Results(c) /\ Rank(e) = 5 /\ Traced(Results(c))
    BY <1>2, <1>4, <1>6, <1>16 DEF Results, Traced, In
  <2>2. StartedOf(c)' # {} <=> StartedOf(c) # {}
    <3>1. /\ log' = Append(log, e) /\ log \in Seq(Event) /\ m \notin DOMAIN log
          /\ DOMAIN log' = DOMAIN log \cup {m}
          /\ \A i \in DOMAIN log : log'[i] = log[i]
      BY <1>3, <1>4, Drained DEF TypeOK
    <3>2. e # Ev("tool_execution_started", c)
      BY <1>16 DEF Ev
    <3> QED
      BY <1>4, <3>1, <3>2 DEF StartedOf
  <2>3. TagOf(m)' = (IF StartedOf(c) # {} THEN "ran" ELSE "denied")
    BY <1>2, <1>4, <1>16, <2>2 DEF TagOf
  <2>4. \A d \in Launched : Unpaired(d) => d = c
    BY <1>1, <1>2, CallRange DEF PairInv, Results
  <2>5. Abstract!Unpaired = {d \in Launched : Unpaired(d)}
    BY ReadWhole DEF AttemptInv, FactInv
  <2>6. CASE In(log, {Receipted(c)})
    <3>1. StartedOf(c) # {}
      BY <1>8, <2>6 DEF FactsOf, Traced
    <3>2. c \in Abstract!Unpaired
      BY <1>4, <1>10, <2>5, <2>6 DEF Unpaired
    <3>3. Abstract!Result(c)
      BY <1>4, <1>7, <1>10, <1>16, <2>3, <3>1, <3>2 DEF Abstract!Result
    <3> QED
      BY <3>3 DEF Abstract!CallStep
  <2>7. CASE ~In(log, {Receipted(c)})
    <3>1. ~Traced({Receipted(c)})
      BY <1>5, <1>6, <2>1, <2>7
    <3>2. ~Traced({Begun(c)}) /\ Refused(c)
      BY <1>8, <2>1, <3>1 DEF FactsOf, Begun
    <3>3. StartedOf(c) = {} /\ ~In(log, {Begun(c)})
      BY <1>7, <3>2 DEF Traced
    <3>4. Abstract!Unpaired = {}
      BY <2>4, <2>5, <2>7 DEF Unpaired
    <3>5. In(log, {Requested(c)}) \/ In(log, {Decided(c)}) => Abstract!Denied(c)
      <4>1. In(log, {Requested(c)}) => verdict[c] = "ask"
        BY <1>8 DEF FactsOf, Traced
      <4>2. verdict[c] = "ask" => answer[c] = "deny" /\ In(log, {Decided(c)})
        BY <1>5, <1>6, <2>1, <3>2 DEF Refused
      <4>3. DecisionTag(c) \in {"policyDeny", "humanDeny"}
        BY <3>2 DEF Refused, DecisionTag
      <4> QED
        BY <1>7, <4>1, <4>2, <4>3
    <3>6. Abstract!Result(c)
      BY <1>4, <1>7, <1>10, <1>16, <2>3, <3>3, <3>4, <3>5 DEF Abstract!Result
    <3> QED
      BY <3>6 DEF Abstract!CallStep
  <2> QED
    BY <2>6, <2>7
<1> QED
  BY <1>4, <1>12, <1>13, <1>14, <1>15, <1>16 DEF Launches, LaunchEvents

(***************************************************************************)
(* The loop implements the turn log.                                       *)
(***************************************************************************)

\* Each step of the generator is a step TurnLog allows, or leaves it alone.
LEMMA MainRefines ==
  ASSUME ~Compacts, KnownInv, TurnInv, MainStep
  PROVE  Refines
<1> USE DEF KnownInv, IInv, SettleInv, TurnInv
<1>1. CASE TurnHead \/ OpenTurn \/ Restream \/ Receive \/ HoldStop \/ Violation
             \/ StreamFail \/ Committed \/ TurnSettles \/ Compact
  <2>1. UNCHANGED <<log, turnStart>>
    BY <1>1 DEF TurnHead, OpenTurn, Restream, Receive, HoldStop, Violation, StreamFail,
                Committed, TurnSettles, Compact, Abandon
  <2> QED
    BY <2>1, Stutters DEF Refines
<1>2. CASE Admit \/ TakeOrSeal
  BY <1>2, InputRefines DEF Refines, Abstract!Next
<1>3. CASE BeginRequest
  BY <1>3, BeginRefines DEF Refines, Abstract!Next
<1>4. CASE Drain
  BY <1>4, DrainRefines DEF Refines, Abstract!Next
<1>5. CASE Delta
  BY <1>5, DeltaRefines DEF Refines, Abstract!Next
<1>6. CASE CallEnd
  BY <1>6, CallRefines DEF Refines, Abstract!Next
<1>7. CASE StreamEnd
  BY <1>7, StopRefines DEF Refines, Abstract!Next
<1>8. CASE Abandoned
  BY <1>8, VoidRefines DEF Refines, Abstract!Next
<1>9. CASE Terminal
  BY <1>9, TerminalRefines DEF Refines, Abstract!Next
<1> QED
  BY <1>1, <1>2, <1>3, <1>4, <1>5, <1>6, <1>7, <1>8, <1>9 DEF MainStep

\* A launch or the environment does not write the log, and what the mapping
\* has read of it does not change with what they know.
LEMMA StepRefines ==
  ASSUME ~Compacts, KnownInv, TurnInv, [Next]_vars
  PROVE  UNCHANGED Abstract!vars \/ Abstract!Next
<1> USE DEF KnownInv, IInv, SettleInv, TurnInv
<1>1. CASE MainStep
  BY <1>1, MainRefines DEF Refines, Abstract!vars
<1>2. ASSUME NEW c \in Calls, LaunchStep(c) \/ Answer(c)
      PROVE  UNCHANGED Abstract!vars
  <2>1. UNCHANGED turnStart
    BY <1>2 DEF LaunchStep, Decide, PassAskGate, PassCommitGate, PauseEnds, Answer,
                PauseAborted, PassBarrier, Start, Execute, Finish
  <2>2. Mapped' = Mapped
    BY <1>2, LaunchKeepsMapped
  <2> QED
    BY <2>1, <2>2 DEF Abstract!vars
<1>3. CASE Persist \/ PersistFails \/ Abort \/ Over \/ UNCHANGED vars
  <2>1. UNCHANGED turnStart
    BY <1>3 DEF Persist, PersistFails, Abort, Over, vars
  <2>2. Mapped' = Mapped
    BY <1>3, EnvKeepsMapped
  <2> QED
    BY <2>1, <2>2 DEF Abstract!vars
<1> QED
  BY <1>1, <1>2, <1>3 DEF Next

LEMMA InitRefines == Init => Abstract!Init
<1> SUFFICES ASSUME Init PROVE Abstract!Init
  OBVIOUS
<1>1. /\ DOMAIN log = {1} /\ log[1] = Ev("user_input", 0) /\ turnStart = 1
  BY DEF Init
<1> DEFINE f == [type |-> "user_input", call |-> 0, tag |-> "plain", run |-> 1, from |-> 0]
<1>2. MappedEvent(1) = f
  BY <1>1 DEF MappedEvent, TagOf, Ev
<1>3. f = Abstract!Ev(1, "user_input", 0, "plain")
  BY DEF Abstract!Ev
<1> HIDE DEF f
<1>4. Mapped = [i \in {1} |-> f]
  BY <1>1, <1>2 DEF Mapped
<1>5. Mapped = <<f>>
  BY <1>4
<1> QED
  BY <1>1, <1>3, <1>5 DEF Abstract!Init

\* The kernel loop implements TurnLog: for any number of calls, whatever the
\* tools, the window, the faults and the schedule of the launches, the loop
\* appends an event only when the events before it allow it (loop.ts).  With a
\* compactor the log holds summarized events, which TurnLog does not speak of.
THEOREM LoopImplementsTurnLog == ~Compacts => (Spec => ImplementsTurnLog)
<1> SUFFICES ASSUME ~Compacts PROVE Spec => ImplementsTurnLog
  OBVIOUS
<1>1. KnownInv /\ TurnInv /\ [Next]_vars =>
        [UNCHANGED Abstract!vars \/ Abstract!Next]_(Abstract!vars)
  BY StepRefines
<1> QED
  BY <1>1, InitRefines, TurnInvariance, PTL DEF Spec, ImplementsTurnLog
==============================================================================
