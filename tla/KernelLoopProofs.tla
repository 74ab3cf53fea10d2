-------------------------- MODULE KernelLoopProofs --------------------------
(***************************************************************************)
(* Theorems about the kernel loop, for every number of calls, every window *)
(* and every tool table: the window never leaks a slot, no handler runs    *)
(* before its STARTED event is durable, and nothing uncommitted starts     *)
(* unless its tool is precommit-safe and the call was allowed.             *)
(***************************************************************************)
EXTENDS KernelLoop, FiniteSetTheorems, TLAPS

Started(e) == e.type = "tool_execution_started"
Holding == {c \in Launched : InWindow(c)}

(***************************************************************************)
(* The inductive invariant, in four parts.                                 *)
(***************************************************************************)

\* Exactly the launched calls have left "idle".
CallsLaunched == \A c \in Calls : pc[c] = "idle" <=> c > n

\* Every slot is free or held, the waiters wait, each once, and only while
\* no slot is free.
WindowInv ==
  /\ freeSlots + Cardinality(Holding) = Window
  /\ \A i \in DOMAIN windowWaiters :
       /\ pc[windowWaiters[i]] = "window"
       /\ \A j \in DOMAIN windowWaiters :
            windowWaiters[j] = windowWaiters[i] => j = i
  /\ windowWaiters # <<>> => freeSlots = 0

\* A STARTED event on its way (queued, or appended and not yet persisted) is
\* the only one of its call on its way, and the call waits for its ack.
AwaitsAck(e, points) ==
  /\ e = Ev("tool_execution_started", e.call)
  /\ e.call \in Calls /\ points[e.call] = "ack"
InFlight ==
  /\ \A i \in DOMAIN execQueue : Started(execQueue[i]) =>
       /\ AwaitsAck(execQueue[i], pc)
       /\ \A j \in DOMAIN execQueue :
            /\ Started(execQueue[j])
            /\ execQueue[j].call = execQueue[i].call
            => j = i
  /\ durable < Len(log) /\ Started(log[Len(log)]) =>
       /\ AwaitsAck(log[Len(log)], pc)
       /\ \A j \in DOMAIN execQueue :
            Started(execQueue[j]) => execQueue[j].call # log[Len(log)].call

\* An acked call's STARTED event is durable.
AckedDurable ==
  \A c \in Calls : pc[c] \in {"acked", "handler"} =>
    \E i \in StartedOf(c) : i <= durable

\* A stop was appended after the call; or the call needs no stop.
AfterStop(c) == \E j \in DOMAIN log : log[j].type = "stop" /\ seq[c] < j
Exempt(c) == PrecommitSafe(c) /\ verdict[c] = "allow"
PastGate(c) == pc[c] \in {"pause", "barrier", "window", "start", "ack",
                          "acked", "handler"}
Announced(e) == e.type \in {"tool_execution_started", "permission_requested"}

\* The commit gate: a call past it has its stop, unless it is exempt; so has
\* every call while the turn counts as committed, and nothing streams then.
Gated ==
  /\ \A c \in Calls : seq[c] <= Len(log)
  /\ \A c \in Calls : pc[c] = "ahead" => verdict[c] \in {"allow", "ask"}
  /\ committed => \A c \in Launched : AfterStop(c)
  /\ main \in {"stream", "recv", "again"} => ~committed
  /\ \A c \in Calls : PastGate(c) => AfterStop(c) \/ Exempt(c)
  /\ \A i \in DOMAIN execQueue :
       execQueue[i].type = "permission_requested" =>
         \E c \in Calls : /\ execQueue[i].call = c /\ AfterStop(c)
                         /\ pc[c] \notin {"idle", "decide"}
  /\ \A i \in DOMAIN log : Announced(log[i]) =>
       \E c \in Calls : log[i].call = c /\ pc[c] \notin {"idle", "decide"}

IInv ==
  /\ TypeOK /\ CallsLaunched /\ WindowInv
  /\ InFlight /\ AckedDurable /\ Gated /\ SpeculationIsSafe

(***************************************************************************)
(* Types.                                                                  *)
(***************************************************************************)

USE DEF logVars, frameVars, gateVars, overflowVars, callVars, launchVars,
        launchUnchanged

LEMMA EvType ==
  ASSUME NEW t \in EventTypes, NEW c \in 0..MaxCalls
  PROVE  Ev(t, c) \in Event
BY DEF Ev, Event

\* A call holding a slot leaves at least one slot that is not free.
LEMMA HeldSlot ==
  ASSUME TypeOK, freeSlots + Cardinality(Holding) = Window,
         NEW c \in Launched, InWindow(c)
  PROVE  freeSlots < Window
<1>1. IsFiniteSet(1..n)
  BY FS_Interval DEF TypeOK
<1>2. IsFiniteSet(Holding)
  BY <1>1, FS_Subset DEF Holding, Launched
<1>3. Cardinality(Holding) \in Nat
  BY <1>2, FS_CardinalityType
<1>4. Cardinality(Holding) # 0
  BY <1>2, FS_EmptySet DEF Holding
<1> QED
  BY <1>3, <1>4, ConstantsAssumption DEF TypeOK

\* The type invariant in three groups, to prove each where it changes.
LogType == log \in Seq(Event) /\ durable \in 0..Len(log)
ControlType ==
  /\ main \in MainPoints /\ outcome \in Outcomes
  /\ turns \in Nat /\ attempts \in Nat /\ turnStart \in Nat
  /\ stop \in StopReasons \cup {"none"} /\ streamed \in BOOLEAN
  /\ committed \in BOOLEAN /\ settled \in BOOLEAN /\ violated \in BOOLEAN
  /\ overflow \in BOOLEAN /\ overflowRetried \in BOOLEAN
  /\ launchError \in BOOLEAN /\ aborted \in BOOLEAN
CallType ==
  /\ n \in 0..MaxCalls
  /\ tool \in [Calls -> Tools] /\ seq \in [Calls -> Nat]
  /\ pc \in [Calls -> CallPoints]
  /\ verdict \in [Calls -> {"none", "allow", "deny", "ask", "thrown"}]
  /\ answer \in [Calls -> {"none", "allow", "deny"}]
QueueType ==
  /\ execQueue \in Seq(Event)
  /\ freeSlots \in 0..Window /\ windowWaiters \in Seq(Calls)

LEMMA Types == TypeOK <=> LogType /\ ControlType /\ CallType /\ QueueType
BY DEF TypeOK, LogType, ControlType, CallType, QueueType

LEMMA EmitLogType ==
  ASSUME LogType, NEW t \in EventTypes, NEW c \in 0..MaxCalls,
         Emit(Ev(t, c))
  PROVE  LogType' /\ Len(log') = Len(log) + 1
BY EvType DEF LogType, Emit

LEMMA InitTypeOK == Init => TypeOK
<1> SUFFICES ASSUME Init PROVE TypeOK
  OBVIOUS
<1>1. Ev("user_input", 0) \in Event
  BY EvType, ConstantsAssumption DEF EventTypes
<1>2. log \in Seq(Event) /\ Len(log) = 1
  BY <1>1 DEF Init
<1>3. tool \in [Calls -> Tools]
  BY ConstantsAssumption DEF Init
<1>4. /\ pc \in [Calls -> CallPoints]
      /\ verdict \in [Calls -> {"none", "allow", "deny", "ask", "thrown"}]
      /\ answer \in [Calls -> {"none", "allow", "deny"}]
      /\ seq \in [Calls -> Nat]
  BY DEF Init, CallPoints
<1>5. execQueue \in Seq(Event) /\ windowWaiters \in Seq(Calls)
  BY DEF Init
<1>6. /\ main \in MainPoints /\ outcome \in Outcomes
      /\ stop \in StopReasons \cup {"none"}
  BY DEF Init, MainPoints, Outcomes
<1>7. /\ durable \in 0..Len(log) /\ n \in 0..MaxCalls
      /\ turns \in Nat /\ attempts \in Nat /\ turnStart \in Nat
      /\ freeSlots \in 0..Window
  BY <1>2, ConstantsAssumption DEF Init
<1>8. /\ streamed \in BOOLEAN /\ committed \in BOOLEAN
      /\ settled \in BOOLEAN /\ violated \in BOOLEAN
      /\ overflow \in BOOLEAN /\ overflowRetried \in BOOLEAN
      /\ launchError \in BOOLEAN /\ aborted \in BOOLEAN
  BY DEF Init
<1> QED
  BY <1>2, <1>3, <1>4, <1>5, <1>6, <1>7, <1>8 DEF TypeOK


\* Only Drain changes the queue, only CallEnd the calls.
LEMMA MainTypeOK == TypeOK /\ MainStep => TypeOK'
<1> SUFFICES ASSUME LogType, ControlType, CallType, QueueType, MainStep
             PROVE  LogType' /\ ControlType' /\ CallType' /\ QueueType'
  BY DEF TypeOK, LogType, ControlType, CallType, QueueType
<1>1. LogType'
  <2> USE ConstantsAssumption, EmitLogType DEF LogType, EventTypes
  <2>1. CASE TurnHead
    BY <2>1 DEF TurnHead
  <2>2. CASE Admit
    BY <2>2 DEF Admit
  <2>3. CASE OpenTurn
    BY <2>3 DEF OpenTurn
  <2>4. CASE Compact
    BY <2>4 DEF Compact
  <2>5. CASE BeginRequest
    BY <2>5 DEF BeginRequest
  <2>6. CASE Restream
    BY <2>6 DEF Restream
  <2>7. CASE Receive
    BY <2>7 DEF Receive
  <2>8. CASE Drain
    BY <2>8 DEF Drain, Emit, QueueType
  <2>9. CASE Delta
    BY <2>9 DEF Delta
  <2>10. CASE CallEnd
    BY <2>10 DEF CallEnd, Looking, CallType
  <2>11. CASE HoldStop
    BY <2>11 DEF HoldStop
  <2>12. CASE Violation
    BY <2>12 DEF Violation
  <2>13. CASE StreamEnd
    BY <2>13 DEF StreamEnd
  <2>14. CASE StreamFail
    BY <2>14 DEF StreamFail
  <2>15. CASE Abandoned
    BY <2>15 DEF Abandoned
  <2>16. CASE Committed
    BY <2>16 DEF Committed
  <2>17. CASE TakeOrSeal
    BY <2>17 DEF TakeOrSeal
  <2>18. CASE TurnSettles
    BY <2>18 DEF TurnSettles
  <2>19. CASE Terminal
    BY <2>19 DEF Terminal
  <2> QED
    BY <2>1, <2>2, <2>3, <2>4, <2>5, <2>6, <2>7, <2>8, <2>9, <2>10, <2>11, <2>12, <2>13, <2>14, <2>15, <2>16, <2>17, <2>18, <2>19 DEF MainStep
<1>2. ControlType'
  <2> USE DEF ControlType, At, Goto, EndRun, Looking, Abandon, VoidFor,
              MainPoints, Outcomes, StopReasons
  <2>1. CASE TurnHead
    BY <2>1 DEF TurnHead
  <2>2. CASE Admit
    BY <2>2 DEF Admit
  <2>3. CASE OpenTurn
    BY <2>3 DEF OpenTurn
  <2>4. CASE Compact
    <3>1. overflow' \in BOOLEAN
      BY <2>4 DEF Compact
    <3>2. main' \in MainPoints /\ outcome' \in Outcomes
      BY <2>4 DEF Compact
    <3> QED
      BY <2>4, <3>1, <3>2 DEF Compact
  <2>5. CASE BeginRequest
    <3>1. turnStart' \in Nat /\ attempts' \in Nat
      BY <2>5 DEF BeginRequest, LogType
    <3>2. main' \in MainPoints /\ outcome' \in Outcomes
      BY <2>5 DEF BeginRequest
    <3> QED
      BY <2>5, <3>1, <3>2 DEF BeginRequest
  <2>6. CASE Restream
    BY <2>6 DEF Restream
  <2>7. CASE Receive
    BY <2>7 DEF Receive
  <2>8. CASE Drain
    BY <2>8 DEF Drain
  <2>9. CASE Delta
    BY <2>9 DEF Delta
  <2>10. CASE CallEnd
    BY <2>10 DEF CallEnd
  <2>11. CASE HoldStop
    BY <2>11 DEF HoldStop
  <2>12. CASE Violation
    BY <2>12 DEF Violation
  <2>13. CASE StreamEnd
    BY <2>13 DEF StreamEnd
  <2>14. CASE StreamFail
    <3>1. main' \in MainPoints /\ outcome' \in Outcomes
      BY <2>14 DEF StreamFail
    <3>2. attempts' \in Nat
      BY <2>14 DEF StreamFail
    <3> QED
      BY <2>14, <3>1, <3>2 DEF StreamFail
  <2>15. CASE Abandoned
    <3>1. main' \in MainPoints /\ outcome' \in Outcomes
      BY <2>15 DEF Abandoned
    <3>2. turnStart' \in Nat /\ attempts' \in Nat
      BY <2>15, <1>1 DEF Abandoned, LogType
    <3> QED
      <4>1. CASE launchError
        BY <2>15, <3>1, <3>2, <4>1 DEF Abandoned
      <4>2. CASE ~launchError
        <5>1. UNCHANGED turns /\ overflow' \in BOOLEAN /\ overflowRetried' \in BOOLEAN
          BY <2>15, <4>2 DEF Abandoned
        <5>2. /\ stop' \in StopReasons \cup {"none"} /\ streamed' \in BOOLEAN
              /\ committed' \in BOOLEAN /\ settled' \in BOOLEAN
              /\ violated' \in BOOLEAN
          BY <2>15, <4>2 DEF Abandoned
        <5>3. UNCHANGED <<launchError, aborted>>
          BY <2>15 DEF Abandoned
        <5> QED
          BY <3>1, <3>2, <5>1, <5>2, <5>3
      <4> QED
        BY <4>1, <4>2
  <2>16. CASE Committed
    <3>1. main' \in MainPoints /\ outcome' \in Outcomes
      BY <2>16 DEF Committed
    <3> QED
      BY <2>16, <3>1 DEF Committed
  <2>17. CASE TakeOrSeal
    BY <2>17 DEF TakeOrSeal
  <2>18. CASE TurnSettles
    BY <2>18 DEF TurnSettles
  <2>19. CASE Terminal
    BY <2>19 DEF Terminal
  <2> QED
    BY <2>1, <2>2, <2>3, <2>4, <2>5, <2>6, <2>7, <2>8, <2>9, <2>10, <2>11, <2>12, <2>13, <2>14, <2>15, <2>16, <2>17, <2>18, <2>19 DEF MainStep
<1>3. CallType'
  <2>1. CASE CallEnd
    <3>1. n' \in 0..MaxCalls /\ UNCHANGED <<verdict, answer>>
      BY <2>1, ConstantsAssumption DEF CallType, CallEnd
    <3>2. tool' \in [Calls -> Tools]
      BY <2>1 DEF CallType, CallEnd
    <3>3. seq' \in [Calls -> Nat]
      <4>1. Len(log) + 1 \in Nat
        BY DEF LogType
      <4>2. seq' = [seq EXCEPT ![n + 1] = Len(log) + 1]
        BY <2>1 DEF CallEnd
      <4> QED
        BY <4>1, <4>2 DEF CallType
    <3>4. pc' \in [Calls -> CallPoints]
      BY <2>1 DEF CallType, CallEnd, CallPoints
    <3> QED
      BY <3>1, <3>2, <3>3, <3>4 DEF CallType
  <2>2. CASE ~CallEnd
    <3>1. UNCHANGED <<callVars, pc, verdict, answer>>
      BY <2>2 DEF MainStep, TurnHead, Admit, OpenTurn, Compact, BeginRequest,
          Restream, Receive, Drain, Delta, HoldStop, Violation, StreamEnd,
          StreamFail, Abandoned, Committed, TakeOrSeal, TurnSettles, Terminal
    <3> QED
      BY <3>1 DEF CallType
  <2> QED
    BY <2>1, <2>2
<1>4. QueueType'
  <2>1. CASE Drain
    BY <2>1 DEF QueueType, Drain
  <2>2. CASE ~Drain
    <3>1. UNCHANGED <<execQueue, freeSlots, windowWaiters>>
      BY <2>2 DEF MainStep, TurnHead, Admit, OpenTurn, Compact, BeginRequest,
          Restream, Receive, Delta, CallEnd, HoldStop, Violation, StreamEnd,
          StreamFail, Abandoned, Committed, TakeOrSeal, TurnSettles, Terminal
    <3> QED
      BY <3>1 DEF QueueType
  <2> QED
    BY <2>1, <2>2
<1> QED
  BY <1>1, <1>2, <1>3, <1>4

\* The slot arithmetic needs the window invariant.
LEMMA LaunchTypeOK ==
  ASSUME TypeOK, CallsLaunched, WindowInv, NEW c \in Calls,
         LaunchStep(c) \/ Answer(c)
  PROVE  TypeOK'
<1>1. LogType' /\ ControlType'
  <2>1. UNCHANGED <<logVars, main, outcome, frameVars, gateVars, overflowVars,
                    aborted>>
    BY DEF LaunchStep, Decide, PassAskGate, PassCommitGate, Answer, PauseEnds,
           PauseAborted, PassBarrier, Start, Execute, Finish
  <2>2. launchError' \in BOOLEAN
    BY DEF LaunchStep, Decide, PassAskGate, PassCommitGate, Answer, PauseEnds,
           PauseAborted, PassBarrier, Start, Execute, Finish, Judge, TypeOK
  <2> QED
    BY <2>1, <2>2 DEF TypeOK, LogType, ControlType
<1>2. CallType'
  <2>1. UNCHANGED callVars
    BY DEF LaunchStep, Decide, PassAskGate, PassCommitGate, Answer, PauseEnds,
           PauseAborted, PassBarrier, Start, Execute, Finish
  <2>2. pc' \in [Calls -> CallPoints]
    BY DEF LaunchStep, Decide, PassAskGate, PassCommitGate, Answer, PauseEnds,
           PauseAborted, PassBarrier, Start, Execute, Finish, Judge, Step,
           LeaveWindow, TypeOK, CallPoints
  <2>3. verdict' \in [Calls -> {"none", "allow", "deny", "ask", "thrown"}]
    BY DEF LaunchStep, Decide, PassAskGate, PassCommitGate, Answer, PauseEnds,
           PauseAborted, PassBarrier, Start, Execute, Finish, Judge, TypeOK
  <2>4. answer' \in [Calls -> {"none", "allow", "deny"}]
    BY DEF LaunchStep, Decide, PassAskGate, PassCommitGate, Answer, PauseEnds,
           PauseAborted, PassBarrier, Start, Execute, Finish, TypeOK
  <2> QED
    BY <2>1, <2>2, <2>3, <2>4 DEF CallType, TypeOK
<1>3. execQueue' \in Seq(Event)
  <2>1. ASSUME NEW t \in EventTypes PROVE Ev(t, c) \in Event
    BY EvType, ConstantsAssumption DEF Calls
  <2>2. ASSUME NEW events \in Seq(Event), Push(events)
        PROVE  execQueue' \in Seq(Event)
    BY <2>2 DEF Push, TypeOK
  <2>3. \A b \in BOOLEAN : Receipts(c, b) \in Seq(Event)
    BY <2>1 DEF Receipts, Event, EventTypes
  <2> DEFINE e(t) == Ev(t, c)
  <2>4. ASSUME NEW t \in EventTypes, NEW u \in EventTypes
        PROVE  /\ <<>> \in Seq(Event) /\ <<e(t)>> \in Seq(Event)
               /\ <<e(t), e(u)>> \in Seq(Event)
               /\ <<>> \o <<>> \in Seq(Event) /\ <<>> \o <<e(t)>> \in Seq(Event)
               /\ <<e(u)>> \o <<>> \in Seq(Event)
               /\ <<e(u)>> \o <<e(t)>> \in Seq(Event)
    <3>1. e(t) \in Event /\ e(u) \in Event
      BY <2>1
    <3> HIDE DEF e
    <3>2. <<>> \in Seq(Event) /\ <<e(t)>> \in Seq(Event) /\ <<e(u)>> \in Seq(Event)
          /\ <<e(t), e(u)>> \in Seq(Event)
      BY <3>1
    <3> QED
      BY <3>2
  <2>5. Decide(c) => execQueue' \in Seq(Event)
    BY <2>2, <2>4 DEF Decide, Judge, TypeOK, EventTypes
  <2>6. PassCommitGate(c) \/ Start(c) => execQueue' \in Seq(Event)
    BY <2>2, <2>4 DEF PassCommitGate, Start, TypeOK, EventTypes
  <2>7. PauseEnds(c) \/ PauseAborted(c) => execQueue' \in Seq(Event)
    BY <2>2, <2>4 DEF PauseEnds, PauseAborted, TypeOK, EventTypes
  <2>8. Execute(c) \/ Finish(c) => execQueue' \in Seq(Event)
    BY <2>2, <2>3 DEF Execute, Finish, TypeOK
  <2> QED
    BY <2>5, <2>6, <2>7, <2>8
    DEF LaunchStep, PassAskGate, Answer, PassBarrier, TypeOK
<1>4. freeSlots' \in 0..Window /\ windowWaiters' \in Seq(Calls)
  <2>1. InWindow(c) => c \in Launched
    BY DEF InWindow, CallsLaunched, Launched, Calls, TypeOK
  <2>2. InWindow(c) /\ LeaveWindow(c) =>
          freeSlots' \in 0..Window /\ windowWaiters' \in Seq(Calls)
    <3> SUFFICES ASSUME InWindow(c), LeaveWindow(c)
                 PROVE  freeSlots' \in 0..Window /\ windowWaiters' \in Seq(Calls)
      OBVIOUS
    <3>1. freeSlots + 1 \in 0..Window
      BY <2>1, HeldSlot, ConstantsAssumption DEF WindowInv, TypeOK
    <3>2. windowWaiters # <<>> => Tail(windowWaiters) \in Seq(Calls)
      BY DEF TypeOK
    <3> QED
      BY <3>1, <3>2 DEF LeaveWindow, TypeOK
  <2>3. PassBarrier(c) =>
          freeSlots' \in 0..Window /\ windowWaiters' \in Seq(Calls)
    <3>1. freeSlots > 0 => freeSlots - 1 \in 0..Window
      BY ConstantsAssumption DEF TypeOK
    <3>2. Append(windowWaiters, c) \in Seq(Calls)
      BY DEF TypeOK
    <3> QED
      BY <3>1, <3>2 DEF PassBarrier, TypeOK
  <2>4. CASE PassBarrier(c)
    BY <2>3, <2>4
  <2>5. CASE Start(c) \/ Execute(c) \/ Finish(c)
    BY <2>2, <2>5 DEF Start, Execute, Finish, InWindow, TypeOK
  <2>6. CASE ~PassBarrier(c) /\ ~Start(c) /\ ~Execute(c) /\ ~Finish(c)
    <3>1. UNCHANGED <<freeSlots, windowWaiters>>
      BY <2>6 DEF LaunchStep, Decide, PassAskGate, PassCommitGate, Answer,
                  PauseEnds, PauseAborted
    <3> QED
      BY <3>1 DEF TypeOK
  <2> QED
    BY <2>4, <2>5, <2>6
<1> QED
  BY <1>1, <1>2, <1>3, <1>4 DEF TypeOK, LogType, ControlType, CallType, QueueType

LEMMA EnvTypeOK ==
  TypeOK /\ (Persist \/ PersistFails \/ Abort \/ Over \/ UNCHANGED vars) => TypeOK'
<1> SUFFICES ASSUME TypeOK,
                    Persist \/ PersistFails \/ Abort \/ Over \/ UNCHANGED vars
             PROVE  TypeOK'
  OBVIOUS
<1>1. CASE Persist
  <2>1. durable' \in 0..Len(log')
    BY <1>1 DEF Persist, TypeOK
  <2>2. pc' \in [Calls -> CallPoints]
    BY <1>1 DEF Persist, TypeOK, CallPoints
  <2> QED
    BY <1>1, <2>1, <2>2 DEF Persist, TypeOK
<1>2. CASE PersistFails
  BY <1>2 DEF PersistFails, TypeOK, MainPoints
<1>3. CASE Abort
  BY <1>3 DEF Abort, TypeOK
<1>4. CASE Over \/ UNCHANGED vars
  <2>1. UNCHANGED vars
    BY <1>4 DEF Over
  <2> QED
    BY <2>1 DEF vars, TypeOK
<1> QED
  BY <1>1, <1>2, <1>3, <1>4

(***************************************************************************)
(* The window.                                                             *)
(***************************************************************************)

\* Nothing but CallEnd, the launches and Persist moves a call.
LEMMA WindowFrame ==
  ASSUME CallsLaunched, WindowInv, UNCHANGED <<n, pc, freeSlots, windowWaiters>>
  PROVE  CallsLaunched' /\ WindowInv'
<1>1. Holding' = Holding
  BY DEF Holding, Launched, InWindow
<1> QED
  BY <1>1 DEF CallsLaunched, WindowInv

LEMMA HoldingFinite ==
  ASSUME TypeOK
  PROVE  IsFiniteSet(Holding) /\ Cardinality(Holding) \in Nat
<1>1. IsFiniteSet(1..n)
  BY FS_Interval DEF TypeOK
<1>2. IsFiniteSet(Holding)
  BY <1>1, FS_Subset DEF Holding, Launched
<1> QED
  BY <1>2, FS_CardinalityType

\* A call that only steps outside the window, or only inside it.
LEMMA WindowStep ==
  ASSUME TypeOK, CallsLaunched, WindowInv, UNCHANGED <<n, freeSlots, windowWaiters>>,
         NEW c \in Launched, NEW p \in CallPoints \ {"idle"},
         pc' = [pc EXCEPT ![c] = p], pc[c] # "window",
         InWindow(c) <=> p \in {"start", "ack", "acked", "handler"}
  PROVE  CallsLaunched' /\ WindowInv'
<1>1. c \in Calls /\ n' = n
  BY ConstantsAssumption DEF Launched, Calls, TypeOK
<1>2. Holding' = Holding
  BY <1>1 DEF Holding, Launched, InWindow, TypeOK, Calls
<1>3. CallsLaunched'
  BY <1>1 DEF CallsLaunched, TypeOK, Launched, Calls
<1>4. \A i \in DOMAIN windowWaiters : pc'[windowWaiters[i]] = "window"
  BY <1>1 DEF WindowInv, TypeOK
<1> QED
  BY <1>2, <1>3, <1>4 DEF WindowInv

\* A call that leaves the window hands its slot to the first waiter.
LEMMA WindowLeave ==
  ASSUME TypeOK, CallsLaunched, WindowInv, UNCHANGED n,
         NEW c \in Launched, InWindow(c), LeaveWindow(c)
  PROVE  CallsLaunched' /\ WindowInv'
<1>1. c \in Calls /\ n' = n /\ c \in Holding
  BY ConstantsAssumption DEF Launched, Calls, TypeOK, Holding
<1>2. IsFiniteSet(Holding) /\ Cardinality(Holding) \in Nat
  BY HoldingFinite
<1>3. /\ IsFiniteSet(Holding \ {c})
      /\ Cardinality(Holding \ {c}) = Cardinality(Holding) - 1
  BY <1>1, <1>2, FS_RemoveElement
<1>4. CASE windowWaiters = <<>>
  <2>1. Holding' = Holding \ {c}
    <3>1. pc' = [pc EXCEPT ![c] = "done"]
      BY <1>4 DEF LeaveWindow
    <3>2. \A d \in Launched : InWindow(d)' <=> InWindow(d) /\ d # c
      BY <1>1, <3>1, ConstantsAssumption DEF InWindow, TypeOK, Launched, Calls
    <3> QED
      BY <1>1, <3>2 DEF Holding, Launched
  <2>2. freeSlots' + Cardinality(Holding') = Window
    BY <1>2, <1>3, <1>4, <2>1, ConstantsAssumption
    DEF LeaveWindow, WindowInv, TypeOK
  <2>3. CallsLaunched'
    BY <1>1, <1>4, ConstantsAssumption DEF CallsLaunched, LeaveWindow, TypeOK, Launched, Calls
  <2> QED
    BY <1>4, <2>2, <2>3 DEF LeaveWindow, WindowInv
<1>5. CASE windowWaiters # <<>>
  <2> DEFINE w == Head(windowWaiters)
  <2>1. w \in Calls /\ pc[w] = "window" /\ w = windowWaiters[1]
        /\ 1 \in DOMAIN windowWaiters
    BY <1>5 DEF WindowInv, TypeOK
  <2>2. w \in Launched /\ w # c /\ w \notin Holding
    BY <1>1, <2>1 DEF CallsLaunched, Launched, Holding, InWindow, Calls, TypeOK
  <2>3. pc' = [pc EXCEPT ![c] = "done", ![w] = "start"]
        /\ windowWaiters' = Tail(windowWaiters) /\ freeSlots' = freeSlots
    BY <1>5 DEF LeaveWindow
  <2> HIDE DEF w
  <2>4. Holding' = (Holding \ {c}) \cup {w}
    <3>1. \A d \in Launched :
            InWindow(d)' <=> (InWindow(d) /\ d # c) \/ d = w
      <4>1. Launched \subseteq Calls
        BY ConstantsAssumption DEF Launched, Calls, TypeOK
      <4> QED
        BY <1>1, <2>1, <2>2, <2>3, <4>1 DEF InWindow, TypeOK
    <3> QED
      BY <1>1, <2>2, <3>1 DEF Holding, Launched
  <2>5. Cardinality(Holding') = Cardinality(Holding)
    <3>1. Cardinality((Holding \ {c}) \cup {w}) = Cardinality(Holding \ {c}) + 1
      BY <1>3, <2>2, FS_AddElement
    <3> QED
      BY <1>2, <1>3, <2>4, <3>1
  <2>6. CallsLaunched'
    BY <1>1, <2>1, <2>2, <2>3 DEF CallsLaunched, TypeOK, Launched, Calls
  <2>7. \A i \in DOMAIN windowWaiters' :
          /\ i + 1 \in DOMAIN windowWaiters
          /\ windowWaiters'[i] = windowWaiters[i + 1]
          /\ windowWaiters'[i] \notin {c, w}
    BY <1>5, <2>1, <2>3 DEF WindowInv, TypeOK, InWindow
  <2>8. \A i \in DOMAIN windowWaiters' :
          /\ pc'[windowWaiters'[i]] = "window"
          /\ \A j \in DOMAIN windowWaiters' :
               windowWaiters'[j] = windowWaiters'[i] => j = i
    BY <2>3, <2>7 DEF WindowInv, TypeOK
  <2> QED
    BY <1>5, <2>3, <2>5, <2>6, <2>8 DEF WindowInv
<1> QED
  BY <1>4, <1>5

LEMMA WindowMain ==
  ASSUME TypeOK, CallsLaunched, WindowInv, MainStep
  PROVE  CallsLaunched' /\ WindowInv'
<1>1. CASE CallEnd
  <2>1. n + 1 \in Calls /\ n' = n + 1 /\ pc' = [pc EXCEPT ![n + 1] = "decide"]
    BY <1>1, ConstantsAssumption DEF CallEnd, TypeOK, Calls
  <2>2. pc[n + 1] = "idle"
    BY <2>1 DEF CallsLaunched, TypeOK
  <2>3. CallsLaunched'
    BY <2>1 DEF CallsLaunched, TypeOK, Calls
  <2>4. \A d \in Launched' : InWindow(d)' <=> d \in Launched /\ InWindow(d)
    BY <2>1, <2>2, ConstantsAssumption DEF InWindow, Launched, TypeOK, Calls
  <2>5. Launched \subseteq Launched'
    BY <2>1 DEF Launched, TypeOK
  <2>6. Holding' = Holding
    BY <2>4, <2>5 DEF Holding
  <2>7. UNCHANGED <<freeSlots, windowWaiters>>
    BY <1>1 DEF CallEnd
  <2>8. \A i \in DOMAIN windowWaiters : pc'[windowWaiters[i]] = "window"
    BY <2>1, <2>2 DEF WindowInv, TypeOK
  <2> QED
    BY <2>3, <2>6, <2>7, <2>8 DEF WindowInv
<1>2. CASE ~CallEnd
  <2>1. UNCHANGED <<n, pc, freeSlots, windowWaiters>>
    BY <1>2 DEF MainStep, TurnHead, Admit, OpenTurn, Compact, BeginRequest,
         Restream, Receive, Drain, Delta, HoldStop, Violation, StreamEnd,
         StreamFail, Abandoned, Committed, TakeOrSeal, TurnSettles, Terminal
  <2> QED
    BY <2>1, WindowFrame
<1> QED
  BY <1>1, <1>2

LEMMA WindowLaunch ==
  ASSUME TypeOK, CallsLaunched, WindowInv, NEW c \in Calls,
         LaunchStep(c) \/ Answer(c)
  PROVE  CallsLaunched' /\ WindowInv'
<1>1. UNCHANGED n
  BY DEF LaunchStep, Decide, PassAskGate, PassCommitGate, Answer, PauseEnds,
         PauseAborted, PassBarrier, Start, Execute, Finish
<1>2. ASSUME pc[c] # "idle" PROVE c \in Launched
  BY <1>2 DEF CallsLaunched, Launched, Calls, TypeOK
<1>3. CASE Answer(c)
  BY <1>1, <1>3, WindowFrame DEF Answer
<1>4. ASSUME NEW p \in CallPoints \ {"idle"}, Step(c, p),
             UNCHANGED <<freeSlots, windowWaiters>>,
             pc[c] \notin {"idle", "window"},
             InWindow(c) <=> p \in {"start", "ack", "acked", "handler"}
      PROVE  CallsLaunched' /\ WindowInv'
  BY <1>1, <1>2, <1>4, WindowStep DEF Step
<1>5. CASE Decide(c) \/ PassAskGate(c) \/ PassCommitGate(c) \/ PauseEnds(c)
           \/ PauseAborted(c)
  <2>1. /\ UNCHANGED <<freeSlots, windowWaiters>>
        /\ pc[c] \in {"decide", "ahead", "commit", "pause"}
    BY <1>5 DEF Decide, PassAskGate, PassCommitGate, PauseEnds, PauseAborted
  <2>2. \E p \in {"ahead", "commit", "pause", "barrier", "done"} : Step(c, p)
    BY <1>5 DEF Decide, PassAskGate, PassCommitGate, PauseEnds, PauseAborted,
                Judge
  <2>3. ~InWindow(c)
    BY <2>1 DEF InWindow
  <2> QED
    BY <1>4, <2>1, <2>2, <2>3 DEF CallPoints
<1>6. CASE PassBarrier(c)
  <2>1. pc[c] = "barrier" /\ ~InWindow(c) /\ c \in Launched
    BY <1>2, <1>6 DEF PassBarrier, InWindow
  <2>2. CASE violated
    BY <1>4, <1>6, <2>1, <2>2 DEF PassBarrier, CallPoints
  <2>3. CASE ~violated /\ freeSlots > 0
    <3>1. /\ pc' = [pc EXCEPT ![c] = "start"] /\ freeSlots' = freeSlots - 1
          /\ UNCHANGED windowWaiters
      BY <1>6, <2>3 DEF PassBarrier, Step
    <3>2. \A d \in Launched : InWindow(d)' <=> InWindow(d) \/ d = c
      BY <2>1, <3>1, ConstantsAssumption DEF InWindow, TypeOK, Launched, Calls
    <3>3. Holding' = Holding \cup {c}
      BY <1>1, <2>1, <3>2 DEF Holding, Launched
    <3>4. Cardinality(Holding') = Cardinality(Holding) + 1
      BY <2>1, <3>3, HoldingFinite, FS_AddElement DEF Holding
    <3>5. freeSlots' + Cardinality(Holding') = Window
      BY <3>1, <3>4, HoldingFinite, ConstantsAssumption DEF WindowInv, TypeOK
    <3>6. windowWaiters = <<>>
      BY <2>3 DEF WindowInv
    <3>7. CallsLaunched'
      BY <1>1, <2>1, <3>1 DEF CallsLaunched, TypeOK, Calls
    <3> QED
      BY <3>1, <3>5, <3>6, <3>7 DEF WindowInv
  <2>4. CASE ~violated /\ ~(freeSlots > 0)
    <3>1. /\ pc' = [pc EXCEPT ![c] = "window"] /\ UNCHANGED freeSlots
          /\ windowWaiters' = Append(windowWaiters, c) /\ freeSlots = 0
      BY <1>6, <2>4 DEF PassBarrier, Step, TypeOK
    <3>2. \A d \in Launched : InWindow(d)' <=> InWindow(d)
      BY <2>1, <3>1, ConstantsAssumption DEF InWindow, TypeOK, Launched, Calls
    <3>3. Holding' = Holding
      BY <1>1, <3>2 DEF Holding, Launched
    <3>4. CallsLaunched'
      BY <1>1, <2>1, <3>1 DEF CallsLaunched, TypeOK, Calls
    <3>5. \A i \in DOMAIN windowWaiters : windowWaiters[i] # c
      BY <2>1 DEF WindowInv
    <3>6. \A i \in DOMAIN windowWaiters' :
            /\ pc'[windowWaiters'[i]] = "window"
            /\ \A j \in DOMAIN windowWaiters' :
                 windowWaiters'[j] = windowWaiters'[i] => j = i
      BY <3>1, <3>5 DEF WindowInv, TypeOK
    <3> QED
      BY <3>1, <3>3, <3>4, <3>6 DEF WindowInv
  <2> QED
    BY <2>2, <2>3, <2>4
<1>7. CASE Start(c) \/ Execute(c) \/ Finish(c)
  <2>1. InWindow(c) /\ c \in Launched /\ pc[c] # "window"
    BY <1>2, <1>7 DEF Start, Execute, Finish, InWindow
  <2>2. CASE LeaveWindow(c)
    BY <1>1, <2>1, <2>2, WindowLeave
  <2>3. CASE ~LeaveWindow(c)
    <3>1. /\ Step(c, "ack") \/ Step(c, "handler")
          /\ UNCHANGED <<freeSlots, windowWaiters>>
      BY <1>7, <2>3 DEF Start, Execute, Finish
    <3> QED
      BY <1>4, <2>1, <3>1 DEF CallPoints, InWindow
  <2> QED
    BY <2>2, <2>3
<1> QED
  BY <1>3, <1>5, <1>6, <1>7 DEF LaunchStep

LEMMA WindowEnv ==
  ASSUME TypeOK, CallsLaunched, WindowInv, InFlight,
         Persist \/ PersistFails \/ Abort \/ Over \/ UNCHANGED vars
  PROVE  CallsLaunched' /\ WindowInv'
<1>1. CASE Persist /\ Started(log[Len(log)])
  <2> DEFINE c == log[Len(log)].call
  <2>1. durable < Len(log)
    BY <1>1 DEF Persist, Resumed, TypeOK
  <2>2. c \in Calls /\ pc[c] = "ack"
    BY <1>1, <2>1 DEF InFlight, AwaitsAck
  <2>3. c \in Launched
    BY <2>2 DEF CallsLaunched, Launched, Calls, TypeOK
  <2>4. pc' = [pc EXCEPT ![c] = "acked"] /\ UNCHANGED <<n, freeSlots, windowWaiters>>
    BY <1>1 DEF Persist, Started
  <2> HIDE DEF c
  <2> QED
    BY <2>2, <2>3, <2>4, WindowStep DEF InWindow, CallPoints
<1>2. CASE Persist /\ ~Started(log[Len(log)])
  BY <1>2, WindowFrame DEF Persist, Started
<1>3. CASE PersistFails \/ Abort \/ Over \/ UNCHANGED vars
  <2>1. UNCHANGED <<n, pc, freeSlots, windowWaiters>>
    BY <1>3 DEF PersistFails, Abort, Over, vars
  <2> QED
    BY <2>1, WindowFrame
<1> QED
  BY <1>1, <1>2, <1>3

(***************************************************************************)
(* Intent before effect.                                                   *)
(***************************************************************************)

LEMMA Appended ==
  ASSUME NEW s \in Seq(Event), NEW e \in Event
  PROVE  /\ Append(s, e) \in Seq(Event) /\ Len(Append(s, e)) = Len(s) + 1
         /\ DOMAIN Append(s, e) = DOMAIN s \cup {Len(s) + 1}
         /\ Len(s) + 1 \notin DOMAIN s
         /\ \A i \in DOMAIN s : Append(s, e)[i] = s[i]
         /\ Append(s, e)[Len(s) + 1] = e
OBVIOUS

\* What the generator's own steps append is neither a STARTED event nor a
\* request; those come from the queue.
MainAppends ==
  /\ UNCHANGED <<durable, execQueue>>
  /\ \/ UNCHANGED log
     \/ \E t \in EventTypes, c \in 0..MaxCalls :
          /\ t \notin {"tool_execution_started", "permission_requested"}
          /\ log' = Append(log, Ev(t, c))

LEMMA MainStepAppends ==
  ASSUME TypeOK, MainStep, ~Drain
  PROVE  MainAppends
<1> USE ConstantsAssumption DEF MainAppends, Emit, EventTypes
<1>1. CASE TurnHead
  BY <1>1 DEF TurnHead
<1>2. CASE Admit
  BY <1>2 DEF Admit
<1>3. CASE OpenTurn
  BY <1>3 DEF OpenTurn
<1>4. CASE Compact
  BY <1>4 DEF Compact
<1>5. CASE BeginRequest
  BY <1>5 DEF BeginRequest
<1>6. CASE Restream
  BY <1>6 DEF Restream
<1>7. CASE Receive
  BY <1>7 DEF Receive
<1>8. CASE Delta
  BY <1>8 DEF Delta
<1>9. CASE CallEnd
  BY <1>9 DEF CallEnd, Looking, TypeOK
<1>10. CASE HoldStop
  BY <1>10 DEF HoldStop
<1>11. CASE Violation
  BY <1>11 DEF Violation
<1>12. CASE StreamEnd
  BY <1>12 DEF StreamEnd
<1>13. CASE StreamFail
  BY <1>13 DEF StreamFail
<1>14. CASE Abandoned
  BY <1>14 DEF Abandoned
<1>15. CASE Committed
  BY <1>15 DEF Committed
<1>16. CASE TakeOrSeal
  BY <1>16 DEF TakeOrSeal
<1>17. CASE TurnSettles
  BY <1>17 DEF TurnSettles
<1>18. CASE Terminal
  BY <1>18 DEF Terminal
<1> QED
  BY <1>1, <1>2, <1>3, <1>4, <1>5, <1>6, <1>7, <1>8, <1>9, <1>10, <1>11, <1>12, <1>13, <1>14, <1>15, <1>16, <1>17, <1>18 DEF MainStep

\* No step of the generator moves a launched call.
LEMMA MainStepCalls ==
  ASSUME TypeOK, CallsLaunched, MainStep
  PROVE  \A c \in Launched :
           /\ c \in Calls /\ pc'[c] = pc[c] /\ seq'[c] = seq[c]
           /\ tool'[c] = tool[c] /\ verdict'[c] = verdict[c]
<1>0. Launched \subseteq Calls
  BY ConstantsAssumption DEF Launched, Calls, TypeOK
<1>1. CASE CallEnd
  <2>1. n + 1 \notin Launched
    BY DEF Launched, TypeOK
  <2>2. UNCHANGED verdict /\ pc' = [pc EXCEPT ![n + 1] = "decide"]
        /\ \E t \in Tools : tool' = [tool EXCEPT ![n + 1] = t]
        /\ seq' = [seq EXCEPT ![n + 1] = Len(log) + 1]
    BY <1>1 DEF CallEnd
  <2> QED
    BY <1>0, <2>1, <2>2 DEF TypeOK
<1>2. CASE ~CallEnd
  <2>1. UNCHANGED <<pc, seq, tool, verdict>>
    BY <1>2 DEF MainStep, TurnHead, Admit, OpenTurn, Compact, BeginRequest,
         Restream, Receive, Drain, Delta, HoldStop, Violation, StreamEnd,
         StreamFail, Abandoned, Committed, TakeOrSeal, TurnSettles, Terminal
  <2> QED
    BY <1>0, <2>1
<1> QED
  BY <1>1, <1>2

LEMMA IntentMain ==
  ASSUME TypeOK, CallsLaunched, InFlight, AckedDurable, MainStep
  PROVE  InFlight' /\ AckedDurable'
<1>1. \A c \in Calls : pc[c] # "idle" => pc'[c] = pc[c]
  BY MainStepCalls DEF CallsLaunched, Launched, Calls, TypeOK
<1>2. \A c \in Calls : pc'[c] \in {"acked", "handler"} => pc[c] = pc'[c]
  <2>1. CASE CallEnd
    BY <2>1 DEF CallEnd, TypeOK
  <2>2. CASE ~CallEnd
    BY <2>2 DEF MainStep, TurnHead, Admit, OpenTurn, Compact, BeginRequest,
         Restream, Receive, Drain, Delta, HoldStop, Violation, StreamEnd,
         StreamFail, Abandoned, Committed, TakeOrSeal, TurnSettles, Terminal
  <2> QED
    BY <2>1, <2>2
<1>3. \/ UNCHANGED log
      \/ \E e \in Event : log' = Append(log, e)
  BY MainStepAppends, EvType DEF MainAppends, Drain, Emit, TypeOK
<1>4. UNCHANGED durable
  BY MainStepAppends DEF MainAppends, Drain, Emit
<1>5. \A c \in Calls : StartedOf(c) \subseteq StartedOf(c)'
  <2>1. log \in Seq(Event)
    BY DEF TypeOK
  <2> QED
    BY <1>3, <2>1, Appended DEF StartedOf
<1>6. AckedDurable'
  BY <1>2, <1>4, <1>5 DEF AckedDurable
<1>7. \A e : AwaitsAck(e, pc) => AwaitsAck(e, pc')
  BY <1>1 DEF AwaitsAck
<1>8. CASE ~Drain
  <2>1. MainAppends
    BY <1>8, MainStepAppends
  <2>2. CASE UNCHANGED log
    BY <1>6, <1>7, <2>1, <2>2 DEF MainAppends, InFlight
  <2>3. CASE ~UNCHANGED log
    <3>1. PICK t \in EventTypes, c \in 0..MaxCalls :
            t # "tool_execution_started" /\ log' = Append(log, Ev(t, c))
      BY <2>1, <2>3 DEF MainAppends
    <3>2. log'[Len(log')] = Ev(t, c)
      BY <3>1, EvType, Appended DEF TypeOK
    <3>3. ~Started(log'[Len(log')])
      BY <3>1, <3>2 DEF Started, Ev
    <3> QED
      BY <1>6, <1>7, <2>1, <3>3 DEF MainAppends, InFlight
  <2> QED
    BY <2>2, <2>3
<1>9. CASE Drain
  <2> DEFINE e == Head(execQueue)
  <2>1. /\ log' = Append(log, e) /\ execQueue' = Tail(execQueue)
        /\ execQueue # <<>>
    BY <1>9 DEF Drain, Emit
  <2>2. e \in Event /\ 1 \in DOMAIN execQueue /\ e = execQueue[1]
    BY <2>1 DEF TypeOK
  <2>3. \A i \in DOMAIN execQueue' :
          /\ i \in Nat /\ i + 1 \in DOMAIN execQueue /\ i + 1 # 1
          /\ execQueue'[i] = execQueue[i + 1]
    BY <2>1 DEF TypeOK
  <2>4. log'[Len(log')] = e
    BY <2>1, <2>2, Appended DEF TypeOK
  <2> HIDE DEF e
  <2>5. \A i \in DOMAIN execQueue' : Started(execQueue'[i]) =>
          /\ AwaitsAck(execQueue'[i], pc')
          /\ \A j \in DOMAIN execQueue' :
               /\ Started(execQueue'[j])
               /\ execQueue'[j].call = execQueue'[i].call
               => j = i
    BY <1>7, <2>3 DEF InFlight
  <2>6. Started(e) =>
          /\ AwaitsAck(e, pc')
          /\ \A j \in DOMAIN execQueue' :
               Started(execQueue'[j]) => execQueue'[j].call # e.call
    BY <1>7, <2>2, <2>3 DEF InFlight
  <2> QED
    BY <1>6, <2>4, <2>5, <2>6 DEF InFlight
<1> QED
  BY <1>6, <1>8, <1>9

LEMMA Concatenated ==
  ASSUME NEW s \in Seq(Event), NEW t \in Seq(Event)
  PROVE  /\ s \o t \in Seq(Event)
         /\ \A i \in DOMAIN (s \o t) :
              \/ i \in DOMAIN s /\ (s \o t)[i] = s[i]
              \/ i \notin DOMAIN s /\ \E j \in DOMAIN t : (s \o t)[i] = t[j]
OBVIOUS

\* Only Start queues a STARTED event, only the commit gate a request.
Plain(events) ==
  /\ events \in Seq(Event)
  /\ \A i \in DOMAIN events : ~Announced(events[i])

LEMMA PlainConcat ==
  ASSUME NEW s, NEW t, Plain(s), Plain(t)
  PROVE  Plain(s \o t)
BY Concatenated DEF Plain

LEMMA LaunchPushes ==
  ASSUME TypeOK, NEW c \in Calls, LaunchStep(c) \/ Answer(c)
  PROVE  \/ UNCHANGED execQueue
         \/ \E events : Plain(events) /\ execQueue' = execQueue \o events
         \/ /\ pc[c] = "start" /\ pc' = [pc EXCEPT ![c] = "ack"]
            /\ execQueue' = Append(execQueue, Ev("tool_execution_started", c))
         \/ /\ pc[c] = "commit" /\ committed /\ pc' = [pc EXCEPT ![c] = "pause"]
            /\ execQueue' = Append(execQueue, Ev("permission_requested", c))
<1> DEFINE PlainTypes == EventTypes \ {"tool_execution_started", "permission_requested"}
           e(t) == Ev(t, c)
<1>1. ASSUME NEW t \in PlainTypes, NEW u \in PlainTypes
      PROVE  Plain(<<>>) /\ Plain(<<e(t)>>) /\ Plain(<<e(t), e(u)>>)
  <2>1. /\ e(t) \in Event /\ ~Announced(e(t))
        /\ e(u) \in Event /\ ~Announced(e(u))
    BY EvType, ConstantsAssumption DEF Announced, Ev, Calls
  <2> HIDE DEF e, PlainTypes
  <2> QED
    BY <2>1 DEF Plain
<1>2. \A b \in BOOLEAN : Plain(Receipts(c, b))
  <2> SUFFICES ASSUME NEW b \in BOOLEAN PROVE Plain(Receipts(c, b))
    OBVIOUS
  <2> DEFINE r == [e("tool_result") EXCEPT !.endTurn = b]
             f == e("tool_execution_receipt")
  <2>1. r \in Event /\ ~Announced(r) /\ f \in Event /\ ~Announced(f)
    BY ConstantsAssumption DEF Ev, Event, EventTypes, Announced, Calls
  <2>2. Receipts(c, b) = <<f, r>>
    BY DEF Receipts
  <2> HIDE DEF r, f
  <2> QED
    BY <2>1, <2>2 DEF Plain
<1>3. CASE Decide(c)
  <2>1. ASSUME NEW v, NEW d \in {<<>>, <<e("permission_decided")>>}, Judge(c, v, d)
        PROVE  \E events : Plain(events) /\ execQueue' = execQueue \o events
    <3>1. "permission_decided" \in PlainTypes /\ "tool_result" \in PlainTypes
      BY DEF EventTypes
    <3> HIDE DEF PlainTypes
    <3>2. /\ Plain(<<>>) /\ Plain(<<e("permission_decided")>>)
          /\ Plain(<<e("tool_result")>>)
      BY <1>1, <3>1
    <3>3. Plain(d)
      BY <2>1, <3>2
    <3>4. Plain(d \o <<>>) /\ Plain(d \o <<e("tool_result")>>)
      BY <3>2, <3>3, PlainConcat
    <3> QED
      BY <2>1, <3>4 DEF Judge, Push
  <2> QED
    BY <1>3, <2>1 DEF Decide
<1>4. CASE PauseEnds(c) \/ PauseAborted(c)
  <2>1. "permission_decided" \in PlainTypes /\ "tool_result" \in PlainTypes
    BY DEF EventTypes
  <2> HIDE DEF PlainTypes
  <2>2. /\ Plain(<<>>) /\ Plain(<<e("permission_decided")>>)
        /\ Plain(<<e("permission_decided"), e("tool_result")>>)
    BY <1>1, <2>1
  <2> HIDE DEF Plain
  <2>3. CASE PauseEnds(c)
    BY <2>2, <2>3 DEF PauseEnds, Push
  <2>4. CASE PauseAborted(c)
    BY <2>2, <2>4 DEF PauseAborted, Push
  <2> QED
    BY <1>4, <2>3, <2>4
<1>5. CASE Execute(c) \/ Finish(c)
  BY <1>2, <1>5 DEF Execute, Finish, Push
<1>6. CASE Start(c)
  <2>1. execQueue \o <<Ev("tool_execution_started", c)>>
        = Append(execQueue, Ev("tool_execution_started", c))
    BY DEF TypeOK
  <2> QED
    BY <1>6, <2>1 DEF Start, Step, Push
<1>7. CASE PassCommitGate(c)
  <2>1. execQueue \o <<Ev("permission_requested", c)>>
        = Append(execQueue, Ev("permission_requested", c))
    BY DEF TypeOK
  <2> QED
    BY <1>7, <2>1 DEF PassCommitGate, Step, Push
<1>8. CASE PassAskGate(c) \/ PassBarrier(c) \/ Answer(c)
  BY <1>8 DEF PassAskGate, PassBarrier, Answer
<1> QED
  BY <1>3, <1>4, <1>5, <1>6, <1>7, <1>8 DEF LaunchStep

\* A launch moves itself and at most the first waiter of the window.
LEMMA LaunchMoves ==
  ASSUME TypeOK, WindowInv, NEW c \in Calls, LaunchStep(c) \/ Answer(c)
  PROVE  /\ UNCHANGED <<log, durable, n, tool, seq, main, committed>>
         /\ \A d \in Calls : d # c =>
              \/ pc'[d] = pc[d]
              \/ pc[d] = "window" /\ pc'[d] = "start"
         /\ \A d \in Calls \ {c} : verdict'[d] = verdict[d]
         /\ pc[c] # "decide" => verdict'[c] = verdict[c]
<1>1. UNCHANGED <<log, durable, n, tool, seq, main, committed>>
  BY DEF LaunchStep, Decide, PassAskGate, PassCommitGate, Answer, PauseEnds,
         PauseAborted, PassBarrier, Start, Execute, Finish
<1>2. \/ LeaveWindow(c) \/ UNCHANGED pc
      \/ \E p \in CallPoints : Step(c, p)
  BY DEF LaunchStep, Decide, PassAskGate, PassCommitGate, Answer, PauseEnds,
         PauseAborted, PassBarrier, Start, Execute, Finish, Judge, CallPoints
<1>3. LeaveWindow(c) /\ windowWaiters # <<>> =>
        /\ pc' = [pc EXCEPT ![c] = "done", ![Head(windowWaiters)] = "start"]
        /\ pc[Head(windowWaiters)] = "window"
  BY DEF LeaveWindow, WindowInv, TypeOK
<1>4. LeaveWindow(c) /\ windowWaiters = <<>> => pc' = [pc EXCEPT ![c] = "done"]
  BY DEF LeaveWindow
<1>5. \A d \in Calls : d # c =>
        \/ pc'[d] = pc[d]
        \/ pc[d] = "window" /\ pc'[d] = "start"
  BY <1>2, <1>3, <1>4 DEF Step, TypeOK
<1>6. /\ \A d \in Calls \ {c} : verdict'[d] = verdict[d]
      /\ pc[c] # "decide" => verdict'[c] = verdict[c]
  BY DEF LaunchStep, Decide, PassAskGate, PassCommitGate, Answer, PauseEnds,
         PauseAborted, PassBarrier, Start, Execute, Finish, Judge, TypeOK
<1> QED
  BY <1>1, <1>5, <1>6

LEMMA IntentLaunch ==
  ASSUME TypeOK, WindowInv, InFlight, AckedDurable,
         NEW c \in Calls, LaunchStep(c) \/ Answer(c)
  PROVE  InFlight' /\ AckedDurable'
<1>1. UNCHANGED <<log, durable>>
  BY LaunchMoves
<1>2. pc[c] # "ack" /\ (pc'[c] \in {"acked", "handler"} => pc[c] = "acked")
  BY DEF LaunchStep, Decide, PassAskGate, PassCommitGate, Answer, PauseEnds,
         PauseAborted, PassBarrier, Start, Execute, Finish, Judge, Step,
         LeaveWindow, TypeOK, WindowInv
<1>3. \A d \in Calls : pc'[d] \in {"acked", "handler"} =>
        pc[d] \in {"acked", "handler"}
  BY <1>2, LaunchMoves
<1>4. AckedDurable'
  BY <1>1, <1>3 DEF AckedDurable, StartedOf
<1>5. \A e : AwaitsAck(e, pc) => AwaitsAck(e, pc')
  BY <1>2, LaunchMoves DEF AwaitsAck
<1>6. CASE UNCHANGED execQueue
  BY <1>1, <1>4, <1>5, <1>6 DEF InFlight
<1>7. CASE \E events : Plain(events) /\ execQueue' = execQueue \o events
  <2>1. \A i \in DOMAIN execQueue' : Started(execQueue'[i]) =>
          i \in DOMAIN execQueue /\ execQueue'[i] = execQueue[i]
    BY <1>7, Concatenated DEF Plain, Announced, Started, TypeOK
  <2>2. \A i \in DOMAIN execQueue' : Started(execQueue'[i]) =>
          /\ AwaitsAck(execQueue'[i], pc')
          /\ \A j \in DOMAIN execQueue' :
               /\ Started(execQueue'[j])
               /\ execQueue'[j].call = execQueue'[i].call
               => j = i
    BY <1>5, <2>1 DEF InFlight
  <2>3. durable' < Len(log') /\ Started(log'[Len(log')]) =>
          /\ AwaitsAck(log'[Len(log')], pc')
          /\ \A j \in DOMAIN execQueue' :
               Started(execQueue'[j]) => execQueue'[j].call # log'[Len(log')].call
    BY <1>1, <1>5, <2>1 DEF InFlight
  <2> QED
    BY <1>4, <2>2, <2>3 DEF InFlight
<1>8. CASE /\ pc[c] = "start" /\ pc' = [pc EXCEPT ![c] = "ack"]
           /\ execQueue' = Append(execQueue, Ev("tool_execution_started", c))
  <2> DEFINE e == Ev("tool_execution_started", c)
  <2>1. /\ e \in Event /\ Started(e) /\ e.call = c
        /\ AwaitsAck(e, pc')
    BY <1>8, EvType, ConstantsAssumption
    DEF Ev, AwaitsAck, Started, EventTypes, Calls, TypeOK
  <2> HIDE DEF e
  <2>2. \A i \in DOMAIN execQueue' :
          \/ i \in DOMAIN execQueue /\ execQueue'[i] = execQueue[i]
          \/ i = Len(execQueue) + 1 /\ execQueue'[i] = e
    BY <1>8, <2>1, Appended DEF TypeOK, e
  <2>3. \A x : AwaitsAck(x, pc) => x.call # c
    BY <1>8 DEF AwaitsAck
  <2>4. \A i \in DOMAIN execQueue' : Started(execQueue'[i]) =>
          /\ AwaitsAck(execQueue'[i], pc')
          /\ \A j \in DOMAIN execQueue' :
               /\ Started(execQueue'[j])
               /\ execQueue'[j].call = execQueue'[i].call
               => j = i
    BY <1>5, <2>1, <2>2, <2>3 DEF InFlight
  <2>5. durable' < Len(log') /\ Started(log'[Len(log')]) =>
          /\ AwaitsAck(log'[Len(log')], pc')
          /\ \A j \in DOMAIN execQueue' :
               Started(execQueue'[j]) => execQueue'[j].call # log'[Len(log')].call
    BY <1>1, <1>5, <2>1, <2>2, <2>3 DEF InFlight
  <2> QED
    BY <1>4, <2>4, <2>5 DEF InFlight
<1>9. CASE execQueue' = Append(execQueue, Ev("permission_requested", c))
  <2>1. \A i \in DOMAIN execQueue' : Started(execQueue'[i]) =>
          i \in DOMAIN execQueue /\ execQueue'[i] = execQueue[i]
    <3>1. /\ Ev("permission_requested", c) \in Event
          /\ ~Started(Ev("permission_requested", c))
      BY EvType, ConstantsAssumption DEF Ev, Started, EventTypes, Calls
    <3> QED
      BY <1>9, <3>1, Appended DEF TypeOK
  <2>2. \A i \in DOMAIN execQueue' : Started(execQueue'[i]) =>
          /\ AwaitsAck(execQueue'[i], pc')
          /\ \A j \in DOMAIN execQueue' :
               /\ Started(execQueue'[j])
               /\ execQueue'[j].call = execQueue'[i].call
               => j = i
    BY <1>5, <2>1 DEF InFlight
  <2>3. durable' < Len(log') /\ Started(log'[Len(log')]) =>
          /\ AwaitsAck(log'[Len(log')], pc')
          /\ \A j \in DOMAIN execQueue' :
               Started(execQueue'[j]) => execQueue'[j].call # log'[Len(log')].call
    BY <1>1, <1>5, <2>1 DEF InFlight
  <2> QED
    BY <1>4, <2>2, <2>3 DEF InFlight
<1> QED
  BY <1>6, <1>7, <1>8, <1>9, LaunchPushes

LEMMA IntentEnv ==
  ASSUME TypeOK, InFlight, AckedDurable,
         Persist \/ PersistFails \/ Abort \/ Over \/ UNCHANGED vars
  PROVE  InFlight' /\ AckedDurable'
<1>1. CASE Persist /\ Started(log[Len(log)])
  <2> DEFINE c == log[Len(log)].call
  <2>1. durable < Len(log) /\ Len(log) \in DOMAIN log
    BY <1>1 DEF Persist, Resumed, TypeOK
  <2>2. /\ c \in Calls /\ log[Len(log)] = Ev("tool_execution_started", c)
        /\ \A j \in DOMAIN execQueue :
             Started(execQueue[j]) => execQueue[j].call # c
    BY <1>1, <2>1 DEF InFlight, AwaitsAck
  <2>3. /\ pc' = [pc EXCEPT ![c] = "acked"] /\ durable' = Len(log)
        /\ UNCHANGED <<log, execQueue>>
    BY <1>1 DEF Persist, Started
  <2> HIDE DEF c
  <2>4. \A e : AwaitsAck(e, pc) /\ e.call # c => AwaitsAck(e, pc')
    BY <2>3 DEF AwaitsAck, TypeOK
  <2>5. InFlight'
    <3>1. ~(durable' < Len(log'))
      BY <2>3 DEF TypeOK
    <3> QED
      BY <2>2, <2>3, <2>4, <3>1 DEF InFlight
  <2>6. AckedDurable'
    BY <2>1, <2>2, <2>3 DEF AckedDurable, StartedOf, TypeOK
  <2> QED
    BY <2>5, <2>6
<1>2. CASE Persist /\ ~Started(log[Len(log)])
  <2>1. durable' = Len(log) /\ UNCHANGED <<log, execQueue, pc>>
    BY <1>2 DEF Persist, Started
  <2> QED
    BY <2>1 DEF InFlight, AckedDurable, StartedOf, TypeOK
<1>3. CASE PersistFails \/ Abort \/ Over \/ UNCHANGED vars
  <2>1. UNCHANGED <<log, durable, execQueue, pc>>
    BY <1>3 DEF PersistFails, Abort, Over, vars
  <2> QED
    BY <2>1 DEF InFlight, AckedDurable, StartedOf
<1> QED
  BY <1>1, <1>2, <1>3

(***************************************************************************)
(* The commit gate.                                                        *)
(***************************************************************************)

\* What an event says of its call stays true while the log grows and the
\* call goes on.
LEMMA LogGrows ==
  ASSUME TypeOK, UNCHANGED log \/ \E e \in Event : log' = Append(log, e),
         NEW c \in Calls, seq'[c] = seq[c], AfterStop(c)
  PROVE  AfterStop(c)'
<1>1. \A i \in DOMAIN log : i \in DOMAIN log' /\ log'[i] = log[i]
  <2>1. log \in Seq(Event)
    BY DEF TypeOK
  <2>2. CASE UNCHANGED log
    BY <2>2
  <2>3. CASE \E e \in Event : log' = Append(log, e)
    BY <2>1, <2>3, Appended
  <2> QED
    BY <2>2, <2>3
<1> QED
  BY <1>1 DEF AfterStop

LEMMA GateMainFlags ==
  ASSUME TypeOK, Gated, MainStep
  PROVE  /\ main' \in {"stream", "recv", "again"} => ~committed'
         /\ \/ ~committed'
            \/ committed /\ UNCHANGED n
            \/ log' = Append(log, Ev("stop", 0)) /\ UNCHANGED n
<1> USE DEF Gated, At, Goto, EndRun, Abandon, Looking, Emit, TypeOK
<1>1. CASE StreamEnd
  BY <1>1 DEF StreamEnd
<1>2. CASE CallEnd
  BY <1>2 DEF CallEnd
<1>3. CASE Abandoned
  <2>1. UNCHANGED n
    BY <1>3 DEF Abandoned
  <2>2. CASE main' = "again"
    BY <1>3, <2>1, <2>2 DEF Abandoned
  <2>3. CASE main' # "again"
    <3>1. main' \notin {"stream", "recv"}
      BY <1>3 DEF Abandoned
    <3>2. committed' = committed \/ ~committed'
      BY <1>3 DEF Abandoned
    <3> QED
      BY <2>1, <2>3, <3>1, <3>2
  <2> QED
    BY <2>2, <2>3
<1>4. CASE StreamFail
  BY <1>4 DEF StreamFail
<1>5. CASE BeginRequest
  BY <1>5 DEF BeginRequest
<1>6. CASE Committed \/ Compact
  BY <1>6 DEF Committed, Compact
<1>7. CASE TurnHead \/ Admit \/ OpenTurn \/ Restream \/ Receive \/ Drain
           \/ Delta \/ HoldStop \/ Violation
  BY <1>7 DEF TurnHead, Admit, OpenTurn, Restream, Receive, Drain, Delta,
              HoldStop, Violation
<1>8. CASE TakeOrSeal \/ TurnSettles \/ Terminal
  BY <1>8 DEF TakeOrSeal, TurnSettles, Terminal
<1> QED
  BY <1>1, <1>2, <1>3, <1>4, <1>5, <1>6, <1>7, <1>8 DEF MainStep

LEMMA GateMain ==
  ASSUME TypeOK, CallsLaunched, InFlight, Gated, SpeculationIsSafe, MainStep
  PROVE  Gated' /\ SpeculationIsSafe'
<1>1. UNCHANGED log \/ \E e \in Event : log' = Append(log, e)
  BY MainStepAppends, EvType DEF MainAppends, Drain, Emit, TypeOK
<1>2. /\ \A i \in DOMAIN log : i \in DOMAIN log' /\ log'[i] = log[i]
      /\ Len(log) <= Len(log')
  <2>1. log \in Seq(Event) /\ Len(log) \in Nat
    BY DEF TypeOK
  <2>2. CASE UNCHANGED log
    BY <2>1, <2>2
  <2>3. CASE \E e \in Event : log' = Append(log, e)
    BY <2>1, <2>3, Appended
  <2> QED
    BY <1>1, <2>2, <2>3
<1>3. \A c \in Launched :
        /\ c \in Calls /\ pc'[c] = pc[c] /\ seq'[c] = seq[c]
        /\ tool'[c] = tool[c] /\ verdict'[c] = verdict[c]
        /\ AfterStop(c) => AfterStop(c)'
        /\ Exempt(c) => Exempt(c)'
  BY <1>1, MainStepCalls, LogGrows DEF Exempt, PrecommitSafe
<1>4. \A c \in Calls : c \in Launched <=> pc[c] # "idle"
  BY DEF CallsLaunched, Launched, Calls, TypeOK
<1>5. \A c \in Calls \ Launched : pc'[c] \in {"idle", "decide"}
  <2>1. CASE CallEnd
    BY <1>4, <2>1 DEF CallEnd, TypeOK
  <2>2. CASE ~CallEnd
    <3>1. UNCHANGED pc
      BY <2>2 DEF MainStep, TurnHead, Admit, OpenTurn, Compact, BeginRequest,
         Restream, Receive, Drain, Delta, HoldStop, Violation, StreamEnd,
         StreamFail, Abandoned, Committed, TakeOrSeal, TurnSettles, Terminal
    <3> QED
      BY <1>4, <3>1
  <2> QED
    BY <2>1, <2>2
<1>6. \A c \in Calls : seq'[c] <= Len(log')
  <2>1. CASE CallEnd
    <3>1. /\ seq' = [seq EXCEPT ![n + 1] = Len(log) + 1]
          /\ log' = Append(log, Ev("tool_call_end", n + 1))
      BY <2>1 DEF CallEnd, Emit
    <3>2. Len(log') = Len(log) + 1
      BY <3>1 DEF TypeOK
    <3> QED
      BY <1>2, <3>1, <3>2 DEF Gated, TypeOK
  <2>2. CASE ~CallEnd
    <3>1. UNCHANGED seq
      BY <2>2 DEF MainStep, TurnHead, Admit, OpenTurn, Compact, BeginRequest,
         Restream, Receive, Drain, Delta, HoldStop, Violation, StreamEnd,
         StreamFail, Abandoned, Committed, TakeOrSeal, TurnSettles, Terminal
    <3>2. Len(log) \in Nat /\ Len(log') \in Nat
      BY <1>1, Appended DEF TypeOK
    <3> QED
      BY <1>2, <3>1, <3>2 DEF Gated, TypeOK
  <2> QED
    BY <2>1, <2>2
<1>7. \A c \in Calls : pc'[c] = "ahead" => verdict'[c] \in {"allow", "ask"}
  BY <1>3, <1>5 DEF Gated
<1>8. committed' => \A c \in Launched' : AfterStop(c)'
  <2>1. CASE log' = Append(log, Ev("stop", 0)) /\ UNCHANGED n
    <3>1. /\ Len(log) + 1 \in DOMAIN log'
          /\ log'[Len(log) + 1].type = "stop"
      BY <2>1, EvType, Appended, ConstantsAssumption DEF TypeOK, Ev, EventTypes
    <3>2. \A c \in Launched : seq'[c] < Len(log) + 1
      BY <1>3 DEF Gated, TypeOK
    <3> QED
      BY <2>1, <3>1, <3>2 DEF AfterStop, Launched
  <2>2. CASE committed /\ UNCHANGED n
    BY <1>3, <2>2 DEF Gated, Launched
  <2> QED
    BY <2>1, <2>2, GateMainFlags
<1>9. main' \in {"stream", "recv", "again"} => ~committed'
  BY GateMainFlags
<1>10. \A c \in Calls : PastGate(c)' => AfterStop(c)' \/ Exempt(c)'
  BY <1>3, <1>5 DEF Gated, PastGate
<1>11. \A i \in DOMAIN execQueue' :
         \E j \in DOMAIN execQueue : execQueue'[i] = execQueue[j]
  <2>1. CASE Drain
    BY <2>1 DEF Drain, TypeOK
  <2>2. CASE ~Drain
    BY <2>2, MainStepAppends DEF MainAppends
  <2> QED
    BY <2>1, <2>2
<1>12. \A i \in DOMAIN execQueue' :
         execQueue'[i].type = "permission_requested" =>
           \E c \in Calls : /\ execQueue'[i].call = c /\ AfterStop(c)'
                           /\ pc'[c] \notin {"idle", "decide"}
  <2> SUFFICES ASSUME NEW i \in DOMAIN execQueue',
                      execQueue'[i].type = "permission_requested"
               PROVE  \E c \in Calls : /\ execQueue'[i].call = c /\ AfterStop(c)'
                                       /\ pc'[c] \notin {"idle", "decide"}
    OBVIOUS
  <2>1. PICK j \in DOMAIN execQueue : execQueue'[i] = execQueue[j]
    BY <1>11
  <2>2. PICK c \in Calls : /\ execQueue[j].call = c /\ AfterStop(c)
                          /\ pc[c] \notin {"idle", "decide"}
    BY <2>1 DEF Gated
  <2> QED
    BY <1>3, <1>4, <2>1, <2>2
<1>13. \A i \in DOMAIN log' :
         \/ i \in DOMAIN log /\ log'[i] = log[i]
         \/ ~Announced(log'[i])
         \/ Drain /\ i = Len(log) + 1 /\ log'[i] = Head(execQueue)
  <2>1. CASE Drain
    <3>1. Head(execQueue) \in Event /\ log' = Append(log, Head(execQueue))
      BY <2>1 DEF Drain, Emit, TypeOK
    <3> QED
      BY <2>1, <3>1, Appended DEF TypeOK
  <2>2. CASE ~Drain /\ ~UNCHANGED log
    <3>1. PICK t \in EventTypes, c \in 0..MaxCalls :
            /\ t \notin {"tool_execution_started", "permission_requested"}
            /\ log' = Append(log, Ev(t, c))
      BY <2>2, MainStepAppends DEF MainAppends
    <3>2. Ev(t, c) \in Event /\ ~Announced(Ev(t, c))
      BY <3>1, EvType DEF Ev, Announced
    <3> QED
      BY <3>1, <3>2, Appended DEF TypeOK
  <2>3. CASE UNCHANGED log
    BY <2>3
  <2> QED
    BY <2>1, <2>2, <2>3
<1>14. Drain /\ Announced(Head(execQueue)) =>
         \E c \in Calls :
           /\ Head(execQueue).call = c /\ pc[c] \notin {"idle", "decide"}
           /\ \/ AfterStop(c)
              \/ Exempt(c) /\ Head(execQueue).type = "tool_execution_started"
  <2> SUFFICES ASSUME Drain, Announced(Head(execQueue))
               PROVE  \E c \in Calls :
                 /\ Head(execQueue).call = c /\ pc[c] \notin {"idle", "decide"}
                 /\ \/ AfterStop(c)
                    \/ Exempt(c) /\ Head(execQueue).type = "tool_execution_started"
    OBVIOUS
  <2>1. 1 \in DOMAIN execQueue /\ Head(execQueue) = execQueue[1]
    BY DEF Drain, TypeOK
  <2>2. CASE execQueue[1].type = "permission_requested"
    BY <2>1, <2>2 DEF Gated
  <2>3. CASE Started(execQueue[1])
    <3>1. AwaitsAck(execQueue[1], pc)
      BY <2>1, <2>3 DEF InFlight
    <3> QED
      BY <2>1, <2>3, <3>1 DEF AwaitsAck, Gated, PastGate, Started
  <2> QED
    BY <2>1, <2>2, <2>3 DEF Announced, Started
<1>15. \A i \in DOMAIN log' : Announced(log'[i]) =>
         \E c \in Calls : log'[i].call = c /\ pc'[c] \notin {"idle", "decide"}
  <2> SUFFICES ASSUME NEW i \in DOMAIN log', Announced(log'[i])
               PROVE  \E c \in Calls :
                        log'[i].call = c /\ pc'[c] \notin {"idle", "decide"}
    OBVIOUS
  <2>1. \E c \in Calls : log'[i].call = c /\ pc[c] \notin {"idle", "decide"}
    BY <1>13, <1>14 DEF Gated
  <2> QED
    BY <1>3, <1>4, <2>1
<1>16. SpeculationIsSafe'
  <2> SUFFICES ASSUME NEW i \in DOMAIN log', Announced(log'[i])
               PROVE  \/ CommittedBefore(i)'
                      \/ /\ log'[i].type = "tool_execution_started"
                         /\ (PrecommitSafe(log[i].call) /\ verdict[log[i].call] = "allow")'
    BY DEF SpeculationIsSafe, Announced
  <2>1. CASE i \in DOMAIN log /\ log'[i] = log[i]
    <3>1. PICK c \in Calls : log[i].call = c /\ pc[c] \notin {"idle", "decide"}
      BY <2>1 DEF Gated
    <3>2. CommittedBefore(i) \/ (log[i].type = "tool_execution_started" /\ Exempt(c))
      BY <2>1, <3>1 DEF SpeculationIsSafe, Announced, Exempt
    <3>3. CASE CommittedBefore(i)
      <4>1. PICK j \in 1..(i - 1) : log[j].type = "stop" /\ seq[c] < j
        BY <3>1, <3>3 DEF CommittedBefore
      <4>2. log'[j].type = "stop" /\ seq'[c] < j
        BY <1>2, <1>3, <1>4, <2>1, <3>1, <4>1 DEF TypeOK
      <4> QED
        BY <2>1, <3>1, <4>1, <4>2 DEF CommittedBefore
    <3>4. CASE log[i].type = "tool_execution_started" /\ Exempt(c)
      BY <1>3, <1>4, <2>1, <3>1, <3>4 DEF Exempt, PrecommitSafe
    <3> QED
      BY <3>2, <3>3, <3>4
  <2>2. CASE Drain /\ i = Len(log) + 1 /\ log'[i] = Head(execQueue)
    <3>1. PICK c \in Calls :
            /\ log'[i].call = c /\ pc[c] \notin {"idle", "decide"}
            /\ \/ AfterStop(c)
               \/ Exempt(c) /\ log'[i].type = "tool_execution_started"
      <4>1. Announced(Head(execQueue))
        BY <2>2 DEF Announced
      <4>2. PICK c \in Calls :
              /\ Head(execQueue).call = c /\ pc[c] \notin {"idle", "decide"}
              /\ \/ AfterStop(c)
                 \/ Exempt(c) /\ Head(execQueue).type = "tool_execution_started"
        BY <1>14, <2>2, <4>1
      <4> QED
        BY <2>2, <4>2
    <3>2. CASE AfterStop(c)
      <4>1. PICK j \in DOMAIN log : log[j].type = "stop" /\ seq[c] < j
        BY <3>2 DEF AfterStop
      <4>2. j \in 1..(i - 1) /\ log'[j].type = "stop" /\ seq'[c] < j
        BY <1>2, <1>3, <1>4, <2>2, <3>1, <4>1 DEF TypeOK
      <4> QED
        BY <3>1, <4>2 DEF CommittedBefore
    <3>3. CASE Exempt(c) /\ log'[i].type = "tool_execution_started"
      BY <1>3, <1>4, <3>1, <3>3 DEF Exempt, PrecommitSafe
    <3> QED
      BY <3>1, <3>2, <3>3
  <2> QED
    BY <1>13, <2>1, <2>2
<1> QED
  BY <1>6, <1>7, <1>8, <1>9, <1>10, <1>12, <1>15, <1>16 DEF Gated

LEMMA GateLaunch ==
  ASSUME TypeOK, CallsLaunched, WindowInv, Gated, SpeculationIsSafe,
         NEW c \in Calls, LaunchStep(c) \/ Answer(c)
  PROVE  Gated' /\ SpeculationIsSafe'
<1>1. UNCHANGED <<log, n, tool, seq, main, committed>>
  BY LaunchMoves
<1>2. \A d \in Calls : AfterStop(d)' <=> AfterStop(d)
  BY <1>1 DEF AfterStop
<1>3. pc[c] # "idle" /\ pc'[c] \notin {"idle", "decide"}
  <2>1. CASE ~Answer(c)
    BY <2>1 DEF LaunchStep, Decide, PassAskGate, PassCommitGate, PauseEnds,
         PauseAborted, PassBarrier, Start, Execute, Finish, Judge, Step,
         LeaveWindow, TypeOK, WindowInv
  <2>2. CASE Answer(c)
    BY <2>2 DEF Answer
  <2> QED
    BY <2>1, <2>2
<1>4. c \in Launched
  BY <1>3 DEF CallsLaunched, Launched, Calls, TypeOK
<1>5. \A d \in Calls : pc[d] \notin {"idle", "decide"} =>
        /\ pc'[d] \notin {"idle", "decide"} /\ verdict'[d] = verdict[d]
        /\ Exempt(d) => Exempt(d)'
  BY <1>1, <1>3, LaunchMoves DEF Exempt, PrecommitSafe
<1>6. \A d \in Calls : pc'[d] = "ahead" => verdict'[d] \in {"allow", "ask"}
  <2>1. pc'[c] = "ahead" => verdict'[c] \in {"allow", "ask"}
    <3>1. CASE Decide(c)
      BY <3>1 DEF Decide, Judge, Step, TypeOK
    <3>2. CASE ~Decide(c)
      BY <3>2 DEF LaunchStep, PassAskGate, PassCommitGate, Answer, PauseEnds,
         PauseAborted, PassBarrier, Start, Execute, Finish, Step, LeaveWindow,
         TypeOK, WindowInv
    <3> QED
      BY <3>1, <3>2
  <2> QED
    BY <2>1, LaunchMoves DEF Gated
<1>7. \A d \in Calls : PastGate(d)' => AfterStop(d)' \/ Exempt(d)'
  <2>1. PastGate(c)' =>
          \/ PastGate(c)
          \/ pc[c] = "ahead" /\ verdict[c] # "ask" /\ PrecommitSafe(c)
          \/ committed
    <3>1. CASE PassAskGate(c)
      BY <3>1 DEF PassAskGate, PastGate, Step, TypeOK
    <3>2. CASE PassCommitGate(c)
      BY <3>2 DEF PassCommitGate, PastGate, Step, TypeOK
    <3>3. CASE Decide(c)
      BY <3>3 DEF Decide, Judge, PastGate, Step, TypeOK
    <3>4. CASE pc[c] \in {"pause", "barrier", "start", "acked", "handler"}
      BY <3>4 DEF PastGate
    <3> QED
      BY <3>1, <3>2, <3>3, <3>4
      DEF LaunchStep, Answer, PauseEnds, PauseAborted, PassBarrier, Start,
          Execute, Finish
  <2>2. PastGate(c)' => AfterStop(c) \/ Exempt(c)
    BY <1>4, <2>1 DEF Gated, Exempt
  <2>3. PastGate(c)' => pc[c] \notin {"idle", "decide"}
    <3>1. CASE Decide(c)
      BY <3>1 DEF Decide, Judge, PastGate, Step, TypeOK
    <3>2. CASE ~Decide(c)
      BY <3>2 DEF LaunchStep, Answer, PassAskGate, PassCommitGate, PauseEnds,
                  PauseAborted, PassBarrier, Start, Execute, Finish
    <3> QED
      BY <3>1, <3>2
  <2>4. \A d \in Calls \ {c} : PastGate(d)' => PastGate(d)
    BY LaunchMoves DEF PastGate
  <2> QED
    BY <1>2, <1>5, <2>2, <2>3, <2>4 DEF Gated, PastGate
<1>8. \A i \in DOMAIN execQueue' :
        execQueue'[i].type = "permission_requested" =>
          \E d \in Calls : /\ execQueue'[i].call = d /\ AfterStop(d)'
                          /\ pc'[d] \notin {"idle", "decide"}
  <2> SUFFICES ASSUME NEW i \in DOMAIN execQueue',
                      execQueue'[i].type = "permission_requested"
               PROVE  \E d \in Calls : /\ execQueue'[i].call = d /\ AfterStop(d)'
                                       /\ pc'[d] \notin {"idle", "decide"}
    OBVIOUS
  <2>1. CASE i \in DOMAIN execQueue /\ execQueue'[i] = execQueue[i]
    BY <1>2, <1>5, <2>1 DEF Gated
  <2>2. CASE committed /\ execQueue'[i] = Ev("permission_requested", c)
    BY <1>2, <1>3, <1>4, <2>2 DEF Gated, Ev
  <2>3. CASE UNCHANGED execQueue
    BY <2>1, <2>3
  <2>4. CASE \E events : Plain(events) /\ execQueue' = execQueue \o events
    BY <2>1, <2>4, Concatenated DEF Plain, Announced, TypeOK
  <2>5. CASE execQueue' = Append(execQueue, Ev("tool_execution_started", c))
    <3>1. /\ Ev("tool_execution_started", c) \in Event
          /\ Ev("tool_execution_started", c).type # "permission_requested"
      BY EvType, ConstantsAssumption DEF Ev, EventTypes, Calls
    <3> QED
      BY <2>1, <2>5, <3>1, Appended DEF TypeOK
  <2>6. CASE /\ committed
             /\ execQueue' = Append(execQueue, Ev("permission_requested", c))
    <3>1. Ev("permission_requested", c) \in Event
      BY EvType, ConstantsAssumption DEF EventTypes, Calls
    <3> QED
      BY <2>1, <2>2, <2>6, <3>1, Appended DEF TypeOK
  <2> QED
    BY <2>3, <2>4, <2>5, <2>6, LaunchPushes
<1>9. \A i \in DOMAIN log : Announced(log[i]) =>
        \E d \in Calls : log[i].call = d /\ pc'[d] \notin {"idle", "decide"}
  BY <1>5 DEF Gated
<1>10. SpeculationIsSafe'
  <2> SUFFICES ASSUME NEW i \in DOMAIN log, Announced(log[i])
               PROVE  \/ CommittedBefore(i)'
                      \/ /\ log[i].type = "tool_execution_started"
                         /\ (PrecommitSafe(log[i].call) /\ verdict[log[i].call] = "allow")'
    BY <1>1 DEF SpeculationIsSafe, Announced
  <2>1. PICK d \in Calls : log[i].call = d /\ pc[d] \notin {"idle", "decide"}
    BY DEF Gated
  <2>2. CommittedBefore(i) \/ (log[i].type = "tool_execution_started" /\ Exempt(d))
    <3>1. CASE log[i].type = "permission_requested"
      BY <3>1 DEF SpeculationIsSafe
    <3>2. CASE log[i].type = "tool_execution_started"
      BY <2>1, <3>2 DEF SpeculationIsSafe, Exempt
    <3> QED
      BY <3>1, <3>2 DEF Announced
  <2>3. CommittedBefore(i) => CommittedBefore(i)'
    BY <1>1 DEF CommittedBefore
  <2> QED
    BY <1>1, <1>5, <2>1, <2>2, <2>3 DEF Exempt, PrecommitSafe
<1>11. /\ \A d \in Calls : seq'[d] <= Len(log')
       /\ main' \in {"stream", "recv", "again"} => ~committed'
  BY <1>1 DEF Gated
<1>12. committed' => \A d \in Launched' : AfterStop(d)'
  BY <1>1 DEF Gated, Launched, AfterStop
<1>13. \A i \in DOMAIN log' : Announced(log'[i]) =>
         \E d \in Calls : log'[i].call = d /\ pc'[d] \notin {"idle", "decide"}
  BY <1>1, <1>9
<1> QED
  BY <1>6, <1>7, <1>8, <1>10, <1>11, <1>12, <1>13 DEF Gated

LEMMA GateEnv ==
  ASSUME TypeOK, InFlight, Gated, SpeculationIsSafe,
         Persist \/ PersistFails \/ Abort \/ Over \/ UNCHANGED vars
  PROVE  Gated' /\ SpeculationIsSafe'
<1>1. UNCHANGED <<log, n, tool, seq, verdict, main, committed, execQueue>>
      \/ PersistFails
  BY DEF Persist, Abort, Over, vars
<1>2. /\ UNCHANGED <<log, n, tool, seq, verdict, committed, execQueue>>
      /\ main' = main \/ main' = "closed"
  BY <1>1 DEF PersistFails
<1>3. \A d \in Calls :
        \/ pc'[d] = pc[d]
        \/ pc[d] = "ack" /\ pc'[d] = "acked"
  <2>1. CASE Persist /\ Started(log[Len(log)])
    <3>1. durable < Len(log)
      BY <2>1 DEF Persist, Resumed, TypeOK
    <3>2. /\ log[Len(log)].call \in Calls /\ pc[log[Len(log)].call] = "ack"
      BY <2>1, <3>1 DEF InFlight, AwaitsAck
    <3>3. pc' = [pc EXCEPT ![log[Len(log)].call] = "acked"]
      BY <2>1 DEF Persist, Started
    <3> QED
      BY <3>2, <3>3 DEF TypeOK
  <2>2. CASE ~(Persist /\ Started(log[Len(log)]))
    <3>1. UNCHANGED pc
      BY <2>2 DEF Persist, PersistFails, Abort, Over, vars, Started
    <3> QED
      BY <3>1
  <2> QED
    BY <2>1, <2>2
<1>4. \A d \in Calls : /\ AfterStop(d)' <=> AfterStop(d)
                       /\ Exempt(d)' <=> Exempt(d)
                       /\ PastGate(d)' <=> PastGate(d)
                       /\ pc[d] \notin {"idle", "decide"} => pc'[d] \notin {"idle", "decide"}
                       /\ pc'[d] = "ahead" => pc[d] = "ahead"
  BY <1>2, <1>3 DEF AfterStop, Exempt, PrecommitSafe, PastGate
<1>5. Gated'
  <2>1. committed' => \A d \in Launched' : AfterStop(d)'
    BY <1>2, <1>4, ConstantsAssumption DEF Gated, Launched, Calls, TypeOK
  <2>2. \A i \in DOMAIN execQueue' :
          execQueue'[i].type = "permission_requested" =>
            \E d \in Calls : /\ execQueue'[i].call = d /\ AfterStop(d)'
                            /\ pc'[d] \notin {"idle", "decide"}
    BY <1>2, <1>4 DEF Gated
  <2>3. \A i \in DOMAIN log' : Announced(log'[i]) =>
          \E d \in Calls : log'[i].call = d /\ pc'[d] \notin {"idle", "decide"}
    BY <1>2, <1>4 DEF Gated
  <2>4. /\ \A d \in Calls : seq'[d] <= Len(log')
        /\ \A d \in Calls : pc'[d] = "ahead" => verdict'[d] \in {"allow", "ask"}
        /\ main' \in {"stream", "recv", "again"} => ~committed'
        /\ \A d \in Calls : PastGate(d)' => AfterStop(d)' \/ Exempt(d)'
    BY <1>2, <1>4 DEF Gated
  <2> QED
    BY <2>1, <2>2, <2>3, <2>4 DEF Gated
<1>6. SpeculationIsSafe'
  BY <1>2 DEF SpeculationIsSafe, CommittedBefore, PrecommitSafe
<1> QED
  BY <1>5, <1>6

(***************************************************************************)
(* The invariant is inductive; the theorems.                               *)
(***************************************************************************)

LEMMA InitIInv == Init => IInv
<1> SUFFICES ASSUME Init PROVE IInv
  OBVIOUS
<1>1. TypeOK
  BY InitTypeOK
<1>2. CallsLaunched
  BY DEF Init, CallsLaunched, Calls
<1>3. WindowInv
  <2>1. Holding = {}
    BY DEF Init, Holding, Launched
  <2>2. freeSlots + Cardinality(Holding) = Window
    BY <2>1, FS_EmptySet, ConstantsAssumption DEF Init
  <2> QED
    BY <2>2 DEF Init, WindowInv
<1>4. InFlight
  BY DEF Init, InFlight
<1>5. AckedDurable
  BY DEF Init, AckedDurable
<1>6. \A i \in DOMAIN log : log[i].type = "user_input"
  BY DEF Init, Ev
<1>7. Gated
  BY <1>6, ConstantsAssumption
  DEF Init, Gated, Launched, Calls, PastGate, Announced
<1>8. SpeculationIsSafe
  BY <1>6 DEF SpeculationIsSafe
<1> QED
  BY <1>1, <1>2, <1>3, <1>4, <1>5, <1>7, <1>8 DEF IInv

LEMMA StepIInv == IInv /\ [Next]_vars => IInv'
<1> SUFFICES ASSUME IInv, [Next]_vars PROVE IInv'
  OBVIOUS
<1> USE DEF IInv
<1>1. CASE MainStep
  BY <1>1, MainTypeOK, WindowMain, IntentMain, GateMain
<1>2. ASSUME NEW c \in Calls, LaunchStep(c) \/ Answer(c) PROVE IInv'
  BY <1>2, LaunchTypeOK, WindowLaunch, IntentLaunch, GateLaunch
<1>3. CASE Persist \/ PersistFails \/ Abort \/ Over \/ UNCHANGED vars
  BY <1>3, EnvTypeOK, WindowEnv, IntentEnv, GateEnv
<1> QED
  BY <1>1, <1>2, <1>3 DEF Next

LEMMA Invariance == Spec => []IInv
<1> QED
  BY InitIInv, StepIInv, PTL DEF Spec

\* Every reachable state is well typed; in particular the count of free slots
\* never leaves 0..Window and the log holds nothing but events.
THEOREM TypeCorrect == Spec => []TypeOK
<1>1. IInv => TypeOK
  BY DEF IInv
<1> QED
  BY <1>1, Invariance, PTL

\* The window of executions neither leaks a slot nor hands one out twice, on
\* whichever of its exits a launch leaves.
THEOREM WindowIsKept == Spec => []WindowAccounting
<1>1. IInv => WindowAccounting
  BY DEF IInv, WindowInv, WindowAccounting, Holding
<1> QED
  BY <1>1, Invariance, PTL

\* No handler runs before its STARTED event is durable, whatever the store
\* refuses and whenever the generator is closed.
THEOREM IntentBeforeEffect == Spec => []NoEffectBeforeIntent
<1>1. IInv => NoEffectBeforeIntent
  BY ConstantsAssumption
  DEF IInv, AckedDurable, NoEffectBeforeIntent, Launched, Calls, TypeOK
<1> QED
  BY <1>1, Invariance, PTL

\* No execution starts ahead of its turn's stop unless its tool is
\* precommit-safe and the call was allowed; no human is asked ahead of it.
THEOREM SafeSpeculation == Spec => []SpeculationIsSafe
<1>1. IInv => SpeculationIsSafe
  BY DEF IInv
<1> QED
  BY <1>1, Invariance, PTL
==============================================================================
