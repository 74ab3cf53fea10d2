---------------------------- MODULE TaskDelivery ----------------------------
(***************************************************************************)
(* How the end of a background task reaches the model                      *)
(* (packages/runtime/src/tasks/delivery.ts), composed with the tasks       *)
(* (TaskManager), the runs of the session and their ingress                *)
(* (packages/runtime/src/run.ts), and the host's queue of turns            *)
(* (apps/cli/src/chat.ts).                                                 *)
(*                                                                         *)
(* An end the watcher announces is noticed: merged with the others of its  *)
(* window, handed to the live run, held for the next one, or, when it      *)
(* may wake the session, put in a turn of its own.  An end a tool call     *)
(* waited for is claimed in the journal instead, and the call's result     *)
(* tells it.  Agents are noticed as the group of their delegate call.      *)
(*                                                                         *)
(* A notice is a bag of items; an item is a task and the name its end is   *)
(* told under.  The delivery's receipts are read from the log and never    *)
(* kept apart from it, so they are the log here.                           *)
(***************************************************************************)
EXTENDS TaskManager, SequencesExt

CONSTANTS
  MaxWakes,       \* the chain budget
  MaxPersons,     \* bound on the turns a person starts
  MaxFaults,      \* bound on crashes, dead runners, late starts, a person's stops
  MayDropWake     \* may a wake's turn be given up, or fail, before its input lands

ASSUME DeliveryAssumption ==
  /\ MaxWakes \in Nat /\ MaxPersons \in Nat /\ MaxFaults \in Nat
  /\ MayDropWake \in BOOLEAN

VARIABLES
  noticed,    \* how often each item is in the log, in a runtime user_input
  carried,    \* the items a delivered tool result told
  call,       \* the delegate call in the log: "none", "open", "result", "filled"
  wakes,      \* the wake runs since the last run a person started
  open,       \* does the log hold a run without its terminal
  pending,    \* #pending: [items, wake]
  buffer,     \* #buffer: the items of this window
  wakeful,    \* the items of the buffer whose mode is "wake"
  inFlight,   \* #inFlight: handed to a run or a turn, not in the log yet
  ended,      \* #ended: the agents waiting for their group
  waking,     \* #waking
  pumping,    \* the timer a settled run leaves
  run,        \* the run of the session: [st, by, first, ingress]
  queue,      \* the host's turns: [by, items]
  persons, faults,
  twice       \* the tasks announced or handed over at a moment that doubles them

logVars == <<noticed, carried, call, wakes, open>>
heldVars == <<pending, inFlight, waking, ended>>
deliveryVars == <<heldVars, buffer, wakeful, pumping>>
hostVars == <<run, queue, persons, faults>>
vars == <<managerVars, logVars, deliveryVars, hostVars, twice>>

Bags == [Items -> Nat]
Notices == [items : Bags, wake : BOOLEAN]
Turns == [by : {"person", "wake"}, items : Bags]

Nothing == [i \in Items |-> 0]
In(b) == {i \in Items : b[i] > 0}
Once(is) == [i \in Items |-> IF i \in is THEN 1 ELSE 0]
Both(a, b) == [i \in Items |-> a[i] + b[i]]
All(bags) ==
  LET sum[n \in 0..Len(bags)] == IF n = 0 THEN Nothing ELSE Both(sum[n - 1], bags[n])
  IN sum[Len(bags)]

\* The elements of s that are in S, in their order.
Keep(s, S) ==
  LET f[n \in 0..Len(s)] ==
        IF n = 0 THEN <<>>
        ELSE IF s[n] \in S THEN Append(f[n - 1], s[n]) ELSE f[n - 1]
  IN f[Len(s)]

NoRun == [st |-> "none", by |-> "none", first |-> Nothing, ingress |-> <<>>]

TypeOK ==
  /\ ManagerTypeOK
  /\ noticed \in Bags /\ carried \subseteq Items
  /\ call \in {"none", "open", "result", "filled"}
  /\ wakes \in Nat /\ open \in BOOLEAN
  /\ pending \in Seq(Notices)
  /\ buffer \in Bags /\ wakeful \subseteq Items /\ inFlight \subseteq Items
  /\ ended \in [Agents -> {"no", "heard", "restart"}]
  /\ waking \in BOOLEAN /\ pumping \in BOOLEAN
  /\ run \in [st : {"none", "begun", "live", "sealed"}, by : {"none", "person", "wake", "resume"},
             first : Bags, ingress : Seq(Bags)]
  /\ queue \in Seq(Turns)
  /\ persons \in 0..MaxPersons /\ faults \in 0..MaxFaults /\ twice \subseteq Tasks

Init ==
  /\ ManagerInit
  /\ pending = <<>> /\ inFlight = {} /\ waking = FALSE
  /\ ended = [a \in Agents |-> "no"]
  /\ buffer = Nothing /\ wakeful = {} /\ pumping = FALSE
  /\ noticed = Nothing /\ carried = {} /\ call = "none"
  /\ wakes = 0 /\ open = FALSE
  /\ run = NoRun /\ queue = <<>> /\ persons = 0 /\ faults = 0 /\ twice = {}

-----------------------------------------------------------------------------
(* What an item may do.                                                    *)

UnderBudget == wakes < MaxWakes

\* One model turn holds the delegate call, so there is one group: the
\* agents it started.  It closes with the call's result.
Members == {a \in Agents : Planned(a)}
GroupClosed == call \in {"result", "filled"}
GroupComplete == GroupClosed /\ \A a \in Members : Settled(a)

Wakes(i) ==
  /\ i[2] \in {"exited", "failed"}
  /\ i[1] \in Agents => GroupComplete
  /\ UnderBudget

\* The call that claimed an agent's end has a tool_result in the log.
ToldByResult(a) == claim[a] = EndName(a) /\ call \in {"result", "filled"}

-----------------------------------------------------------------------------
(* The delivery's steps, on what it holds and whom it hands it to.         *)

Held == [pending |-> pending, inFlight |-> inFlight, waking |-> waking, ended |-> ended,
         queue |-> queue, ingress |-> run.ingress]

Becomes(s) ==
  /\ pending' = s.pending /\ inFlight' = s.inFlight /\ waking' = s.waking
  /\ ended' = s.ended /\ queue' = s.queue

Pending(s) == UNION {In(s.pending[k].items) : k \in DOMAIN s.pending}
Live == run.st \in {"begun", "live"}
Idle == run.st = "none"

Holds(s, items, wake) ==
  [s EXCEPT !.pending = Append(@, [items |-> items, wake |-> wake])]

\* #hand: a run that has sealed refuses, and the notice is held.
Hand(s, items, wake) ==
  IF Live
  THEN [s EXCEPT !.ingress = Append(@, items), !.inFlight = @ \cup In(items)]
  ELSE Holds(s, items, wake)

AnyWakes(items) == \E i \in In(items) : Wakes(i)

\* #pump: idle, one wake's turn carries everything held.
Pump(s, idle) ==
  IF s.waking \/ ~ idle \/ ~ \E k \in DOMAIN s.pending : s.pending[k].wake
  THEN s
  ELSE LET items == All([k \in DOMAIN s.pending |-> s.pending[k].items])
       IN [s EXCEPT !.pending = <<>>, !.inFlight = @ \cup In(items), !.waking = TRUE,
                    !.queue = Append(@, [by |-> "wake", items |-> items])]

\* #deliverGroup: what no result and no notice told; an agent's failure held
\* on its own rides the group's notice instead.
DeliverGroup(s, idle) ==
  LET restart == \E a \in Members : s.ended[a] = "restart"
      fresh   == {EndItem(a) : a \in {b \in Members :
                    /\ ~ ToldByResult(b)
                    /\ noticed[EndItem(b)] = 0 /\ EndItem(b) \notin s.inFlight}}
      alone(p) == Cardinality(In(p.items)) = 1 /\ In(p.items) \subseteq fresh
      rest    == [s EXCEPT !.ended = [a \in Agents |-> "no"],
                           !.pending = Keep(@, {p \in Notices : ~ alone(p)})]
      wake    == ~ restart /\ AnyWakes(Once(fresh))
  IN IF fresh = {} THEN [s EXCEPT !.ended = [a \in Agents |-> "no"]]
     ELSE Pump(Hand(rest, Once(fresh), wake), idle)

\* #groups
Groups(s, idle) ==
  IF GroupComplete /\ \E a \in Agents : s.ended[a] # "no" THEN DeliverGroup(s, idle) ELSE s

-----------------------------------------------------------------------------
(* Hearing the watcher.                                                    *)

\* #agentEnded: a failure goes into a live run at once.
AgentEnded(a) ==
  LET i == EndItem(a)
      s == IF i[2] = "failed" /\ run.st # "none" THEN Hand(Held, Once({i}), Wakes(i)) ELSE Held
  IN IF \/ noticed[i] > 0 \/ i \in inFlight \/ i \in Pending(Held)
        \/ ended[a] # "no"
     THEN Becomes(Held) /\ UNCHANGED run
     ELSE LET g == Groups([s EXCEPT !.ended[a] = "heard"], Idle)
          IN Becomes(g) /\ run' = [run EXCEPT !.ingress = g.ingress]

\* #hear
Hear(t) ==
  IF t \in Agents
  THEN AgentEnded(t) /\ UNCHANGED <<buffer, wakeful>>
  ELSE /\ buffer' = Both(buffer, Once({EndItem(t)}))
       /\ wakeful' = IF Wakes(EndItem(t)) THEN wakeful \cup {EndItem(t)} ELSE wakeful
       /\ UNCHANGED <<heldVars, run, queue>>

\* The watcher looks at a task.  While the call that started it is still at
\* it, what is announced is announced or told again.
Watch(t) ==
  /\ Poll(t)
  /\ IF Announced(t)
     THEN /\ Hear(t)
          /\ twice' = IF t \in act.of THEN twice \cup {t} ELSE twice
     ELSE UNCHANGED <<heldVars, buffer, wakeful, run, queue, twice>>
  /\ UNCHANGED <<logVars, pumping, persons, faults>>

\* #flush: the window is over.  A sealed run refuses the notice and #hand
\* holds it; #flush holds it once more.
Flush ==
  LET fresh == [i \in Items |-> IF noticed[i] > 0 \/ i \in inFlight \/ i \in Pending(Held)
                                THEN 0 ELSE buffer[i]]
      handed == Hand(Held, fresh, AnyWakes(fresh))
      s == IF fresh = Nothing THEN Held
           ELSE IF run.st = "none" THEN Pump(Holds(Held, fresh, In(fresh) \cap wakeful # {}), TRUE)
           ELSE IF Live THEN handed
           ELSE Holds(handed, fresh, In(fresh) \cap wakeful # {})
  IN /\ up = "up" /\ buffer # Nothing
     /\ buffer' = Nothing /\ wakeful' = {}
     /\ Becomes(s) /\ run' = [run EXCEPT !.ingress = s.ingress]
     /\ twice' = IF run.st = "sealed" THEN twice \cup {i[1] : i \in In(fresh)} ELSE twice
     /\ UNCHANGED <<managerVars, logVars, pumping, persons, faults>>

\* The timer that looks at an open group again.
Recheck ==
  LET s == Groups(Held, Idle)
  IN /\ up = "up" /\ s # Held
     /\ Becomes(s) /\ run' = [run EXCEPT !.ingress = s.ingress]
     /\ UNCHANGED <<managerVars, logVars, buffer, wakeful, pumping, persons, faults, twice>>

\* The timer a settled run left.
PumpTimer ==
  /\ up = "up" /\ pumping /\ pumping' = FALSE
  /\ Becomes(Pump(Held, Idle))
  /\ UNCHANGED <<managerVars, logVars, buffer, wakeful, run, persons, faults, twice>>

-----------------------------------------------------------------------------
(* The session's runs and the host's turns.                                *)

PersonSpeaks ==
  /\ up = "up" /\ persons < MaxPersons /\ persons' = persons + 1
  /\ queue' = Append(queue, [by |-> "person", items |-> Nothing])
  /\ UNCHANGED <<managerVars, logVars, deliveryVars, run, faults, twice>>

\* Mutant: the run that begins does not end the wait for the wake's turn.
Begins_StillWaking(st, by, first) ==
  /\ up = "up" /\ run.st = "none"
  /\ run' = [st |-> st, by |-> by, first |-> first,
             ingress |-> [k \in DOMAIN pending |-> pending[k].items]]
  /\ inFlight' = inFlight \cup Pending(Held) /\ pending' = <<>>
  /\ UNCHANGED <<managerVars, logVars, ended, waking, buffer, wakeful, pumping, persons, faults,
                 twice>>

\* beginRun and takeForRun: what is held rides the run's first admission.
Begins(st, by, first) ==
  /\ up = "up" /\ run.st = "none"
  /\ run' = [st |-> st, by |-> by, first |-> first,
             ingress |-> [k \in DOMAIN pending |-> pending[k].items]]
  /\ inFlight' = inFlight \cup Pending(Held) /\ pending' = <<>> /\ waking' = FALSE
  /\ UNCHANGED <<managerVars, logVars, ended, buffer, wakeful, pumping, persons, faults, twice>>

BeginTurn ==
  /\ ~ open /\ queue # <<>>
  /\ Begins("begun", Head(queue).by, Head(queue).items)
  /\ queue' = Tail(queue)

\* A log with an open run is resumed first, once its uncertain calls are
\* resolved.
Resume ==
  /\ open /\ call # "open"
  /\ Begins("live", "resume", Nothing) /\ UNCHANGED queue

\* The person resolves a call a crash interrupted: its tool_result is filled
\* in.
ResolveUncertain ==
  /\ up = "up" /\ run.st = "none" /\ call = "open" /\ call' = "filled"
  /\ UNCHANGED <<managerVars, noticed, carried, wakes, open, deliveryVars, hostVars, twice>>

Lands(bag) == noticed' = Both(noticed, bag) /\ inFlight' = inFlight \ In(bag)

\* The run's input is in the log: a wake run's input is its notice.
FirstInput ==
  /\ up = "up" /\ run.st = "begun"
  /\ run' = [run EXCEPT !.st = "live", !.first = Nothing]
  /\ Lands(run.first) /\ open' = TRUE
  /\ wakes' = IF run.by = "wake" THEN wakes + 1 ELSE 0
  /\ UNCHANGED <<managerVars, carried, call, pending, waking, ended, buffer, wakeful, pumping,
                 queue, persons, faults, twice>>

\* The kernel admits the ingress once no call is running.
Admit ==
  /\ up = "up" /\ run.st = "live" /\ act = NoCall /\ run.ingress # <<>>
  /\ run' = [run EXCEPT !.ingress = <<>>]
  /\ Lands(All(run.ingress))
  /\ UNCHANGED <<managerVars, carried, call, wakes, open, pending, waking, ended, buffer, wakeful,
                 pumping, queue, persons, faults, twice>>

\* The run decided to end, or was aborted, or failed before its first input.
Seal ==
  /\ up = "up" /\ act = NoCall
  /\ \/ run.st = "live"
     \/ run.st = "begun" /\ (run.by = "wake" => MayDropWake)
  /\ run' = [run EXCEPT !.st = "sealed"]
  /\ UNCHANGED <<managerVars, logVars, deliveryVars, queue, persons, faults, twice>>

\* Mutant: what the run never admitted does not come back.
RunSettles_Losing ==
  LET after == Groups([Held EXCEPT !.ingress = <<>>], TRUE)
  IN /\ up = "up" /\ run.st = "sealed"
     /\ open' = FALSE
     /\ Becomes(after) /\ run' = NoRun /\ pumping' = TRUE
     /\ UNCHANGED <<managerVars, noticed, carried, call, wakes, buffer, wakeful, persons, faults,
                    twice>>

\* endRun and onRunSettled: its terminal is in the log, what it never
\* admitted comes back.
RunSettles ==
  LET back == [k \in DOMAIN run.ingress |->
                 [items |-> run.ingress[k], wake |-> AnyWakes(run.ingress[k])]]
      s    == [Held EXCEPT !.pending = @ \o back, !.ingress = <<>>,
                           !.inFlight = @ \ In(All(run.ingress))]
      after == Groups(s, TRUE)
  IN /\ up = "up" /\ run.st = "sealed"
     /\ open' = FALSE
     /\ Becomes(after) /\ run' = NoRun /\ pumping' = TRUE
     /\ UNCHANGED <<managerVars, noticed, carried, call, wakes, buffer, wakeful, persons, faults,
                    twice>>

-----------------------------------------------------------------------------
(* The calls of the run, and what their results tell.                      *)

unheard == <<deliveryVars, hostVars, twice>>
Working == up = "up" /\ run.st = "live"

\* A delegate call begins; its execution is in the log before it runs.
Delegate ==
  /\ Working /\ act = NoCall /\ call = "none" /\ Agents # {}
  /\ act' = [kind |-> "delegate", of |-> Agents] /\ call' = "open"
  /\ UNCHANGED <<durable, up, seen, wait, noticed, carried, wakes, open, unheard>>

\* No agent started, or all it waits for are settled: its result is in the log.
DelegateReturns ==
  /\ act.kind = "delegate" /\ Over
  /\ carried' = carried \cup Claimed /\ call' = "result" /\ act' = NoCall
  /\ UNCHANGED <<durable, up, seen, wait, noticed, wakes, open, unheard>>

StopReturns ==
  /\ act.kind = "stop" /\ Over
  /\ carried' = carried \cup Claimed /\ act' = NoCall
  /\ wait' = [t \in Tasks |-> IF t \in act.of THEN "left" ELSE wait[t]]
  /\ UNCHANGED <<durable, up, seen, noticed, call, wakes, open, unheard>>

Aside(A) == A /\ UNCHANGED <<logVars, unheard>>
Fault == faults < MaxFaults /\ faults' = faults + 1
Strikes(A) == A /\ Fault /\ UNCHANGED <<logVars, deliveryVars, run, queue, persons, twice>>

-----------------------------------------------------------------------------
(* Crash and restart.                                                      *)

Crash ==
  /\ Fault
  /\ \E between \in {{}} \cup {{t} : t \in {s \in Tasks : Working /\ Startable(s) /\ ~ Planned(s)}} :
       Down(between)
  /\ pending' = <<>> /\ inFlight' = {} /\ waking' = FALSE
  /\ ended' = [a \in Agents |-> "no"]
  /\ buffer' = Nothing /\ wakeful' = {} /\ pumping' = FALSE
  /\ run' = NoRun /\ queue' = <<>>
  /\ UNCHANGED <<logVars, persons, twice>>

\* The constructor: what ended while nobody listened and was never told is
\* held for the next run.  A shell's claim alone decides; an agent's only
\* with its call's result.
Attach ==
  LET shells == {EndItem(t) : t \in {s \in Shells :
                   Settled(s) /\ noticed[EndItem(s)] = 0 /\ claim[s] # EndName(s)}}
      missed == [a \in Agents |->
                   IF Settled(a) /\ noticed[EndItem(a)] = 0 /\ ~ ToldByResult(a)
                   THEN "restart" ELSE "no"]
      s == Groups([(IF shells = {} THEN Held ELSE Holds(Held, Once(shells), FALSE))
                   EXCEPT !.ended = missed], TRUE)
  IN /\ up = "booting" /\ up' = "up"
     /\ Becomes(s)
     /\ UNCHANGED <<durable, seen, wait, act, logVars, buffer, wakeful, pumping, run, persons,
                    faults, twice>>

-----------------------------------------------------------------------------
Next ==
  \/ \E t \in Tasks : Aside(RunnerSpeaks(t))
  \/ \E t \in Tasks : Aside(CommandEnds(t))
  \/ \E t \in Tasks : Strikes(RunnerDies(t))
  \/ \E t \in Tasks : Strikes(StartWindowPasses(t))
  \/ \E t \in Tasks : Working /\ Aside(ShellStarts(t))
  \/ \E t \in Tasks : Aside(ShellStarted(t))
  \/ Delegate
  \/ \E t \in Tasks : Aside(AgentStarts(t))
  \/ \E t \in Tasks : Aside(AgentStarted(t))
  \/ Aside(Join)
  \/ \E t \in Tasks : Working /\ Aside(StopCall(t))
  \/ \E t \in Tasks : Strikes(PersonStops(t))
  \/ \E t \in Tasks : Aside(AwaitSettled(t))
  \/ \E t \in Tasks : Aside(WaitEnds(t))
  \/ DelegateReturns \/ StopReturns
  \/ \E t \in Tasks : Watch(t)
  \/ Flush \/ Recheck \/ PumpTimer
  \/ PersonSpeaks \/ BeginTurn \/ Resume \/ ResolveUncertain
  \/ FirstInput \/ Admit \/ Seal \/ RunSettles
  \/ Crash \/ Aside(Boot) \/ Attach

Spec == Init /\ [][Next]_vars

\* Timers fire, the watcher polls, a wait has a deadline, a turn the host
\* took is begun and a run ends, a process that is down is started again.
\* Nothing is assumed of a command, of a person, or of a runner that has
\* not spoken.
CallGoesOn ==
  \/ \E t \in Tasks : \/ Aside(ShellStarted(t)) \/ Aside(AgentStarts(t))
                      \/ Aside(AgentStarted(t)) \/ Aside(AwaitSettled(t))
                      \/ Aside(WaitEnds(t))
  \/ Aside(Join) \/ DelegateReturns \/ StopReturns

HostGoesOn == BeginTurn \/ Resume \/ FirstInput \/ Seal \/ RunSettles

Fairness ==
  /\ WF_vars(CallGoesOn) /\ WF_vars(HostGoesOn)
  /\ \A t \in Tasks : WF_vars(Watch(t))
  /\ WF_vars(Flush) /\ WF_vars(Recheck) /\ WF_vars(PumpTimer)
  /\ WF_vars(Aside(Boot) \/ Attach)

LiveSpec == Spec /\ Fairness

-----------------------------------------------------------------------------
(* Properties                                                              *)

Told(t) == noticed[EndItem(t)] > 0 \/ EndItem(t) \in carried

\* A runner that spoke after its start window: it is reported as never run,
\* and what it does later is read only by the next process.
Slow(t) == t \in late /\ "runner" \in rec[t]
SlowGroup == IF \E a \in Agents : Slow(a) THEN Agents ELSE {}

\* "Never in both places" (delivery.ts): an end is in one notice, or in one
\* call's result.  The exceptions are the ends that meet one of two moments,
\* announced while the call that started the task is still at it or flushed
\* into a run that has sealed, and a group with a slow runner (see README).
ToldOnce ==
  \A i \in Items : i[1] \notin twice \cup SlowGroup =>
    noticed[i] + (IF i \in carried THEN 1 ELSE 0) <= 1

\* The same without the exceptions.
ExactlyOnce ==
  \A i \in Items : noticed[i] + (IF i \in carried THEN 1 ELSE 0) <= 1

OnItsWay(i) ==
  \/ buffer[i] > 0 \/ i \in Pending(Held)
  \/ \E k \in DOMAIN queue : queue[k].items[i] > 0
  \/ run.first[i] > 0 \/ \E k \in DOMAIN run.ingress : run.ingress[k][i] > 0

InItsGroup(t) == t \in Agents /\ ended[t] # "no"
Announcing(t) == up = "up" /\ Settled(t) /\ seen[t] = Verdict(t)
ClaimedByCall(t) == claim[t] = EndName(t) /\ wait[t] = "claimed"

\* A shell's claim alone decides: a crash before the call's result tells
\* nobody (ADR-0058 Amendment 7).  An agent's claim is taken for told once a
\* person's verdict fills its call's result in.
LostClaim(t) == claim[t] = EndName(t) /\ t \in Shells
FilledClaim(t) == claim[t] = EndName(t) /\ call = "filled"

\* "Never in neither": an end the watcher has done with is told, is on its
\* way, waits for its group, or is claimed by a call that will tell it.
NothingForgotten ==
  \A t \in Tasks : Announcing(t) =>
    \/ Told(t) \/ OnItsWay(EndItem(t)) \/ InItsGroup(t) \/ ClaimedByCall(t)
    \/ LostClaim(t) \/ FilledClaim(t)

\* The same, with an agent's claim held to its result.
NeverInNeither ==
  \A t \in Tasks : Announcing(t) =>
    \/ Told(t) \/ OnItsWay(EndItem(t)) \/ InItsGroup(t) \/ ClaimedByCall(t) \/ LostClaim(t)

\* Wherever the process stopped, an end is told in the end, or rests with
\* what waits for a person: a notice for their next turn, a verdict.
HeldForPerson(t) ==
  /\ \E k \in DOMAIN pending : EndItem(t) \in In(pending[k].items)
  /\ \A k \in DOMAIN pending : ~ pending[k].wake
GroupOpen(t) == t \in Agents /\ ~ GroupComplete
AwaitsVerdict == call = "open"
EndsComeToRest ==
  <>[](\A t \in Tasks : Settled(t) /\ ~ Slow(t) =>
        \/ Told(t) \/ HeldForPerson(t) \/ GroupOpen(t) \/ AwaitsVerdict
        \/ LostClaim(t) \/ FilledClaim(t))

\* journal.ts: not_run is "the command provably never ran".
NotRunNeverRan == \A t \in Tasks : seen[t] = "not_run" => "command" \notin rec[t]

\* The chain budget: at most MaxWakes wake runs follow a person's.
BudgetHolds == wakes <= MaxWakes
=============================================================================
