---------------------------- MODULE TaskManager ----------------------------
(***************************************************************************)
(* A session's background tasks: the journal of each                       *)
(* (packages/runtime/src/tasks/journal.ts), its detached runner            *)
(* (packages/tools-node/src/task-runner.ts), and the manager that starts,  *)
(* stops, watches and waits for them (packages/runtime/src/tasks/manager.ts).*)
(*                                                                         *)
(* A task is a shell command put in the background or a child agent; the   *)
(* agents are started by ONE delegate call, which then waits for all of    *)
(* them (extensions/subagent).  The journals outlive the process.  This    *)
(* module has no next-state relation of its own: TaskDelivery composes its *)
(* actions with the runs of the session and the delivery that listens.     *)
(***************************************************************************)
EXTENDS Integers, Sequences, FiniteSets

CONSTANTS Shells, Agents      \* the tasks, by what starts them

ASSUME TasksAssumption == Shells \cap Agents = {}

Tasks == Shells \cup Agents

VARIABLES
  rec,      \* the records of each task's journal
  claim,    \* the transition a result_claimed record names, or "none"
  proc,     \* the runner's process: "none", "up", "dead"
  late,     \* the tasks planned longer ago than RUNNER_START_WINDOW_MS
  up,       \* the process: "down", "booting" (watching, delivering to nobody), "up"
  seen,     \* what the watcher last saw of each task; "live" until it ends
  wait,     \* what the calls of this process do with each task
  act       \* the call that runs: [kind, of]

durable == <<rec, claim, proc, late>>
managerVars == <<durable, up, seen, wait, act>>

Records == {"planned", "runner", "command", "stop", "exit0", "exit1"}
Ends == {"unknown", "not_run", "ended"}
Transitions == {"exited", "failed", "stopped", "unknown"}
NoCall == [kind |-> "none", of |-> {}]

\* "spawning": start() waits for the runner's first record; "started" and
\* "left": the call let it go; "waiting": awaitSettled; "claimed": it saw
\* the end and wrote its claim.
Waits == {"none", "spawning", "started", "waiting", "claimed", "left"}

ManagerTypeOK ==
  /\ rec \in [Tasks -> SUBSET Records] /\ proc \in [Tasks -> {"none", "up", "dead"}]
  /\ claim \in [Tasks -> Transitions \cup {"none"}] /\ late \subseteq Tasks
  /\ up \in {"down", "booting", "up"}
  /\ seen \in [Tasks -> Ends \cup {"live"}] /\ wait \in [Tasks -> Waits]
  /\ act.kind \in {"none", "shell", "delegate", "stop"} /\ act.of \subseteq Tasks

ManagerInit ==
  /\ rec = [t \in Tasks |-> {}] /\ claim = [t \in Tasks |-> "none"]
  /\ proc = [t \in Tasks |-> "none"] /\ late = {}
  /\ up = "up" /\ seen = [t \in Tasks |-> "live"]
  /\ wait = [t \in Tasks |-> "none"] /\ act = NoCall

-----------------------------------------------------------------------------
(* What a journal proves, given whether its runner still lives.            *)

Planned(t) == "planned" \in rec[t]
Terminal(t) == rec[t] \cap {"exit0", "exit1"} # {}

Verdict(t) ==
  IF Terminal(t) THEN "ended"
  ELSE IF ~ Planned(t) THEN "none"
  ELSE IF "command" \in rec[t] THEN IF proc[t] = "up" THEN "running" ELSE "unknown"
  ELSE IF "runner" \in rec[t] THEN IF proc[t] = "up" THEN "starting" ELSE "not_run"
  ELSE IF t \in late THEN "not_run" ELSE "starting"

Settled(t) == Verdict(t) \in Ends
Sees(t) == IF Settled(t) THEN Verdict(t) ELSE "live"

\* The name the model is told a settled task's state under.
EndName(t) ==
  IF Verdict(t) = "unknown" THEN "unknown"
  ELSE IF Verdict(t) = "not_run" THEN "failed"
  ELSE IF "stop" \in rec[t] THEN "stopped"
  ELSE IF "exit0" \in rec[t] THEN "exited" ELSE "failed"

EndItem(t) == <<t, EndName(t)>>
Items == Tasks \X Transitions

-----------------------------------------------------------------------------
(* The runner.                                                             *)

\* It records itself, and the command it is about to start.
RunnerSpeaks(t) ==
  /\ proc[t] = "up" /\ "runner" \notin rec[t]
  /\ rec' = [rec EXCEPT ![t] = @ \cup {"runner", "command"}]
  /\ UNCHANGED <<claim, proc, late, up, seen, wait, act>>

\* The command ended, by itself or stopped: the terminal is the last record.
\* How a stopped command exited is not told.
CommandEnds(t) ==
  /\ proc[t] = "up" /\ "command" \in rec[t]
  /\ \E exit \in {"exit1"} \cup IF "stop" \in rec[t] THEN {} ELSE {"exit0"} :
       rec' = [rec EXCEPT ![t] = @ \cup {exit}]
  /\ proc' = [proc EXCEPT ![t] = "dead"]
  /\ UNCHANGED <<claim, late, up, seen, wait, act>>

\* The runner is gone, or recorded a stop that left survivors: after the
\* command's record its end is not known, between the two it never ran.
RunnerDies(t) ==
  /\ proc[t] = "up"
  /\ proc' = [proc EXCEPT ![t] = "dead"]
  /\ IF "command" \in rec[t] THEN UNCHANGED rec
     ELSE \E r \in {{}, {"runner"}} : rec' = [rec EXCEPT ![t] = @ \cup r]
  /\ UNCHANGED <<claim, late, up, seen, wait, act>>

\* 30 s after the plan no runner has spoken.
StartWindowPasses(t) ==
  /\ Planned(t) /\ "runner" \notin rec[t] /\ t \notin late
  /\ wait[t] # "spawning"
  /\ late' = late \cup {t}
  /\ UNCHANGED <<rec, claim, proc, up, seen, wait, act>>

-----------------------------------------------------------------------------
(* The calls: start, stop, awaitSettled.                                   *)

Recorded(t, r) == rec' = [rec EXCEPT ![t] = @ \cup r]
Now(t, w) == wait' = [wait EXCEPT ![t] = w]

\* start(): the plan is durable, then the runner is spawned, and the call
\* waits for the runner's own record.
Start(t) ==
  /\ ~ Planned(t)
  /\ Recorded(t, {"planned"}) /\ proc' = [proc EXCEPT ![t] = "up"]
  /\ Now(t, "spawning")
  /\ UNCHANGED <<claim, late, up, seen>>

\* The runner has recorded itself: the task is a live one for the watcher,
\* whatever the watcher saw of it meanwhile.
Spawned(t) ==
  /\ wait[t] = "spawning" /\ "runner" \in rec[t]
  /\ seen' = [seen EXCEPT ![t] = "live"] /\ Now(t, "started")

\* It did not within the spawn's own 10 s: start() throws.
SpawnTimesOut(t) ==
  /\ wait[t] = "spawning" /\ "runner" \notin rec[t]
  /\ Now(t, "left") /\ UNCHANGED seen

\* A shell call starts its task; a delegate call starts its agents one after
\* the other.
Startable(t) ==
  \/ act = NoCall /\ t \in Shells
  \/ act.kind = "delegate" /\ t \in act.of /\ \A a \in act.of : wait[a] # "spawning"

\* A shell call in the background ends with its start.
ShellStarts(t) ==
  /\ t \in Shells /\ Startable(t)
  /\ Start(t) /\ act' = [kind |-> "shell", of |-> {t}]

ShellStarted(t) ==
  /\ act = [kind |-> "shell", of |-> {t}] /\ act' = NoCall
  /\ Spawned(t) \/ SpawnTimesOut(t)
  /\ UNCHANGED durable /\ UNCHANGED up

AgentStarts(t) ==
  /\ t \in Agents /\ Startable(t)
  /\ Start(t) /\ UNCHANGED act

AgentStarted(t) ==
  /\ act.kind = "delegate" /\ t \in act.of
  /\ Spawned(t) \/ SpawnTimesOut(t)
  /\ UNCHANGED <<durable, up, act>>

\* All of them tried: it waits for those that started.
Join ==
  /\ act.kind = "delegate" /\ \E a \in act.of : wait[a] = "started"
  /\ \A a \in act.of : Planned(a) /\ wait[a] # "spawning"
  /\ wait' = [t \in Tasks |-> IF t \in act.of /\ wait[t] = "started" THEN "waiting" ELSE wait[t]]
  /\ UNCHANGED <<durable, up, seen, act>>

\* stop(): nothing for a task that has its terminal or whose runner is not
\* there; otherwise the request is durable and the runner reads it.
Stoppable(t) == Planned(t) /\ ~ Terminal(t) /\ "runner" \in rec[t] /\ proc[t] = "up"

PersonStops(t) ==
  /\ up = "up" /\ Stoppable(t) /\ "stop" \notin rec[t]
  /\ Recorded(t, {"stop"})
  /\ UNCHANGED <<claim, proc, late, up, seen, wait, act>>

\* task_stop: the same, then the call waits for the end.
StopCall(t) ==
  /\ act = NoCall /\ t \in Shells /\ Stoppable(t) /\ "stop" \notin rec[t]
  /\ Recorded(t, {"stop"}) /\ Now(t, "waiting")
  /\ act' = [kind |-> "stop", of |-> {t}]
  /\ UNCHANGED <<claim, proc, late, up, seen>>

\* Mutant: the claimed transition is not counted as seen.
AwaitSettled_Unseen(t) ==
  /\ wait[t] = "waiting" /\ Settled(t)
  /\ claim' = [claim EXCEPT ![t] = EndName(t)] /\ Now(t, "claimed")
  /\ UNCHANGED <<rec, proc, late, up, seen, act>>

\* awaitSettled saw the end: the claim is durable, THEN the transition
\* counts as seen.
AwaitSettled(t) ==
  /\ wait[t] = "waiting" /\ Settled(t)
  /\ claim' = [claim EXCEPT ![t] = EndName(t)]
  /\ seen' = [seen EXCEPT ![t] = Verdict(t)] /\ Now(t, "claimed")
  /\ UNCHANGED <<rec, proc, late, up, act>>

\* The wait's time is over, the person moved it to the background, a steer
\* arrived, Esc, or the claim could not be written.
WaitEnds(t) ==
  /\ wait[t] = "waiting"
  /\ Now(t, "left")
  /\ UNCHANGED <<durable, up, seen, act>>

\* The call has its result, which reports the ends it claimed.
Over == act.kind \in {"delegate", "stop"} /\ \A t \in act.of : wait[t] \in {"claimed", "left"}
Claimed == {<<t, claim[t]>> : t \in {a \in act.of : wait[a] = "claimed"}}

-----------------------------------------------------------------------------
(* The watcher.                                                            *)

\* #poll: one task that ended since it was looked at.  A task a call waits on is left
\* to the call; an end or a start that never ran is final.
Poll(t) ==
  /\ up # "down" /\ wait[t] # "waiting" /\ seen[t] \notin {"ended", "not_run"}
  /\ Sees(t) # seen[t]
  /\ seen' = [seen EXCEPT ![t] = Sees(t)]
  /\ UNCHANGED <<durable, up, wait, act>>

\* The listeners hear of it.
Announced(t) == up = "up" /\ Settled(t)

-----------------------------------------------------------------------------
(* The process ends and starts again; runners do not notice.               *)

\* between: the start the crash caught after its plan and before its spawn.
Down(between) ==
  /\ up # "down"
  /\ rec' = [t \in Tasks |-> IF t \in between THEN {"planned"} ELSE rec[t]]
  /\ up' = "down" /\ seen' = [t \in Tasks |-> "live"] /\ act' = NoCall
  /\ wait' = [t \in Tasks |-> IF Planned(t) \/ t \in between THEN "left" ELSE "none"]
  /\ UNCHANGED <<claim, proc, late>>

\* observe(): every task is classified, and nothing is announced.
Boot ==
  /\ up = "down" /\ up' = "booting"
  /\ seen' = [t \in Tasks |-> Sees(t)]
  /\ UNCHANGED <<durable, wait, act>>
=============================================================================
