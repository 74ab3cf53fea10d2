# kiso in TLA+

Specifications of [kiso](../src/README.md), a durable agent runtime: what its
kernel, its recovery, its store, its compaction, its background tasks, its
hosted service and its terminal promise, model-checked with TLC on small
instances and, for the kernel, proved with TLAPS for all of them.

Every definition is translated from the source; `PROJECT.json` ("map") names
the lines. This file says what the system is, which module stands for which
part, what each run and theorem shows, and what is left out.

## 1. The system

A *session* is an append-only log of events with consecutive sequence numbers.
A *run* answers one user input: it sends the projected log to a model, streams
the answer into the log, executes the tool calls the model asked for, and goes
on until the model stops asking. Anything the program must remember is an event
that was made durable before anybody acted on it; a process that dies is
replaced by one that reads the log and derives, from the log alone, the one
next step.

| Component | State it keeps | Operations | What makes it correct |
|---|---|---|---|
| **Agent kernel loop** `core/kernel/loop.ts` | the turn's attempt, the held stop, the commit gate, barrier, window and ask gates, the event queue, one asynchronous launch per tool call | stream, launch, decide, ask, start, execute, settle, retry, abandon, compact on overflow, abort, end | nothing starts before its turn commits unless it is safe to; a handler runs behind its durable STARTED; exclusive calls run alone and in order; asks resolve in order; every launch settles before the log moves on; every request answers the calls it carries |
| **Event protocol and log** `core/protocol/events.ts`, `core/kernel/event-log.ts` | the sequence of events | append, validate | consecutive sequence numbers |
| **Run iterator and recovery driver** `runtime/run.ts` | the run's control point, its ingress, the abort controller | start, resume, the eight recovery steps, steer, notify, abort, seal, close | one terminal per run; no effect twice; no ask twice |
| **Recovery plan** `runtime/recovery-plan.ts`, `ledger.ts`, `aborted-calls.ts` | none: functions of the log | `deriveRecoveryPlan`, `executionLedger`, `unansweredAbortedCalls` | total, one step for every prefix a crash can leave, and progress |
| **Session** `runtime/session.ts` | live resolvers, submitted verdicts, the poison flag, options | approve, resolveUncertain, flush of verdicts, persist, repair of aborted calls, compaction | a verdict is written once; a session that failed to store refuses everything |
| **Session store** `runtime/store.ts` | the file's bytes, a write queue per session, the closed set | append, load, repair of a torn tail, close | an append extends the prefix it was made for, or is refused |
| **Link lock** `runtime/lock-adapter.ts` | the lock file, staging and tombstone names | take, release, take over a dead holder | one holder |
| **Hosted session service** `server/service.ts`, `tail.ts`, `execution.ts` | live sessions and runs, the draining flag | prompt, reopen, run, approve, abort, drain, shutdown, tail | one live run per session; nothing starts after the drain; the tail has no gap and no repetition |
| **HTTP surface** `server/http.ts` | none | routes | status codes follow the service |
| **Client** `client/client.ts` | the last sequence number seen | events, reconnect | every event once, in order, across reconnects |
| **Background tasks** `runtime/tasks/` | the task table, the journal, claims, announcements | start, poll, claim, wait, collect, deliver, stop | an end is reported to the model exactly once; no task is lost by a crash |
| **Compaction** `runtime/compaction-policy.ts`, `summarize.ts`, `checkpoint.ts` | thresholds, the circuit breaker, summaries | decide, summarise, checkpoint, prune | a boundary never splits a call from its result; the latest result that is not to be compacted stays |
| **Request projection** `core/kernel/project.ts` | none | `projectMessages` | void output is left out, every call has its result behind it, in call order; nothing is shown twice or lost; a request extends the one before |
| **Approval chain** `runtime/compose.ts`, `core/kernel/permission.ts` | none | compose policies | deny over allow over ask |
| **Stream guards** `runtime/truncation-guard.ts`, `idle-guard.ts`, `overflow-belt.ts` | timers | wrap an adapter | a cut or silent stream becomes a typed error |
| **Forks** `runtime/fork.ts` | a new log and its origin | cut a parent's log at the end of a run | nothing undecided is carried over; the fork's requests extend its parent's; its model is told once |
| **Trust, profiles** `runtime/trust.ts`, `profile.ts` | JSON documents | read, revise | the last word wins |
| **Terminal chat** `apps/cli/chat.ts`, `dispatch.ts`, `index.ts`, `tui/editor.ts` | the chain of turns, the lines queued, steered, mirrored and kept for the next session | enter, steer, redirect, escape, take back, switch session, recover, wake | a line is answered once, by the session it was typed for, in order; the prompt comes back |
| **Provider adapters** `provider-*/src/index.ts`, `core/errors.ts` | the calls a stream has open | fold the frames of the wire into events | a call has one identity and the input it was spelled with; a stop comes last or not at all; a broken stream is retried |
| **Local tools** `tools-node/index.ts`, `wr1.ts`, `apps/cli/state.ts` | none: the file, and the log's last word on it | read, write, edit, search, shell | nothing is written over that the model has not seen |
| Request trace, rendering, web console, evaluations | | | not part of the durable protocol |

How they interact. The run calls the kernel's generator and is its consumer: it
stores each yielded event (`session.persist`, through the store's queue and
lock) *before* it asks for the next one or yields the event to its own
consumer. The kernel's launches hand their events to the generator through an
in-memory queue, and a STARTED carries an acknowledgement that resolves when
the generator resumes, that is, when the event is durable. A human's answer
enters from the side: `approve()` finds a live resolver (the launch or the
recovery driver then writes the verdict), or writes it directly. An abort
raises a signal that every await of the loop and of the launches races. The
service holds one session per id and at most one live run in each; the client
reads the run's events through the tail. The terminal is the service's peer: it
owns its session, steers its run through the same ingress, and also gives a turn
to the tasks' delivery when a background task ends while nobody is at work.

What is hard: the launches of one turn interleave freely between awaits; the
void signal, the commit gate and the abort may fire in any of those gaps; a
crash may cut the log after any event; a human answers at any time, in any
process; a resume is itself interrupted. Above the kernel: a request of the
service awaits between its check and its act; an event is emitted while a client
is between two connections; a task ends while the call that waits for it, the
watcher that announces it and the run that would be told of it all move; a line
is typed while the run that should take it seals. These are the hazards
`PROJECT.json` lists, each at its line.

## 2. Modules

| Module | Models | State and actions |
|---|---|---|
| `KernelLoop` | `loop()` and its launches | the generator is the control point `main`; call `c`'s launch is `pc[c]`. One action is the code between two awaits. `log` with `durable` says how much the consumer has stored. |
| `SessionLog` | the durable log and what everybody reads off it | `log`; `Voided`, `Committed`, `Denied` |
| `TurnLog` | *abstract*: what one call of `loop()` may write, without launches, queues or gates | `log`, `run`, `entry`, `turnStart`; one action per kind of event |
| `KernelRefinement` | the mapping `KernelLoop` → `TurnLog` | `Mapped` completes each event of the log with what the loop remembers of its call |
| `ApprovalChain` | the extensions' policies composed into one verdict | operators on a sequence of votes |
| `StreamGuards` | the wrappers between a provider's stream and the loop | operators on a stream and the way it ends |
| `ProviderStreams` | the three adapters, from the frames of a stream to its events | folds over a sequence of frames; extends `StreamGuards` |
| `ObservedFile` | the tools that read and change a file, and the revision they cite | operators on a file, the log of the calls on it and what the model was shown |
| `Recovery` | a session across crashes: fresh and resumed runs, the recovery plan and driver, the human, the repair of aborted calls | `log` is what a crash leaves; `proc` is the control point of the one run in progress; the live part of a run is `TurnLog` |
| `LinkLock` | the lock file of a session, shared by processes | `path` and the files moved `aside`; `at[w]` is the control point of a writer between two file-system calls; one action per call of `take`, `verify` and `release` |
| `SessionStore` | the append path over that lock, and the session above it | `file`, `torn`, each writer's `memory`; one action per step of `#appendOnce`, failed writes, kills and restarts |
| `SessionService` | one hosted session, its requests, its session objects and the runs it pumps | `requests[c]` stands at an await, `runs[r]` at a phase, `live` and `sessions` are the service's slots; one action per stretch between awaits |
| `EventStream` | how a session's events reach a client: pump, tail, response, reconnecting reader | `log`, `written`, the connections of each client with their replay, buffer and wire, `lastSeq` and `got` |
| `TaskManager` | the journals of background tasks, their runners, the manager | `rec`, `claim`, `proc`, what the watcher has `seen`, what calls `wait` for; actions without a next-state relation |
| `TaskDelivery` | how a task's end reaches the model; `TaskManager` composed with the delivery, the runs and the host's turns | the delivery's maps, the run and its ingress, the host's queue, what the log has `noticed` and results have `carried` |
| `TurnChain` | how a line typed at the terminal becomes a turn | the chain of segments, the queues a line may wait in, the run's ingress and its mirror, the entry and the switch |
| `Projection` | what a request says of a log, and where a summary or a prune may cut it | operators on a log |
| `Context` | the log as a session writes it, from request to request | `log`, `phase`, `sent`; one action per writer of the log |
| `MC...` | | names for the instances' constants |
| `KernelLoopProofs` | theorems about `KernelLoop` | types, the window, intent before effect, speculation |
| `KernelSettleProofs` | more of them | the order between calls; what a turn leaves behind; the loop implements `TurnLog` |
| `RecoveryProofs` | theorems about `Recovery`, and the lemmas on its log | types, one run of a handler, approval, commit, each fact once, true refusals, answered calls |
| `SessionStoreProofs` | theorems about `SessionStore` over `LinkLock` | types; with two processes: one writer, a contiguous log, memory is on disk, committed lines stay |
| `SessionServiceProofs` | theorems about `SessionService` | types, one open run, the live run is known, one fate of an input |
| `EventStreamProofs` | theorems about `EventStream` | types, events once and in order, nothing missed, whole turns |
| `TaskDeliveryProofs` | theorems about `TaskDelivery` over `TaskManager` | types, no end forgotten, none told twice |
| `TurnChainProofs` | theorems about `TurnChain` | types, a line in one place, answered where it was aimed, a pipe's in order |

The modules compose along the log. `KernelLoop` is the concurrent program;
`TurnLog` is what the rest of the system may rely on; `KernelRefinement` maps the
first to the second, a run checks that it implements it and a theorem proves it;
`Recovery` then runs `TurnLog`'s actions
as its live part and cuts it with crashes at every event, instead of
multiplying the launches' interleavings with those of crashes and humans.
`SessionStore` extends `LinkLock` and shows what makes `Recovery`'s one-step
append sound: whoever writes, the file is one log. `SessionService` takes runs
as that log's writers and looks at who may start them; `EventStream` takes the
same pump apart on its other side, towards the clients. `TaskDelivery` extends
`TaskManager` and composes it with runs and turns. `Context` extends
`Projection`, drives the projection with the logs that can arise, and is the
only place where the text of a request matters. In each of them the run's
ingress (`steer`, `notify`, admit, seal: `run.ts` 109-198) is the code's list,
seen from the component that fills it.

### KernelLoop

`main` walks the loop body: head, admission and compaction sites, request,
stream, the held stop, commit or abandon, drain, terminal. A launch walks
`decide → (ahead | commit) → pause → barrier → window → start → ack → acked →
handler → done`, as `launch`, `decideCall`, `humanPause` and `runLedgered` do.
Promises are state: the decide chain is the order of calls (`DecideTurn`), the
ask gates the verdicts of the calls before, the commit gate `committed` and
`settled`, the barrier the calls a reservation waits for, the window
`freeSlots` and the FIFO `windowWaiters`, the queue `execQueue`. The consumer's
`Persist` lets the generator continue; with `"store"` in `Faults` it may fail,
which closes the generator while the launches outlive it.

What the generator reads of the provider has passed the guards of
`run.ts` 314. `StreamGuards` says what they leave of a stream: no call ends ahead
of the stop (`HeldUntilStop`), a truncated turn executes none of its calls
(`AllOrNothing`), and the stream always ends, with an error that says why
(`EndingsAreHonest`). The three are an assumption of `MCKernelLoop` that TLC
evaluates over all streams of up to five events and all endings.

What the guards read comes from an adapter. `ProviderStreams` translates the
three as folds over frames, and a second assumption of `MCKernelLoop` checks
what they promise of every turn of up to three or four frames (with every way to
end) and every way the transport may break it: one identity for each call, whose
first id is final (`OneIdentity`); deltas that spell the input the call ends
with (`InputIsSpelled`); a usage ahead of a stop that comes last, or no stop and
no call behind the guard (`StopIsTheEnd`, `BreaksReleaseNothing`); a retry where
the stream just ends (`EarlyEndRetries`); nothing changed by what comes behind
the first end (`FirstEndIsFinal`); a usage once (`OneBill`). Two pieces of
arguments and two calls are enough for each of them to be out of order with the
other. Frames come in the order a provider may send them (`InWireOrder`). Left
out: thinking blocks and continuations, the numbers of a usage, refusals ahead
of the headers. Four places fall short of the sentences beside them. They are
in the definitions, and the contracts say where they do not hold:

* `core/errors.ts:69-90` has every failure behind the headers retryable; the
  messages adapter (`provider-anthropic/src/index.ts:476-482`) leaves an error
  frame without a status and a body cut short as `unknown`, which ends the run
  (`MessagesError`).
* The responses adapter takes a timeout for a cancellation, which reaches the
  kernel as `unknown`, and an overflow told in the stream for a network failure,
  which is retried as it is instead of compacted (`ResponsesError`), although
  `core/errors.ts:44` knows that refusal by what it says.
* The messages adapter ends an aborted stream without a stop and without an
  error. The idle guard raises the abort before the loop sees it; with
  `streamIdleMs` 0 there is no idle guard and the loop reports a missing stop.
* The messages adapter reads on behind `message_stop`. The loop refuses what
  comes there and gives the turn up, so that a late frame voids a whole answer.

Left out, because no property tells them apart: the content of requests; the
hooks that only observe (`onPreLlm`, `onEvent`); the input hook, which `Context`
models (it speaks where the loop is entered and where an input is admitted,
when no launch runs); runs of text
deltas, one event here; the difference between a succeeded and a failed
receipt; several inputs admitted at once, which are admitted one by one; the
backoff delay and its cap, folded into whether an error is retried.

### Recovery

An append and its fsync are one step. That is sound because nobody acts on an
event before it is durable: a crash that loses the event is a crash before the
append. A call has one identity where the code carries a call id, an
invocation sequence number and an execution id. The store sees the events in
the log's order: an event is appended to the log and handed to the store's
queue with no other event between. Left out: the plan's compatibility
clauses for logs of old releases (a result matched by call id, an ask before
the commit, the request expiry that belongs to it); the plan kinds `TERMINAL`
and `COMPLETED`, which the driver's open-run gate keeps it from meeting; the
context policy and the input hook at a run's start; poisoning for any reason but a refused second
write; `resolveUncertain` while a run is in progress.

The resume decides on a call by the votes of `Policies` policies, composed by
`ChainVerdict` of `ApprovalChain`. The chain keeps deny over allow over ask for
every load order (`DenyAllowAsk`, up to four policies), and a policy loaded in
addition lifts no denial (`DenialStands`, up to three and one more); both are an
assumption of `MCRecovery`. It may turn a question into an allow, which
`compose.ts:148-151` denies of the chain and its own code wants
(`compose.ts:290-293`); the branch of `compose.ts:306` is never taken, since a
speaker that neither denies nor allows has asked.

### LinkLock and SessionStore

A *writer* is a store instance with the session that uses it; `Pid` says which
process it lives in. Node runs a process's synchronous sections one at a time,
so two writers of one process interleave only at awaits (`Turn`); writers of
two processes interleave between any two file-system calls. A lock identity is
a token and the pid written beside it; `held` is the set of tokens a process
knows to be its own, which is how it tells its lock from the residue of an
earlier process with its pid.

A process is killed at any point, inside a write too, and may start again under
the same pid. A write fails before, within or behind its line, and every
failure poisons the session, which then only closes. Left out: bare pids of old
releases and half-written identities (both are `Blank`, a file that names
nobody); the probe for zombie processes and file systems without links; the
count of 25 retries, which becomes a choice to give up; the loss of unsynced
bytes in a power failure; listing, names, forks.

`DieAside` is an assumption about the environment: FALSE says that no process is
killed in the few instructions in which it has a *living* rival's lock moved
away. With TRUE, or with a third process, two writers meet
(`MCStoreTwoWriters.cfg` below).

### SessionService

One session id in one process. A request stops at the awaits of the service
(`holding` a session that is being opened, `resuming` an open run ahead of its
own, `opening` a second object), and everything between two awaits is one
action. A run is its iterator and the pump that drains it: `making`, `going`,
`executing` a tool, `asking` a person, `sealed`, `over` or thrown, `settling`.
`reopen` builds a second session object over the same log while requests of the
first may still be on their way; the store refuses an event that does not follow
its last, which poisons the object that wrote it. An event is appended, written
and delivered in one step here. Not modelled: the other session ids (nothing is
shared between them but the factory), listing and history pages, the choice of
model and profile, what an error is mapped to.

### EventStream

A connection goes `asked → replaying → live → ended`, or is `left` by its
client while its listener stays behind. Events are appended, written and
delivered in three steps; an answer to a question nobody waits for is appended
and written but delivered to nobody (`aside`). A replay reads the log one event
at a time. The service's own replay is a synchronous snapshot, so the steps in
between are more than it needs: `tail` takes any iterable, and its promise is
that the seam holds for it. A connection drops with whatever it holds; the
process dies between any two steps, and takes the events that were appended
and not yet written with it (`cut`), some of which a replay has already sent. `hidden` is an event with no wire type,
`unfinished` a terminal that left input unadmitted.

### TaskManager and TaskDelivery

A task's journal is the set of its records, `proc` its runner. The runner, the
watcher, the call that waits and the delivery are separate processes that share
the journal; a crash kills this process and no runner. An end is an *item*, a
task with the name its end is told under. `noticed` counts the item in the log's
notices, `carried` holds those a tool result told. The delivery's receipts are
read off the log and are the log here.

Left out: readiness (`readyWhen`, services), the collection of writers,
promotion of a foreground command and adoption of a foreign task, `stopAll`,
identities that cannot be verified, the `onLost` and `onBudgetSpent` messages,
the text of a snapshot. One tool call runs at a time, and one delegate call
starts all agents of an instance (one group). The runner's two last records are
one step; `RunnerDies` takes them apart. How a stopped command exited is not
told apart from how it failed. `unknown` covers `stop_unconfirmed`. `MaxFaults`
bounds crashes, dead runners, late starts and a person's stops together;
`MayDropWake` says whether a wake's turn may be given up before its input is in
the log.

### TurnChain

One thread; a step is what happens between two awaits. A line is its number; a
turn carries the lines merged into it, none if it is the wake of a notice. The
queues a line passes (`queuedLines`, `switchLines`, `seed`, the chain, the
segment that runs, the run's ingress, what it took and what it gave back, the
log) are all state, and the mirror `steering` is kept apart from the run's own
list, as in the code. `steerable` distinguishes a terminal from a pipe. Left
out: exhaustion of the scripted model, end of input, the automatic compact
behind a turn, `!` commands, panels that pick from a list; one switch command
is under way at a time; a slot that was taken back is removed from the chain
where the code leaves a segment that does nothing; appending an input and the
consumer hearing of it are one step; a segment left behind the second await of
a departing entry is not followed (`astray`); the recovery's run takes no
steers.

### Projection and Context

`Projection` translates `projectMessages` (void ranges, the one summary that
renders, call order, results that wait for their turn, inputs held while a call
has no result, the prune) and the three functions that choose a cut. A message
shows events by position in place of their content, so that what is said once,
twice, in which order and to which call can be compared. A token floor is
abstracted to the set of the cuts some floor would choose; the policy's
thresholds, its breaker and the check that a summary shrinks the request are a
choice to cut or not. `Context` writes the logs: attempts with thinking, text
and calls, results ahead of the stop (precommit-safe tools only) and behind it,
abandoned drafts, steers, aborted runs with repairs and late verdicts, summaries
between runs, checkpoints and prunes inside them. What the input hook said of an
input (`user_input_replaced`) is kept in the input's record: it was `kept`,
whatever its words became, or `vetoed`, and then renders nothing. `EnterLoop` is
the loop's beginning, by a run or by the resume behind a `Crash`, where the hook
is asked about the newest input if it has not spoken. `read` is a safe tool results can be cleared, `memo` one whose results are tagged do-not-compact.

`Fork` continues as the session that was cut from the log, at the end of any of
its runs and while the parent may be in the middle of another; `origin` is where
it was cut, until its first input has told the model. So `RequestsAreWhole` and
`RequestsExtend` speak of forks and of forks of forks too: summaries, prunes,
verdicts and repairs behind the cut are gone, and the first request extends the
parent's last one of what was kept. A wake's notice in a fork, which is no
person's input and never tells it, is left out.

### ObservedFile

The tools that change a file read the log back: the revision a call cites is the
last one the *projected* log shows of that file, and a write needs one the model
was shown whole. `ObservedFile` has one file, a model's calls on it, programs
outside that write or remove it between and within the calls, compaction that
takes the oldest results away, calls of one turn that look before an earlier
result is stored, reads that overtake a write, and a disk that refuses. An
assumption of `MCContext` checks, behind every history of up to four steps (three
for the refusals): a call replaces only what the model was shown or wrote,
and whole only what it knew whole (`NoLostUpdate`, but for the instant between
the last check and the rename, which `wr1.ts` disclaims); a refusal changed
nothing (`RefusalsDidNothing`); a refusal says enough to go on (`NeverStuck`).
Four steps are enough for a read, a change by each side and a call that decides.
A revision is a content here, as it is in the code, and each outside write is a
new one: a program that puts an earlier content back between two calls of a turn
gets a change of its own in between written over, by a write whose citation
matches again. Left out: protected files, paths that leave the workspace (one
case, `moved`), several hunks of an edit, modes and line endings.

Left out: inputs of the runtime, which skip the hook; explicit message boundaries, continuation envelopes,
the `compacted` events of old releases; permissions, receipts and usage, which
render nothing. A crash within a turn is its abandoned draft, and the resume enters the loop;
behind the stop it is modelled where no call is left to settle.
A repaired result carries no tag. `CallIds` is empty when no provider repeats
the name of a call, and `DecidesFirst` is TRUE when an uncertain execution is
decided on before the next request, which the terminal sees to.

### TLC's instances

The bounds and why they are enough:

* **Calls.** Two calls of one turn meet at every gate; three are needed where
  a middle call opens a fence between the other two (`kernel_schedule`,
  `MCKernelOvertake.cfg`). In `Recovery` one call exercises every clause of the
  plan about a call; two make the plan choose between clauses.
* **Tools.** `read` is shared and precommit-safe, `fetch` shared, `write`
  exclusive: the three classes the gates distinguish.
* **Window.** 1, so that two calls contend, or 4, so that the window never
  hides a fault of the barrier.
* **Turns and retries.** Two turns and one retry: state left by one attempt
  meets the next.
* **Breaks** (crashes and abandoned iterators). One crash after any event
  reaches every prefix. Two, which cut a resume itself, pass by hand over one run
  of one call with every fault but the abort (`MCRecoveryInterrupted.cfg`,
  339 479 states). **Runs.** Two: what a
  terminated run leaves behind for the next.
* **Writers.** Three in two processes: two that share a process and its rules,
  one that does not; four lock identities, so that one writer or a restarted
  process acquires twice behind an old lock. **Log.** Two events: a second
  append meets a first of its own or of a rival. **Faults.** One kill or failed
  write.
* **`service`.** Three requests and three runs: one request that is overtaken at
  its await by a second, and a third that meets what they left. Two session
  objects, the second behind a `reopen`.
* **`stream`.** Three events, of which one falls into the replay, one into the
  gap between connections and one behind it; two connections of one client,
  which follows or asks for one turn; one death.
* **`tasks`.** One command and one child agent: an end of each kind, and a group.
  One wake and one turn of a person: the budget is spent and refilled. A third
  task adds no new kind of end (`{a, b}` as agents passes by hand, 5.2 million
  states).
* **`chat`.** Three lines: one in the run, one behind it, one that overtakes. Two
  entries, one notice, one throwing run or refused switch.
* **`context`.** Nine events with three inputs, of which the hook vetoes one, two
  calls an attempt, one thought and one text, one abandoned attempt and two cuts:
  a call answered ahead of its stop beside one behind it, in a turn that a cut
  keeps or covers. Ten events pass by hand (5.6 million states), and eleven
  without a hook (`HookSays = {}`, 2.8 million).

## 3. Runs

| Run | Shows |
|---|---|
| `kernel_schedule` | three calls contend for a window of one: types, `SpeculationIsSafe`, `BarrierHolds`, `AsksResolveFirst`, `WindowAccounting`, with a compaction point before the request |
| `kernel_faults` | two calls, an abort at any moment, a refusing store, a throwing hook, a retry: `NoEffectBeforeIntent`, `VerdictsRecordedOnce`, `ExecutionsSettled`, `KernelLoop` implements `TurnLog` (`ImplementsTurnLog`), and the liveness `AbortEndsRun` although no human answers |
| `kernel_turns` | two turns of two calls behind a policy chain, an admitted input, END_TURN and an abort: `NextRequestAnswersCalls`, `DraftsSettled` |
| `recovery_one_call` | one call behind a chain of two policies and a human, two runs, an abort, and a crash or a consumer that leaves anywhere: `HandlerAtMostOnce`, `ApprovedBeforeEffect`, `OneOfEach`, `RefusalMeansNoEffect`, and the liveness `OpenRunEnds` |
| `recovery_two_calls` | two calls of one turn behind a chain of two policies and a human, a mid-stream retry and a crash: `CommitBeforeEffect`, `RequestsAnswerCalls` |
| `store` | three writers in two processes over one file, locks of dead and of reused pids, a kill or a failed write anywhere: `OneWriter`, `LogIsContiguous` (every load succeeds), `CommittedStays` (a step never cuts a committed line), `MemoryIsOnDisk` (a session that may write has missed nothing) |
| `service` | three requests to one hosted session, over an open run of an earlier process: `OneOpenRun`, `RunsAreKnown` (the run that holds its object's slot is the one abort, steer and drain look at), `SteersHaveOneFate` (an input a run took is in its ingress, in the log or handed back), and the liveness `RunsEnd` |
| `stream` | a follower or a caller over two connections, a death of the process, answers on the side: `SeenOnceInOrder`, `MissesNothing` (but the two exceptions it names), `RunStreamIsWhole`, and the liveness `CatchesUp` |
| `tasks` | a command and a child agent end, are stopped, lose their runner or outlive a crash, beside runs that begin, admit, seal and settle: `ToldOnce` (but at the two moments it names), `NothingForgotten`, and the liveness `EndsComeToRest` |
| `chat` | three lines and a wake at a terminal or in a pipe, steered, redirected, taken back, with runs that throw, a recovery and a switch: `InOnePlace`, `AnsweredWhereAimed`, `AnsweredInOrder`, and the liveness `ComesToRest` |
| `context` | every log of up to nine events with an input hook, its veto, crashes and forks, and each request made from it: `RequestsAreWhole` (calls and results pair; everything behind the summary is shown once; the latest memo is kept) and `RequestsExtend` (a request extends the one before until a cut) |

The aborts are left out of `recovery_two_calls` because of what
`MCRecoveryAbortedWait.cfg` shows below: with them `RequestsAnswerCalls` does not hold.
The retry is left out of `recovery_one_call` for the size alone.

### Where the code does something else

One run expects a violation: it checks one sentence of the documentation, and
TLC's trace shows what the code does.

| Run | Sentence | What happens |
|---|---|---|
| `recovery_voided_executes` | docs/sdk.md:163: a commit-required call inside a voided range never executes | the stop of a retried attempt makes the plan take the voided call for a committed one |

More disagreements have a configuration to run by hand, or, in the last column,
the constants to give the configuration of the run above. TLC refutes each in
seconds.

| Property | Sentence | What happens | Configuration |
|---|---|---|---|
| `NextRequestAnswersCalls` | `loop.ts:394`: the signal re-arms after each abandon | the overflow path does not re-arm: the retried turn's calls bail without a result and the next request carries them | `MCKernelOverflow.cfg` |
| `ExclusiveInOrder` | ADR-0052: an exclusive invocation blocks all later siblings from overtaking it | a denied exclusive call resolves its place in the barrier at once (`loop.ts:617`); the call behind it runs beside the call before it | `MCKernelOvertake.cfg` |
| `NoStartAfterVoid` | `loop.ts:323`: calls not started when the void signal fires bail without a started event | a STARTED already queued, or of a call that waits for the window, is appended by the abandon's drain | `MCKernelVoidStart.cfg` |
| `EndTurnHonoured` | docs/extensions.md:497: a result tagged END_TURN ends the run once its batch has settled | a precommit-safe call's result may land before its turn's stop, where the scan (`loop.ts:645`) stops looking | `MCKernelEndTurn.cfg` |
| `RequestsAnswerCalls` | `session.ts:380`: no dangling tool_use reaches a provider | an aborted resume leaves a receipted call without its result, and a started call counts as answered ever after | `MCRecoveryAbortedWait.cfg` |
| `StoredOnce` | `run.ts:417`: re-announced events must never be written again | a request the resume itself wrote is yielded and stored a second time: the store refuses, the session is poisoned | `MCRecoveryReannounce.cfg` |
| `TerminalIsLast` | docs/durability.md:71: the terminal is a run's last event | the verdict flush (`session.ts:1573`), the repair of aborted calls (`session.ts:387`) and the expiry of dangling requests (`run.ts:404`) write on a terminated run | `MCRecoveryTerminal.cfg` |
| `LogIsContiguous` | ADR-0050:96: in the displacement cascade, exactly one writer at every instant | the possession check and the write are two file-system calls: a holder displaced between them writes beside the third process, both the same seq, and every later load throws | `MCStoreTwoWriters.cfg` |
| `DrainedStartsNothing` | `service.ts`, drain: stop accepting runs | a run that read the flag ahead of its await starts behind the drain | `MCServiceDrain.cfg` |
| `SettledTellsItsRun` | the host is told the outcome of the run that settled | a resume that found nothing left to resume writes no terminal, and is reported with the one the log ends with, an earlier run's | `Requests = {"run", "resume", "reopen"}` |
| `LiveIsRegistered` | `service.ts:9`: one run at a time | a turn that waited for the recovery of an open run starts over one that began meanwhile and takes its slot | `Requests = {"run", "runFirst"}` |
| `OneOpenRun` | the same | an answer to no question is written under a run id of its own, which then counts as open | `Requests = {"run", "resume", "approveStray"}` |
| `MissesNothingAtAll` | `tail.ts:7`: exactly once | an answer nobody waits for is appended and delivered to no listener | `MaxDeaths = 0` |
| `SeenIsKept` | `tail.ts:8`: already on disk | the replay reads the log in memory: a client may be given an event that is appended and not yet written, a death takes it, and its seq is used again | `MaxDeaths = 1` |
| `VisibleFate` | `http.ts:154`: unadmitted input always has a visible fate | the service remembers the newest terminal's only: a client that replays past an earlier one is told nothing, nor one whose connection drops in between and resumes behind the terminal | `Kinds` with `"unfinished"` |
| `ListenersLeave` | `http.ts:167`: until the client leaves | a client gone before its listener is registered leaves the listener behind for good | the instance of `stream` |
| `ExactlyOnce` | `delivery.ts`: never in both places | an end flushed into a run that has sealed is buffered again; one announced while the call that started its task is still at it is told by both | the instance of `tasks` |
| `NeverInNeither` | `delivery.ts:38`: never in neither | a person's verdict on an interrupted delegate call is a result that names its execution, and the claim counts as told (`delivery.ts:472`) | the instance of `tasks` |
| `BudgetHolds` | at most the budget's wakes in a row | whether an end may wake is decided when it is noticed and used when it is flushed, behind a wake that spent the budget | the instance of `tasks` |
| `NotRunNeverRan` | `journal.ts`: not_run, the command provably never ran | a runner that speaks after its thirty seconds runs it all the same | the instance of `tasks` |
| `NothingForgotten` | ends are kept until they are told | a wake's turn that is given up leaves its items in flight for ever | `MayDropWake = TRUE` |
| `DepartingAnswersNothing` | `state.ts:706`: no line is answered by the session being left | a line behind a switch command in one read is dispatched there | `MaxLines = 1` |
| `NothingSwallowed` | ADR-0057: handed back, never dropped in silence | a line the run took out of its ingress, and had not logged when it threw, is handed back by nobody | `MaxLines = 2` |
| `RecoveryFirst` | `chat.ts:2039`: recovery before the REPL accepts turns | a redirect or a wake starts a turn beside it | `MaxLines = 2` |
| `AnsweredOnce` | a line is answered once | a redirect also calls the listeners of departed entries | `MaxLines = 1, MaxEntries = 3` |
| `NoneDropped` | `state.ts:706`: none is dropped | a line typed between two entries meets no listener, and a refused switch loses the seed | `MaxLines = 2` |
| `NoTurnAstray` | `chat.ts:2115`: never exit while a turn is in flight | a turn queued behind the second await runs in the entry that has left | `MaxLines = 3` |
| `RequestsAreWhole` | `project.ts:412`: pair atomicity, both or neither | declarations are known by the provider's call id; where one repeats (`aborted-calls.ts:55`), the late result of a voided draft passes for the earlier turn's | `CallIds = {1, 2}` |
| `RequestsExtend` | `project.ts:86`: the same event prefix derives the same message prefix | the same repeated id: that result is sorted in among the earlier turn's, ahead of what the model was shown | `CallIds = {1, 2}, MaxLog = 10, MaxProse = 0, MaxCuts = 1, HookSays = {}` |
| `RequestsAreWhole` | `session.ts:1482`: a dangling tool_use is rejected by providers | a verdict given once the next run has asked puts the result behind another assistant's message | `DecidesFirst = FALSE` |
| `ResultsInCallOrder` | `project.ts:219`: completion order must never enter the projection | the flush at the stop forgets the order of the calls; results behind it come as they complete | `MaxLog = 10, MaxInputs = 2, MaxCuts = 1` |
| `ReasoningInItsTurn` | `project.ts:107`: the reasoning of the turn being built | a turn that only thought hands its reasoning to the next one's message | the same |
| `VetoedRunAsksNothing` | `loop.ts:284`: the provider is never called, even when earlier history exists | a resume looks the veto up only when a user's message comes last; behind a crash between the veto and the terminal, with an answered turn before, it asks the model | `MCContextVeto.cfg` |
| `VetoDropsOneInput` | `loop.ts:253`: a veto of an admitted input drops only that input; a resume decides as the live path did | the resume takes the persisted veto of a steer for its run's own, and ends the run with the input before it unanswered; so it does for a steer admitted ahead of the run's first stop | `MCContextSteer.cfg` |
| `ForkIsSettled` | `fork.ts:60`: an execution still waiting for a verdict belongs to the world the parent ran in: settle it there first | the refusal looks for `uncertain_pending`, which nothing in the repository writes any more: the fork is made, and both sessions ask for the verdict | the instance of `context` |
| `ForkIsTold` | `fork.ts:80`: what a fork's model is told, once, with the fork's first input | the note goes out while the log ends at the cut: a summary, a verdict or a notice ahead of that input, and the model is never told | the same |

The rows of `chat` take `MaxNotices = 0, MaxFaults = 1, MaxEntries = 2` where
nothing else is said, and `Spec` without fairness; the rows of `service`,
`stream` and `tasks` keep the constants of their run.

### Fairness

`AbortEndsRun` assumes weak fairness of the generator, of every launch and
of the consumer: JavaScript runs a settled promise's continuation, and the run
iterates its generator. It assumes nothing of the human, the model or the
tools' results beyond that a handler's promise settles on abort (the tool
context carries the signal).

`OpenRunEnds` assumes weak fairness of the run in progress and of its
handlers, that an open session is resumed and a poisoned one opened again
(`Resume`, `Reopen`: an operator's or a service's restart), and that the human
answers: weakly for a request that stays pending, strongly for an uncertain
execution, which can be resolved only between two refused resumes. Crashes
are bounded by `MaxBreaks`, so eventually the process stays up.

`RunsEnd` assumes weak fairness of each run's own steps, that is, of its
iterator and pump: nothing of the person who is asked (a run that waits for one
is exempt until it is aborted) and nothing of the requests.

`CatchesUp` assumes weak fairness of the write and the delivery of an event, of
every connection's server side and of a follower, which reconnects without a
bound of its own; the connections that drop are bounded, so at last one stays.

`EndsComeToRest` assumes weak fairness of the call that runs, of the host's
turns and the runs they start, of the watcher and of the delivery's timers, and
of the process's start behind a crash. The runners owe nothing: a task that
never ends is not spoken of. Neither does the person, and so ends that rest
with a notice for their next turn or a verdict are at rest.

`ComesToRest` assumes weak fairness of the chain, of the runs, which admit, seal
or throw, of the recovery and of the entry loop; nothing of the keyboard.

## 4. Theorems

Every theorem holds for every value of the constants that the named assumptions
admit (`ConstantsAssumption` of `KernelLoop`: sizes are naturals, the window is
not empty, the tool classes are subsets of the table; `SessionLogAssumption` and
`RecoveryAssumption`: bounds are naturals, kinds and faults are of the named
ones; `ServiceAssumption`: bounds are naturals, an object may be opened, requests
are of the named ones; `StreamAssumption`: bounds are naturals, a client may
connect, nobody both follows and calls; `LinkLockAssumption`,
`SessionStoreAssumption`: pids and bounds are naturals, there is a token, the two
markers are none; `TasksAssumption`, `DeliveryAssumption`: a task is a command or
an agent, bounds are naturals; `TurnChainAssumption`: bounds are naturals), from `Init` and `Next` of the specification alone. Each
proof carries an invariant, which TLC checked on the instances first.

### The kernel loop

| Theorem | Property |
|---|---|
| `KernelLoopProofs!TypeCorrect` | `TypeOK` |
| `WindowIsKept` | `WindowAccounting`: free and held slots make up the window, nobody waits while one is free |
| `IntentBeforeEffect` | `NoEffectBeforeIntent`: a handler runs behind its durable STARTED, also when the store refuses an append and the launches outlive the generator |
| `SafeSpeculation` | `SpeculationIsSafe`: ahead of the stop only a precommit-safe and allowed call starts, and no human is asked |
| `KernelSettleProofs!AsksBeforeEffects` | `AsksResolveFirst`: nothing is asked or executed behind an undecided ask |
| `BarrierIsKept` | `BarrierHolds`: the FIFO barrier is overtaken only past an exclusive call that bailed |
| `OneVerdict` | `VerdictsRecordedOnce` |
| `NothingBehindTheBack` | `ExecutionsSettled` |
| `DraftsAreSettled` | `DraftsSettled` |
| `EveryCallAnswered` | `NextRequestAnswersCalls`, without a compactor: with one it is false (section 3) |
| `LoopImplementsTurnLog` | `ImplementsTurnLog`, without a compactor: with one the log holds `summarized` events, which `TurnLog` does not speak of |

`KernelLoopProofs` carries

    IInv == TypeOK /\ CallsLaunched /\ WindowInv /\ InFlight
            /\ AckedDurable /\ Gated /\ SpeculationIsSafe

* `CallsLaunched`: exactly the calls up to `n` have left `idle`, so a new
  launch disturbs no other.
* `WindowInv`: the held slots are the calls between window and done, counted;
  the FIFO has no duplicates and holds exactly the calls that wait.
* `InFlight`: a STARTED is in the queue, in the log or not yet pushed, according
  to its launch's control point. Without it the generator could acknowledge a
  launch that had pushed nothing.
* `AckedDurable`: an acknowledged launch's STARTED lies in the durable prefix.
  This is where the order of `emit`, the consumer's persist and the
  acknowledgement is used.
* `Gated`: the flags of the commit gate agree with the log: committed only
  behind the attempt's stop.

`KernelSettleProofs` adds `OrderInv`, what the three chains have let through.
`DecidedInOrder` is the decide chain. `AsksInOrder` says that no call is beyond
the ask gate behind an ask the human holds, and that a later ask that is over
bailed with the void turn: the gate lets a launch through once the asks before
it are `done`, so the proof needs that none of them is done too early.
`BarrierInOrder` speaks of calls behind the barrier *and* of calls that ever
started, because what `BarrierHolds` forbids is to have run together, and
`Yields` names the one way past it: an exclusive call between the two that
bailed and released its place.

It adds `SettleInv`, about what is on its way to the log.
`In(log, E)` and `Traced(E)` (in the log or in the queue) follow each event from
the launch that pushes it: a verdict is traced once from the moment its launch
leaves the decision, a result from the moment the launch is done, unless the
turn is void or failed (`VerdictInv`, `ExecInv`). `AttemptInv` ties the flags of
an attempt to the generator's control point (a new attempt's flags are fresh;
where the loop goes on all launches are done and the queue is drained; a stop of
the attempt has set the commit flag). `DraftInv` says at which control points
the model's last output may lack its stop or marker: only inside an attempt, and
an abandon never finds a call that has started and needed the commit. `AnswerInv`
separates the calls of the attempt under way from those before it. It needs
`VoidInv`, that a voided turn is over or retried with the signal re-armed, which
the overflow path breaks.

Each part has one lemma for the generator's steps, one for the launches' and one
for the environment's; the theorems follow by PTL.

The refinement is the proof the others lead up to: it says of every schedule of
the launches what `Recovery` then takes for granted of a run. It rests on all of
the above and on

    TurnInv == RankInv /\ FactInv /\ PairInv /\ CallsDeclared
               /\ (~Compacts => Segments /\ AnsweredInv)

* `RankInv`: the events of one call are written in one order (request, decision,
  STARTED, receipt, result), in the log, in the queue and from the one to the
  other, and none is beyond the control point its launch has reached. The queue
  mixes the calls freely; this is the order that is left, and it is what turns
  "`TurnLog` allows this event only before that one" into a fact about the head
  of the queue.
* `FactInv`: what the loop remembers of a call agrees with its events: behind the
  barrier the call was allowed, by the policy or by a human whose decision is
  traced; a result without a receipt is that of a refused call that never began.
* `PairInv`: a receipt's result comes right behind it; while the log holds the
  one and not the other, the result is the head of the queue and the generator
  does nothing but drain. This is why `TurnLog` may close every other action there.
* `CallsDeclared`: `seq` points at the call's event, each launched call has one,
  its events come behind it, and what is queued is of this attempt's calls.
* `Segments`: the log attempt by attempt: this attempt's part holds neither a
  marker nor an input while it streams, it begins with output, it is closed where
  the loop goes on, and between output and a later input lies a stop or a marker.
  From this a marker's range, which the mapping reads back from the log
  (`VoidFrom`), is the attempt (`VoidsAttempt`), and a call that `TurnLog` counts
  as committed is one whose first boundary is a stop (`CommittedThere`).
* `AnsweredInv`: before an input, a request and every terminal but an abort's,
  each committed call has its result.

`TurnInvariance` proves it inductive. The mapping itself then has to stay put:
what `Mapped` reads of an event once written (a verdict, an answer, a tool,
whether the call began) does not change any more (`MainKeepsMapped`,
`LaunchKeepsMapped`, `EnvKeepsMapped`), so that a step of a launch or of the
environment is a stutter, and one of the generator appends one event at most.
`ReadHas`, `ReadCalls`, `ReadWhole` and `ReadDecision` translate what `TurnLog`
reads off the mapped log, and there is one lemma for each action it takes:
`InputRefines`, `BeginRefines`, `DeltaRefines`, `CallRefines`, `StopRefines`,
`VoidRefines`, `TerminalRefines`, and `DrainRefines` for the six events of a call.

### A session across crashes

| Theorem | Property |
|---|---|
| `RecoveryProofs!RecoveryTypes` | `TypeOK` |
| `HandlersRunOnce` | `HandlerAtMostOnce`: once, in however many processes the run is resumed |
| `EffectsApproved` | `ApprovedBeforeEffect` |
| `EffectsCommitted` | `CommitBeforeEffect` |
| `FactsWrittenOnce` | `OneOfEach` |
| `RefusalsTrue` | `RefusalMeansNoEffect` |
| `RecoveryInvariance` | the invariant they rest on |
| `CallsAnswered` | `RequestsAnswerCalls`, where nobody aborts |

All but the last hold for any number of runs, calls, crashes and policies and with
every fault; the last with every fault but the abort, under which the property is
false (section 3). The invariant is `RInv == TypeOK /\ LogInv /\ ProcInv`.

`LogInv` speaks of the log alone, because the log is all that a crash leaves.
`RunsInOrder`: every run before the current one has its terminal, and what only
the run in progress writes (`LoopTypes`) stands in the order of the runs. Verdicts,
results and expiries do not: they may be written on a terminated run
(`TerminalIsLast` is false), and the proof shows that this harms nothing. It is
also what makes the plan's scope, the records of one run, as good as the whole
log: between a call of the run and a later stop of it no other run's input can
stand (`CommittedTurn`), and a stored request is of the run that is resumed
(`RequestTurn`). `CallsInOrder`, `WrittenOnce`: calls are numbered as they are
declared, and each fact of a call is written once. `Authorized`: a call has either
a policy's decision or a request and a human's, it starts undenied, and behind
the human's approval if there was a request. `Truthful` holds a result against
the rest: a refusal means that no STARTED stands anywhere, and a call with a
request and a result has started, was denied, or lost its run, the clause without
which a resume could start a call that the repair of an aborted run has answered.
`Stopped`: a start of a tool that is not precommit-safe, and a request, stand
behind a stop of the call's own turn.

`ProcInv` says how far the process is: the run in progress has its input and, in
the recovery driver, no terminal (`Entered`); the call a step of several events is
about (`Midway`: the handler that is about to run has its STARTED and no result);
a resolver or a submitted verdict has its request (`Asked`); a handler runs behind
its STARTED and only if it has not (`RunsOnce`); and each call the live loop
declared is being streamed, was stopped in its turn or was voided (`OwnTurns`),
from which the commit that `TurnLog` reads off the log becomes the stop that
`Stopped` wants.

`Extends(e)` collects what a step must know of the event it appends. One lemma
says that such an event keeps `LogInv` (`LogGrows`); the `May...Planned` lemmas
derive it for the driver's steps from the clause of the plan that named them, and
`LiveCallStep` and its neighbours for the loop's steps from `TurnLog`.

`CallsAnswered` says more: not that what the recovery plan names is right, but that
it names all there is to do. A call `Rests` when it is void or has its result, and
`AnswersInv`, beside `RInv`, carries what makes every call rest when a model is
asked. The calls of a terminated run rest (`EndedRest`). A call left behind a
boundary rests, has started, or was stopped in its own turn
(`LeftBehind`): a crash leaves nothing else there, so a clause of the plan names it.
What the loop was entered with, or has sent, rests (`SentRest`), and a fresh run
starts at rest (`FreshRest`). A receipt or a human's resolution carries the run of
its call (`FilledInRun`), so the plan, which reads one run's records, finds it. And
the driver plans from the records it loaded: since then it has written no turn, and
a receipt only with its result or the result next (`SinceLoaded`, `OfRun`).
`PlanContinues` reads off the plan that `CONTINUE_MODEL` leaves no step due, and
`PlanRests` concludes that then every call rests: this is where the driver enters
the loop. `TurnsRest` says the same of the loop between two turns. `QuietStep` and
`AppendStep` keep the invariant for a step that writes nothing and for one that
writes an event that `Settling` admits, `RestGrows` its part about the log.

### A session's file

| Theorem | Property |
|---|---|
| `SessionStoreProofs!StoreTypes` | `TypeOK`, with any number of processes |
| `WritersTakeTurns` | `OneWriter` |
| `LoadsSucceed` | `LogIsContiguous` |
| `MemoryIsWritten` | `MemoryIsOnDisk` |
| `LinesStay` | `CommittedStays` |
| `StoreInvariance` | the invariant the four rest on |

All but the first assume `TwoPids` and `~DieAside`: the writers, as many as there
are, live in at most two processes, and neither is killed while it has the other's
living lock moved away. Both assumptions are needed: with a third process, or with
such a death, two writers meet (section 3). Under them the theorems hold for any
number of store instances, takeovers, deaths, restarts under the same pid and
failed writes, and over any residue of an earlier process.

* `TokenInv`, `HeldInv`: a token has one owner, who wrote its own pid beside it,
  and a process knows exactly the tokens of its writers. A token somebody judged
  takeable is nobody's (`TakeableIsFree`) and stays so, because tokens are never
  used again.
* `WriterInv`: the lock of a writer inside an append is at the path, or it is
  `Displaced`: a rival of the other process has moved it away and stands before the
  comparison that puts it back. In between nobody can take the free path: the
  writer's process is inside its append, the rival's inside its takeover, and those
  are synchronous sections (`DisplacerSteps`, where a third process would do). So a
  lock that was verified by one writer is not verified by another before the first
  has written.
* `FileInv`: each session's memory is the beginning of the file, but for the event
  it is carrying there (`Behind`); between a comparison and its write the file ends
  cleanly, one event short of the memory; a cut is at the file's length. What one
  writer knows of the file stays true because no other is inside an append.

### A hosted session

| Theorem | Property |
|---|---|
| `SessionServiceProofs!ServiceTypes` | `TypeOK` |
| `RunsFollowEachOther` | `OneOpenRun`, where nobody answers a decision the log does not know |
| `LiveRunKnown` | `RunsAreKnown` |
| `SteersKeepOneFate` | `SteersHaveOneFate` |

They hold for any number of requests, runs, objects and inputs. The first and the
last two admit every kind of request. `RunsFollowEachOther` assumes
`"approveStray" \notin Requests`: `approve()` writes an answer to no question under
a run id of its own, which nothing ends, and `OneOpenRun` is false with it
(section 3). All rest on `Basics` (`ServiceBasics`), whose part `Mirrors` is what
makes the store's check of a sequence number strong: the log of an object that
the store has refused nothing is a part of the store's. So an object whose next
number fits (`Fits`) does not only count as many lines as the store, it has the
same lines, and what `run()` and the resume decided by looking at the object's own
log is true of the store's.

* `Turns`: a run between its first await and its terminal holds its object's
  slot (`Holds`); if its object still fits, the store has no open line while the
  run is being made (`StartsClear`) and only the run's own afterwards
  (`WritesItsOwn`). Two objects on one log may both have a run under way. They
  cannot both go on writing: the first line of one makes the other stop fitting,
  and the object that does not fit is poisoned at its next write.
* `LiveRunKnown` is inductive with the links of `Basics` alone. Its exception names
  a turn that waited while an earlier run was resumed and asked nothing again.
* `Fates`: an input is at one of four places (with a run, handed back, in the store,
  or only in the log of a poisoned object) and at one spot of it (`At`), and it is
  at one exactly when `steer()` has accepted it. Each action is shown to move
  inputs from one place to another; the property's sums of cardinalities follow.

### A client's stream

| Theorem | Property |
|---|---|
| `EventStreamProofs!StreamTypes` | `TypeOK` |
| `EventsOnceInOrder` | `SeenOnceInOrder` |
| `NothingMissed` | `MissesNothing` |
| `TurnsAreWhole` | `RunStreamIsWhole` |
| `StreamInv` | the invariant the four rest on |

They hold for any number of clients, connections, deaths and events, and for
every kind of event and of answer. `Logged` makes an event's seq its place in the
log. `PumpInv` says what the listeners have been told (`Told`): all but an answer
to nobody and the one event between its append and its delivery (`Pending`), and
all of that is in the store, which is why a death can cut only the event no
listener was told of, or answers: a client knows such an event from a replay.

* `InOrder` is the order on one connection: the frames on the wire, then the
  events whose frames wait, each part rising, all newer than `lastSeq` and none
  newer than `sent`. A client takes its newest from the wire, so what it has
  stays below what follows, and the next connection starts at `lastSeq`.
* `Coming` and `Kept` are the seam of `tail`: what the replay does not hold any
  more is in the buffer, and the buffer rises. `OfLog` says that the replay is the
  log's next stretch.
* `ReachInv`: each event up to the newest that was sent (`Reach`) is with the
  client or on its way (`Piped`), or is one of the exceptions that `MissesNothing`
  names. When a connection drops, `Reach` falls back to `lastSeq`, and what was on
  its way is newer than that. A death can leave `lastSeq` above the log's end:
  the seqs in between are all of events the client has and the log has not
  (`Replaced`).
* `TurnOf`, of a client that called: its run is under way or its end is in the log
  behind `from`, and no answer to nobody lies between the two. With `ReachInv`,
  what it has received then is the whole turn.

`Flushed`, the events the seam sends from the buffer, is a recursive function.
`FlushedFacts` proves what is needed of it by a least counterexample among the
numbers up to the buffer's length (`SmallestOf`), because the library's induction
rules cannot be instantiated here.

### The end of a background task

| Theorem | Property |
|---|---|
| `TaskDeliveryProofs!TasksTypeCorrect` | `TypeOK`, whatever turn the host gives up |
| `EndsNotForgotten` | `NothingForgotten`, where no wake's turn is given up ahead of its input |
| `EndsToldOnce` | `ToldOnce`, whatever turn the host gives up |

They hold for any number of commands, agents, turns, wakes, crashes and faults.
`EndsNotForgotten` assumes `~MayDropWake`: without it the property is false (section
3), because the items of a wake's turn that is given up stay in flight and are in
no notice any more. Its invariant is

    IInv == TypeOK /\ JournalInv /\ CallInv /\ HostInv /\ FlightInv /\ CoverInv

* `JournalInv`: what a journal holds goes with its runner (a terminal is written
  by a runner that ends), and what the watcher has seen of a task is in the
  journal. It makes an announced end final: a step of the tasks never turns it
  into another one the watcher has seen (`Stands`).
* `CallInv`: a call belongs to a live run; agents are waited for by the delegate
  call alone, and its result tells every end it claimed. So a delivered group
  leaves out (`ToldByResult`) only ends that are in a result, or whose call a
  person resolved.
* `HostInv`: only a wake's turn carries items, up to its run's first input. A run
  that is given up ahead of that input therefore loses nothing, unless it is a
  wake's.
* `FlightInv`: what is in flight is in a turn of the host's queue, in a run's
  input or in its ingress (`Riding`). The delivery leaves an item out of a notice
  *because* it is in flight; this conjunct says that the item will arrive.
* `CoverInv` is the property itself, over the set of items an end may have come to
  (`Reach`).

`Hand`, `Pump`, `DeliverGroup` and `Groups` are functions of what the delivery
holds. `Goes(s, r)` is what each of them guarantees, that nothing held is lost, that
what is newly in flight rides, and it composes; the `...Goes` lemmas derive it for
the steps, and `Advances` says what follows for the invariant.

`EndsToldOnce` has an invariant of its own, `OnceInv`, beside
`CallsInv == TypeOK /\ JournalInv /\ CallInv`. Nothing forgotten asks that an item
is *somewhere*; told once asks that it is in *one* place, so `OnceInv` counts.

* `Sound`: over what has been noticed, the first input of the run, what is
  pending, the host's queue and the ingress, an item is there once at most
  (`Plains` are the tasks the property makes no exception for). What rides is in
  flight, which is why it is not handed out again. All that is held is `Said`, the
  end its task has come to and stays at, and `Free`, no call has claimed it and
  none that still waits can.
* `Grouping`: as long as no runner of the group is slow, an agent's end is in a
  bundle with no other agent's (`Lone`), or the group has been delivered (`Done`).
  The group's notice takes the place of the single ones, and nothing comes after it.
* `BesideInv` and `BufferInv`: the same for what is noticed, in the first input, or
  in the window: a shell's end is in it once, and the watcher has seen it.
* `WaitInv` and `ClaimInv` are the two sides of a call that takes an end for its
  result. While it waits it has claimed nothing and waits for what still runs;
  once it has claimed an end, the watcher has seen that end, so that no announcement
  follows.
* `SeenInv` and `DownInv`: a task the watcher holds for lost is one the journal
  gives no end of, and a process that is not up holds nothing.

`HoldsSound`, `HandSound`, `PumpSound`, `DeliverSound` and `GroupsSound` carry
`Sound` through the delivery's functions. `SettledStays` and `FreeStays` say that
what an item says of its task, and of its calls, is final; `OnceStep` puts the steps
together.

### The lines of a chat

| Theorem | Property |
|---|---|
| `TurnChainProofs!ChatTypeCorrect` | `TypeOK` |
| `LinesInOnePlace` | `InOnePlace` |
| `LinesAnsweredWhereAimed` | `AnsweredWhereAimed` |
| `PipesAnsweredInOrder` | `AnsweredInOrder` |

They hold for any number of lines, entries, notices and faults. The invariant has
three parts.

* `RunShape`, `EntryShape`, `ChainShape` say what may wait where: a run that is
  sealed has an empty ingress; a segment that ends an entry stands in the chain of
  one that leaves, a switch that waits in one that does not; lines are queued
  only while the entry is not ready or is being left.
* `Mirrored`: the terminal's mirror of the steers agrees *from the end* with what
  the run has not admitted. A stop takes lines back by counting from the end, so
  that is what keeps a line from being run twice or lost when mirror and ingress
  have drifted apart (`unmirrored`).
* `Placed`, `AimedAll`, `PipeOrder` are the properties over every place a line
  passes. `Everywhere[l]` counts `l` in all of them, with its multiplicity, and a
  step moves what it takes from one place to at most one other. `AimedAll` gives
  each place the session its lines are for, which makes the entry's departure
  the step that matters: everything in the chain, the segment and the run is of
  the session that is left. `PipeOrder` puts the places in a row: the log, the
  segment, the chain, the queue.

### What the proofs asked of the model

In TLA+ a `CASE` with two true guards may take either arm, and TLC takes the
first. `SessionService` (`Start`), `ProviderStreams` (`ChatCall`, `ChatChunk`) and
`TaskManager` (`Verdict`, `EndName`) had such guards; they are disjoint now, in the
order in which the code asks its conditions.

`EventStream` states the type of a connection as a set of records (`Response`)
instead of a quantifier over its fields, and names two steps that were written
inside their actions: `FramesOf`, an event's frames, and `Flushed`, which was a
fold with an operator for an argument. `SeenOnceInOrder` compares the events in
place, without filtering the sequence first. The kinds of event are single words,
because a string with a space in it does not reach the solver.

`SessionStore` cut a file beyond its end, where `SubSeq` says nothing, if a rival
had cut it in between (with three processes it can): the file is filled up there
(`Cut`). `LinkLockAssumption` wants one token at least, for the lock that `Init` may
find.

`TaskDelivery` and `TurnChain` filtered sequences with `SelectSeq` and summed them
with a fold, whose recursion is out of the provers' sight; `Keep(s, S)` and
`All(bags)` are recursive functions now, with a set in place of a test. Their
`TypeOK` states the types of queues and runs as sets of sequences and records.

### Only model-checked

* `RequestsAreWhole` and the action property of `Context`, `RequestsExtend`: `Messages` is one
  recursive pass over the log that also sorts each turn's results, and what it
  computes for every log would take an induction whose theorem the installed provers
  cannot instantiate. Neither would hold for all constants: where call ids repeat
  (`CallIds` not empty) TLC finds both violated (§3), and `RequestsAreWhole` where
  `DecidesFirst` is false.
* The liveness properties: temporal reasoning under fairness is outside the
  prover's reach.

Neither checked nor proved: that `KernelLoop` with a compactor keeps to a turn log.
`TurnLog` has no `summarized` event, so nothing states it; the other theorems about
the loop, but for `EveryCallAnswered`, hold with a compactor too.

## 5. Plan

Done: `KernelLoop` and its proofs, `TurnLog`/`KernelRefinement`,
`SessionLog`/`Recovery` and its proofs, `LinkLock`/`SessionStore` and their proofs,
`SessionService` and its proofs, `EventStream` and its proofs,
`TaskManager`/`TaskDelivery` and `TurnChain` and their proofs, `Projection`/`Context`,
the theorem that `KernelLoop` implements `TurnLog`, `ApprovalChain`, `StreamGuards`, `ProviderStreams`, `ObservedFile`.

A module that may follow: several session ids of one service that share a store.

## 6. Not modelled

Requests to providers and their catalogue data, rendering (terminal, web), key
decoding, command parsing, the request trace, evaluations, file formats of trust
and profile documents, the tools that search and list, the shell. They keep no
state of the durable protocol, and they are most of the repository's lines: the
compositor, the cells and the editor of the terminal alone are some nine
thousand. `KernelLoop`
takes the approval chain's verdict and the way a stream ends as a choice, which
is what `ApprovalChain` and `StreamGuards` leave open. The HTTP surface maps
service errors to status codes. `PROJECT.json` ("components") gives the status
of each part.
