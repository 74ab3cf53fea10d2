------------------------------- MODULE Recovery -------------------------------
(***************************************************************************)
(* A session across crashes: the runs of packages/runtime/src/run.ts, the  *)
(* recovery plan (recovery-plan.ts) its driver consumes, the human's       *)
(* answers (session.ts: approve, resolveUncertain, flushPendingVerdicts)   *)
(* and the repair of aborted calls (aborted-calls.ts).                     *)
(*                                                                         *)
(* One process at a time owns the session; `log' is what it has stored and *)
(* all that a crash leaves.  An append and its fsync are one step: nobody  *)
(* acts on an event before it is durable (run.ts persists, then yields),   *)
(* so a crash that loses an event is a crash before its append.  The one   *)
(* exception, a direct verdict the driver reads from memory, is stored     *)
(* ahead of everything the driver then appends.  A fresh run and the       *)
(* continuation of a resumed one call the kernel's loop, of which          *)
(* TurnLog says what it may write.                                         *)
(***************************************************************************)
EXTENDS SessionLog, ApprovalChain

CONSTANTS
  MaxRuns,        \* bound on the runs of the session
  MaxBreaks,      \* bound on the crashes and on the consumer leaving a run
  MaxInputs,      \* bound on the inputs of the session
  MaxTurns,       \* bound on the stops of the session
  MaxVoids,       \* bound on the attempts the live loop itself gives up
  Policies,       \* the approval policies of the extensions; with none, the
                  \* hooks or the default decide
  Faults          \* "abort": the user aborts; "leave": the consumer abandons
                  \* the run; "hook": a throwing hook fails it

ASSUME RecoveryAssumption ==
  /\ MaxRuns \in Nat /\ MaxBreaks \in Nat /\ MaxInputs \in Nat
  /\ MaxTurns \in Nat /\ MaxVoids \in Nat
  /\ Policies \in Nat /\ Faults \subseteq {"abort", "leave", "hook"}

\* No policies, no chain.
PolicyChain == Policies > 0

VARIABLES
  run, entry, turnStart,  \* of the loop: see TurnLog; for the recovery driver
                  \* too, `entry' is the log's length when it started
  proc,           \* the control point of the run in progress, or "idle"
  base,           \* the records it loaded
  current,        \* the call a step of several events is about
  aborted,
  resolvers,      \* calls whose request a live resolver waits for
  verdicts,       \* submitted to a resolver, not known to be written
  busy,           \* started executions whose handler has not run yet
  ran,            \* how often a call's handler ran, in any process
  breaks

loopVars == <<run, entry, turnStart>>
humanVars == <<resolvers, verdicts>>
vars == <<log, loopVars, proc, base, current,
          aborted, humanVars, busy, ran, breaks>>

Points == {"idle", "fresh", "resume", "derive", "check", "wait",
           "started", "ran", "result", "live", "flush", "fill", "poisoned"}

TypeOK ==
  /\ log \in Seq(Event)
  /\ run \in Nat /\ entry \in Nat /\ turnStart \in Nat
  /\ proc \in Points
  /\ base \in 0..Len(log)
  /\ current \in 0..MaxCalls /\ aborted \in BOOLEAN
  /\ resolvers \subseteq Calls
  /\ verdicts \in [Calls -> {"none", "humanAllow", "humanDeny"}]
  /\ busy \subseteq Calls /\ ran \in [Calls -> Nat] /\ breaks \in Nat

Loop == INSTANCE TurnLog

(***************************************************************************)
(* What the store and the plan read off the log.                           *)
(***************************************************************************)

Least(S) == CHOOSE i \in S : \A j \in S : i <= j
Greatest(S) == CHOOSE i \in S : \A j \in S : i >= j
Count(t) == Cardinality({i \in DOMAIN log : log[i].type = t})

Terminated(r) == \E i \in DOMAIN log : log[i].type = "terminal" /\ log[i].run = r
OpenRuns == {log[i].run : i \in DOMAIN log} \ {r \in 1..MaxRuns : Terminated(r)}

\* The open run's records, and with them all that was appended since.
Scope == {i \in 1..base : log[i].run = run}
OpenEvents ==
  LET last == Greatest(Scope) IN Scope \cup {i \in DOMAIN log : i > last}

IsBoundary(i) == log[i].type \in {"stop", "user_input", "terminal",
                                  "model_output_abandoned"}
LastBoundary == Greatest({i \in OpenEvents : IsBoundary(i)})

\* Model output after the last boundary; an executed call is not a draft.
Draft ==
  LET boundary == LastBoundary IN
  \E i \in OpenEvents :
    /\ i > boundary
    /\ \/ log[i].type = "text"
       \/ /\ log[i].type = "tool_call_end"
          /\ ~Has("tool_execution_started", log[i].call)

Uncertain(c) ==
  /\ Has("tool_execution_started", c)
  /\ ~Has("tool_execution_receipt", c) /\ ~Has("tool_execution_resolved", c)

InStoppedTurn_AnyCall(c) == Position(c) \in Scope

\* The boundary clause: a stop stands after the call in its turn.
InStoppedTurn(c) ==
  LET at == Position(c) IN
  /\ at \in Scope
  /\ \E i \in Scope :
       /\ log[i].type = "stop" /\ at < i
       /\ \A j \in Scope : log[j].type = "user_input" => ~(at < j /\ j < i)

Needs_RunsAgain(c, undecided, decision) ==
  IF ~Has("permission_decided", c) THEN undecided
  ELSE IF HasTag("permission_decided", c, decision) /\ ~Has("tool_result", c)
  THEN "EXECUTE"
  ELSE IF Has("tool_result", c) THEN "nothing" ELSE "REPAIR_RESULT"

Needs_DenialSettles(c, undecided, decision) ==
  IF ~Has("permission_decided", c) THEN undecided
  ELSE IF HasTag("permission_decided", c, decision) /\ ~Has("tool_execution_started", c)
  THEN "EXECUTE" ELSE "nothing"

\* What a call or a request with this decision still needs.
Needs(c, undecided, decision) ==
  IF ~Has("permission_decided", c) THEN undecided
  ELSE IF HasTag("permission_decided", c, decision)
  THEN IF Has("tool_execution_started", c) THEN "nothing" ELSE "EXECUTE"
  ELSE IF Has("tool_result", c) THEN "nothing" ELSE "REPAIR_RESULT"

CommittedCallNeeds_OverRequest(c) ==
  IF ~InStoppedTurn(c) \/ Has("tool_result", c) \/ Has("tool_execution_started", c)
  THEN "nothing" ELSE Needs(c, "DECIDE_PERMISSION", "policyAllow")

CommittedCallNeeds_Reopens(c) ==
  IF ~InStoppedTurn(c) \/ Has("permission_requested", c) \/ Has("tool_execution_started", c)
  THEN "nothing" ELSE Needs(c, "DECIDE_PERMISSION", "policyAllow")

\* A stored request owns its call; a result closes it; a started execution
\* without a decision passed the permission gate of the live run.
CommittedCallNeeds(c) ==
  IF \/ ~InStoppedTurn(c) \/ Has("permission_requested", c) \/ Has("tool_result", c)
     \/ ~Has("permission_decided", c) /\ Has("tool_execution_started", c)
  THEN "nothing" ELSE Needs(c, "DECIDE_PERMISSION", "policyAllow")

StoredRequest(i) ==
  /\ log[i].type = "permission_requested"
  /\ i \in Scope \/ i > Greatest(Scope)
RequestNeeds(c) ==
  IF Voided(c) THEN "nothing" ELSE Needs(c, "WAIT_PERMISSION", "humanAllow")

\* deriveRecoveryPlan: the one next step for this prefix.
Plan ==
  LET step(kind, c) == [kind |-> kind, call |-> c]
      uncertain == {c \in Declared : Uncertain(c)}
      calls == {c \in Declared : CommittedCallNeeds(c) # "nothing"}
      requests == {i \in DOMAIN log : /\ StoredRequest(i)
                                      /\ RequestNeeds(log[i].call) # "nothing"}
      unfilled(t) == {i \in Scope : log[i].type = t /\ ~Has("tool_result", log[i].call)}
      receipts == unfilled("tool_execution_receipt")
      resolutions == unfilled("tool_execution_resolved")
      asked == log[Least(requests)].call
  IN IF uncertain # {} THEN step("RESOLVE_UNCERTAIN", Least(uncertain))
     ELSE IF Draft THEN step("ABANDON_DRAFT", 0)
     ELSE IF calls # {}
     THEN step(CommittedCallNeeds(Least(calls)), Least(calls))
     ELSE IF requests # {} THEN step(RequestNeeds(asked), asked)
     ELSE IF receipts # {}
     THEN step("REPAIR_RECEIPT", log[Least(receipts)].call)
     ELSE IF resolutions # {}
     THEN step("FILL_RESOLUTION", log[Least(resolutions)].call)
     ELSE step("CONTINUE_MODEL", 0)

\* Committed calls of an aborted run with neither a started nor a result.
UnansweredAborted ==
  {c \in Declared :
     LET r == log[Position(c)].run IN
     /\ \E i \in 1..base : /\ log[i].type = "terminal" /\ log[i].run = r
                           /\ log[i].tag = "aborted"
     /\ \E i \in 1..base :
          /\ log[i].type = "stop" /\ log[i].run = r /\ Position(c) < i
          /\ \A j \in (Position(c) + 1)..i :
               ~(log[j].run = r /\ log[j].type \in {"user_input", "terminal"})
     /\ ~Voided(c)
     /\ ~Has("tool_execution_started", c) /\ ~Has("tool_result", c)}

\* Requests of terminated runs, neither decided nor expired.
Dangling ==
  {i \in 1..base :
     /\ log[i].type = "permission_requested"
     /\ log[i].run # run /\ Terminated(log[i].run)
     /\ ~Has("permission_decided", log[i].call)
     /\ ~Has("permission_expired", log[i].call)}

\* Requests about void calls, not expired.
StaleVoided ==
  {i \in DOMAIN log :
     /\ StoredRequest(i) /\ Voided(log[i].call)
     /\ ~Has("permission_expired", log[i].call)}

(***************************************************************************)
(* Steps of the run in progress.                                           *)
(***************************************************************************)

At(p) == proc = p
Goto(p) == proc' = p
Write(e) == log' = Append(log, e)
Record(type, call, tag) == Write(Ev(run, type, call, tag))

Init ==
  /\ log = <<>>
  /\ run = 0 /\ entry = 0 /\ turnStart = 0
  /\ proc = "idle" /\ base = 0
  /\ current = 0 /\ aborted = FALSE
  /\ resolvers = {}
  /\ verdicts = [c \in Calls |-> "none"]
  /\ busy = {} /\ ran = [c \in Calls |-> 0] /\ breaks = 0

\* A run's iterator starts, a fresh one only if no run is open; a resume adopts
\* the run that is.
Begin(point, r) ==
  /\ At("idle")
  /\ Goto(point) /\ run' = r /\ base' = Len(log)
  /\ UNCHANGED <<log, entry, turnStart, current, aborted, humanVars, busy,
                 ran, breaks>>
StartRun ==
  /\ run < MaxRuns /\ Count("user_input") < MaxInputs
  /\ OpenRuns = {} /\ Begin("fresh", run + 1)
Resume == OpenRuns # {} /\ Begin("resume", Greatest(OpenRuns))

\* repairAbortedCalls, one call at a time.
Mend ==
  /\ proc \in {"fresh", "resume"} /\ UnansweredAborted # {}
  /\ LET c == Least(UnansweredAborted) IN
     Write(Ev(log[Position(c)].run, "tool_result", c, "aborted"))
  /\ UNCHANGED <<loopVars, proc, base, current, aborted, humanVars, busy, ran,
                 breaks>>

\* loop() is called on the log as it is now.
EnterLoop == Goto("live") /\ entry' = Len(log') /\ turnStart' = 0 /\ UNCHANGED run

FirstInput ==
  /\ At("fresh") /\ UnansweredAborted = {}
  /\ Record("user_input", 0, "plain")
  /\ EnterLoop
  /\ UNCHANGED <<base, current, aborted, humanVars, busy, ran, breaks>>

\* The dangling requests of terminated runs are expired, each on its own run;
\* then the driver starts.
Expire ==
  /\ At("resume") /\ UnansweredAborted = {}
  /\ IF Dangling # {}
     THEN /\ LET e == log[Least(Dangling)] IN
             Write(Ev(e.run, "permission_expired", e.call, "plain"))
          /\ UNCHANGED proc
          /\ UNCHANGED entry
     ELSE Goto("derive") /\ entry' = Len(log) /\ UNCHANGED log
  /\ UNCHANGED <<run, turnStart, base, current, aborted, humanVars, busy, ran,
                 breaks>>

(***************************************************************************)
(* The recovery driver: derive the plan, take its step, derive again.      *)
(***************************************************************************)

Planned(kind) == At("derive") /\ Plan.kind = kind
driverUnchanged == <<base, aborted, busy, breaks>>

\* Uncertain executions block the resume: it throws.
ResolveUncertainBlocks ==
  /\ Planned("RESOLVE_UNCERTAIN") /\ Goto("flush")
  /\ UNCHANGED <<driverUnchanged, log, loopVars, current, humanVars, ran>>

AbandonDraft ==
  /\ Planned("ABANDON_DRAFT")
  /\ Write([Ev(run, "model_output_abandoned", 0, "plain") EXCEPT !.from = LastBoundary])
  /\ Goto("check")
  /\ UNCHANGED <<driverUnchanged, loopVars, current, humanVars, ran>>

\* executePersisted up to its STARTED event, unless aborted.
ExecutePersisted(c) ==
  /\ current' = c
  /\ IF aborted THEN Goto("check") /\ UNCHANGED log
     ELSE Goto("started") /\ Record("tool_execution_started", c, "plain")

\* A committed call without a decision re-enters the approval pipeline.
DecidePermission ==
  /\ Planned("DECIDE_PERMISSION")
  /\ LET c == Plan.call IN
     \/ Record("tool_result", c, "denied") /\ Goto("check") /\ UNCHANGED current
     \/ aborted /\ Goto("check") /\ UNCHANGED <<log, current>>
     \/ /\ PolicyChain /\ ~aborted /\ Goto("check") /\ UNCHANGED current
        /\ \E votes \in Votes(Policies) :
             \/ /\ ChainVerdict(votes).action = "allow"
                /\ Record("permission_decided", c, "policyAllow")
             \/ /\ ChainVerdict(votes).action = "deny"
                /\ Record("permission_decided", c, "policyDeny")
     \/ /\ ~aborted
        /\ PolicyChain =>
             \E votes \in Votes(Policies) : ChainVerdict(votes).action = "ask"
        /\ Record("permission_requested", c, "plain")
        /\ Goto("check") /\ UNCHANGED current
     \/ ~PolicyChain /\ ExecutePersisted(c)
     \/ /\ ~PolicyChain /\ "hook" \in Faults /\ Goto("flush")
        /\ UNCHANGED <<log, current>>
  /\ UNCHANGED <<driverUnchanged, loopVars, humanVars, ran>>

\* The stored request is announced with a live resolver behind it.  What the
\* driver yields and is newer than its start is stored: a request of its own is
\* stored a second time, which the store refuses, and the session is poisoned.
WaitPermission ==
  /\ Planned("WAIT_PERMISSION")
  /\ current' = Plan.call
  /\ IF Least(Events("permission_requested", Plan.call)) > entry
     THEN Goto("poisoned") ELSE Goto("wait")
  /\ resolvers' = resolvers \cup {Plan.call}
  /\ UNCHANGED <<driverUnchanged, log, loopVars, verdicts, ran>>

\* The human answered, or the abort ends the wait; a verdict given in the same
\* instant is recorded.
WaitEnds ==
  /\ At("wait")
  /\ \/ /\ verdicts[current] # "none"
        /\ Record("permission_decided", current, verdicts[current])
     \/ /\ verdicts[current] = "none" /\ aborted
        /\ UNCHANGED log
  /\ Goto("check")
  /\ UNCHANGED <<driverUnchanged, loopVars, current, humanVars, ran>>

Execute ==
  /\ Planned("EXECUTE")
  /\ ExecutePersisted(Plan.call)
  /\ UNCHANGED <<driverUnchanged, loopVars, humanVars, ran>>

\* STARTED is durable: the handler runs, unless aborted; a throwing hook loses
\* its receipt and fails the resume.
RunHandler ==
  /\ At("started")
  /\ ran' = IF aborted THEN ran ELSE [ran EXCEPT ![current] = @ + 1]
  /\ \/ Goto("ran")
     \/ "hook" \in Faults /\ Goto("flush")
  /\ UNCHANGED <<driverUnchanged, log, loopVars, current, humanVars>>

WriteReceipt ==
  /\ At("ran")
  /\ Record("tool_execution_receipt", current, "plain") /\ Goto("result")
  /\ UNCHANGED <<driverUnchanged, loopVars, current, humanVars, ran>>

WriteResult ==
  /\ At("result")
  /\ Record("tool_result", current, "ran") /\ Goto("check")
  /\ UNCHANGED <<driverUnchanged, loopVars, current, humanVars, ran>>

\* A missing model-facing result is completed from the durable fact.
Repair(kind, tag) ==
  /\ Planned(kind)
  /\ Record("tool_result", Plan.call, tag) /\ Goto("check")
  /\ UNCHANGED <<driverUnchanged, loopVars, current, humanVars, ran>>
RepairDenial == Repair("REPAIR_RESULT", "denied")
RepairReceipt == Repair("REPAIR_RECEIPT", "ran")
FillResolution == Repair("FILL_RESOLUTION", "resolved")

\* Nothing left to repair: stale requests about void calls expire, then the
\* loop drives the run on.
ContinueModel ==
  /\ Planned("CONTINUE_MODEL")
  /\ IF StaleVoided # {}
     THEN /\ Record("permission_expired", log[Least(StaleVoided)].call, "plain")
          /\ Goto("check") /\ UNCHANGED loopVars
     ELSE UNCHANGED log /\ EnterLoop
  /\ UNCHANGED <<driverUnchanged, current, humanVars, ran>>

\* After each step: an abort ends the recovery, and the loop is entered.
Check ==
  /\ At("check")
  /\ UNCHANGED <<driverUnchanged, log, current, humanVars, ran>>
  /\ IF aborted THEN EnterLoop ELSE Goto("derive") /\ UNCHANGED loopVars

(***************************************************************************)
(* The live loop, as TurnLog describes it.                                 *)
(***************************************************************************)

Live(A) ==
  /\ At("live") /\ A
  /\ UNCHANGED <<proc, base, current, aborted, breaks>>
LiveQuiet(A) == Live(A) /\ UNCHANGED <<humanVars, busy, ran>>

\* The head of the first turn: a loop() entered aborted writes its terminal.
AbortedAtHead == aborted /\ turnStart = 0

LiveTurn ==
  \/ /\ Count("user_input") < MaxInputs /\ ~AbortedAtHead
     /\ LiveQuiet(Loop!Input)
  \/ Count("stop") < MaxTurns /\ ~aborted /\ LiveQuiet(Loop!BeginTurn)
  \/ Len(log) = turnStart /\ LiveQuiet(Loop!Text)
  \/ LiveQuiet(Loop!CallEnd)
  \/ LiveQuiet(Loop!Stop)
  \/ /\ MaxVoids > 0 /\ Count("model_output_abandoned") < MaxVoids + breaks
     /\ LiveQuiet(Loop!Void)
  \/ /\ LiveQuiet(Loop!Terminal)
     /\ IF log'[Len(log')].tag = "aborted" THEN aborted ELSE ~AbortedAtHead
     /\ \A c \in Loop!OwnCalls :
          verdicts[c] # "none" => Has("permission_decided", c)

LiveCall(c) ==
  \/ PolicyChain /\ LiveQuiet(Loop!Decide(c))
  \/ ~aborted /\ Live(Loop!Request(c)) /\ resolvers' = resolvers \cup {c}
     /\ UNCHANGED <<verdicts, busy, ran>>
  \/ /\ LiveQuiet(Loop!HumanDecides(c))
     /\ log'[Len(log')].tag = verdicts[c]
  \/ ~aborted /\ Live(Loop!Start(c)) /\ busy' = busy \cup {c}
     /\ UNCHANGED <<humanVars, ran>>
  \/ c \notin busy /\ LiveQuiet(Loop!Receipt(c))
  \/ LiveQuiet(Loop!Result(c))

\* A launched handler runs behind its STARTED event, also when the consumer
\* has left the run meanwhile.
Handle(c) ==
  /\ c \in busy
  /\ busy' = busy \ {c}
  /\ ran' = IF aborted THEN ran ELSE [ran EXCEPT ![c] = @ + 1]
  /\ UNCHANGED <<log, loopVars, proc, base, current,
                 aborted, humanVars, breaks>>

(***************************************************************************)
(* The end of a run: its terminal, or the consumer leaves it.              *)
(***************************************************************************)

RunOver ==
  /\ At("live") /\ Loop!Ended
  /\ Goto("flush")
  /\ UNCHANGED <<log, loopVars, base, current, aborted, humanVars, busy, ran,
                 breaks>>

\* At a yield the consumer may leave the iterator.
Leave ==
  /\ "leave" \in Faults /\ breaks < MaxBreaks
  /\ proc \in {"started", "wait", "result", "check", "live"}
  /\ Goto("flush") /\ breaks' = breaks + 1
  /\ UNCHANGED <<log, loopVars, base, current, aborted, humanVars, busy, ran>>

Flush_Blind ==
  /\ At("flush")
  /\ \E c \in Calls :
       /\ verdicts[c] # "none"
       /\ Record("permission_decided", c, verdicts[c])
       /\ verdicts' = [verdicts EXCEPT ![c] = "none"]
  /\ UNCHANGED <<loopVars, proc, base, current, aborted, resolvers, busy, ran,
                 breaks>>

\* flushPendingVerdicts, one at a time: a submitted verdict the run did not
\* write is written.
Flush ==
  /\ At("flush")
  /\ \E c \in Calls :
       /\ verdicts[c] # "none"
       /\ IF Has("permission_decided", c) THEN UNCHANGED log
          ELSE Record("permission_decided", c, verdicts[c])
       /\ verdicts' = [verdicts EXCEPT ![c] = "none"]
  /\ UNCHANGED <<loopVars, proc, base, current, aborted, resolvers, busy, ran,
                 breaks>>

\* The run's frame is gone.
Close ==
  /\ At("flush") /\ \A c \in Calls : verdicts[c] = "none"
  /\ Goto("idle") /\ aborted' = FALSE /\ resolvers' = {}
  /\ base' = 0 /\ entry' = 0 /\ turnStart' = 0 /\ current' = 0
  /\ UNCHANGED <<log, run, verdicts, busy, ran, breaks>>

(***************************************************************************)
(* The human and the crash.                                                *)
(***************************************************************************)

Approve_IgnoresResolver(c) ==
  /\ Has("permission_requested", c) /\ ~Has("permission_decided", c)
  /\ \E v \in {"humanAllow", "humanDeny"} :
       Write(Ev(log[Least(Events("permission_requested", c))].run,
                "permission_decided", c, v))
  /\ UNCHANGED <<loopVars, proc, base, current, aborted, humanVars, busy, ran,
                 breaks>>

\* approve(), into the live resolver or else straight to the log.  A second
\* answer finds the first one submitted or written; a late answer about a
\* terminated run does nothing, once the run is done storing its terminal.
Approve(c) ==
  /\ Has("permission_requested", c) /\ ~Has("permission_decided", c)
  /\ verdicts[c] = "none" /\ proc # "poisoned"
  /\ LET r == log[Least(Events("permission_requested", c))].run IN
     /\ ~Terminated(r) \/ (r = run /\ At("live"))
     /\ \/ /\ c \in resolvers
           /\ resolvers' = resolvers \ {c}
           /\ \E v \in {"humanAllow", "humanDeny"} :
                verdicts' = [verdicts EXCEPT ![c] = v]
           /\ UNCHANGED log
        \/ /\ c \notin resolvers
           /\ \E v \in {"humanAllow", "humanDeny"} :
                Write(Ev(r, "permission_decided", c, v))
           /\ UNCHANGED <<resolvers, verdicts>>
  /\ UNCHANGED <<loopVars, proc, base, current, aborted, busy, ran, breaks>>

\* resolveUncertain(): the verdict, then the model-facing fill.
ResolveUncertain(c) ==
  /\ At("idle") /\ Uncertain(c)
  /\ Write(Ev(log[Position(c)].run, "tool_execution_resolved", c, "plain"))
  /\ Goto("fill") /\ current' = c
  /\ UNCHANGED <<loopVars, base, aborted, humanVars, busy,
                 ran, breaks>>
Fill ==
  /\ At("fill")
  /\ IF Has("tool_result", current) THEN UNCHANGED log
     ELSE Write(Ev(log[Position(current)].run, "tool_result", current, "resolved"))
  /\ Goto("idle")
  /\ UNCHANGED <<loopVars, base, current, aborted,
                 humanVars, busy, ran, breaks>>

Abort ==
  /\ "abort" \in Faults /\ ~aborted /\ proc \notin {"idle", "fill", "flush", "poisoned"}
  /\ aborted' = TRUE
  /\ UNCHANGED <<log, loopVars, proc, base, current,
                 humanVars, busy, ran, breaks>>

\* Another process, or a fresh handle, opens the session: every resolver,
\* verdict and running handler is gone.
Opened ==
  /\ proc' = "idle" /\ aborted' = FALSE
  /\ base' = 0 /\ current' = 0
  /\ run' = Greatest({log[i].run : i \in DOMAIN log})
  /\ entry' = 0 /\ turnStart' = 0
  /\ resolvers' = {} /\ busy' = {}
  /\ verdicts' = [c \in Calls |-> "none"]
  /\ UNCHANGED <<log, ran>>

Crash ==
  /\ breaks < MaxBreaks /\ log # <<>> /\ breaks' = breaks + 1
  /\ Opened
\* A poisoned session refuses every write until it is opened again.
Reopen == At("poisoned") /\ Opened /\ UNCHANGED breaks

DriverStep ==
  \/ ResolveUncertainBlocks \/ AbandonDraft \/ DecidePermission
  \/ WaitPermission \/ WaitEnds \/ Execute \/ RunHandler \/ WriteReceipt
  \/ WriteResult \/ RepairDenial \/ RepairReceipt \/ FillResolution
  \/ ContinueModel \/ Check
RunStep ==
  \/ Mend \/ FirstInput \/ Expire \/ DriverStep \/ LiveTurn
  \/ \E c \in Calls : LiveCall(c)
  \/ RunOver \/ Flush \/ Close \/ Fill

\* Every run of the bounded session is over; nothing more is asked of it.
Done ==
  /\ proc = "idle"
  /\ UNCHANGED vars

Next ==
  \/ StartRun \/ Resume \/ RunStep
  \/ \E c \in Calls : Handle(c) \/ Approve(c) \/ ResolveUncertain(c)
  \/ Abort \/ Leave \/ Crash \/ Reopen \/ Done

Spec == Init /\ [][Next]_vars

\* A promise that can settle does, an open session is resumed,
\* and the human answers what is asked: a pending request while the run waits,
\* an uncertain execution between two refused resumes.
Fairness ==
  /\ WF_vars(RunStep) /\ WF_vars(Resume) /\ WF_vars(Reopen)
  /\ \A c \in Calls : /\ WF_vars(Handle(c)) /\ WF_vars(Approve(c))
                       /\ SF_vars(ResolveUncertain(c))
FairSpec == Spec /\ Fairness

(***************************************************************************)
(* Properties.                                                             *)
(***************************************************************************)

\* A call's handler runs at most once, whatever crashes, resumes, answers and
\* departures lie between its STARTED and its result (docs/durability.md; the
\* prefix table of recovery-plan.ts).
HandlerAtMostOnce == \A c \in Calls : ran[c] <= 1

\* A call about which a human was asked runs only behind the human's own
\* durable approval, in the process that asked and in every later one
\* ("only a durable permission_decided authorizes an effect").
ApprovedBeforeEffect ==
  \A c \in Declared : ran[c] > 0 /\ Has("permission_requested", c) =>
    \E i \in Events("permission_decided", c) :
      /\ log[i].tag = "humanAllow"
      /\ \A j \in Events("tool_execution_started", c) : i < j

\* A call whose tool is not precommit-safe starts only behind a stop of its
\* own turn, also when a resume starts it (the boundary clause of the plan).
CommitBeforeEffect ==
  \A c \in Declared : ~Safe(c) =>
    \A i \in Events("tool_execution_started", c) :
      \E j \in Position(c)..i :
        /\ log[j].type = "stop"
        /\ \A k \in Position(c)..j : log[k].type # "user_input"

\* One request, one verdict, one STARTED and one result per call: the loop,
\* the driver, approve(), the flush at a run's end, resolveUncertain() and the
\* repair of aborted calls never write the same fact twice.
OneOfEach ==
  \A c \in Declared :
    \A t \in {"permission_requested", "permission_decided",
              "tool_execution_started", "tool_result"} :
      Cardinality(Events(t, c)) <= 1

\* No event is stored twice: what a resume announces again is never written
\* again (run.ts: "those must never be written to the store again, or seq would
\* duplicate"), so no resume poisons its session.
StoredOnce == proc # "poisoned"

\* The terminal of a run is its last event (docs/durability.md, the contract
\* "exactly-one-terminal").
TerminalIsLast ==
  \A i, j \in DOMAIN log :
    log[i].type = "terminal" /\ log[j].run = log[i].run => j <= i

\* A result that says the call was refused or never executed is true: its
\* handler did not run and no later process runs it.
RefusalMeansNoEffect ==
  \A c \in Declared :
    (\E tag \in {"denied", "aborted"} : HasTag("tool_result", c, tag)) => ran[c] = 0

\* Where the loop is about to send a model request, or has sent it, every
\* call of the log before it that is not void has its result: no process
\* projects a dangling tool_use (session.ts, repairAbortedCalls).
RequestsAnswerCalls ==
  /\ proc = "live" /\ ~Loop!Ended
  /\ (turnStart = 0 /\ ~aborted) \/ Loop!Streaming
  => \A c \in Declared :
       /\ ~Voided(c)
       /\ Position(c) <= IF turnStart = 0 THEN entry ELSE turnStart
       => Has("tool_result", c)

\* A call in the range of a marker never executes, unless it was started as
\* precommit-safe (run.ts on the marker: "a call inside the range is never
\* executed"; docs/adrs/0047: "A draft's call is never executed").
VoidedNeverExecutes ==
  \A c \in Declared :
    Voided(c) /\ ~Safe(c) => ~Has("tool_execution_started", c)

\* A run that is open comes to its terminal although processes die, when the
\* session is resumed and the human answers.
OpenRunEnds == (OpenRuns # {}) ~> (OpenRuns = {})
==============================================================================
