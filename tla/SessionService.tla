--------------------------- MODULE SessionService ---------------------------
(***************************************************************************)
(* The hosted session of packages/server/src/service.ts: one session id in *)
(* one process, the requests that reach it, and the runs it pumps.         *)
(*                                                                         *)
(* A request may be stopped at any await of the service.  A run            *)
(* (packages/runtime/src/run.ts) is its iterator and the pump that drains  *)
(* it: an event is appended, written and delivered in one step here        *)
(* (SessionStore and EventStream take that step apart).  The store refuses *)
(* an event that does not follow its last one.                             *)
(***************************************************************************)
EXTENDS Integers, Sequences, FiniteSets

CONSTANTS
  Steers,             \* the inputs a person may steer with
  Requests,           \* the kinds of request that are made
  MaxRequests,        \* bound on the requests made
  MaxRuns,            \* bound on the runs made in this process
  MaxOpens,           \* bound on the session objects built
  MaxWork             \* bound on the tools and asks of one run

ASSUME ServiceAssumption ==
  /\ MaxRequests \in Nat /\ MaxRuns \in Nat /\ MaxOpens \in Nat \ {0} /\ MaxWork \in Nat
  /\ Requests \subseteq {"run", "runFirst", "resume", "reopen", "abort",
                         "approve", "approveStray"}

VARIABLES
  records,            \* the session's lines on the store, each of a run
  sessions,           \* the session objects built so far; the last is held
  hold,               \* is the session held: "no", "opening", "yes"
  live,               \* held.live: a run, or 0
  executing,          \* held.executing
  runs,               \* the runs made in this process
  requests,           \* the requests made, and where each stands
  accepted,           \* the inputs steer() took
  draining, drained   \* has drain() been called, has it returned

serviceVars == <<hold, live, requests, draining, drained>>
vars == <<records, sessions, executing, runs, accepted, serviceVars>>

Earlier == 0          \* the run an earlier process left
Stray == MaxRuns + 1  \* the run id of an answer to nobody's question
Types == {"input", "started", "ended", "asked", "decided", "terminal"}
Line == [run : 0..MaxRuns + 1, type : Types, of : SUBSET Steers]
Entry(id, type, of) == [run |-> id, type |-> type, of |-> of]

RunIds == 1..Len(runs)
Unsealed == {"making", "going", "executing", "asking"}
InFlight == Unsealed \cup {"sealed", "over", "threw"}
Finished == {"settled", "rejected"}
held == sessions[Len(sessions)]

TypeOK ==
  /\ records \in Seq(Line)
  /\ \A s \in DOMAIN sessions :
       /\ sessions[s].log \in Seq(Line) /\ sessions[s].poisoned \in BOOLEAN
       /\ {sessions[s].active, sessions[s].answered} \subseteq 0..Len(runs)
  /\ hold \in {"no", "opening", "yes"} /\ live \in 0..Len(runs)
  /\ executing \in Nat
  /\ \A r \in RunIds :
       /\ runs[r].phase \in InFlight \cup {"settling"} \cup Finished
       /\ runs[r].of \in DOMAIN sessions /\ runs[r].id \in 0..MaxRuns + 1
       /\ {runs[r].ingress, runs[r].unadmitted} \subseteq SUBSET Steers
       /\ runs[r].work \in Nat /\ runs[r].aborted \in BOOLEAN
       /\ runs[r].behind \in 0..Len(runs) /\ runs[r].told \in -1..MaxRuns + 1
  /\ \A c \in DOMAIN requests :
       /\ requests[c].at \in {"holding", "resuming", "opening",
                           "answered"}
       /\ requests[c].asks \in Requests \cup {"nothing"}
       /\ requests[c].run \in 0..Len(runs)
  /\ accepted \subseteq Steers
  /\ draining \in BOOLEAN /\ drained \in BOOLEAN

\* What an earlier process may have left: nothing, or an open run, perhaps
\* waiting for an answer.
Init ==
  /\ records \in {<<>>,
                  <<Entry(Earlier, "input", {})>>,
                  <<Entry(Earlier, "input", {}), Entry(Earlier, "asked", {})>>}
  /\ sessions = <<>> /\ hold = "no" /\ live = 0 /\ executing = 0 /\ runs = <<>>
  /\ requests = <<>> /\ accepted = {} /\ draining = FALSE /\ drained = FALSE

(***************************************************************************)
(* The log's readers                                                       *)
(***************************************************************************)
Of(log, id, type) == {i \in DOMAIN log : log[i].run = id /\ log[i].type = type}
OpenLines == {i \in DOMAIN records : Of(records, records[i].run, "terminal") = {}}
\* openRunId: the run of the newest record whose run has no terminal.
OpenRunId == records[CHOOSE i \in OpenLines : \A j \in OpenLines : j <= i].run
\* pendingApprovals: an ask that has no answer, of a run that is not over.
Asked(log, id) ==
  /\ Cardinality(Of(log, id, "asked")) > Cardinality(Of(log, id, "decided"))
  /\ Of(log, id, "terminal") = {}

(***************************************************************************)
(* The runs                                                                *)
(***************************************************************************)
\* AgentSession.run or resume, and the part of the iterator up to its first
\* await: health, the one-run slot of the session object, the open-run check.
\* The pump makes it the live run whatever comes of it.
Start(kind, behind) ==
  LET free == ~held.poisoned /\ held.active = 0
      resumes == kind = "resume" /\ OpenLines # {}
      phase == IF ~free \/ (kind = "fresh" /\ OpenLines # {}) THEN "threw"
               ELSE IF kind = "fresh" THEN "making"
               ELSE IF ~resumes THEN "over"
               ELSE IF Asked(records, OpenRunId) THEN "asking" ELSE "going"
      id == IF resumes THEN OpenRunId ELSE Len(runs) + 1
  IN /\ Len(runs) < MaxRuns
     /\ runs' = Append(runs, [of |-> Len(sessions), id |-> id, phase |-> phase,
                              work |-> 0, aborted |-> FALSE, ingress |-> {},
                              unadmitted |-> {}, behind |-> behind,
                              told |-> -1])
     /\ live' = Len(runs) + 1
     /\ sessions' = IF free
                    THEN [sessions EXCEPT ![Len(sessions)].active = Len(runs) + 1]
                    ELSE sessions

\* Mutant: the store takes an event whatever its seq.
Fits_AnySeq(s) == ~sessions[s].poisoned

\* An event of a session object: its log grows, the store takes the event if
\* it is the next one, and a refused write poisons the object.
Fits(s) == ~sessions[s].poisoned /\ Len(sessions[s].log) = Len(records)
Appended(s, e) ==
  /\ sessions' = [sessions EXCEPT
       ![s] = [sessions[s] EXCEPT
                 !.log = Append(@, e), !.poisoned = @ \/ ~Fits(s),
                 !.answered = IF e.type = "decided" THEN 0 ELSE @]]
  /\ records' = IF Fits(s) THEN Append(records, e) ELSE records

\* An event of a run: delivered once it is written; a refused write ends the
\* iterator with a throw.  delta is executionDelta of the event.
Emit(r, type, of, next, delta) ==
  /\ Appended(runs[r].of, Entry(runs[r].id, type, of))
  /\ runs' = [runs EXCEPT
       ![r] = [runs[r] EXCEPT
                 !.phase = IF Fits(runs[r].of) THEN next ELSE "threw",
                 !.work = IF type \in {"started", "asked"} THEN @ + 1 ELSE @,
                 !.ingress = @ \ of]]
  /\ executing' = IF ~Fits(runs[r].of) THEN executing
                  ELSE IF executing + delta < 0 THEN 0 ELSE executing + delta
  /\ UNCHANGED <<accepted, serviceVars>>

Prompt(r) == runs[r].phase = "making" /\ Emit(r, "input", {}, "going", 0)

\* At a safe boundary the run admits what it was steered with, as one input.
Admit(r) ==
  /\ runs[r].phase = "going" /\ runs[r].ingress # {} /\ ~runs[r].aborted
  /\ Emit(r, "input", runs[r].ingress, "going", 0)

ToolStarts(r) ==
  /\ runs[r].phase = "going" /\ runs[r].work < MaxWork /\ ~runs[r].aborted
  /\ Emit(r, "started", {}, "executing", 1)

ToolEnds(r) == runs[r].phase = "executing" /\ Emit(r, "ended", {}, "going", -1)

Ask(r) ==
  /\ runs[r].phase = "going" /\ runs[r].work < MaxWork /\ ~runs[r].aborted
  /\ Emit(r, "asked", {}, "asking", 0)

\* The answer given to the run's resolver becomes its next event.
Decide(r) ==
  /\ runs[r].phase = "asking" /\ sessions[runs[r].of].answered = r
  /\ Emit(r, "decided", {}, "going", 0)

\* Mutants: the ingress is emptied before what it holds is kept; an abort does
\* not reach a run that waits for a person.
Seal_Dropping(r) ==
  /\ \/ runs[r].phase = "going"
     \/ runs[r].phase = "asking" /\ runs[r].aborted
  /\ runs' = [runs EXCEPT ![r] = [runs[r] EXCEPT !.phase = "sealed", !.ingress = {}]]
  /\ UNCHANGED <<records, sessions, executing, accepted, serviceVars>>

Seal_NotWhenAsking(r) ==
  /\ runs[r].phase = "going"
  /\ runs' = [runs EXCEPT
       ![r] = [runs[r] EXCEPT !.phase = "sealed", !.ingress = {},
                              !.unadmitted = @ \cup runs[r].ingress]]
  /\ UNCHANGED <<records, sessions, executing, accepted, serviceVars>>

\* The run decides to end: its ingress closes, and what it holds is handed back.
Seal(r) ==
  /\ \/ runs[r].phase = "going"
     \/ /\ runs[r].phase = "asking" /\ runs[r].aborted
        /\ sessions[runs[r].of].answered # r
  /\ runs' = [runs EXCEPT
       ![r] = [runs[r] EXCEPT !.phase = "sealed", !.ingress = {},
                              !.unadmitted = @ \cup runs[r].ingress]]
  /\ UNCHANGED <<records, sessions, executing, accepted, serviceVars>>

Terminal(r) == runs[r].phase = "sealed" /\ Emit(r, "terminal", {}, "over", 0)

\* The iterator is over: its finally closes the ingress and frees the object's
\* slot; the pump's finally clears the live run if it still is this one.  What
\* onSettled reads is the newest terminal of the object now held.
PumpEnds(r) ==
  LET log == held.log
      ends == {i \in DOMAIN log : log[i].type = "terminal"}
      told == IF ends = {} THEN -1
              ELSE log[CHOOSE i \in ends : \A j \in ends : j <= i].run
  IN /\ runs[r].phase \in {"over", "threw"}
     /\ runs' = [runs EXCEPT
          ![r] = [runs[r] EXCEPT
                    !.phase = IF @ = "over" THEN "settling" ELSE "rejected",
                    !.ingress = {}, !.told = told,
                    !.unadmitted = @ \cup runs[r].ingress]]
     /\ sessions' = [s \in DOMAIN sessions |->
                       IF sessions[s].active = r
                       THEN [sessions[s] EXCEPT !.active = 0] ELSE sessions[s]]
     /\ live' = IF live = r THEN 0 ELSE live
     /\ executing' = IF live = r THEN 0 ELSE executing
     /\ UNCHANGED <<records, accepted, hold, requests, draining, drained>>

\* The host's onSettled returns and the run's promise resolves.
HookReturns(r) ==
  /\ runs[r].phase = "settling"
  /\ runs' = [runs EXCEPT ![r].phase = "settled"]
  /\ UNCHANGED <<records, sessions, executing, accepted, serviceVars>>

(***************************************************************************)
(* The requests                                                            *)
(***************************************************************************)
Go(c, at) == requests' = [requests EXCEPT ![c].at = at]
Answered == [at |-> "answered", asks |-> "nothing", run |-> 0]
Leave(c) == requests' = [requests EXCEPT ![c] = Answered]

\* A request comes in; the first one opens the session, the others share it.
Request(kind) ==
  /\ Len(requests) < MaxRequests
  /\ kind \in {"run", "runFirst", "resume"} => ~draining
  /\ requests' = Append(requests, [at |-> "holding", asks |-> kind, run |-> 0])
  /\ hold' = IF hold = "no" THEN "opening" ELSE hold
  /\ UNCHANGED <<records, sessions, executing, runs, accepted, live, draining,
                 drained>>

\* The factory's agent opens the session: an object on the log as it is now.
Built == Append(sessions, [log |-> records, poisoned |-> FALSE, active |-> 0,
                           answered |-> 0])

Opened ==
  /\ hold = "opening" /\ Len(sessions) < MaxOpens
  /\ sessions' = Built /\ hold' = "yes"
  /\ UNCHANGED <<records, executing, runs, accepted, live, requests, draining,
                 drained>>

\* A failed opening is forgotten, and rejects everyone who waited for it.
OpenFails ==
  /\ hold = "opening" /\ hold' = "no"
  /\ requests' = [c \in DOMAIN requests |->
                 IF requests[c].at = "holding"
                 THEN Answered ELSE requests[c]]
  /\ UNCHANGED <<records, sessions, executing, runs, accepted, live, draining,
                 drained>>

Serving(c, kind) ==
  requests[c].at = "holding" /\ requests[c].asks = kind /\ hold = "yes"

\* Mutant: the check for a live run is made before the session is open.
Run_Unchecked(c) ==
  /\ Serving(c, "run")
  /\ IF OpenLines = {} /\ ~held.poisoned
     THEN Start("fresh", 0)
     ELSE UNCHANGED <<runs, live, sessions>>
  /\ Leave(c)
  /\ UNCHANGED <<records, executing, accepted, hold, draining, drained>>

\* run(): refused while a run is live or one was left open.
Run(c) ==
  /\ Serving(c, "run")
  /\ IF live = 0 /\ OpenLines = {} /\ ~held.poisoned
     THEN Start("fresh", 0)
     ELSE UNCHANGED <<runs, live, sessions>>
  /\ Leave(c)
  /\ UNCHANGED <<records, executing, accepted, hold, draining, drained>>

\* run() with resumeFirst: an open run is resumed and awaited before the turn.
RunFirst(c) ==
  /\ Serving(c, "runFirst")
  /\ IF live # 0 \/ held.poisoned
     THEN Leave(c) /\ UNCHANGED <<runs, live, sessions>>
     ELSE IF OpenLines = {} THEN Start("fresh", 0) /\ Leave(c)
     ELSE /\ Start("resume", 0)
          /\ requests' = [requests EXCEPT ![c].at = "resuming",
                                      ![c].run = Len(runs) + 1]
  /\ UNCHANGED <<records, executing, accepted, hold, draining, drained>>

\* The resumed run's promise resolved: the turn starts, nothing is asked again.
RunNext(c) ==
  /\ requests[c].at = "resuming" /\ runs[requests[c].run].phase \in Finished
  /\ IF runs[requests[c].run].phase = "settled" /\ ~held.poisoned
     THEN Start("fresh", requests[c].run)
     ELSE UNCHANGED <<runs, live, sessions>>
  /\ Leave(c)
  /\ UNCHANGED <<records, executing, accepted, hold, draining, drained>>

Resume(c) ==
  /\ Serving(c, "resume")
  /\ IF live = 0 /\ ~held.poisoned THEN Start("resume", 0)
     ELSE UNCHANGED <<runs, live, sessions>>
  /\ Leave(c)
  /\ UNCHANGED <<records, executing, accepted, hold, draining, drained>>

\* reopen(): refused while a run is live, then the factory builds anew.
Reopen(c) ==
  /\ Serving(c, "reopen")
  /\ IF live = 0 THEN Go(c, "opening") ELSE Leave(c)
  /\ UNCHANGED <<records, sessions, executing, runs, accepted, hold, live,
                 draining, drained>>

\* The new object replaces the held one, whatever has started since.
Reopened(c) ==
  /\ requests[c].at = "opening" /\ Len(sessions) < MaxOpens
  /\ sessions' = Built /\ Leave(c)
  /\ UNCHANGED <<records, executing, runs, accepted, hold, live, draining,
                 drained>>

ReopenFails(c) ==
  /\ requests[c].at = "opening" /\ Leave(c)
  /\ UNCHANGED <<records, sessions, executing, runs, accepted, hold, live,
                 draining, drained>>

\* abort(): a run that waits for a person is left alone unless forced.
Abort(c) ==
  /\ Serving(c, "abort")
  /\ \/ /\ live # 0
        /\ runs' = [runs EXCEPT ![live].aborted = TRUE]
     \/ /\ live = 0 \/ \E r \in 0..MaxRuns : Asked(held.log, r)
        /\ UNCHANGED runs
  /\ Leave(c)
  /\ UNCHANGED <<records, sessions, executing, accepted, hold, live, draining,
                 drained>>

\* approve() an ask the held object knows: its run's resolver takes the answer;
\* with none, the answer is written at once, behind whatever the store holds.
Approve(c) ==
  /\ Serving(c, "approve")
  /\ \E id \in 0..MaxRuns :
       LET s == Len(sessions)
           waits == {r \in RunIds : /\ runs[r].of = s /\ runs[r].id = id
                                    /\ runs[r].phase = "asking"
                                    /\ held.active = r}
       IN /\ Asked(held.log, id) /\ ~held.poisoned
          /\ IF waits # {}
             THEN /\ sessions' = [sessions EXCEPT
                                    ![s].answered = CHOOSE r \in waits : TRUE]
                  /\ UNCHANGED records
             ELSE IF Of(records, id, "terminal") # {}
             THEN UNCHANGED <<sessions, records>>
             ELSE Appended(s, Entry(id, "decided", {}))
  /\ Leave(c)
  /\ UNCHANGED <<executing, runs, accepted, hold, live, draining, drained>>

\* An answer to a decision the log does not know is written all the same,
\* under a run id of its own.
ApproveStray(c) ==
  /\ Serving(c, "approveStray")
  /\ IF held.poisoned THEN UNCHANGED <<sessions, records>>
     ELSE Appended(Len(sessions), Entry(Stray, "decided", {}))
  /\ Leave(c)
  /\ UNCHANGED <<executing, runs, accepted, hold, live, draining, drained>>

\* A request that finds nothing to answer.
NothingAsked(c) ==
  /\ Serving(c, "approve")
  /\ held.poisoned \/ \A id \in 0..MaxRuns : ~Asked(held.log, id)
  /\ Leave(c)
  /\ UNCHANGED <<records, sessions, executing, runs, accepted, hold, live,
                 draining, drained>>

\* steer(): synchronous; refused when no run is live or the live one sealed.
Steer(i) ==
  /\ i \notin accepted /\ live # 0 /\ runs[live].phase \in Unsealed
  /\ runs' = [runs EXCEPT ![live].ingress = @ \cup {i}]
  /\ accepted' = accepted \cup {i}
  /\ UNCHANGED <<records, sessions, executing, serviceVars>>

\* drain(): no request is taken any more; it returns when the executing run
\* has settled, or after its grace.
Drain ==
  /\ ~draining /\ draining' = TRUE
  /\ Len(requests) < MaxRequests /\ requests' = Append(requests, Answered)
  /\ UNCHANGED <<records, sessions, executing, runs, accepted, hold, live,
                 drained>>

DrainReturns ==
  /\ draining /\ ~drained /\ drained' = TRUE
  /\ UNCHANGED <<records, sessions, executing, runs, accepted, hold, live,
                 requests, draining>>

RunStep(r) ==
  \/ Prompt(r) \/ Admit(r) \/ ToolStarts(r) \/ ToolEnds(r) \/ Ask(r)
  \/ Decide(r) \/ Seal(r) \/ Terminal(r) \/ PumpEnds(r) \/ HookReturns(r)

RequestStep(c) ==
  \/ Run(c) \/ RunFirst(c) \/ RunNext(c) \/ Resume(c) \/ Reopen(c)
  \/ Reopened(c) \/ ReopenFails(c) \/ Abort(c) \/ Approve(c)
  \/ ApproveStray(c) \/ NothingAsked(c)

Next ==
  \/ \E r \in RunIds : RunStep(r)
  \/ \E c \in DOMAIN requests : RequestStep(c)
  \/ \E kind \in Requests : Request(kind)
  \/ \E i \in Steers : Steer(i)
  \/ Opened \/ OpenFails \/ Drain \/ DrainReturns

\* A run goes on by itself, tools return, and the host's hook returns; nothing
\* obliges a person to answer, to steer or to ask.
Spec ==
  /\ Init /\ [][Next]_vars
  /\ \A r \in 1..MaxRuns : WF_vars(r \in RunIds /\ RunStep(r))

(***************************************************************************)
(* Properties                                                              *)
(***************************************************************************)
\* The session's log never holds two runs without a terminal: only the newest
\* would ever be resumed.  It takes the service's check, the iterator's and the
\* store's, for a reopened session has two objects that may both start a run.
OneOpenRun ==
  \A i, j \in OpenLines : records[i].run = records[j].run

Known(r) == sessions[runs[r].of].active = r => live = r

\* A run that holds its object's slot is the one abort, steer, drain and the
\* one-run rule look at, unless a turn that waited for an earlier run to be
\* resumed started over it (service.run, which asks nothing again).
RunsAreKnown ==
  \A r \in RunIds : Known(r) \/ \E q \in r + 1..Len(runs) : runs[q].behind # 0

\* The same without the exception; service.ts:9 says "one run at a time".
LiveIsRegistered == \A r \in RunIds : Known(r)

\* An input steer() took is in one place: with the run that took it, in the
\* log, or handed back; never in two and never nowhere.  (A poisoned object may
\* hold it in a log the store refused.)
SteersHaveOneFate ==
  \A i \in accepted :
    LET waiting == {r \in RunIds : i \in runs[r].ingress}
        returned == {r \in RunIds : i \in runs[r].unadmitted}
        stored == {n \in DOMAIN records : i \in records[n].of}
        refused == {s \in DOMAIN sessions :
                     /\ sessions[s].poisoned /\ stored = {}
                     /\ \E n \in DOMAIN sessions[s].log :
                          i \in sessions[s].log[n].of}
    IN Cardinality(waiting) + Cardinality(returned) + Cardinality(stored)
       + Cardinality(refused) = 1

\* Once drain has returned, no run starts ("Stop accepting runs").
DrainedStartsNothing == [][drained => Len(runs') = Len(runs)]_vars

\* What the host is told when a run settles is that run's outcome.
SettledTellsItsRun ==
  \A r \in RunIds : runs[r].phase = "settling" /\ runs[r].told # -1
                     => runs[r].told = runs[r].id

\* A run that was made comes to its end, unless it waits for a person, and an
\* aborted one does so whoever it waits for.
Waiting(r) == runs[r].phase = "asking" /\ ~runs[r].aborted
RunsEnd ==
  \A r \in 1..MaxRuns :
    r \in RunIds /\ ~Waiting(r)
      ~> r \in RunIds /\ (runs[r].phase \in Finished \/ Waiting(r))
=============================================================================
