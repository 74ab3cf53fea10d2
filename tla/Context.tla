------------------------------ MODULE Context ------------------------------
(***************************************************************************)
(* The log of a session as the kernel loop, the compaction point, /compact *)
(* and the repairs write it, seen from the requests they make: what the    *)
(* model is sent of it (Projection), turn after turn, with drafts that are *)
(* voided, results that land before and after their turn's stop, summaries *)
(* and prunes.  packages/core/src/kernel/loop.ts, runtime/src/session.ts.  *)
(*                                                                         *)
(* Permissions, receipts and usage render nothing and are left out.  A     *)
(* crash in a turn is the abandon of its draft, behind a stop it changes   *)
(* nothing the log says; the resume enters the loop again, which asks the  *)
(* hook (onUserMessage) about the input it was not asked about.            *)
(***************************************************************************)
EXTENDS Projection

CONSTANTS
  MaxLog,         \* bound on the events of the log
  MaxInputs,      \* bound on the inputs
  MaxTurnCalls,   \* bound on the calls of one attempt
  MaxProse,       \* bound on the thinking and on the text, each
  MaxAbandons,    \* bound on abandoned attempts
  MaxCuts,        \* bound on summaries and prunes, together
  KeepRounds,     \* the rounds a summary between runs keeps
  KeepResults,    \* the results a prune keeps
  CallIds,        \* the names a provider gives to calls; {} when none repeats
  DecidesFirst,   \* is an uncertain call decided on before the next request
  HookSays,       \* what the hook may say of an input; {} without a hook
  MaxVetoes       \* bound on the vetoes

ASSUME ContextAssumption ==
  /\ {MaxLog, MaxInputs, MaxTurnCalls, MaxProse, MaxAbandons, MaxCuts, KeepResults, MaxVetoes} \subseteq Nat
  /\ KeepRounds \in Nat \ {0} /\ CallIds \subseteq Nat \ {0}
  /\ DecidesFirst \in BOOLEAN /\ HookSays \subseteq {"kept", "vetoed"}

VARIABLES
  log,            \* the session's events
  phase,          \* "idle", "entry", "head", "request", "stream", "settle"
  turnStart,      \* the last event ahead of the attempt's output
  uncertain,      \* calls of aborted runs that started and have no receipt
  sent,           \* the messages of the last request
  sentAt,         \* how long the log was when it was made
  origin          \* where the parent's log was cut; 0: no fork, or told of it

vars == <<log, phase, turnStart, uncertain, sent, sentAt, origin>>

Phases == {"idle", "entry", "head", "request", "stream", "settle"}

TypeOK ==
  /\ log \in Seq(Event) /\ phase \in Phases
  /\ turnStart \in 0..Len(log) /\ uncertain \subseteq DOMAIN log
  /\ {sentAt, origin} \subseteq 0..Len(log)
  /\ \A k \in DOMAIN sent : ToSet(sent[k].shows) \subseteq 1..sentAt

Init ==
  /\ log = <<>> /\ phase = "idle" /\ turnStart = 0 /\ uncertain = {}
  /\ sent = <<>> /\ sentAt = 0 /\ origin = 0

Room(n) == Len(log) + n <= MaxLog
Draft == {i \in DOMAIN log : i > turnStart}
Committed == {c \in At(log, "tool_call_end") : ~VoidedAt(log, c)}
Unanswered == {c \in Committed : Answers(log, c) = {}}

\* repairAbortedCalls: a result that says the call never ran, untagged.
Repair(c) == [ResultEv(log, c) EXCEPT !.tool = IF @ = "memo" THEN "" ELSE @]
Repairs ==
  LET order == SetToSortSeq(Unanswered \ uncertain, <)
  IN [k \in DOMAIN order |-> Repair(order[k])]
Repaired == log \o Repairs

-----------------------------------------------------------------------------
(* Between two runs.                                                       *)

\* The first input of a fork carries the note, if the log still ends at the cut.
Told == IF Len(log) = origin THEN 0 ELSE origin

\* A run begins with its input, behind the repairs.
Ask ==
  /\ phase = "idle" /\ Room(Len(Repairs) + 1)
  /\ Cardinality(At(log, "user_input")) < MaxInputs
  /\ log' = Append(Repaired, Ev("user_input", 0))
  /\ phase' = "entry"
  /\ origin' = Told
  /\ UNCHANGED <<turnStart, uncertain, sent, sentAt>>

\* A fork: a new session that holds the log up to the end of a run, taken from
\* a parent that may be in the middle of one.  A call nobody has decided on is
\* refused if the log says so (uncertain_pending), and no release writes that
\* event any more.  The last request stands if it was made from what is kept.
Fork ==
  /\ \E cut \in At(log, "terminal") :
       /\ log' = SubSeq(log, 1, cut) /\ origin' = cut
       /\ uncertain' = uncertain \intersect 1..cut
       /\ IF sentAt <= cut THEN UNCHANGED <<sent, sentAt>>
          ELSE sent' = <<>> /\ sentAt' = 0
  /\ phase' = "idle" /\ turnStart' = 0

CutsLeft == Cardinality(At(log, "summarized") \union At(log, "microcompacted")) < MaxCuts

\* /compact falls back to the cut behind a settled turn; the policy in front
\* of a run has a token floor and no fallback.
Boundaries(l) ==
  FlooredBoundaries(l, KeepRounds)
  \union IF SummaryBoundary(l, KeepRounds) = {} THEN CheckpointCuts(l) ELSE {}

Summarize ==
  /\ phase = "idle" /\ Room(Len(Repairs) + 1) /\ CutsLeft
  /\ \E to \in Boundaries(Repaired) : log' = Append(Repaired, Ev("summarized", to))
  /\ UNCHANGED <<phase, turnStart, uncertain, sent, sentAt, origin>>

\* A person decides on an execution a dead or aborted run left uncertain:
\* between runs, or when the next has begun.  DecidesFirst is what the
\* terminal sees to and the service does not.
Undecided == uncertain \intersect Unanswered

ResolveUncertain ==
  /\ \E c \in Undecided : log' = Append(log, Repair(c)) /\ Room(1)
  /\ UNCHANGED <<phase, turnStart, uncertain, sent, sentAt, origin>>

-----------------------------------------------------------------------------
(* The loop is entered: by a run, or by a resume behind a crash.           *)

Vetoed == {i \in At(log, "user_input") : log[i].tool = "vetoed"}
MayVeto(says) == says = "vetoed" => Cardinality(Vetoed) < MaxVetoes

\* The input a loop asks about: the newest, if a user's message comes last.
Newest == Greatest(At(log, "user_input"))
Asks ==
  /\ HookSays # {} /\ Messages(log) # <<>>
  /\ Last(Messages(log)).role \in {"user", "summary"}

\* An input admitted inside a run: a stop of the run stands before it.
MidRun(i) ==
  \E s \in At(log, "stop") :
    s < i /\ \A t \in At(log, "terminal") : t < s

\* A veto of the run's own input, or nothing to say, ends the run, unless a
\* crash comes behind the veto.
Enters(l, vetoed) ==
  IF vetoed \/ Messages(l) = <<>>
  THEN \/ log' = Append(l, Ev("terminal", 0)) /\ phase' = "idle"
       \/ log' = l /\ l # log /\ phase' = "entry"
  ELSE log' = l /\ phase' = "head"

EnterLoop ==
  /\ phase = "entry" /\ Room(1)
  /\ LET asks == Asks
         said == log[Newest].tool
     IN IF asks /\ said = ""
        THEN \E says \in HookSays :
               /\ MayVeto(says)
               /\ Enters([log EXCEPT ![Newest].tool = says],
                         says = "vetoed" /\ ~MidRun(Newest))
        ELSE Enters(log, asks /\ said = "vetoed")
  /\ UNCHANGED <<turnStart, uncertain, sent, sentAt, origin>>

\* A crash with nothing to repair: the resume enters the loop.
Crash ==
  /\ HookSays # {}
  /\ \/ phase \in {"head", "request"}
     \/ phase = "settle" /\ Unanswered \intersect Draft = {}
  /\ phase' = "entry"
  /\ UNCHANGED <<log, turnStart, uncertain, sent, sentAt, origin>>

-----------------------------------------------------------------------------
(* A turn.                                                                 *)

\* The compaction point: a checkpoint, or at an urgent tier a prune.
Checkpoint ==
  /\ phase = "head" /\ Room(1) /\ CutsLeft
  /\ \E to \in CheckpointCuts(log) : log' = Append(log, Ev("summarized", to))
  /\ phase' = "request"
  /\ UNCHANGED <<turnStart, uncertain, sent, sentAt, origin>>

Prune ==
  /\ phase = "head" /\ Room(1) /\ CutsLeft
  /\ \E before \in PruneBoundary(log, KeepResults) : log' = Append(log, Ev("microcompacted", before))
  /\ phase' = "request"
  /\ UNCHANGED <<turnStart, uncertain, sent, sentAt, origin>>

\* A steer is admitted ahead of the request, or where the run would end; the
\* hook is asked at once, and a veto drops the steer alone.  A crash may come
\* before it has said anything.
Admit ==
  /\ Room(1) /\ Cardinality(At(log, "user_input")) < MaxInputs
  /\ \/ phase \in {"head", "request"}
     \/ phase = "settle" /\ {c \in Draft : log[c].type = "tool_call_end"} = {}
  /\ \E says \in HookSays \union {""} :
       /\ MayVeto(says)
       /\ log' = Append(log, [Ev("user_input", 0) EXCEPT !.tool = says])
       /\ phase' = IF says = "" /\ HookSays # {} THEN "entry"
                   ELSE IF phase = "settle" /\ says # "vetoed" THEN "head"
                   ELSE phase
  /\ UNCHANGED <<turnStart, uncertain, sent, sentAt, origin>>

Request ==
  /\ phase \in {"head", "request"}
  /\ DecidesFirst => Undecided = {}
  /\ phase' = "stream" /\ turnStart' = Len(log)
  /\ sent' = Messages(log) /\ sentAt' = Len(log)
  /\ UNCHANGED <<log, uncertain, origin>>

Streams(e) ==
  /\ phase = "stream" /\ Room(2)
  /\ log' = Append(log, e)
  /\ UNCHANGED <<phase, turnStart, uncertain, sent, sentAt, origin>>

Thinks == Cardinality(At(log, "thinking")) < MaxProse /\ Streams(Ev("thinking", 0))
Says == Cardinality(At(log, "text")) < MaxProse /\ Streams(Ev("text", 0))

Calls ==
  LET mine == {c \in Draft : log[c].type = "tool_call_end"}
      ids == IF CallIds = {} THEN {Len(log) + 1} ELSE CallIds \ IdsOf(log, mine)
  IN /\ Cardinality(mine) < MaxTurnCalls
     /\ \E id \in ids, tool \in {"read", "memo"} : Streams(CallEv(id, tool))

\* A precommit-safe call is executed ahead of its turn's stop.
LandsEarly ==
  \E c \in Draft :
    /\ log[c].type = "tool_call_end" /\ log[c].tool = "read" /\ Answers(log, c) = {}
    /\ Streams(ResultEv(log, c))

Stop ==
  /\ phase = "stream" /\ Room(1)
  /\ log' = Append(log, Ev("stop", 0)) /\ phase' = "settle"
  /\ UNCHANGED <<turnStart, uncertain, sent, sentAt, origin>>

\* The attempt fails: a retry with the same messages, another request
\* behind a compaction, a crash and its resume, or the end of the run.
Abandon ==
  LET marked == IF Draft = {} THEN log ELSE Append(log, Ev("model_output_abandoned", turnStart))
  IN /\ phase = "stream" /\ Room(2)
     /\ Cardinality(At(log, "model_output_abandoned")) < MaxAbandons
     /\ \/ log' = marked /\ phase' \in {"stream", "head", "entry"}
        \/ log' = Append(marked, Ev("terminal", 0)) /\ phase' = "idle"
     /\ turnStart' = IF phase' = "stream" THEN Len(log') ELSE turnStart
     /\ UNCHANGED <<uncertain, sent, sentAt, origin>>

Lands ==
  /\ phase = "settle" /\ Room(1)
  /\ \E c \in Unanswered \intersect Draft : log' = Append(log, ResultEv(log, c))
  /\ UNCHANGED <<phase, turnStart, uncertain, sent, sentAt, origin>>

\* Every call has its result: the next turn.
NextTurn ==
  /\ phase = "settle" /\ Unanswered \intersect Draft = {}
  /\ {c \in Draft : log[c].type = "tool_call_end"} # {}
  /\ phase' = "head"
  /\ UNCHANGED <<log, turnStart, uncertain, sent, sentAt, origin>>

\* The run ends; aborted, with calls that started or did not.
End ==
  /\ phase \in {"settle", "head"} /\ Room(1)
  /\ \E S \in SUBSET (IF phase = "settle" THEN Unanswered \intersect Draft ELSE {}) :
       uncertain' = uncertain \union S
  /\ log' = Append(log, Ev("terminal", 0)) /\ phase' = "idle"
  /\ UNCHANGED <<turnStart, sent, sentAt, origin>>

-----------------------------------------------------------------------------

Next ==
  \/ Ask \/ Fork \/ Summarize \/ ResolveUncertain \/ EnterLoop \/ Crash \/ Checkpoint \/ Prune \/ Admit \/ Request
  \/ Thinks \/ Says \/ Calls \/ LandsEarly \/ Stop \/ Abandon \/ Lands \/ NextTurn \/ End

Spec == Init /\ [][Next]_vars

-----------------------------------------------------------------------------
(* Properties.  `Sent` is the log the last request was made from.          *)

Sent == SubSeq(log, 1, sentAt)

\* A request is being made, and no call of its log is without a result.
Requested == phase = "stream" /\ Len(log) = sentAt
Settled == \A c \in At(Sent, "tool_call_end") : VoidedAt(Sent, c) \/ Answers(Sent, c) # {}

CallsOf(m) == {c \in ToSet(m.shows) : log[c].type = "tool_call_end"}

\* The results follow their calls: behind an assistant's message come the
\* results of all its calls, and none stands anywhere else.
Paired ==
  /\ \A k \in DOMAIN sent : sent[k].role = "assistant" =>
       LET n == Cardinality(CallsOf(sent[k]))
       IN /\ k + n <= Len(sent)
          /\ \A j \in (k + 1)..(k + n) : sent[j].role = "tool"
          /\ {log[sent[j].shows[1]].at : j \in (k + 1)..(k + n)} = CallsOf(sent[k])
  /\ Cardinality({k \in DOMAIN sent : sent[k].role = "tool"})
       = Cardinality(UNION {CallsOf(sent[k]) : k \in DOMAIN sent})

\* What is behind the summary and not voided is shown once, a result with
\* its call; the summary, when there is one, comes first.
Shown == FlattenSeq([k \in DOMAIN sent |-> sent[k].shows])

Due ==
  LET behind == {i \in DOMAIN Sent : i > LastSummaryPoint(Sent)}
      output == {i \in behind : Sent[i].type \in {"text", "tool_call_end"} /\ ~VoidedAt(Sent, i)}
  IN output \union {i \in behind : Sent[i].type = "user_input" /\ Sent[i].tool # "vetoed"}
            \union {i \in behind : Sent[i].type = "tool_result" /\ Sent[i].at \in output}

ShownOnce ==
  /\ ToSet(Shown) = Due /\ Len(Shown) = Cardinality(Due)
  /\ {k \in DOMAIN sent : sent[k].role = "summary"} = IF LastSummaryPoint(Sent) = 0 THEN {} ELSE {1}

\* The latest result that is not to be compacted is never summarized away.
LatestKept ==
  LET memos == {i \in At(Sent, "tool_result") : Sent[i].tool = "memo"}
  IN memos # {} => Greatest(memos) \in ToSet(Shown)

\* A provider refuses a request whose calls and results do not pair, and a
\* model forgets what a request leaves out: every request is whole, however
\* results, voided drafts and cuts fell (project.ts 96-563).
RequestsAreWhole == (Requested /\ Settled) => (Paired /\ ShownOnce /\ LatestKept)

\* A request extends the one before, byte for byte, so that the provider's
\* cache holds, unless a summary or a prune was written between them.
\* project.ts 84-91: "the same event prefix derives the same message prefix".
RequestsExtend ==
  [][(sentAt' > sentAt /\ Settled /\ \A i \in (sentAt + 1)..sentAt' : log'[i].type \notin {"summarized", "microcompacted"})
     => IsPrefix(sent, sent')]_vars

-----------------------------------------------------------------------------
(* What the comments say and the code does not keep.                       *)

\* "The physical seq order is the COMPLETION order, which must never enter
\* the projection" (project.ts): a result that landed ahead of the stop is
\* flushed there, and takes the order of the calls with it.
ResultsInCallOrder ==
  \A k \in 1..(Len(sent) - 1) :
    (sent[k].role = "tool" /\ sent[k + 1].role = "tool") =>
      log[sent[k].shows[1]].at < log[sent[k + 1].shows[1]].at

\* "The provider is never called on resume, even with prior history" for a
\* run whose own input was vetoed (loop.ts 284-289): the veto is looked up only
\* if a user's message comes last, and what was vetoed shows none.
VetoedRunAsksNothing ==
  Requested =>
    LET own == {i \in At(log, "user_input") :
                  ~MidRun(i) /\ \A t \in At(log, "terminal") : t < i}
    IN own \subseteq Vetoed => own = {}

\* "A veto of an admitted one drops only that input; a resume decides as the
\* live path did" (loop.ts 251-253, 293-295): a resume takes it for the veto of
\* its run, and ends it with an input before it unanswered.
VetoDropsOneInput ==
  [][phase = "entry" /\ phase' = "idle" /\ Len(log') > Len(log) =>
       \A i \in At(log', "user_input") :
         log'[i].tool = "vetoed" \/ \E j \in i..Len(log') : log'[j].type \in {"stop", "terminal"} /\ j < Len(log')]_vars

\* "An execution still waiting for a verdict belongs to the world the parent
\* ran in: settle it there first" (fork.ts 60): a fork keeps it, and the person
\* may decide on one execution twice, once in each session.
ForkIsSettled == [][origin' \notin {0, origin} => Undecided' = {}]_vars

\* "What a fork's model is told, once, with the fork's first input" (fork.ts
\* 80): not behind a summary or a verdict that came ahead of that input.
ForkIsTold == [][phase = "idle" /\ phase' = "entry" => origin' = 0]_vars

\* "the reasoning of the turn being built": a turn that only thought hands
\* its reasoning to the next one's message.
ReasoningInItsTurn ==
  \A k \in DOMAIN sent : \A i \in sent[k].reasoning :
    \A s \in At(log, "stop") : ~(i < s /\ s < sent[k].shows[1])
=============================================================================
