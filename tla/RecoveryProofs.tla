---------------------------- MODULE RecoveryProofs ----------------------------
(***************************************************************************)
(* Theorems about a session across crashes, for every number of calls,     *)
(* runs and breaks: a handler runs at most once and only behind what       *)
(* authorizes it, each fact of a call is written once, a refusal is true,  *)
(* and where nobody aborts no request leaves a call unanswered.  First     *)
(* what the log says after any crash, and the lemmas on the log that the   *)
(* steps rest on; then where the process stands, and which calls rest.     *)
(***************************************************************************)
EXTENDS Recovery, FiniteSetTheorems, WellFoundedInduction, TLAPS

(***************************************************************************)
(* The inductive invariant: what the log says.                             *)
(***************************************************************************)

\* What only the run in progress writes, in the order of the runs.
LoopTypes == {"user_input", "tool_call_end", "stop", "permission_requested"}
\* What is written once about a call.
Facts == {"permission_requested", "permission_decided",
          "tool_execution_started", "tool_result"}
Unique(t, c) == \A i, j \in Events(t, c) : i = j
RunOf(c) == log[Position(c)].run
InLog(r) == \E i \in DOMAIN log : log[i].run = r

\* The runs before the current one are terminated; each starts with an input.
RunsInOrder ==
  /\ \A i \in DOMAIN log :
       /\ log[i].run \in 1..run
       /\ \E j \in 1..i : log[j].type = "user_input" /\ log[j].run = log[i].run
  /\ \A r \in 1..run : InLog(r) /\ r < run => Terminated(r)
  /\ \A i, j \in DOMAIN log :
       i < j /\ log[i].type \in LoopTypes /\ log[j].type \in LoopTypes =>
         log[i].run <= log[j].run

\* Calls are declared once, in order; a human is asked by the run of the call,
\* what starts was declared, and a receipt or a resolution is of a start.
CallsInOrder ==
  /\ \E k \in 0..MaxCalls : Declared = 1..k
  /\ \A c \in Calls : Unique("tool_call_end", c)
  /\ \A c \in 0..MaxCalls :
       /\ Has("permission_requested", c) \/ Has("tool_execution_started", c) =>
            c \in Declared
       /\ \A i \in Events("permission_requested", c) : log[i].run = RunOf(c)
       /\ Has("tool_execution_receipt", c) \/ Has("tool_execution_resolved", c) =>
            Has("tool_execution_started", c)

WrittenOnce == \A c \in Calls : \A t \in Facts : Unique(t, c)

\* A call is decided by its policies, or by the human who was asked; it starts
\* undenied and, if a human was asked, behind the human's approval.
DecidedBy(c) ==
  \A i \in Events("permission_decided", c) :
    log[i].tag \in IF Has("permission_requested", c)
                   THEN {"humanAllow", "humanDeny"}
                   ELSE {"policyAllow", "policyDeny"}
Approved(c) ==
  \E i \in Events("permission_decided", c) :
    /\ log[i].tag = "humanAllow"
    /\ \A j \in Events("tool_execution_started", c) : i < j
Authorized(c) ==
  /\ DecidedBy(c)
  /\ Has("tool_execution_started", c) =>
       ~Denied(c) /\ (Has("permission_requested", c) => Approved(c))

\* A refusal is of a call that has not started; a call about which a human was
\* asked has a result if it started, was denied or lost its run.
Truthful(c) ==
  /\ \A i \in Events("tool_result", c) : log[i].tag \in {"denied", "aborted"} =>
       ~Has("tool_execution_started", c)
  /\ Has("tool_result", c) /\ Has("permission_requested", c) =>
       \/ Has("tool_execution_started", c) \/ Denied(c)
       \/ Terminated(RunOf(c))

\* A stop of the call's own turn stands ahead of position k.
StoppedAhead(c, k) ==
  \E j \in Position(c)..k :
    /\ log[j].type = "stop"
    /\ \A x \in Position(c)..j : log[x].type # "user_input"
Stopped(c) ==
  /\ \A i \in Events("tool_execution_started", c) : Safe(c) \/ StoppedAhead(c, i)
  /\ Has("permission_requested", c) => StoppedAhead(c, Len(log))

LogInv ==
  /\ RunsInOrder /\ CallsInOrder /\ WrittenOnce
  /\ \A c \in Calls : Authorized(c) /\ Truthful(c)
  /\ \A c \in Declared : Stopped(c)

(***************************************************************************)
(* Numbers and appended events.                                            *)
(***************************************************************************)

\* A set of numbers that is not empty has a smallest element.
LEMMA SmallestOf ==
  ASSUME NEW S \in SUBSET Nat, S # {}
  PROVE  \E m \in S : \A x \in S : m <= x
<1> DEFINE R == OpToRel(<, Nat)
<1>1. \A j \in S, i \in S : i < j => <<i, j>> \in R
  BY DEF OpToRel
<1>2. IsWellFoundedOn(R, Nat)
  BY NatLessThanWellFounded
<1> HIDE DEF R
<1>3. PICK m \in S : \A i \in S : ~(<<i, m>> \in R)
  BY <1>2, WFMin
<1>4. ASSUME NEW x \in S PROVE m <= x
  <2>1. ~(x < m)
    BY <1>1, <1>3
  <2> QED
    BY <2>1
<1> QED
  BY <1>4

\* A set of numbers below a bound that is not empty has a largest element.
LEMMA LargestOf ==
  ASSUME NEW k \in Nat, NEW S \in SUBSET (0..k), S # {}
  PROVE  \E m \in S : \A x \in S : m >= x
<1> DEFINE T == {j \in Nat : k - j \in S}
<1>1. T \subseteq Nat /\ T # {}
  <2>1. PICK x \in S : TRUE
    OBVIOUS
  <2>2. k - x \in Nat /\ k - (k - x) = x
    BY <2>1
  <2> QED
    BY <2>1, <2>2
<1>2. \A x \in S : k - x \in T
  <2> SUFFICES ASSUME NEW x \in S PROVE k - x \in Nat /\ k - (k - x) \in S
    OBVIOUS
  <2>1. k - x \in Nat /\ k - (k - x) = x
    OBVIOUS
  <2> QED
    BY <2>1
<1>3. PICK m \in T : \A j \in T : m <= j
  BY <1>1, SmallestOf
<1>4. m \in Nat /\ k - m \in S
  BY <1>1
<1> HIDE DEF T
<1>5. ASSUME NEW x \in S PROVE k - m >= x
  <2>1. m <= k - x
    BY <1>2, <1>3
  <2> QED
    BY <1>4, <2>1
<1> QED
  BY <1>4, <1>5

LEMMA LeastOf ==
  ASSUME NEW S \in SUBSET Nat, S # {}
  PROVE  Least(S) \in S /\ \A x \in S : Least(S) <= x
<1>1. \E m \in S : \A x \in S : m <= x
  BY SmallestOf
<1> QED
  BY <1>1, Zenon DEF Least

LEMMA GreatestOf ==
  ASSUME NEW k \in Nat, NEW S \in SUBSET (0..k), S # {}
  PROVE  Greatest(S) \in S /\ \A x \in S : Greatest(S) >= x
<1>1. \E m \in S : \A x \in S : m >= x
  BY LargestOf
<1> QED
  BY <1>1, Zenon DEF Greatest

LEMMA Appended ==
  ASSUME log \in Seq(Event), NEW e \in Event, log' = Append(log, e)
  PROVE  /\ log' \in Seq(Event)
         /\ Len(log) \in Nat /\ Len(log') = Len(log) + 1
         /\ DOMAIN log = 1..Len(log) /\ DOMAIN log' = 1..(Len(log) + 1)
         /\ \A i \in 1..Len(log) : log'[i] = log[i]
         /\ log'[Len(log) + 1] = e
OBVIOUS

LEMMA EventFields ==
  ASSUME log \in Seq(Event), NEW i \in DOMAIN log
  PROVE  /\ log[i] \in Event /\ log[i].type \in Types
         /\ log[i].call \in 0..MaxCalls /\ log[i].run \in Nat
<1>1. log[i] \in Event
  OBVIOUS
<1> QED
  BY <1>1 DEF Event

\* What an appended event adds to what the log says.
LEMMA Grown ==
  ASSUME log \in Seq(Event), NEW e \in Event, log' = Append(log, e)
  PROVE  /\ \A t, c : Events(t, c)' = Events(t, c) \cup
              {i \in {Len(log) + 1} : e.type = t /\ e.call = c}
         /\ \A t, c : Has(t, c)' <=> Has(t, c) \/ (e.type = t /\ e.call = c)
         /\ \A t, c, tag : HasTag(t, c, tag)' <=>
              HasTag(t, c, tag) \/ (e.type = t /\ e.call = c /\ e.tag = tag)
         /\ \A r : Terminated(r)' <=>
              Terminated(r) \/ (e.type = "terminal" /\ e.run = r)
         /\ \A r : InLog(r)' <=> InLog(r) \/ e.run = r
         /\ \A c : Denied(c)' <=>
              \/ Denied(c)
              \/ /\ e.type = "permission_decided" /\ e.call = c
                 /\ e.tag \in {"policyDeny", "humanDeny"}
<1> DEFINE k == Len(log) + 1
<1>1. /\ k \in Nat /\ k \notin DOMAIN log /\ DOMAIN log' = DOMAIN log \cup {k}
      /\ \A i \in DOMAIN log : log'[i] = log[i]
      /\ log'[k] = e
  BY Appended
<1> HIDE DEF k
<1>2. \A t, c : Events(t, c)' = Events(t, c) \cup
        {i \in {k} : e.type = t /\ e.call = c}
  BY <1>1 DEF Events
<1>3. \A t, c : Has(t, c)' <=> Has(t, c) \/ (e.type = t /\ e.call = c)
  BY <1>2 DEF Has
<1>4. \A t, c, tag : HasTag(t, c, tag)' <=>
        HasTag(t, c, tag) \/ (e.type = t /\ e.call = c /\ e.tag = tag)
  BY <1>1 DEF HasTag, Events
<1>5. \A r : Terminated(r)' <=>
        Terminated(r) \/ (e.type = "terminal" /\ e.run = r)
  BY <1>1 DEF Terminated
<1>6. \A r : InLog(r)' <=> InLog(r) \/ e.run = r
  BY <1>1 DEF InLog
<1>7. \A c : Denied(c)' <=>
        \/ Denied(c)
        \/ /\ e.type = "permission_decided" /\ e.call = c
           /\ e.tag \in {"policyDeny", "humanDeny"}
  BY <1>4 DEF Denied
<1> QED
  BY <1>2, <1>3, <1>4, <1>5, <1>6, <1>7 DEF k

\* Where a call was declared.
LEMMA Located ==
  ASSUME log \in Seq(Event), NEW c \in Declared
  PROVE  /\ Position(c) \in Events("tool_call_end", c)
         /\ Position(c) \in 1..Len(log) /\ Position(c) \in Nat
         /\ log[Position(c)].type = "tool_call_end" /\ log[Position(c)].call = c
         /\ c \in Calls /\ InLog(RunOf(c))
<1>1. Events("tool_call_end", c) # {} /\ c \in Calls
  BY DEF Declared, Has
<1>2. Position(c) \in Events("tool_call_end", c)
  BY <1>1, Zenon DEF Position
<1>3. DOMAIN log = 1..Len(log)
  OBVIOUS
<1> QED
  BY <1>1, <1>2, <1>3 DEF Events, InLog, RunOf

\* What an appended event leaves of a call that is not declared again.
LEMMA StaysPut ==
  ASSUME log \in Seq(Event), NEW e \in Event, log' = Append(log, e),
         NEW c \in Declared, ~(e.type = "tool_call_end" /\ e.call = c)
  PROVE  /\ Position(c)' = Position(c) /\ RunOf(c)' = RunOf(c)
         /\ Safe(c)' <=> Safe(c)
         /\ Voided(c) => Voided(c)'
         /\ \A k \in 1..Len(log) : StoppedAhead(c, k)' <=> StoppedAhead(c, k)
         /\ StoppedAhead(c, Len(log)) => StoppedAhead(c, Len(log))'
<1>1. Events("tool_call_end", c)' = Events("tool_call_end", c)
  <2>1. Events("tool_call_end", c)' = Events("tool_call_end", c) \cup
          {i \in {Len(log) + 1} : e.type = "tool_call_end" /\ e.call = c}
    BY Grown
  <2> QED
    BY <2>1
<1>2. Position(c)' = Position(c)
  BY <1>1, Zenon DEF Position
<1>3. /\ Position(c) \in 1..Len(log) /\ Len(log) \in Nat /\ Len(log') = Len(log) + 1
      /\ DOMAIN log = 1..Len(log) /\ DOMAIN log' = 1..(Len(log) + 1)
      /\ \A i \in 1..Len(log) : log'[i] = log[i]
  BY Located, Appended
<1>4. RunOf(c)' = RunOf(c)
  BY <1>2, <1>3 DEF RunOf
<1>5. Safe(c)' <=> Safe(c)
  BY Grown DEF Safe
<1>6. Voided(c) => Voided(c)'
  BY <1>2, <1>3 DEF Voided
<1>7. ASSUME NEW k \in 1..Len(log)
      PROVE  StoppedAhead(c, k)' <=> StoppedAhead(c, k)
  <2> DEFINE p == Position(c)
  <2>1. \A j \in p..k : /\ log'[j] = log[j]
                        /\ \A x \in p..j : log'[x] = log[x]
    BY <1>3
  <2>2. StoppedAhead(c, k)' <=>
          \E j \in p..k : /\ log'[j].type = "stop"
                          /\ \A x \in p..j : log'[x].type # "user_input"
    BY <1>2 DEF StoppedAhead
  <2>3. StoppedAhead(c, k) <=>
          \E j \in p..k : /\ log[j].type = "stop"
                          /\ \A x \in p..j : log[x].type # "user_input"
    BY DEF StoppedAhead
  <2> HIDE DEF p
  <2>4. ASSUME NEW j \in p..k
        PROVE  /\ log'[j].type = "stop" <=> log[j].type = "stop"
               /\ (\A x \in p..j : log'[x].type # "user_input") <=>
                    (\A x \in p..j : log[x].type # "user_input")
    BY <2>1
  <2> QED
    BY <2>2, <2>3, <2>4
<1>8. ASSUME StoppedAhead(c, Len(log)) PROVE StoppedAhead(c, Len(log))'
  <2> DEFINE p == Position(c)
  <2>1. PICK j \in p..Len(log) :
          /\ log[j].type = "stop"
          /\ \A x \in p..j : log[x].type # "user_input"
    BY <1>8 DEF StoppedAhead
  <2>2. j \in p..Len(log') /\ \A x \in p..j : log'[x] = log[x]
    BY <1>3, <2>1
  <2>3. StoppedAhead(c, Len(log))' <=>
          \E i \in p..Len(log') : /\ log'[i].type = "stop"
                                  /\ \A x \in p..i : log'[x].type # "user_input"
    BY <1>2 DEF StoppedAhead
  <2>4. j \in p..j
    BY <1>3, <2>1
  <2> HIDE DEF p
  <2> QED
    BY <2>1, <2>2, <2>3, <2>4
<1> QED
  BY <1>2, <1>4, <1>5, <1>6, <1>7, <1>8

LEMMA StoppedLater ==
  ASSUME log \in Seq(Event), NEW c \in Declared,
         NEW k \in 1..Len(log), StoppedAhead(c, k)
  PROVE  StoppedAhead(c, Len(log))
<1>1. Position(c) \in Nat /\ Len(log) \in Nat
  BY Located
<1>2. \A j \in Position(c)..k : j \in Position(c)..Len(log)
  BY <1>1
<1> QED
  BY <1>2 DEF StoppedAhead

(***************************************************************************)
(* What a step may append.                                                 *)
(***************************************************************************)

\* A request is put for a call of the run in progress, behind its stop.
MayAsk(c) ==
  /\ c \in Declared /\ RunOf(c) = run /\ StoppedAhead(c, Len(log))
  /\ \A t \in Facts : ~Has(t, c)
\* A decision answers the request, if there is one.
MayDecide(c, tag) ==
  /\ c \in Calls
  /\ ~Has("permission_decided", c) /\ ~Has("tool_execution_started", c)
  /\ tag \in IF Has("permission_requested", c) THEN {"humanAllow", "humanDeny"}
                                               ELSE {"policyAllow", "policyDeny"}
MayStart(c) ==
  /\ c \in Declared
  /\ ~Has("tool_execution_started", c) /\ ~Has("tool_result", c) /\ ~Denied(c)
  /\ Has("permission_requested", c) => HasTag("permission_decided", c, "humanAllow")
  /\ Safe(c) \/ StoppedAhead(c, Len(log))
MayResult(c, tag) ==
  /\ c \in Calls /\ ~Has("tool_result", c)
  /\ tag \in {"denied", "aborted"} => ~Has("tool_execution_started", c)
  /\ Has("permission_requested", c) =>
       Has("tool_execution_started", c) \/ Denied(c) \/ Terminated(RunOf(c))

Extends(e) ==
  /\ e \in Event /\ e.run \in 1..run
  /\ e.type # "user_input" => InLog(e.run)
  /\ e.type \in LoopTypes => e.run = run
  /\ e.type = "tool_call_end" =>
       e.call \in Calls /\ e.call = Cardinality(Declared) + 1
  /\ e.type = "permission_requested" => MayAsk(e.call)
  /\ e.type = "permission_decided" => MayDecide(e.call, e.tag)
  /\ e.type = "tool_execution_started" => MayStart(e.call)
  /\ e.type \in {"tool_execution_receipt", "tool_execution_resolved"} =>
       e.call \in Calls /\ Has("tool_execution_started", e.call)
  /\ e.type = "tool_result" => MayResult(e.call, e.tag)

\* A declared call is not declared again.
LEMMA NewCall ==
  ASSUME TypeOK, CallsInOrder, NEW e, Extends(e), log' = Append(log, e)
  PROVE  /\ \A c \in Declared : ~(e.type = "tool_call_end" /\ e.call = c)
         /\ Declared' = Declared \cup
                {c \in Calls : e.type = "tool_call_end" /\ e.call = c}
         /\ \E k \in 0..MaxCalls : Declared' = 1..k
         /\ \A t, c : Has(t, c) => Has(t, c)'
<1>1. PICK k \in 0..MaxCalls : Declared = 1..k
  BY DEF CallsInOrder
<1>2. Cardinality(1..k) = k
  <2>1. k \in Int /\ 1 \in Int
    BY <1>1, SessionLogAssumption
  <2>2. Cardinality(1..k) = IF 1 > k THEN 0 ELSE k - 1 + 1
    BY <2>1, FS_Interval
  <2> QED
    BY <1>1, <2>1, <2>2, SessionLogAssumption
<1>3. ASSUME e.type = "tool_call_end"
      PROVE  e.call = k + 1 /\ e.call \in Calls /\ e.call \notin Declared
  BY <1>1, <1>2, <1>3, SessionLogAssumption DEF Extends
<1>4. log \in Seq(Event) /\ e \in Event
  BY DEF TypeOK, Extends
<1>5. Declared' = Declared \cup {c \in Calls : e.type = "tool_call_end" /\ e.call = c}
  BY <1>4, Grown DEF Declared, Calls
<1>6. \E n \in 0..MaxCalls : Declared' = 1..n
  <2>1. CASE e.type = "tool_call_end"
    <3>1. Declared' = 1..(k + 1)
      BY <1>1, <1>3, <1>5, <2>1, SessionLogAssumption DEF Calls
    <3>2. k + 1 \in 0..MaxCalls
      BY <1>3, <2>1, SessionLogAssumption DEF Calls
    <3> QED
      BY <3>1, <3>2
  <2>2. CASE e.type # "tool_call_end"
    BY <1>1, <1>5, <2>2
  <2> QED
    BY <2>1, <2>2
<1> QED
  BY <1>3, <1>4, <1>5, <1>6, Grown

LEMMA RunsGrow ==
  ASSUME TypeOK, RunsInOrder, NEW e, Extends(e), log' = Append(log, e), run' = run
  PROVE  RunsInOrder'
<1>1. /\ log \in Seq(Event) /\ e \in Event /\ run \in Nat
      /\ e.run \in 1..run /\ (e.type # "user_input" => InLog(e.run))
      /\ e.type \in LoopTypes => e.run = run
  BY DEF TypeOK, Extends
<1> DEFINE n == Len(log)
<1>2. /\ n \in Nat /\ DOMAIN log = 1..n /\ DOMAIN log' = 1..(n + 1)
      /\ \A i \in 1..n : log'[i] = log[i]
      /\ log'[n + 1] = e
  BY <1>1, Appended
<1>3. \A r : Terminated(r) => Terminated(r)'
  BY <1>1, Grown
<1> HIDE DEF n
<1>4. ASSUME NEW i \in 1..n
      PROVE  /\ log[i].run \in 1..run
             /\ \E j \in 1..i : log[j].type = "user_input" /\ log[j].run = log[i].run
  BY <1>2 DEF RunsInOrder
<1>5. ASSUME NEW i \in 1..(n + 1)
      PROVE  /\ log'[i].run \in 1..run
             /\ \E j \in 1..i : log'[j].type = "user_input" /\ log'[j].run = log'[i].run
  <2>1. CASE i \in 1..n
    <3>1. \A j \in 1..i : log'[j] = log[j]
      BY <1>2, <2>1
    <3>2. log'[i] = log[i]
      BY <1>2, <2>1
    <3> QED
      BY <1>4, <2>1, <3>1, <3>2
  <2>2. CASE i = n + 1 /\ e.type = "user_input"
    BY <1>1, <1>2, <2>2
  <2>3. CASE i = n + 1 /\ e.type # "user_input"
    <3>1. PICK k \in 1..n : log[k].run = e.run
      BY <1>1, <1>2, <2>3 DEF InLog
    <3>2. PICK j \in 1..k : log[j].type = "user_input" /\ log[j].run = e.run
      BY <1>4, <3>1
    <3>3. j \in 1..i /\ log'[j] = log[j] /\ log'[i] = e
      BY <1>2, <2>3, <3>1, <3>2
    <3> QED
      BY <1>1, <3>2, <3>3
  <2> QED
    BY <1>2, <2>1, <2>2, <2>3
<1>6. ASSUME NEW r \in 1..run, InLog(r)', r < run PROVE Terminated(r)'
  <2>1. InLog(r)
    <3>1. InLog(r) \/ e.run = r
      BY <1>1, <1>6, Grown
    <3>2. e.run = r => e.type # "user_input"
      BY <1>1, <1>6 DEF LoopTypes
    <3> QED
      BY <1>1, <3>1, <3>2
  <2> QED
    BY <1>3, <1>6, <2>1 DEF RunsInOrder
<1>7. ASSUME NEW i \in 1..(n + 1), NEW j \in 1..(n + 1), i < j,
             log'[i].type \in LoopTypes, log'[j].type \in LoopTypes
      PROVE  log'[i].run <= log'[j].run
  <2>1. i \in 1..n /\ log'[i] = log[i]
    BY <1>2, <1>7
  <2>2. CASE j \in 1..n
    <3>1. log'[j] = log[j]
      BY <1>2, <2>2
    <3> QED
      BY <1>2, <1>7, <2>1, <2>2, <3>1 DEF RunsInOrder
  <2>3. CASE j = n + 1
    <3>1. log'[j].run = run /\ log[i].run \in 1..run
      BY <1>1, <1>2, <1>4, <1>7, <2>1, <2>3
    <3> QED
      BY <1>1, <2>1, <3>1
  <2> QED
    BY <1>2, <2>2, <2>3
<1> QED
  BY <1>2, <1>5, <1>6, <1>7 DEF RunsInOrder

LEMMA CallsGrow ==
  ASSUME TypeOK, CallsInOrder, NEW e, Extends(e), log' = Append(log, e)
  PROVE  CallsInOrder'
<1>1. log \in Seq(Event) /\ e \in Event
  BY DEF TypeOK, Extends
<1> DEFINE n == Len(log)
<1>2. /\ n \in Nat /\ DOMAIN log = 1..n /\ DOMAIN log' = 1..(n + 1)
      /\ \A i \in 1..n : log'[i] = log[i]
      /\ log'[n + 1] = e
  BY <1>1, Appended
<1> HIDE DEF n
<1>3. ASSUME NEW c \in Calls PROVE Unique("tool_call_end", c)'
  <2>1. Events("tool_call_end", c)' = Events("tool_call_end", c) \cup
          {i \in {n + 1} : e.type = "tool_call_end" /\ e.call = c}
    BY <1>1, Grown DEF n
  <2>2. Events("tool_call_end", c) = {} \/ ~(e.type = "tool_call_end" /\ e.call = c)
    BY NewCall DEF Declared, Has
  <2>3. Unique("tool_call_end", c)
    BY DEF CallsInOrder
  <2> QED
    BY <2>1, <2>2, <2>3 DEF Unique
<1>4. ASSUME NEW c \in Declared PROVE c \in Declared' /\ RunOf(c)' = RunOf(c)
  BY <1>1, NewCall, StaysPut
<1>5. ASSUME NEW c \in 0..MaxCalls
      PROVE  /\ Has("permission_requested", c)' \/ Has("tool_execution_started", c)' =>
                  c \in Declared'
             /\ \A i \in Events("permission_requested", c)' :
                  log'[i].run = RunOf(c)'
             /\ \/ Has("tool_execution_receipt", c)'
                \/ Has("tool_execution_resolved", c)'
                => Has("tool_execution_started", c)'
  <2>1. Has("permission_requested", c)' \/ Has("tool_execution_started", c)' =>
          c \in Declared'
    BY <1>1, <1>4, Grown DEF CallsInOrder, Extends, MayAsk, MayStart
  <2>2. \A i \in Events("permission_requested", c)' : log'[i].run = RunOf(c)'
    <3>1. Events("permission_requested", c)' = Events("permission_requested", c)
            \cup {i \in {n + 1} : e.type = "permission_requested" /\ e.call = c}
      BY <1>1, Grown DEF n
    <3>2. ASSUME NEW i \in Events("permission_requested", c)
          PROVE  log'[i].run = RunOf(c)'
      <4>1. i \in 1..n /\ log[i].run = RunOf(c) /\ c \in Declared
        BY <1>2, <3>2 DEF CallsInOrder, Events, Has
      <4> QED
        BY <1>2, <1>4, <4>1
    <3>3. ASSUME e.type = "permission_requested", e.call = c
          PROVE  log'[n + 1].run = RunOf(c)'
      BY <1>2, <1>4, <3>3 DEF Extends, MayAsk, LoopTypes
    <3> QED
      BY <3>1, <3>2, <3>3
  <2>3. \/ Has("tool_execution_receipt", c)' \/ Has("tool_execution_resolved", c)'
        => Has("tool_execution_started", c)'
    BY <1>1, Grown, NewCall DEF CallsInOrder, Extends
  <2> QED
    BY <2>1, <2>2, <2>3
<1>6. \E k \in 0..MaxCalls : Declared' = 1..k
  BY NewCall
<1> QED
  BY <1>2, <1>3, <1>5, <1>6 DEF CallsInOrder

\* A fact is not written twice.
LEMMA FirstFact ==
  ASSUME NEW e, Extends(e), e.type \in Facts
  PROVE  ~Has(e.type, e.call)
BY DEF Extends, Facts, MayAsk, MayDecide, MayStart, MayResult

LEMMA OnceGrows ==
  ASSUME TypeOK, WrittenOnce, NEW e, Extends(e), log' = Append(log, e)
  PROVE  WrittenOnce'
<1> SUFFICES ASSUME NEW c \in Calls, NEW t \in Facts PROVE Unique(t, c)'
  BY DEF WrittenOnce
<1>1. Events(t, c)' = Events(t, c) \cup
        {i \in {Len(log) + 1} : e.type = t /\ e.call = c}
  BY Grown DEF TypeOK, Extends
<1>2. Events(t, c) = {} \/ ~(e.type = t /\ e.call = c)
  BY FirstFact DEF Has
<1>3. Unique(t, c)
  BY DEF WrittenOnce
<1> QED
  BY <1>1, <1>2, <1>3 DEF Unique

LEMMA AuthorizedGrows ==
  ASSUME TypeOK, LogInv, NEW e, Extends(e), log' = Append(log, e),
         NEW c \in Calls
  PROVE  Authorized(c)'
<1> DEFINE n == Len(log)
           new(t) == {i \in {n + 1} : e.type = t /\ e.call = c}
<1>1. log \in Seq(Event) /\ e \in Event /\ Authorized(c)
  BY DEF TypeOK, Extends, LogInv
<1>2. /\ n \in Nat /\ log'[n + 1] = e
      /\ \A t : Events(t, c) \subseteq 1..n
      /\ \A i \in 1..n : log'[i] = log[i]
      /\ \A t : Events(t, c)' = Events(t, c) \cup new(t)
  BY <1>1, Appended, Grown DEF Events
<1>3. ASSUME NEW i \in Events("permission_decided", c)',
             ~(e.type = "permission_decided" /\ e.call = c)
      PROVE  i \in Events("permission_decided", c) /\ log'[i] = log[i]
  <2> HIDE DEF n
  <2> QED
    BY <1>2, <1>3
<1>4. DecidedBy(c)'
  <2>1. CASE e.type = "permission_decided" /\ e.call = c
    <3>1. MayDecide(c, e.tag)
      BY <2>1 DEF Extends
    <3>2. Events("permission_decided", c)' = {n + 1}
      BY <1>2, <2>1, <3>1 DEF MayDecide, Has
    <3>3. Has("permission_requested", c)' <=> Has("permission_requested", c)
      BY <1>1, <2>1, Grown
    <3> QED
      BY <1>2, <3>1, <3>2, <3>3 DEF MayDecide, DecidedBy
  <2>2. CASE e.type = "permission_requested" /\ e.call = c
    <3>1. ~Has("permission_decided", c)
      BY <2>2 DEF Extends, MayAsk, Facts
    <3>2. Events("permission_decided", c)' = {}
      BY <1>3, <2>2, <3>1 DEF Has
    <3> QED
      BY <3>2 DEF DecidedBy
  <2>3. CASE ~(/\ e.call = c
               /\ e.type \in {"permission_decided", "permission_requested"})
    <3>1. Has("permission_requested", c)' <=> Has("permission_requested", c)
      BY <1>1, <2>3, Grown
    <3> QED
      BY <1>1, <1>3, <2>3, <3>1 DEF DecidedBy, Authorized
  <2> QED
    BY <2>1, <2>2, <2>3
<1>5. ASSUME Has("tool_execution_started", c)'
      PROVE  ~Denied(c)' /\ (Has("permission_requested", c)' => Approved(c)')
  <2>1. CASE Has("tool_execution_started", c)
    <3>1. ~Denied(c) /\ (Has("permission_requested", c) => Approved(c))
      BY <1>1, <2>1 DEF Authorized
    <3>2. /\ ~(e.type = "permission_decided" /\ e.call = c)
          /\ ~(e.type = "permission_requested" /\ e.call = c)
          /\ ~(e.type = "tool_execution_started" /\ e.call = c)
      BY <2>1 DEF Extends, MayDecide, MayAsk, MayStart, Facts
    <3>3. /\ ~Denied(c)'
          /\ Has("permission_requested", c)' => Has("permission_requested", c)
      BY <1>1, <3>1, <3>2, Grown
    <3>4. /\ Events("tool_execution_started", c)' = Events("tool_execution_started", c)
          /\ Events("permission_decided", c)' = Events("permission_decided", c)
      BY <1>2, <3>2
    <3>5. Approved(c) => Approved(c)'
      <4> HIDE DEF n
      <4> QED
        BY <1>2, <3>4 DEF Approved
    <3> QED
      BY <3>1, <3>3, <3>5
  <2>2. CASE ~Has("tool_execution_started", c)
    <3>1. e.type = "tool_execution_started" /\ e.call = c
      BY <1>1, <1>5, <2>2, Grown
    <3>2. MayStart(c)
      BY <3>1 DEF Extends
    <3>3. /\ ~Denied(c)'
          /\ Has("permission_requested", c)' => Has("permission_requested", c)
      BY <1>1, <3>1, <3>2, Grown DEF MayStart
    <3>4. ASSUME HasTag("permission_decided", c, "humanAllow") PROVE Approved(c)'
      <4>1. PICK i \in Events("permission_decided", c) : log[i].tag = "humanAllow"
        BY <3>4 DEF HasTag
      <4>2. Events("tool_execution_started", c)' = {n + 1}
        BY <1>2, <2>2, <3>1 DEF Has
      <4>3. i < n + 1 /\ log'[i] = log[i] /\ i \in Events("permission_decided", c)'
        BY <1>2, <4>1
      <4> QED
        BY <4>1, <4>2, <4>3 DEF Approved
    <3> QED
      BY <3>2, <3>3, <3>4 DEF MayStart
  <2> QED
    BY <2>1, <2>2
<1> QED
  BY <1>4, <1>5 DEF Authorized

LEMMA TruthfulGrows ==
  ASSUME TypeOK, LogInv, NEW e, Extends(e), log' = Append(log, e),
         NEW c \in Calls
  PROVE  Truthful(c)'
<1>1. log \in Seq(Event) /\ e \in Event /\ Truthful(c)
  BY DEF TypeOK, Extends, LogInv
<1>2. ASSUME NEW i \in Events("tool_result", c)', log'[i].tag \in {"denied", "aborted"}
      PROVE  ~Has("tool_execution_started", c)'
  <2>1. /\ Events("tool_result", c)' = Events("tool_result", c) \cup
             {k \in {Len(log) + 1} : e.type = "tool_result" /\ e.call = c}
        /\ log'[Len(log) + 1] = e
        /\ \A k \in Events("tool_result", c) : log'[k] = log[k]
    BY <1>1, Appended, Grown DEF Events
  <2>2. ~Has("tool_execution_started", c)
    BY <1>1, <1>2, <2>1 DEF Truthful, Extends, MayResult
  <2>3. ~(e.type = "tool_execution_started" /\ e.call = c)
    BY <2>1, <1>2 DEF Extends, MayStart, Has
  <2> QED
    BY <1>1, <2>2, <2>3, Grown
<1>3. ASSUME Has("tool_result", c)', Has("permission_requested", c)'
      PROVE  \/ Has("tool_execution_started", c)' \/ Denied(c)'
             \/ Terminated(RunOf(c))'
  <2>1. Has("permission_requested", c) /\ c \in Declared
    <3>1. \/ Has("permission_requested", c)
          \/ e.type = "permission_requested" /\ e.call = c
      BY <1>1, <1>3, Grown
    <3>2. Has("tool_result", c) \/ (e.type = "tool_result" /\ e.call = c)
      BY <1>1, <1>3, Grown
    <3>3. e.type = "permission_requested" /\ e.call = c => ~Has("tool_result", c)
      BY DEF Extends, MayAsk, Facts
    <3>4. Has("permission_requested", c)
      BY <3>1, <3>2, <3>3
    <3> QED
      BY <3>4, SessionLogAssumption DEF LogInv, CallsInOrder, Calls
  <2>2. \/ Has("tool_execution_started", c) \/ Denied(c) \/ Terminated(RunOf(c))
    <3>1. CASE Has("tool_result", c)
      BY <1>1, <2>1, <3>1 DEF Truthful
    <3>2. CASE e.type = "tool_result" /\ e.call = c
      BY <2>1, <3>2 DEF Extends, MayResult
    <3> QED
      BY <1>1, <1>3, <3>1, <3>2, Grown
  <2>3. RunOf(c)' = RunOf(c)
    BY <1>1, <2>1, NewCall, StaysPut DEF LogInv
  <2>4. ASSUME NEW r, r = RunOf(c) PROVE Terminated(r) => Terminated(RunOf(c))'
    <3>1. Terminated(r) => Terminated(r)'
      BY <1>1, Grown
    <3> QED
      BY <2>3, <2>4, <3>1 DEF Terminated
  <2> QED
    BY <1>1, <2>2, <2>4, Grown
<1> QED
  BY <1>2, <1>3 DEF Truthful

LEMMA StoppedGrows ==
  ASSUME TypeOK, LogInv, NEW e, Extends(e), log' = Append(log, e),
         NEW c \in Declared'
  PROVE  Stopped(c)'
<1>1. log \in Seq(Event) /\ e \in Event
  BY DEF TypeOK, Extends
<1>2. CASE c \notin Declared
  <2>1. e.type = "tool_call_end" /\ c \in Calls /\ c \in 0..MaxCalls
    BY <1>2, NewCall, SessionLogAssumption DEF LogInv, Calls
  <2>2. ~Has("permission_requested", c) /\ ~Has("tool_execution_started", c)
    BY <1>2, <2>1 DEF LogInv, CallsInOrder
  <2>3. ~Has("permission_requested", c)' /\ ~Has("tool_execution_started", c)'
    BY <1>1, <2>1, <2>2, Grown
  <2> QED
    BY <2>3 DEF Stopped, Has
<1>3. CASE c \in Declared
  <2> PICK n \in Nat : n = Len(log)
    BY <1>1
  <2>1. /\ n \in Nat /\ Len(log') = n + 1 /\ Position(c) \in 1..n
        /\ Events("tool_execution_started", c) \subseteq 1..n
        /\ Events("tool_execution_started", c)' =
             Events("tool_execution_started", c) \cup
               {i \in {n + 1} : e.type = "tool_execution_started" /\ e.call = c}
    BY <1>1, <1>3, Appended, Grown, Located DEF Events
  <2>2. /\ Safe(c)' <=> Safe(c)
        /\ \A k \in 1..n : StoppedAhead(c, k)' <=> StoppedAhead(c, k)
        /\ StoppedAhead(c, n) => StoppedAhead(c, Len(log))'
    BY <1>1, <1>3, NewCall, StaysPut DEF LogInv
  <2>3. Stopped(c)
    BY <1>3 DEF LogInv
  <2>4. StoppedAhead(c, Len(log))' => StoppedAhead(c, n + 1)'
    BY <2>1 DEF StoppedAhead
  <2>5. ASSUME NEW i \in Events("tool_execution_started", c)'
        PROVE  Safe(c)' \/ StoppedAhead(c, i)'
    <3>1. CASE i \in Events("tool_execution_started", c)
      BY <2>1, <2>2, <2>3, <3>1 DEF Stopped
    <3>2. CASE i = n + 1 /\ e.type = "tool_execution_started" /\ e.call = c
      BY <2>2, <2>4, <3>2 DEF Extends, MayStart
    <3> QED
      BY <2>1, <3>1, <3>2
  <2>6. ASSUME Has("permission_requested", c)' PROVE StoppedAhead(c, Len(log))'
    <3>1. \/ Has("permission_requested", c)
          \/ e.type = "permission_requested" /\ e.call = c
      BY <1>1, <2>6, Grown
    <3> QED
      BY <2>2, <2>3, <3>1 DEF Stopped, Extends, MayAsk
  <2> QED
    BY <2>5, <2>6 DEF Stopped
<1> QED
  BY <1>2, <1>3

\* Whatever may be appended keeps the log in order.
LEMMA LogGrows ==
  ASSUME TypeOK, LogInv, NEW e, Extends(e), log' = Append(log, e), run' = run
  PROVE  LogInv'
BY RunsGrow, CallsGrow, OnceGrows, AuthorizedGrows, TruthfulGrows, StoppedGrows
DEF LogInv

\* The order of the runs when another one comes to the front.
LEMMA RunChanges ==
  ASSUME LogInv, UNCHANGED log, run' \in Nat,
         \A i \in DOMAIN log : log[i].run \in 1..run',
         \A r \in 1..run : InLog(r) /\ r < run' => r < run \/ Terminated(r)
  PROVE  LogInv'
<1>1. RunsInOrder'
  <2>1. ASSUME NEW r \in 1..run', InLog(r), r < run' PROVE Terminated(r)
    <3>1. r \in 1..run
      BY <2>1 DEF LogInv, RunsInOrder, InLog
    <3> QED
      BY <2>1, <3>1 DEF LogInv, RunsInOrder
  <2>2. \A r : (InLog(r)' <=> InLog(r)) /\ (Terminated(r)' <=> Terminated(r))
    BY DEF InLog, Terminated
  <2>3. RunsInOrder
    BY DEF LogInv
  <2> QED
    BY <2>1, <2>2, <2>3 DEF RunsInOrder
<1>2. CallsInOrder' /\ WrittenOnce'
  BY DEF LogInv, CallsInOrder, WrittenOnce, Unique, Declared, Has, Events, RunOf,
     Position
<1>3. ASSUME NEW c \in Calls PROVE Authorized(c)' /\ Truthful(c)'
  <2>1. Authorized(c) /\ Truthful(c)
    BY DEF LogInv
  <2> QED
    BY <2>1 DEF Authorized, Truthful, DecidedBy, Approved, Denied, HasTag, Has, Events,
       Terminated, RunOf, Position
<1>4. ASSUME NEW c \in Declared PROVE Stopped(c)'
  <2>1. Stopped(c)
    BY DEF LogInv
  <2>2. Position(c)' = Position(c) /\ (Safe(c)' <=> Safe(c))
        /\ (Has("permission_requested", c)' <=> Has("permission_requested", c))
        /\ Events("tool_execution_started", c)' = Events("tool_execution_started", c)
    BY DEF Safe, HasTag, Has, Events, Position
  <2>3. \A k : StoppedAhead(c, k)' <=> StoppedAhead(c, k)
    BY <2>2 DEF StoppedAhead
  <2>4. StoppedAhead(c, Len(log))' <=> StoppedAhead(c, Len(log))
    BY <2>2 DEF StoppedAhead
  <2> QED
    BY <2>1, <2>2, <2>3, <2>4 DEF Stopped
<1>5. Declared' = Declared
  BY DEF Declared, Has, Events
<1> QED
  BY <1>1, <1>2, <1>3, <1>4, <1>5 DEF LogInv

(***************************************************************************)
(* What the recovery plan says when it names a step.                       *)
(***************************************************************************)

PlansCall(kind, c) == c \in Declared /\ CommittedCallNeeds(c) = kind
PlansRequest(kind, c) ==
  \E i \in DOMAIN log :
    StoredRequest(i) /\ log[i].call = c /\ RequestNeeds(c) = kind
PlansFill(type, c) ==
  \E i \in Scope : log[i].type = type /\ log[i].call = c /\ ~Has("tool_result", c)

PlanReads ==
  /\ Plan.kind = "DECIDE_PERMISSION" => PlansCall(Plan.kind, Plan.call)
  /\ Plan.kind \in {"EXECUTE", "REPAIR_RESULT"} =>
       PlansCall(Plan.kind, Plan.call) \/ PlansRequest(Plan.kind, Plan.call)
  /\ Plan.kind = "WAIT_PERMISSION" => PlansRequest(Plan.kind, Plan.call)
  /\ Plan.kind = "REPAIR_RECEIPT" => PlansFill("tool_execution_receipt", Plan.call)
  /\ Plan.kind = "FILL_RESOLUTION" => PlansFill("tool_execution_resolved", Plan.call)

LEMMA PlanRead == ASSUME TypeOK PROVE PlanReads
<1> DEFINE uncertain == {c \in Declared : Uncertain(c)}
           calls == {c \in Declared : CommittedCallNeeds(c) # "nothing"}
           requests == {i \in DOMAIN log : /\ StoredRequest(i)
                                           /\ RequestNeeds(log[i].call) # "nothing"}
           unfilled(t) == {i \in Scope : /\ log[i].type = t
                                             /\ ~Has("tool_result", log[i].call)}
           receipts == unfilled("tool_execution_receipt")
           resolutions == unfilled("tool_execution_resolved")
<1>1. /\ calls \in SUBSET Nat /\ requests \in SUBSET Nat
      /\ receipts \in SUBSET Nat /\ resolutions \in SUBSET Nat
  <2>1. DOMAIN log \subseteq Nat /\ Calls \subseteq Nat /\ 1..base \subseteq Nat
    BY SessionLogAssumption DEF TypeOK, Calls
  <2> QED
    BY <2>1 DEF Declared, Scope
<1>2. \A c \in calls : /\ CommittedCallNeeds(c) \in
                            {"DECIDE_PERMISSION", "EXECUTE", "REPAIR_RESULT"}
                       /\ c \in Declared
  BY DEF CommittedCallNeeds, Needs
<1>3. \A i \in requests : /\ RequestNeeds(log[i].call) \in
                               {"WAIT_PERMISSION", "EXECUTE", "REPAIR_RESULT"}
                          /\ i \in DOMAIN log /\ StoredRequest(i)
  BY DEF RequestNeeds, Needs
<1>4. Plan = IF uncertain # {}
             THEN [kind |-> "RESOLVE_UNCERTAIN", call |-> Least(uncertain)]
             ELSE IF Draft THEN [kind |-> "ABANDON_DRAFT", call |-> 0]
             ELSE IF calls # {}
             THEN [kind |-> CommittedCallNeeds(Least(calls)), call |-> Least(calls)]
             ELSE IF requests # {}
             THEN [kind |-> RequestNeeds(log[Least(requests)].call),
                   call |-> log[Least(requests)].call]
             ELSE IF receipts # {}
             THEN [kind |-> "REPAIR_RECEIPT", call |-> log[Least(receipts)].call]
             ELSE IF resolutions # {}
             THEN [kind |-> "FILL_RESOLUTION", call |-> log[Least(resolutions)].call]
             ELSE [kind |-> "CONTINUE_MODEL", call |-> 0]
  BY DEF Plan
<1>5. \A i \in receipts : PlansFill("tool_execution_receipt", log[i].call)
  BY DEF PlansFill
<1>6. \A i \in resolutions : PlansFill("tool_execution_resolved", log[i].call)
  BY DEF PlansFill
<1> HIDE DEF uncertain, calls, requests, receipts, resolutions
<1>7. CASE uncertain # {} \/ Draft
  BY <1>4, <1>7 DEF PlanReads
<1>8. CASE uncertain = {} /\ ~Draft /\ calls # {}
  <2>1. Least(calls) \in calls
    BY <1>1, <1>8, LeastOf
  <2>2. Plan.kind = CommittedCallNeeds(Plan.call) /\ Plan.call = Least(calls)
    BY <1>4, <1>8
  <2> QED
    BY <1>2, <2>1, <2>2 DEF PlanReads, PlansCall
<1>9. CASE uncertain = {} /\ ~Draft /\ calls = {} /\ requests # {}
  <2>1. Least(requests) \in requests
    BY <1>1, <1>9, LeastOf
  <2>2. Plan.kind = RequestNeeds(Plan.call) /\ Plan.call = log[Least(requests)].call
    BY <1>4, <1>9
  <2> QED
    BY <1>3, <2>1, <2>2 DEF PlanReads, PlansRequest
<1>10. CASE uncertain = {} /\ ~Draft /\ calls = {} /\ requests = {} /\ receipts # {}
  <2>1. Least(receipts) \in receipts
    BY <1>1, <1>10, LeastOf
  <2>2. Plan.kind = "REPAIR_RECEIPT" /\ Plan.call = log[Least(receipts)].call
    BY <1>4, <1>10
  <2> QED
    BY <1>5, <2>1, <2>2 DEF PlanReads
<1>11. CASE /\ uncertain = {} /\ ~Draft /\ calls = {} /\ requests = {}
            /\ receipts = {} /\ resolutions # {}
  <2>1. Least(resolutions) \in resolutions
    BY <1>1, <1>11, LeastOf
  <2>2. Plan.kind = "FILL_RESOLUTION" /\ Plan.call = log[Least(resolutions)].call
    BY <1>4, <1>11
  <2> QED
    BY <1>6, <2>1, <2>2 DEF PlanReads
<1>12. CASE /\ uncertain = {} /\ ~Draft /\ calls = {} /\ requests = {}
            /\ receipts = {} /\ resolutions = {}
  <2>1. Plan.kind = "CONTINUE_MODEL"
    BY <1>4, <1>12
  <2> QED
    BY <2>1 DEF PlanReads
<1> QED
  BY <1>7, <1>8, <1>9, <1>10, <1>11, <1>12

(***************************************************************************)
(* Why a planned step may be taken.                                        *)
(***************************************************************************)

\* The turn of a call that the plan takes for committed: the run's own log is
\* what the whole log says, because the runs lie one behind the other.
LEMMA CommittedTurn ==
  ASSUME TypeOK, LogInv, NEW c \in Declared, InStoppedTurn(c)
  PROVE  RunOf(c) = run /\ StoppedAhead(c, Len(log))
<1> DEFINE at == Position(c)
<1>1. /\ log \in Seq(Event) /\ DOMAIN log = 1..Len(log) /\ Len(log) \in Nat
      /\ run \in Nat /\ base \in 0..Len(log)
      /\ at \in 1..Len(log) /\ log[at].type = "tool_call_end"
  BY Located DEF TypeOK
<1>2. at \in Scope /\ log[at].run = run
  BY DEF InStoppedTurn, Scope
<1>3. PICK i \in Scope : /\ log[i].type = "stop" /\ at < i
                         /\ \A j \in Scope : log[j].type = "user_input" =>
                              ~(at < j /\ j < i)
  BY DEF InStoppedTurn
<1>4. i \in 1..base /\ i \in 1..Len(log) /\ log[i].run = run
  BY <1>1 DEF Scope
<1>5. ASSUME NEW x \in at..i, log[x].type = "user_input" PROVE FALSE
  <2>1. x \in DOMAIN log /\ at < x /\ x < i
    BY <1>1, <1>3, <1>4, <1>5
  <2>2. log[at].run <= log[x].run /\ log[x].run <= log[i].run
    BY <1>1, <1>3, <1>4, <1>5, <2>1 DEF LogInv, RunsInOrder, LoopTypes
  <2>3. log[x].run = run
    <3>1. log[x].run \in Nat
      BY <1>1, <2>1, EventFields
    <3> QED
      BY <1>1, <1>2, <1>4, <2>2, <3>1
  <2>4. x \in Scope
    BY <1>1, <1>4, <2>1, <2>3 DEF Scope
  <2> QED
    BY <1>3, <1>5, <2>1, <2>4
<1>6. i \in at..Len(log)
  BY <1>1, <1>3, <1>4
<1> QED
  BY <1>2, <1>3, <1>5, <1>6 DEF RunOf, StoppedAhead

\* A request the plan reads is of the run in progress.
LEMMA RequestTurn ==
  ASSUME TypeOK, LogInv, Scope # {}, NEW i \in DOMAIN log, StoredRequest(i)
  PROVE  log[i].run = run /\ log[i].call \in Declared
<1>1. /\ log \in Seq(Event) /\ DOMAIN log = 1..Len(log) /\ Len(log) \in Nat
      /\ run \in Nat /\ base \in 0..Len(log) /\ log[i] \in Event
      /\ log[i].type = "permission_requested"
  BY DEF TypeOK, StoredRequest
<1>2. log[i].run = run
  <2>1. CASE i \in Scope
    BY <2>1 DEF Scope
  <2>2. CASE i > Greatest(Scope)
    <3>1. Scope \in SUBSET (0..base)
      BY <1>1 DEF Scope
    <3>2. Greatest(Scope) \in Scope
      BY <1>1, <3>1, GreatestOf
    <3> DEFINE g == Greatest(Scope)
    <3>3. g \in 1..Len(log) /\ g < i /\ log[g].run = run
      <4>1. g \in 1..base /\ log[g].run = run
        BY <3>2 DEF Scope
      <4> QED
        BY <1>1, <2>2, <4>1
    <3> HIDE DEF g
    <3>4. PICK j \in 1..g : log[j].type = "user_input" /\ log[j].run = run
      BY <1>1, <3>3 DEF LogInv, RunsInOrder
    <3>5. log[i].run \in 1..run
      BY <1>1 DEF LogInv, RunsInOrder
    <3>6. run <= log[i].run
      <4>1. j \in DOMAIN log /\ j < i
        BY <1>1, <3>3
      <4> QED
        BY <1>1, <3>4, <4>1 DEF LogInv, RunsInOrder, LoopTypes
    <3> QED
      BY <1>1, <3>5, <3>6
  <2> QED
    BY <2>1, <2>2 DEF StoredRequest
<1>3. log[i].call \in 0..MaxCalls /\ Has("permission_requested", log[i].call)
  BY <1>1 DEF Event, Has, Events
<1> QED
  BY <1>2, <1>3 DEF LogInv, CallsInOrder

\* A call has one decision.
LEMMA OneDecision ==
  ASSUME LogInv, NEW c \in Calls, NEW tag, HasTag("permission_decided", c, tag)
  PROVE  /\ Denied(c) => tag \in {"policyDeny", "humanDeny"}
         /\ \A other : HasTag("permission_decided", c, other) => other = tag
<1>1. Unique("permission_decided", c)
  BY DEF LogInv, WrittenOnce, Facts
<1> QED
  BY <1>1 DEF HasTag, Unique, Denied

LEMMA MayDecidePlanned ==
  ASSUME TypeOK, LogInv, NEW c, PlansCall("DECIDE_PERMISSION", c)
  PROVE  /\ MayStart(c) /\ MayAsk(c) /\ MayResult(c, "denied")
         /\ \A tag \in {"policyAllow", "policyDeny"} : MayDecide(c, tag)
<1>1. /\ c \in Declared /\ InStoppedTurn(c) /\ c \in Calls
      /\ \A t \in Facts : ~Has(t, c)
  BY DEF PlansCall, CommittedCallNeeds, Needs, Facts, Declared
<1>2. RunOf(c) = run /\ StoppedAhead(c, Len(log))
  BY <1>1, CommittedTurn
<1>3. ~Denied(c)
  BY <1>1 DEF Denied, HasTag, Has, Facts
<1> QED
  BY <1>1, <1>2, <1>3 DEF MayStart, MayAsk, MayDecide, MayResult, Facts

LEMMA MayExecutePlanned ==
  ASSUME TypeOK, LogInv, Scope # {}, ~Terminated(run),
         NEW c, PlansCall("EXECUTE", c) \/ PlansRequest("EXECUTE", c)
  PROVE  MayStart(c)
<1>1. CASE PlansCall("EXECUTE", c)
  <2>1. /\ c \in Declared /\ InStoppedTurn(c) /\ c \in Calls
        /\ ~Has("permission_requested", c) /\ ~Has("tool_result", c)
        /\ ~Has("tool_execution_started", c)
        /\ HasTag("permission_decided", c, "policyAllow")
    BY <1>1 DEF PlansCall, CommittedCallNeeds, Needs, Declared
  <2> QED
    BY <2>1, CommittedTurn, OneDecision DEF MayStart
<1>2. CASE PlansRequest("EXECUTE", c)
  <2>1. PICK i \in DOMAIN log :
          StoredRequest(i) /\ log[i].call = c /\ RequestNeeds(c) = "EXECUTE"
    BY <1>2 DEF PlansRequest
  <2>2. log[i].run = run /\ c \in Declared /\ c \in Calls
    BY <2>1, RequestTurn DEF Declared
  <2>3. i \in Events("permission_requested", c)
    BY <2>1 DEF StoredRequest, Events
  <2>4. RunOf(c) = run /\ Has("permission_requested", c)
    BY <2>2, <2>3, SessionLogAssumption DEF LogInv, CallsInOrder, Calls, Has
  <2>5. /\ ~Has("tool_execution_started", c)
        /\ HasTag("permission_decided", c, "humanAllow")
    BY <2>1 DEF RequestNeeds, Needs
  <2>6. ~Denied(c)
    BY <2>2, <2>5, OneDecision
  <2>7. ~Has("tool_result", c)
    BY <2>2, <2>4, <2>5, <2>6 DEF LogInv, Truthful
  <2>8. StoppedAhead(c, Len(log))
    BY <2>2, <2>4 DEF LogInv, Stopped
  <2> QED
    BY <2>2, <2>5, <2>6, <2>7, <2>8 DEF MayStart
<1> QED
  BY <1>1, <1>2

\* A denial without its result is completed, and the call has not started.
LEMMA MayRefusePlanned ==
  ASSUME TypeOK, LogInv, Scope # {},
         NEW c, PlansCall("REPAIR_RESULT", c) \/ PlansRequest("REPAIR_RESULT", c)
  PROVE  MayResult(c, "denied")
<1>1. /\ c \in Calls /\ ~Has("tool_result", c) /\ Has("permission_decided", c)
      /\ ~HasTag("permission_decided", c,
                 IF Has("permission_requested", c) THEN "humanAllow" ELSE "policyAllow")
  <2>1. CASE PlansCall("REPAIR_RESULT", c)
    BY <2>1 DEF PlansCall, CommittedCallNeeds, Needs, Declared
  <2>2. CASE PlansRequest("REPAIR_RESULT", c)
    <3>1. PICK i \in DOMAIN log :
            StoredRequest(i) /\ log[i].call = c /\ RequestNeeds(c) = "REPAIR_RESULT"
      BY <2>2 DEF PlansRequest
    <3>2. c \in Calls /\ Has("permission_requested", c)
      BY <3>1, RequestTurn DEF Declared, StoredRequest, Has, Events
    <3> QED
      BY <3>1, <3>2 DEF RequestNeeds, Needs
  <2> QED
    BY <2>1, <2>2
<1>2. Authorized(c) /\ DecidedBy(c)
  BY <1>1 DEF LogInv, Authorized
<1>3. Denied(c)
  <2>1. PICK i \in Events("permission_decided", c) : TRUE
    BY <1>1 DEF Has
  <2>2. log[i].tag \in {"policyDeny", "humanDeny"}
    BY <1>1, <1>2 DEF DecidedBy, HasTag
  <2> QED
    BY <2>2 DEF Denied, HasTag
<1> QED
  BY <1>1, <1>2, <1>3 DEF MayResult, Authorized

\* A receipt or a verdict on an uncertain execution is of a started call.
LEMMA MayFillPlanned ==
  ASSUME TypeOK, LogInv, NEW c,
         \/ PlansFill("tool_execution_receipt", c)
         \/ PlansFill("tool_execution_resolved", c)
  PROVE  MayResult(c, "ran") /\ MayResult(c, "resolved")
<1>1. PICK i \in DOMAIN log :
        /\ log[i].type \in {"tool_execution_receipt", "tool_execution_resolved"}
        /\ log[i].call = c /\ ~Has("tool_result", c)
  BY DEF PlansFill, Scope, TypeOK
<1>2. c \in 0..MaxCalls
  BY <1>1, EventFields DEF TypeOK
<1>3. Has("tool_execution_started", c) /\ c \in Calls
  BY <1>1, <1>2 DEF LogInv, CallsInOrder, Has, Events, Declared
<1> QED
  BY <1>1, <1>3 DEF MayResult

USE DEF loopVars, humanVars, driverUnchanged

(***************************************************************************)
(* The inductive invariant: where the process stands.                      *)
(***************************************************************************)

DriverPoints == {"derive", "check", "wait", "started", "ran", "result"}

\* A run in progress has its input; a resumed one is open, and the driver
\* loaded its input.
Entered ==
  /\ run <= MaxRuns
  /\ proc = "fresh" => run # 0
  /\ proc \notin {"idle", "fresh", "fill"} => InLog(run)
  /\ proc \in DriverPoints \cup {"resume"} => ~Terminated(run) /\ Scope # {}

\* What a step of several events is about.
Midway ==
  /\ proc = "fill" =>
       current \in Declared /\ Has("tool_execution_started", current)
  /\ proc = "wait" =>
       /\ current \in Calls
       /\ Has("permission_requested", current) /\ ~Has("permission_decided", current)
       /\ current \in resolvers \/ verdicts[current] # "none"
  /\ proc \in {"started", "ran", "result"} =>
       /\ current \in Calls
       /\ Has("tool_execution_started", current) /\ ~Has("tool_result", current)

\* A human answers requests only.
Asked ==
  \A c \in Calls : c \in resolvers \/ verdicts[c] # "none" =>
    Has("permission_requested", c)

\* A handler runs behind its STARTED, of a call whose handler has not run.
RunsOnce ==
  /\ \A c \in Calls :
       /\ ran[c] <= 1
       /\ ran[c] > 0 => Has("tool_execution_started", c)
       /\ c \in busy => Has("tool_execution_started", c) /\ ran[c] = 0
  /\ proc = "started" => ran[current] = 0 /\ current \notin busy

\* The loop's own calls are of its run; each is being streamed, was stopped in
\* its turn, or was voided.
OwnTurns ==
  proc = "live" =>
    /\ turnStart <= Len(log)
    /\ \A i \in DOMAIN log :
         i > entry /\ log[i].type = "tool_call_end" => log[i].run = run
    /\ \A c \in Declared : Position(c) > entry =>
         \/ Loop!Streaming /\ Position(c) > turnStart
         \/ StoppedAhead(c, Len(log)) \/ Voided(c)

ProcInv == Entered /\ Midway /\ Asked /\ RunsOnce /\ OwnTurns
RInv == TypeOK /\ LogInv /\ ProcInv

(***************************************************************************)
(* Steps of the driver.                                                    *)
(***************************************************************************)

\* What a step that writes nothing leaves.
LEMMA SameLog ==
  ASSUME TypeOK, UNCHANGED log
  PROVE  /\ \A t, c : Has(t, c)' <=> Has(t, c)
         /\ \A t, c : Events(t, c)' = Events(t, c)
         /\ \A r : (InLog(r)' <=> InLog(r)) /\ (Terminated(r)' <=> Terminated(r))
         /\ Declared' = Declared
         /\ \A c : Position(c)' = Position(c) /\ RunOf(c)' = RunOf(c)
         /\ UNCHANGED <<run, base>> => Scope' = Scope
<1>1. \A t, c : (Has(t, c)' <=> Has(t, c)) /\ Events(t, c)' = Events(t, c)
  BY DEF Has, Events
<1>2. \A r : (InLog(r)' <=> InLog(r)) /\ (Terminated(r)' <=> Terminated(r))
  BY DEF InLog, Terminated
<1>3. Declared' = Declared
  BY <1>1 DEF Declared
<1>4. \A c : Position(c)' = Position(c)
  BY <1>1 DEF Position
<1>5. \A c : RunOf(c)' = RunOf(c)
  BY <1>4 DEF RunOf
<1>6. UNCHANGED <<run, base>> => Scope' = Scope
  BY DEF Scope
<1> QED
  BY <1>1, <1>2, <1>3, <1>4, <1>5, <1>6

LEMMA LogRests ==
  ASSUME TypeOK, LogInv, UNCHANGED <<log, run>>
  PROVE  LogInv'
<1>1. \A i \in DOMAIN log : log[i].run \in 1..run'
  BY DEF LogInv, RunsInOrder
<1>2. run' \in Nat /\ (\A r \in 1..run : InLog(r) /\ r < run' => r < run)
  BY DEF TypeOK
<1> QED
  BY <1>1, <1>2, RunChanges

\* The run in progress is as open as before when anything but a terminal is
\* written.
LEMMA StaysOpen ==
  ASSUME TypeOK, NEW e \in Event, log' = Append(log, e), e.type # "terminal",
         UNCHANGED <<run, base>>
  PROVE  /\ \A r : Terminated(r)' <=> Terminated(r)
         /\ Scope' = Scope
<1>1. log \in Seq(Event) /\ base \in 0..Len(log)
  BY DEF TypeOK
<1>2. \A i \in 1..base : log'[i] = log[i]
  <2>1. \A i \in 1..Len(log) : log'[i] = log[i]
    BY <1>1, Appended
  <2> QED
    BY <1>1, <2>1
<1>3. Scope' = Scope
  BY <1>2 DEF Scope
<1> QED
  BY <1>1, <1>3, Grown

LEMMA TypeGrows ==
  ASSUME TypeOK, NEW e \in Event, log' = Append(log, e), UNCHANGED base
  PROVE  log' \in Seq(Event) /\ base' \in 0..Len(log')
<1>1. log \in Seq(Event) /\ base \in 0..Len(log)
  BY DEF TypeOK
<1> QED
  BY <1>1, Appended

\* The driver takes one step of its plan and writes one event.
LEMMA DriverAppends ==
  ASSUME RInv, NEW e, Extends(e), log' = Append(log, e), e.type # "terminal",
         UNCHANGED <<loopVars, driverUnchanged, humanVars, ran>>,
         proc \in DriverPoints, current' \in 0..MaxCalls,
         \/ proc' = "check"
         \/ /\ proc' = "started"
            /\ e.type = "tool_execution_started" /\ e.call = current'
         \/ /\ proc = "ran" /\ proc' = "result" /\ current' = current
            /\ e.type = "tool_execution_receipt"
  PROVE  RInv'
<1>1. TypeOK /\ LogInv /\ ProcInv /\ e \in Event /\ log \in Seq(Event)
  BY DEF RInv, TypeOK, Extends
<1>2. TypeOK'
  <2>1. log' \in Seq(Event) /\ base' \in 0..Len(log')
    BY <1>1, TypeGrows
  <2> QED
    BY <1>1, <2>1 DEF TypeOK, Points
<1>3. LogInv'
  BY <1>1, LogGrows
<1>4. /\ \A t, c : Has(t, c)' <=> Has(t, c) \/ (e.type = t /\ e.call = c)
      /\ \A r : InLog(r)' <=> InLog(r) \/ e.run = r
      /\ \A r : Terminated(r)' <=> Terminated(r)
      /\ Scope' = Scope
  BY <1>1, Grown, StaysOpen
<1>5. Entered'
  BY <1>1, <1>4 DEF ProcInv, Entered, DriverPoints
<1>6. proc' = "started" =>
        /\ current' \in Calls /\ ~Has("tool_execution_started", current')
        /\ ~Has("tool_result", current')
  BY DEF Extends, MayStart, Declared
<1>7. Midway'
  BY <1>1, <1>4, <1>6 DEF ProcInv, Midway
<1>8. Asked'
  BY <1>1, <1>4 DEF ProcInv, Asked
<1>9. RunsOnce'
  <2>1. ran \in [Calls -> Nat]
    BY <1>1 DEF TypeOK
  <2>2. proc' = "started" => ran[current'] = 0 /\ current' \notin busy
    BY <1>1, <1>6, <2>1 DEF ProcInv, RunsOnce
  <2> QED
    BY <1>1, <1>4, <2>2 DEF ProcInv, RunsOnce
<1>10. OwnTurns'
  BY DEF OwnTurns
<1> QED
  BY <1>2, <1>3, <1>5, <1>7, <1>8, <1>9, <1>10 DEF RInv, ProcInv

\* An event of the run in progress.
LEMMA RecordIsEvent ==
  ASSUME TypeOK, NEW type \in Types, NEW c \in 0..MaxCalls, NEW tag \in Tags,
         NEW r \in Nat
  PROVE  /\ Ev(r, type, c, tag) \in Event
         /\ Ev(r, type, c, tag).type = type /\ Ev(r, type, c, tag).call = c
         /\ Ev(r, type, c, tag).tag = tag /\ Ev(r, type, c, tag).run = r
BY DEF Ev, Event

\* The run in progress can be written on.
LEMMA RunIsOpen ==
  ASSUME RInv, proc \in DriverPoints
  PROVE  /\ run \in Nat /\ InLog(run) /\ run \in 1..run /\ ~Terminated(run)
         /\ Scope # {}
<1>1. run \in Nat /\ InLog(run) /\ ~Terminated(run) /\ Scope # {}
  BY DEF RInv, TypeOK, ProcInv, Entered, DriverPoints
<1>2. run \in 1..run
  BY <1>1 DEF RInv, LogInv, RunsInOrder, InLog
<1> QED
  BY <1>1, <1>2

LEMMA AbandonStep ==
  ASSUME RInv, AbandonDraft
  PROVE  RInv'
<1>1. /\ TypeOK /\ LogInv /\ proc \in DriverPoints /\ log \in Seq(Event)
      /\ Len(log) \in Nat /\ base \in 0..Len(log) /\ DOMAIN log = 1..Len(log)
  BY DEF RInv, AbandonDraft, Planned, At, DriverPoints, TypeOK
<1>2. /\ run \in Nat /\ InLog(run) /\ run \in 1..run /\ Scope # {}
  BY <1>1, RunIsOpen
<1>3. LastBoundary \in Nat
  <2> DEFINE B == {i \in OpenEvents : IsBoundary(i)}
  <2>1. OpenEvents \subseteq 0..Len(log)
    BY <1>1 DEF OpenEvents, Scope
  <2>2. PICK i \in Scope : TRUE
    BY <1>2
  <2>3. i \in DOMAIN log /\ i \in 1..base /\ log[i].run = run
    BY <1>1, <2>2 DEF Scope
  <2>4. PICK j \in 1..i : log[j].type = "user_input" /\ log[j].run = run
    BY <1>1, <2>3 DEF LogInv, RunsInOrder
  <2>5. j \in Scope
    BY <1>1, <2>3, <2>4 DEF Scope
  <2>6. j \in B
    BY <2>4, <2>5 DEF OpenEvents, IsBoundary
  <2>7. B \in SUBSET (0..Len(log)) /\ B # {}
    BY <2>1, <2>6
  <2>8. LastBoundary = Greatest(B)
    BY DEF LastBoundary
  <2> HIDE DEF B
  <2>9. Greatest(B) \in B
    BY <1>1, <2>7, GreatestOf
  <2>10. LastBoundary \in 0..Len(log)
    BY <2>7, <2>8, <2>9, Zenon
  <2> QED
    BY <1>1, <2>10
<1>4. PICK e : /\ e = [Ev(run, "model_output_abandoned", 0, "plain")
                         EXCEPT !.from = LastBoundary]
               /\ log' = Append(log, e)
  BY DEF AbandonDraft, Write
<1>5. /\ e \in Event /\ e.type = "model_output_abandoned" /\ e.run = run
  BY <1>2, <1>3, <1>4, SessionLogAssumption DEF Ev, Event, Types, Tags
<1>6. Extends(e)
  BY <1>2, <1>5 DEF Extends, LoopTypes
<1>7. /\ proc' = "check"
      /\ UNCHANGED <<loopVars, driverUnchanged, humanVars, ran, current>>
  BY DEF AbandonDraft, Goto
<1>8. current' \in 0..MaxCalls
  BY <1>1, <1>7 DEF TypeOK
<1> QED
  BY <1>1, <1>4, <1>5, <1>6, <1>7, <1>8, DriverAppends

\* A record of the run in progress, of a call that allows it.
LEMMA DriverRecords ==
  ASSUME RInv, proc \in DriverPoints, NEW type \in Types,
         type \notin {"tool_call_end", "terminal"},
         NEW c \in Calls, NEW tag \in Tags,
         Record(type, c, tag),
         type = "permission_requested" => MayAsk(c),
         type = "permission_decided" => MayDecide(c, tag),
         type = "tool_execution_started" => MayStart(c),
         type \in {"tool_execution_receipt", "tool_execution_resolved"} =>
           Has("tool_execution_started", c),
         type = "tool_result" => MayResult(c, tag),
         UNCHANGED <<loopVars, driverUnchanged, humanVars, ran>>,
         current' \in 0..MaxCalls,
         \/ proc' = "check"
         \/ proc' = "started" /\ type = "tool_execution_started" /\ c = current'
         \/ /\ proc = "ran" /\ proc' = "result" /\ current' = current
            /\ type = "tool_execution_receipt"
  PROVE  RInv'
<1>1. PICK e : e = Ev(run, type, c, tag) /\ log' = Append(log, e)
  BY DEF Record, Write
<1>2. run \in Nat /\ InLog(run) /\ run \in 1..run
  BY RunIsOpen
<1>3. /\ e \in Event /\ e.type = type /\ e.call = c /\ e.tag = tag /\ e.run = run
  <2>1. c \in 0..MaxCalls /\ TypeOK
    BY SessionLogAssumption DEF Calls, RInv
  <2> QED
    BY <1>1, <1>2, <2>1, RecordIsEvent
<1>4. Extends(e)
  BY <1>2, <1>3 DEF Extends, LoopTypes
<1> QED
  BY <1>1, <1>3, <1>4, DriverAppends

LEMMA RepairStep ==
  ASSUME RInv, RepairDenial \/ RepairReceipt \/ FillResolution
  PROVE  RInv'
<1>1. PICK kind \in {"REPAIR_RESULT", "REPAIR_RECEIPT", "FILL_RESOLUTION"},
           tag \in {"denied", "ran", "resolved"} :
        /\ Repair(kind, tag)
        /\ kind = "REPAIR_RESULT" => tag = "denied"
        /\ kind # "REPAIR_RESULT" => tag \in {"ran", "resolved"}
  BY DEF RepairDenial, RepairReceipt, FillResolution
<1>2. /\ proc = "derive" /\ proc \in DriverPoints /\ Plan.kind = kind
      /\ TypeOK /\ LogInv
  BY <1>1 DEF Repair, Planned, At, RInv, DriverPoints
<1>3. Scope # {}
  BY <1>2, RunIsOpen
<1>4. MayResult(Plan.call, tag)
  <2>1. CASE kind = "REPAIR_RESULT"
    <3>1. PlansCall(kind, Plan.call) \/ PlansRequest(kind, Plan.call)
      BY <1>2, <2>1, PlanRead DEF PlanReads
    <3> QED
      BY <1>1, <1>2, <1>3, <2>1, <3>1, MayRefusePlanned
  <2>2. CASE kind # "REPAIR_RESULT"
    <3>1. \/ PlansFill("tool_execution_receipt", Plan.call)
          \/ PlansFill("tool_execution_resolved", Plan.call)
      BY <1>1, <1>2, <2>2, PlanRead DEF PlanReads
    <3>2. MayResult(Plan.call, "ran") /\ MayResult(Plan.call, "resolved")
      BY <1>2, <3>1, MayFillPlanned
    <3> QED
      BY <1>1, <2>2, <3>2
  <2> QED
    BY <2>1, <2>2
<1>5. /\ Record("tool_result", Plan.call, tag) /\ proc' = "check"
      /\ UNCHANGED <<driverUnchanged, loopVars, current, humanVars, ran>>
  BY <1>1 DEF Repair, Goto
<1>6. Plan.call \in Calls /\ current' \in 0..MaxCalls
  BY <1>2, <1>4, <1>5 DEF MayResult, TypeOK
<1>7. "tool_result" \in Types /\ tag \in Tags
  BY <1>1 DEF Types, Tags
<1> QED
  BY <1>2, <1>4, <1>5, <1>6, <1>7, DriverRecords

\* The driver takes a step that writes nothing.
LEMMA DriverRests ==
  ASSUME RInv, proc \in DriverPoints, proc' \in {"derive", "check", "flush"},
         UNCHANGED <<log, loopVars, driverUnchanged, humanVars, ran>>,
         current' \in 0..MaxCalls
  PROVE  RInv'
<1>1. TypeOK /\ LogInv /\ ProcInv
  BY DEF RInv
<1>2. TypeOK' /\ LogInv'
  BY <1>1, LogRests DEF TypeOK, Points
<1>3. /\ \A t, c : Has(t, c)' <=> Has(t, c)
      /\ \A r : (InLog(r)' <=> InLog(r)) /\ (Terminated(r)' <=> Terminated(r))
      /\ Scope' = Scope
  BY <1>1, SameLog
<1>4. Entered'
  BY <1>1, <1>3 DEF ProcInv, Entered, DriverPoints
<1>5. Midway' /\ OwnTurns'
  BY DEF Midway, OwnTurns
<1>6. Asked' /\ RunsOnce'
  BY <1>1, <1>3 DEF ProcInv, Asked, RunsOnce
<1> QED
  BY <1>2, <1>4, <1>5, <1>6 DEF RInv, ProcInv

\* executePersisted, of a call that may start.
LEMMA ExecuteSteps ==
  ASSUME RInv, proc = "derive", NEW c \in Calls, MayStart(c), ExecutePersisted(c),
         UNCHANGED <<driverUnchanged, loopVars, humanVars, ran>>
  PROVE  RInv'
<1>1. proc \in DriverPoints /\ current' = c /\ c \in 0..MaxCalls
  BY SessionLogAssumption DEF DriverPoints, ExecutePersisted, Calls
<1>2. CASE aborted
  BY <1>1, <1>2, DriverRests DEF ExecutePersisted, Goto
<1>3. CASE ~aborted
  <2>1. Record("tool_execution_started", c, "plain") /\ proc' = "started"
    BY <1>3 DEF ExecutePersisted, Goto
  <2>2. "tool_execution_started" \in Types /\ "plain" \in Tags
    BY DEF Types, Tags
  <2> QED
    BY <1>1, <2>1, <2>2, DriverRecords
<1> QED
  BY <1>2, <1>3

LEMMA ExecuteStep ==
  ASSUME RInv, Execute
  PROVE  RInv'
<1>1. /\ proc = "derive" /\ proc \in DriverPoints /\ Plan.kind = "EXECUTE"
      /\ TypeOK /\ LogInv
      /\ ExecutePersisted(Plan.call)
      /\ UNCHANGED <<driverUnchanged, loopVars, humanVars, ran>>
  BY DEF Execute, Planned, At, RInv, DriverPoints
<1>2. Scope # {} /\ ~Terminated(run)
  BY <1>1, RunIsOpen
<1>3. PlansCall("EXECUTE", Plan.call) \/ PlansRequest("EXECUTE", Plan.call)
  BY <1>1, PlanRead DEF PlanReads
<1>4. MayStart(Plan.call)
  BY <1>1, <1>2, <1>3, MayExecutePlanned
<1>5. Plan.call \in Calls
  BY <1>4 DEF MayStart, Declared
<1> QED
  BY <1>1, <1>4, <1>5, ExecuteSteps

LEMMA DecideStep ==
  ASSUME RInv, DecidePermission
  PROVE  RInv'
<1>1. /\ proc = "derive" /\ proc \in DriverPoints /\ Plan.kind = "DECIDE_PERMISSION"
      /\ TypeOK /\ LogInv
      /\ UNCHANGED <<driverUnchanged, loopVars, humanVars, ran>>
  BY DEF DecidePermission, Planned, At, RInv, DriverPoints
<1>2. PICK c : c = Plan.call
  OBVIOUS
<1>3. PlansCall("DECIDE_PERMISSION", c)
  BY <1>1, <1>2, PlanRead DEF PlanReads
<1>4. /\ MayStart(c) /\ MayAsk(c) /\ MayResult(c, "denied")
      /\ \A tag \in {"policyAllow", "policyDeny"} : MayDecide(c, tag)
      /\ c \in Calls
  BY <1>1, <1>3, MayDecidePlanned DEF PlansCall, Declared
<1>5. current \in 0..MaxCalls
  BY <1>1 DEF TypeOK
<1>6. {"tool_result", "permission_decided", "permission_requested"} \subseteq Types
      /\ {"plain", "denied", "policyAllow", "policyDeny"} \subseteq Tags
  BY DEF Types, Tags
<1>7. CASE Record("tool_result", c, "denied") /\ Goto("check") /\ UNCHANGED current
  <2>1. proc' = "check" /\ current' \in 0..MaxCalls
    BY <1>5, <1>7 DEF Goto
  <2> QED
    BY <1>1, <1>4, <1>6, <1>7, <2>1, DriverRecords
<1>8. CASE Goto("check") /\ UNCHANGED <<log, current>>
  BY <1>1, <1>5, <1>8, DriverRests DEF Goto
<1>9. CASE Goto("flush") /\ UNCHANGED <<log, current>>
  BY <1>1, <1>5, <1>9, DriverRests DEF Goto
<1>10. ASSUME NEW tag \in {"policyAllow", "policyDeny"},
              Record("permission_decided", c, tag), Goto("check"), UNCHANGED current
       PROVE  RInv'
  <2>1. proc' = "check" /\ current' \in 0..MaxCalls
    BY <1>5, <1>10 DEF Goto
  <2> QED
    BY <1>1, <1>4, <1>6, <1>10, <2>1, DriverRecords
<1>11. CASE /\ Record("permission_requested", c, "plain")
            /\ Goto("check") /\ UNCHANGED current
  <2>1. proc' = "check" /\ current' \in 0..MaxCalls
    BY <1>5, <1>11 DEF Goto
  <2> QED
    BY <1>1, <1>4, <1>6, <1>11, <2>1, DriverRecords
<1>12. CASE ExecutePersisted(c)
  BY <1>1, <1>4, <1>12, ExecuteSteps
<1> QED
  BY <1>2, <1>7, <1>8, <1>9, <1>10, <1>11, <1>12 DEF DecidePermission

\* A call whose human has not answered has not started, and may be decided.
LEMMA MayAnswer ==
  ASSUME LogInv, NEW c \in Calls, Has("permission_requested", c),
         ~Has("permission_decided", c), NEW tag \in {"humanAllow", "humanDeny"}
  PROVE  MayDecide(c, tag)
<1>1. Authorized(c)
  BY DEF LogInv
<1>2. ~Has("tool_execution_started", c)
  BY <1>1 DEF Authorized, Approved, Has
<1> QED
  BY <1>2 DEF MayDecide

LEMMA WaitEndsStep ==
  ASSUME RInv, WaitEnds
  PROVE  RInv'
<1>1. /\ proc = "wait" /\ proc \in DriverPoints /\ proc' = "check"
      /\ TypeOK /\ LogInv
      /\ UNCHANGED <<driverUnchanged, loopVars, current, humanVars, ran>>
  BY DEF WaitEnds, At, Goto, RInv, DriverPoints
<1>2. /\ current \in Calls /\ current' \in 0..MaxCalls
      /\ Has("permission_requested", current) /\ ~Has("permission_decided", current)
  BY <1>1 DEF RInv, ProcInv, Midway, TypeOK
<1>3. CASE verdicts[current] # "none"
            /\ Record("permission_decided", current, verdicts[current])
  <2>1. verdicts[current] \in {"humanAllow", "humanDeny"}
    BY <1>1, <1>2, <1>3 DEF TypeOK
  <2>2. MayDecide(current, verdicts[current])
    BY <1>1, <1>2, <2>1, MayAnswer
  <2>3. "permission_decided" \in Types /\ verdicts[current] \in Tags
    BY <2>1 DEF Types, Tags
  <2> QED
    BY <1>1, <1>2, <1>3, <2>2, <2>3, DriverRecords
<1>4. CASE UNCHANGED log
  BY <1>1, <1>2, <1>4, DriverRests
<1> QED
  BY <1>3, <1>4 DEF WaitEnds

LEMMA WriteStep ==
  ASSUME RInv, WriteReceipt \/ WriteResult
  PROVE  RInv'
<1>1. /\ proc \in {"ran", "result"} /\ proc \in DriverPoints /\ TypeOK
      /\ UNCHANGED <<driverUnchanged, loopVars, current, humanVars, ran>>
  BY DEF WriteReceipt, WriteResult, At, RInv, DriverPoints
<1>2. /\ current \in Calls /\ current' \in 0..MaxCalls
      /\ Has("tool_execution_started", current) /\ ~Has("tool_result", current)
  BY <1>1 DEF RInv, ProcInv, Midway, TypeOK
<1>3. /\ {"tool_execution_receipt", "tool_result"} \subseteq Types
      /\ {"plain", "ran"} \subseteq Tags
  BY DEF Types, Tags
<1>4. CASE WriteReceipt
  <2>1. /\ Record("tool_execution_receipt", current, "plain")
        /\ proc = "ran" /\ proc' = "result"
    BY <1>4 DEF WriteReceipt, At, Goto
  <2> QED
    BY <1>1, <1>2, <1>3, <2>1, DriverRecords
<1>5. CASE WriteResult
  <2>1. Record("tool_result", current, "ran") /\ proc' = "check"
    BY <1>5 DEF WriteResult, Goto
  <2>2. MayResult(current, "ran")
    BY <1>2 DEF MayResult
  <2> QED
    BY <1>1, <1>2, <1>3, <2>1, <2>2, DriverRecords
<1> QED
  BY <1>4, <1>5

\* loop() is called on the log as it is.
LEMMA LoopEntered ==
  ASSUME RInv, proc \in DriverPoints, EnterLoop, UNCHANGED log,
         UNCHANGED <<driverUnchanged, current, humanVars, ran>>
  PROVE  RInv'
<1>1. TypeOK /\ LogInv /\ ProcInv /\ Len(log) \in Nat
  BY DEF RInv, TypeOK
<1>2. /\ proc' = "live" /\ entry' = Len(log) /\ turnStart' = 0 /\ run' = run
  BY DEF EnterLoop, Goto
<1>3. TypeOK' /\ LogInv'
  BY <1>1, <1>2, LogRests DEF TypeOK, Points
<1>4. /\ \A t, c : Has(t, c)' <=> Has(t, c)
      /\ \A r : InLog(r)' <=> InLog(r)
      /\ Declared' = Declared /\ \A c : Position(c)' = Position(c)
  BY <1>1, SameLog
<1>5. Entered'
  BY <1>1, <1>2, <1>4 DEF ProcInv, Entered, DriverPoints
<1>6. Midway' /\ Asked' /\ RunsOnce'
  BY <1>1, <1>2, <1>4 DEF ProcInv, Midway, Asked, RunsOnce
<1>7. OwnTurns'
  <2>1. \A i \in DOMAIN log : ~(i > Len(log))
    BY <1>1 DEF TypeOK
  <2>2. \A c \in Declared : ~(Position(c) > Len(log))
    BY <1>1, Located DEF TypeOK
  <2> QED
    BY <1>1, <1>2, <1>4, <2>1, <2>2 DEF OwnTurns
<1> QED
  BY <1>3, <1>5, <1>6, <1>7 DEF RInv, ProcInv

LEMMA ContinueStep ==
  ASSUME RInv, ContinueModel \/ Check \/ ResolveUncertainBlocks
  PROVE  RInv'
<1>1. /\ proc \in DriverPoints /\ TypeOK /\ LogInv /\ current' \in 0..MaxCalls
      /\ UNCHANGED <<driverUnchanged, current, humanVars, ran>>
  BY DEF ContinueModel, Check, ResolveUncertainBlocks, Planned, At, RInv, TypeOK,
     DriverPoints
<1>2. CASE /\ StaleVoided # {}
           /\ Record("permission_expired", log[Least(StaleVoided)].call, "plain")
           /\ Goto("check") /\ UNCHANGED loopVars
  <2>1. StaleVoided \in SUBSET Nat
    BY <1>1 DEF StaleVoided, TypeOK
  <2>2. Least(StaleVoided) \in StaleVoided
    BY <1>2, <2>1, LeastOf
  <2>3. PICK i \in DOMAIN log : i = Least(StaleVoided) /\ StoredRequest(i)
    BY <2>2 DEF StaleVoided
  <2>4. log[i].call \in Calls
    BY <1>1, <2>3, RunIsOpen, RequestTurn DEF Declared
  <2>5. "permission_expired" \in Types /\ "plain" \in Tags
    BY DEF Types, Tags
  <2>6. Record("permission_expired", log[i].call, "plain") /\ proc' = "check"
    BY <1>2, <2>3 DEF Goto
  <2> QED
    BY <1>1, <1>2, <2>4, <2>5, <2>6, DriverRecords
<1>3. CASE UNCHANGED log /\ EnterLoop
  BY <1>1, <1>3, LoopEntered
<1>4. CASE proc' \in {"derive", "flush"} /\ UNCHANGED <<log, loopVars>>
  BY <1>1, <1>4, DriverRests
<1> QED
  BY <1>2, <1>3, <1>4 DEF ContinueModel, Check, ResolveUncertainBlocks, Goto

\* What an unwritten step of the driver asks of the rest.
LEMMA DriverHolds ==
  ASSUME RInv, proc \in DriverPoints, proc' # "live",
         UNCHANGED <<log, loopVars, driverUnchanged, verdicts>>,
         proc' \in DriverPoints \cup {"flush", "poisoned"},
         TypeOK', Midway', RunsOnce',
         \A c \in resolvers' \ resolvers : Has("permission_requested", c)
  PROVE  RInv'
<1>1. TypeOK /\ LogInv /\ ProcInv
  BY DEF RInv
<1>2. LogInv'
  BY <1>1, LogRests
<1>3. /\ \A t, c : Has(t, c)' <=> Has(t, c)
      /\ \A r : (InLog(r)' <=> InLog(r)) /\ (Terminated(r)' <=> Terminated(r))
      /\ Scope' = Scope
  BY <1>1, SameLog
<1>4. Entered'
  BY <1>1, <1>3 DEF ProcInv, Entered, DriverPoints
<1>5. Asked'
  BY <1>1, <1>3 DEF ProcInv, Asked
<1> QED
  BY <1>2, <1>4, <1>5 DEF RInv, ProcInv, OwnTurns

LEMMA WaitStep ==
  ASSUME RInv, WaitPermission
  PROVE  RInv'
<1>1. /\ proc = "derive" /\ proc \in DriverPoints /\ Plan.kind = "WAIT_PERMISSION"
      /\ TypeOK /\ LogInv /\ ProcInv
      /\ UNCHANGED <<driverUnchanged, log, loopVars, verdicts, ran>>
      /\ proc' \in {"wait", "poisoned"}
      /\ current' = Plan.call /\ resolvers' = resolvers \cup {Plan.call}
  BY DEF WaitPermission, Planned, At, Goto, RInv, DriverPoints
<1>2. PICK c : c = Plan.call
  OBVIOUS
<1>3. PICK i \in DOMAIN log :
        StoredRequest(i) /\ log[i].call = c /\ RequestNeeds(c) = "WAIT_PERMISSION"
  BY <1>1, <1>2, PlanRead DEF PlanReads, PlansRequest
<1>4. /\ c \in Calls /\ Has("permission_requested", c)
      /\ ~Has("permission_decided", c)
  <2>1. c \in Calls
    BY <1>1, <1>3, RunIsOpen, RequestTurn DEF Declared
  <2>2. Has("permission_requested", c)
    BY <1>3 DEF StoredRequest, Has, Events
  <2>3. ~Has("permission_decided", c)
    BY <1>3 DEF RequestNeeds, Needs
  <2> QED
    BY <2>1, <2>2, <2>3
<1>5. TypeOK'
  <2>1. c \in 0..MaxCalls
    BY <1>4, SessionLogAssumption DEF Calls
  <2> QED
    BY <1>1, <1>2, <1>4, <2>1 DEF TypeOK, Points
<1>6. \A t, d : Has(t, d)' <=> Has(t, d)
  BY <1>1, SameLog
<1>7. Midway'
  BY <1>1, <1>2, <1>4, <1>6 DEF Midway
<1>8. RunsOnce'
  BY <1>1, <1>6 DEF ProcInv, RunsOnce
<1> QED
  BY <1>1, <1>2, <1>4, <1>5, <1>7, <1>8, DriverHolds DEF DriverPoints

LEMMA HandlerStep ==
  ASSUME RInv, RunHandler
  PROVE  RInv'
<1>1. /\ proc = "started" /\ proc \in DriverPoints
      /\ TypeOK /\ LogInv /\ ProcInv
      /\ UNCHANGED <<driverUnchanged, log, loopVars, current, humanVars>>
      /\ proc' \in {"ran", "flush"}
      /\ ran' = IF aborted THEN ran ELSE [ran EXCEPT ![current] = @ + 1]
  BY DEF RunHandler, At, Goto, RInv, DriverPoints
<1>2. /\ current \in Calls /\ Has("tool_execution_started", current)
      /\ ~Has("tool_result", current) /\ ran[current] = 0 /\ current \notin busy
  BY <1>1 DEF ProcInv, Midway, RunsOnce
<1>3. \A t, d : Has(t, d)' <=> Has(t, d)
  BY <1>1, SameLog
<1>4. ran \in [Calls -> Nat] /\ ran' \in [Calls -> Nat]
      /\ \A c \in Calls : ran'[c] = ran[c] \/ (c = current /\ ran'[c] = 1)
  BY <1>1, <1>2 DEF TypeOK
<1>5. TypeOK'
  BY <1>1, <1>4 DEF TypeOK, Points
<1>6. Midway'
  BY <1>1, <1>2, <1>3 DEF Midway
<1>7. RunsOnce'
  BY <1>1, <1>2, <1>3, <1>4 DEF ProcInv, RunsOnce
<1> QED
  BY <1>1, <1>5, <1>6, <1>7, DriverHolds DEF DriverPoints

LEMMA DriverKeeps ==
  ASSUME RInv, DriverStep
  PROVE  RInv'
BY AbandonStep, DecideStep, WaitStep, WaitEndsStep, ExecuteStep, HandlerStep,
   WriteStep, RepairStep, ContinueStep
DEF DriverStep

(***************************************************************************)
(* Steps around the runs.                                                  *)
(***************************************************************************)

\* What the loop's own calls are does not change where the log does not.
LEMMA OwnTurnsRest ==
  ASSUME TypeOK, OwnTurns, UNCHANGED <<log, run, entry, turnStart, proc>>
  PROVE  OwnTurns'
<1>1. Declared' = Declared /\ \A c : Position(c)' = Position(c)
  BY SameLog
<1>2. Loop!Streaming' <=> Loop!Streaming
  BY DEF Loop!Streaming
<1>3. \A c : (StoppedAhead(c, Len(log))' <=> StoppedAhead(c, Len(log)))
              /\ (Voided(c)' <=> Voided(c))
  BY <1>1 DEF StoppedAhead, Voided
<1> QED
  BY <1>1, <1>2, <1>3 DEF OwnTurns

\* A step of somebody else, or the end of a run, that writes nothing.
LEMMA RunRests ==
  ASSUME RInv, UNCHANGED <<log, run>>, TypeOK', Midway', RunsOnce', Asked',
         \/ UNCHANGED <<proc, entry, turnStart, base>>
         \/ proc' = "idle"
         \/ proc' = "flush" /\ proc \notin {"idle", "fresh", "fill"}
  PROVE  RInv'
<1>1. TypeOK /\ LogInv /\ ProcInv
  BY DEF RInv
<1>2. LogInv'
  BY <1>1, LogRests
<1>3. /\ \A r : (InLog(r)' <=> InLog(r)) /\ (Terminated(r)' <=> Terminated(r))
      /\ UNCHANGED base => Scope' = Scope
  BY <1>1, SameLog
<1>4. Entered'
  BY <1>1, <1>3 DEF ProcInv, Entered, DriverPoints
<1>5. OwnTurns'
  <2>1. CASE UNCHANGED <<proc, entry, turnStart, base>>
    BY <1>1, <2>1, OwnTurnsRest DEF ProcInv
  <2>2. CASE proc' # "live"
    BY <2>2 DEF OwnTurns
  <2> QED
    BY <2>1, <2>2
<1> QED
  BY <1>2, <1>4, <1>5 DEF RInv, ProcInv

LEMMA EndStep ==
  ASSUME RInv, RunOver \/ Leave \/ Close \/ Abort
  PROVE  RInv'
<1>1. /\ TypeOK /\ ProcInv
      /\ UNCHANGED <<log, run, verdicts, busy, ran>>
  BY DEF RInv, RunOver, Leave, Close, Abort
<1>2. \A t, c : Has(t, c)' <=> Has(t, c)
  BY <1>1, SameLog
<1>3. Declared' = Declared
  BY <1>1, SameLog
<1>4. CASE RunOver \/ Leave
  <2>1. /\ proc' = "flush" /\ proc \notin {"idle", "fresh", "fill"}
        /\ UNCHANGED <<entry, turnStart, base, current, aborted, resolvers>>
        /\ breaks' \in {breaks, breaks + 1}
    BY <1>4 DEF RunOver, Leave, At, Goto
  <2>2. TypeOK'
    BY <1>1, <2>1 DEF TypeOK, Points
  <2>3. Midway' /\ RunsOnce' /\ Asked'
    BY <1>1, <1>2, <2>1 DEF ProcInv, Midway, RunsOnce, Asked
  <2> QED
    BY <1>1, <2>1, <2>2, <2>3, RunRests
<1>5. CASE Close
  <2>1. /\ proc' = "idle" /\ aborted' = FALSE /\ resolvers' = {} /\ base' = 0
        /\ entry' = 0 /\ turnStart' = 0 /\ current' = 0 /\ breaks' = breaks
    BY <1>5 DEF Close, Goto
  <2>2. TypeOK'
    <3>1. current' \in 0..MaxCalls
      BY <2>1, SessionLogAssumption
    <3>2. base' \in 0..Len(log') /\ entry' \in Nat /\ turnStart' \in Nat
      BY <1>1, <2>1 DEF TypeOK
    <3>3. resolvers' \in SUBSET Calls /\ aborted' \in BOOLEAN /\ proc' \in Points
      BY <2>1 DEF Points
    <3> QED
      BY <1>1, <2>1, <3>1, <3>2, <3>3 DEF TypeOK
  <2>3. Midway' /\ RunsOnce' /\ Asked'
    BY <1>1, <1>2, <2>1 DEF ProcInv, Midway, RunsOnce, Asked
  <2> QED
    BY <1>1, <2>1, <2>2, <2>3, RunRests
<1>6. CASE Abort
  <2>1. /\ UNCHANGED <<proc, entry, turnStart, base, current, resolvers, breaks>>
        /\ aborted' = TRUE
    BY <1>6 DEF Abort
  <2>2. TypeOK'
    BY <1>1, <2>1 DEF TypeOK
  <2>3. Midway' /\ RunsOnce' /\ Asked'
    BY <1>1, <1>2, <1>3, <2>1 DEF ProcInv, Midway, RunsOnce, Asked
  <2> QED
    BY <1>1, <2>1, <2>2, <2>3, RunRests
<1> QED
  BY <1>4, <1>5, <1>6

\* A launched handler runs.
LEMMA HandleStep ==
  ASSUME RInv, NEW c \in Calls, Handle(c)
  PROVE  RInv'
<1>1. /\ TypeOK /\ ProcInv /\ c \in busy /\ busy' = busy \ {c}
      /\ ran' = IF aborted THEN ran ELSE [ran EXCEPT ![c] = @ + 1]
      /\ UNCHANGED <<log, loopVars, proc, base, current, aborted, humanVars, breaks>>
  BY DEF RInv, Handle
<1>2. /\ \A t, d : Has(t, d)' <=> Has(t, d)
      /\ Declared' = Declared
  BY <1>1, SameLog
<1>3. Has("tool_execution_started", c) /\ ran[c] = 0
  BY <1>1 DEF ProcInv, RunsOnce
<1>4. /\ ran \in [Calls -> Nat] /\ ran' \in [Calls -> Nat]
      /\ \A d \in Calls : ran'[d] = ran[d] \/ (d = c /\ ran'[d] = 1)
  BY <1>1, <1>3 DEF TypeOK
<1>5. TypeOK'
  BY <1>1, <1>4 DEF TypeOK
<1>6. Midway' /\ Asked'
  BY <1>1, <1>2 DEF ProcInv, Midway, Asked
<1>7. RunsOnce'
  <2>1. \A d \in Calls :
          /\ ran'[d] <= 1
          /\ ran'[d] > 0 => Has("tool_execution_started", d)
          /\ d \in busy' => Has("tool_execution_started", d) /\ ran'[d] = 0
    BY <1>1, <1>3, <1>4 DEF ProcInv, RunsOnce
  <2>2. proc = "started" =>
          current \in Calls /\ ran'[current] = 0 /\ current \notin busy'
    BY <1>1, <1>4 DEF ProcInv, RunsOnce, Midway
  <2> QED
    BY <1>1, <1>2, <2>1, <2>2 DEF RunsOnce
<1> QED
  BY <1>1, <1>5, <1>6, <1>7, RunRests

LEMMA StartStep ==
  ASSUME RInv, StartRun
  PROVE  RInv'
<1>1. /\ TypeOK /\ LogInv /\ ProcInv /\ run \in Nat /\ DOMAIN log = 1..Len(log)
      /\ Len(log) \in Nat
  BY DEF RInv, TypeOK
<1>2. /\ run < MaxRuns /\ OpenRuns = {} /\ proc' = "fresh" /\ run' = run + 1
      /\ base' = Len(log)
      /\ UNCHANGED <<log, entry, turnStart, current, aborted, humanVars, busy,
                     ran, breaks>>
  BY DEF StartRun, Begin, Goto
<1>3. TypeOK'
  BY <1>1, <1>2 DEF TypeOK, Points
<1>4. LogInv'
  <2>1. \A i \in DOMAIN log : log[i].run \in 1..run'
    BY <1>1, <1>2 DEF LogInv, RunsInOrder
  <2>2. ASSUME NEW r \in 1..run, InLog(r) PROVE Terminated(r)
    <3>1. r \notin OpenRuns /\ r \in {log[i].run : i \in DOMAIN log}
      BY <1>2, <2>2 DEF InLog
    <3> QED
      BY <3>1 DEF OpenRuns
  <2> QED
    BY <1>1, <1>2, <2>1, <2>2, RunChanges
<1>5. \A t, c : Has(t, c)' <=> Has(t, c)
  BY <1>1, <1>2, SameLog
<1>6. Entered'
  BY <1>1, <1>2, RecoveryAssumption DEF Entered, DriverPoints
<1>7. Midway' /\ Asked' /\ RunsOnce' /\ OwnTurns'
  BY <1>1, <1>2, <1>5 DEF ProcInv, Midway, Asked, RunsOnce, OwnTurns
<1> QED
  BY <1>3, <1>4, <1>6, <1>7 DEF RInv, ProcInv

LEMMA ResumeStep ==
  ASSUME RInv, Resume
  PROVE  RInv'
<1>1. /\ TypeOK /\ LogInv /\ ProcInv /\ run \in Nat /\ DOMAIN log = 1..Len(log)
      /\ Len(log) \in Nat /\ run <= MaxRuns
  BY DEF RInv, TypeOK, ProcInv, Entered
<1>2. /\ OpenRuns # {} /\ proc' = "resume" /\ run' = Greatest(OpenRuns)
      /\ base' = Len(log)
      /\ UNCHANGED <<log, entry, turnStart, current, aborted, humanVars, busy,
                     ran, breaks>>
  BY DEF Resume, Begin, Goto
<1>3. ASSUME NEW r \in OpenRuns PROVE r = run /\ InLog(r) /\ ~Terminated(r)
  <2>1. InLog(r) /\ r \notin {x \in 1..MaxRuns : Terminated(x)}
    BY DEF OpenRuns, InLog
  <2>2. r \in 1..run
    BY <1>1, <2>1 DEF InLog, LogInv, RunsInOrder
  <2>3. ~Terminated(r)
    BY <1>1, <2>1, <2>2, RecoveryAssumption
  <2> QED
    BY <1>1, <2>1, <2>2, <2>3 DEF LogInv, RunsInOrder
<1>4. OpenRuns \in SUBSET (0..run)
  BY <1>1, <1>3
<1>5. run' \in OpenRuns
  BY <1>1, <1>2, <1>4, GreatestOf
<1>6. run' = run /\ InLog(run) /\ ~Terminated(run)
  BY <1>3, <1>5
<1>7. TypeOK' /\ LogInv'
  BY <1>1, <1>2, <1>6, LogRests DEF TypeOK, Points
<1>8. /\ \A t, c : Has(t, c)' <=> Has(t, c)
      /\ \A r : (InLog(r)' <=> InLog(r)) /\ (Terminated(r)' <=> Terminated(r))
  BY <1>1, <1>2, SameLog
<1>9. Scope' # {}
  <2>1. PICK i \in 1..Len(log) : log[i].run = run
    BY <1>1, <1>6 DEF InLog
  <2>2. Scope' = {x \in 1..Len(log) : log[x].run = run}
    BY <1>2, <1>6 DEF Scope
  <2> QED
    BY <2>1, <2>2
<1>10. Entered'
  BY <1>1, <1>2, <1>6, <1>8, <1>9 DEF Entered, DriverPoints
<1>11. Midway' /\ Asked' /\ RunsOnce' /\ OwnTurns'
  BY <1>1, <1>2, <1>8 DEF ProcInv, Midway, Asked, RunsOnce, OwnTurns
<1> QED
  BY <1>7, <1>10, <1>11 DEF RInv, ProcInv

LEMMA OpenStep ==
  ASSUME RInv, Crash \/ Reopen
  PROVE  RInv'
<1>1. /\ TypeOK /\ LogInv /\ ProcInv /\ run \in Nat /\ DOMAIN log = 1..Len(log)
      /\ Len(log) \in Nat /\ run <= MaxRuns
  BY DEF RInv, TypeOK, ProcInv, Entered
<1>2. Opened /\ breaks' \in Nat
  BY <1>1 DEF Crash, Reopen, TypeOK
<1>3. DOMAIN log # {}
  <2>1. CASE Crash
    <3>1. log \in Seq(Event) /\ log # <<>>
      BY <1>1, <2>1 DEF Crash, TypeOK
    <3>2. Len(log) # 0
      BY <3>1
    <3>3. 1 \in 1..Len(log)
      BY <1>1, <3>2
    <3> QED
      BY <1>1, <3>3
  <2>2. CASE Reopen
    <3>1. InLog(run)
      BY <1>1, <2>2 DEF Reopen, At, ProcInv, Entered
    <3> QED
      BY <3>1 DEF InLog
  <2> QED
    BY <2>1, <2>2
<1> DEFINE S == {log[i].run : i \in DOMAIN log}
<1>4. S \in SUBSET (0..run) /\ S # {} /\ 0 \notin S
  BY <1>1, <1>3 DEF LogInv, RunsInOrder
<1>5. run' = Greatest(S)
  BY <1>2 DEF Opened
<1>6. \A i \in DOMAIN log : log[i].run \in S
  OBVIOUS
<1> HIDE DEF S
<1>7. run' \in S /\ (\A x \in S : run' >= x)
  BY <1>1, <1>4, <1>5, GreatestOf
<1>8. run' \in 1..run
  BY <1>1, <1>4, <1>7
<1>9. LogInv'
  <2>1. \A i \in DOMAIN log : log[i].run \in 1..run'
    BY <1>1, <1>6, <1>7, <1>8 DEF LogInv, RunsInOrder
  <2>2. UNCHANGED log /\ run' \in Nat /\ (\A r \in 1..run : r < run' => r < run)
    <3>1. UNCHANGED log
      BY <1>2 DEF Opened
    <3>2. run' \in Nat /\ run' <= run
      BY <1>1, <1>8
    <3> QED
      BY <1>1, <3>1, <3>2
  <2> QED
    BY <1>1, <2>1, <2>2, RunChanges
<1>10. /\ proc' = "idle" /\ aborted' = FALSE /\ base' = 0 /\ current' = 0
       /\ entry' = 0 /\ turnStart' = 0 /\ resolvers' = {} /\ busy' = {}
       /\ verdicts' = [c \in Calls |-> "none"]
       /\ UNCHANGED <<log, ran>>
  BY <1>2 DEF Opened
<1>11. TypeOK'
  <2>1. current' \in 0..MaxCalls
    BY <1>10, SessionLogAssumption
  <2>2. base' \in 0..Len(log') /\ entry' \in Nat /\ turnStart' \in Nat
    BY <1>1, <1>10 DEF TypeOK
  <2>3. run' \in Nat
    BY <1>1, <1>8
  <2>4. verdicts' \in [Calls -> {"none", "humanAllow", "humanDeny"}]
    BY <1>10
  <2>5. /\ resolvers' \in SUBSET Calls /\ busy' \in SUBSET Calls
        /\ aborted' \in BOOLEAN /\ proc' \in Points
    BY <1>10 DEF Points
  <2> QED
    BY <1>1, <1>2, <1>10, <2>1, <2>2, <2>3, <2>4, <2>5 DEF TypeOK
<1>12. \A t, c : Has(t, c)' <=> Has(t, c)
  BY <1>1, <1>10, SameLog
<1>13. Entered'
  BY <1>1, <1>8, <1>10, RecoveryAssumption DEF Entered, DriverPoints
<1>14. Midway' /\ Asked' /\ RunsOnce' /\ OwnTurns'
  BY <1>1, <1>10, <1>12 DEF ProcInv, Midway, Asked, RunsOnce, OwnTurns
<1> QED
  BY <1>9, <1>11, <1>13, <1>14 DEF RInv, ProcInv

\* What the loop's own calls are when anything but a boundary is written.
LEMMA OwnTurnsGrow ==
  ASSUME TypeOK, LogInv, OwnTurns, NEW e, Extends(e), log' = Append(log, e),
         e.type \notin {"stop", "model_output_abandoned", "user_input",
                        "tool_call_end"},
         UNCHANGED <<run, entry, turnStart, proc>>
  PROVE  OwnTurns'
<1> SUFFICES ASSUME proc = "live" PROVE OwnTurns'
  BY DEF OwnTurns
<1>1. /\ log \in Seq(Event) /\ e \in Event /\ Len(log) \in Nat
      /\ entry \in Nat /\ turnStart \in Nat
  BY DEF TypeOK, Extends
<1>2. /\ Len(log') = Len(log) + 1 /\ DOMAIN log = 1..Len(log)
      /\ DOMAIN log' = 1..(Len(log) + 1)
      /\ \A i \in 1..Len(log) : log'[i] = log[i]
      /\ log'[Len(log) + 1] = e
  BY <1>1, Appended
<1>3. Declared' = Declared
  <2>1. Declared' = Declared \cup
            {c \in Calls : e.type = "tool_call_end" /\ e.call = c}
    BY NewCall DEF LogInv
  <2> QED
    BY <2>1
<1>4. turnStart' <= Len(log')
  BY <1>1, <1>2 DEF OwnTurns
<1>5. ASSUME NEW i \in DOMAIN log', i > entry, log'[i].type = "tool_call_end"
      PROVE  log'[i].run = run
  <2>1. i \in 1..Len(log) /\ log'[i] = log[i]
    BY <1>1, <1>2, <1>5
  <2> QED
    BY <1>2, <1>5, <2>1 DEF OwnTurns
<1>6. Loop!Streaming => Loop!Streaming'
  <2>1. ASSUME NEW i \in (turnStart + 1)..(Len(log) + 1), Loop!Streaming
        PROVE  log'[i].type \notin {"stop", "model_output_abandoned", "user_input"}
    <3>1. CASE i = Len(log) + 1
      BY <1>2, <3>1
    <3>2. CASE i # Len(log) + 1
      <4>1. i \in (turnStart + 1)..Len(log) /\ i \in 1..Len(log)
        BY <1>1, <2>1, <3>2
      <4> QED
        BY <1>2, <2>1, <4>1 DEF Loop!Streaming
    <3> QED
      BY <3>1, <3>2
  <2> QED
    BY <1>2, <2>1 DEF Loop!Streaming
<1>7. ASSUME NEW c \in Declared, Position(c)' > entry
      PROVE  \/ Loop!Streaming' /\ Position(c)' > turnStart
             \/ StoppedAhead(c, Len(log))' \/ Voided(c)'
  <2>1. /\ Position(c)' = Position(c)
        /\ Voided(c) => Voided(c)'
        /\ StoppedAhead(c, Len(log)) => StoppedAhead(c, Len(log))'
    BY <1>1, StaysPut
  <2> QED
    BY <1>6, <1>7, <2>1 DEF OwnTurns
<1> QED
  BY <1>3, <1>4, <1>5, <1>7 DEF OwnTurns

\* Somebody writes an event about a call.
LEMMA FactAppends ==
  ASSUME RInv, NEW e, Extends(e), log' = Append(log, e),
         e.type \notin {"stop", "model_output_abandoned", "user_input",
                        "tool_call_end"},
         e.type = "terminal" => proc = "live",
         UNCHANGED <<run, base, entry, turnStart>>,
         proc' \in {proc, "idle", "fill"},
         TypeOK', Midway', Asked', RunsOnce'
  PROVE  RInv'
<1>1. TypeOK /\ LogInv /\ ProcInv /\ e \in Event /\ log \in Seq(Event)
  BY DEF RInv, TypeOK, Extends
<1>2. LogInv'
  BY <1>1, LogGrows
<1>3. /\ \A r : InLog(r)' <=> InLog(r) \/ e.run = r
      /\ e.type # "terminal" =>
           Scope' = Scope /\ \A r : Terminated(r)' <=> Terminated(r)
  BY <1>1, Grown, StaysOpen
<1>4. Entered'
  BY <1>1, <1>3 DEF ProcInv, Entered, DriverPoints
<1>5. OwnTurns'
  <2>1. CASE proc' = proc
    BY <1>1, <2>1, OwnTurnsGrow DEF ProcInv
  <2>2. CASE proc' # "live"
    BY <2>2 DEF OwnTurns
  <2> QED
    BY <2>1, <2>2
<1> QED
  BY <1>2, <1>4, <1>5 DEF RInv, ProcInv

\* The repair of the calls an aborted run left without a result.
LEMMA MendStep ==
  ASSUME RInv, Mend
  PROVE  RInv'
<1>1. /\ TypeOK /\ LogInv /\ ProcInv /\ log \in Seq(Event)
      /\ proc \in {"fresh", "resume"} /\ UnansweredAborted # {}
      /\ UNCHANGED <<loopVars, proc, base, current, aborted, humanVars, busy, ran,
                     breaks>>
  BY DEF RInv, Mend, TypeOK
<1>2. UnansweredAborted \in SUBSET Nat
  BY SessionLogAssumption DEF UnansweredAborted, Declared, Calls
<1>3. PICK c : c = Least(UnansweredAborted) /\ c \in UnansweredAborted
  BY <1>1, <1>2, LeastOf
<1>4. /\ c \in Declared /\ ~Has("tool_execution_started", c) /\ ~Has("tool_result", c)
      /\ \E i \in 1..base : log[i].type = "terminal" /\ log[i].run = RunOf(c)
  BY <1>3 DEF UnansweredAborted, RunOf
<1>5. c \in Calls /\ InLog(RunOf(c)) /\ RunOf(c) \in 1..run /\ c \in 0..MaxCalls
  <2>1. c \in Calls /\ InLog(RunOf(c))
    BY <1>1, <1>4, Located
  <2>2. RunOf(c) \in 1..run
    BY <1>1, <2>1 DEF InLog, LogInv, RunsInOrder
  <2> QED
    BY <2>1, <2>2, SessionLogAssumption DEF Calls
<1>6. Terminated(RunOf(c))
  BY <1>1, <1>4 DEF Terminated, TypeOK
<1>7. PICK e : e = Ev(RunOf(c), "tool_result", c, "aborted") /\ log' = Append(log, e)
  BY <1>3 DEF Mend, Write, RunOf
<1>8. /\ e \in Event /\ e.type = "tool_result" /\ e.call = c /\ e.tag = "aborted"
      /\ e.run = RunOf(c)
  <2>1. "tool_result" \in Types /\ "aborted" \in Tags /\ RunOf(c) \in Nat
    BY <1>1, <1>5 DEF Types, Tags, TypeOK
  <2> QED
    BY <1>1, <1>5, <1>7, <2>1, RecordIsEvent
<1>9. Extends(e)
  BY <1>4, <1>5, <1>6, <1>8 DEF Extends, MayResult, LoopTypes
<1>10. TypeOK'
  <2>1. log' \in Seq(Event) /\ base' \in 0..Len(log')
    BY <1>1, <1>7, <1>8, TypeGrows
  <2> QED
    BY <1>1, <2>1 DEF TypeOK
<1>11. \A t, d : Has(t, d) => Has(t, d)'
  BY <1>1, <1>7, <1>8, Grown
<1>12. Midway' /\ Asked' /\ RunsOnce'
  BY <1>1, <1>11 DEF ProcInv, Midway, Asked, RunsOnce
<1> QED
  BY <1>1, <1>7, <1>8, <1>9, <1>10, <1>12, FactAppends

LEMMA ExpireStep ==
  ASSUME RInv, Expire
  PROVE  RInv'
<1>1. /\ TypeOK /\ LogInv /\ ProcInv /\ log \in Seq(Event) /\ proc = "resume"
      /\ Len(log) \in Nat
      /\ UNCHANGED <<run, turnStart, base, current, aborted, humanVars, busy, ran,
                     breaks>>
  BY DEF RInv, Expire, TypeOK, At
<1>2. CASE Dangling # {}
  <2>1. Dangling \in SUBSET Nat
    BY <1>1 DEF Dangling, TypeOK
  <2>2. PICK i : i = Least(Dangling) /\ i \in Dangling
    BY <1>2, <2>1, LeastOf
  <2>3. i \in DOMAIN log
    BY <1>1, <2>2 DEF Dangling, TypeOK
  <2>4. /\ log[i].run \in 1..run /\ log[i].run \in Nat /\ InLog(log[i].run)
        /\ log[i].call \in 0..MaxCalls
    BY <1>1, <2>3, EventFields DEF InLog, LogInv, RunsInOrder
  <2>5. PICK e : /\ e = Ev(log[i].run, "permission_expired", log[i].call, "plain")
                 /\ log' = Append(log, e)
    BY <1>2, <2>2 DEF Expire, Write
  <2>6. e \in Event /\ e.type = "permission_expired" /\ e.run = log[i].run
    <3>1. "permission_expired" \in Types /\ "plain" \in Tags
      BY DEF Types, Tags
    <3> QED
      BY <1>1, <2>4, <2>5, <3>1, RecordIsEvent
  <2>7. Extends(e)
    BY <2>4, <2>6 DEF Extends, LoopTypes
  <2>8. UNCHANGED <<proc, entry>>
    BY <1>2 DEF Expire
  <2>9. TypeOK'
    <3>1. log' \in Seq(Event) /\ base' \in 0..Len(log')
      BY <1>1, <2>5, <2>6, TypeGrows
    <3> QED
      BY <1>1, <2>8, <3>1 DEF TypeOK
  <2>10. \A t, d : Has(t, d) => Has(t, d)'
    BY <1>1, <2>5, <2>6, Grown
  <2>11. Midway' /\ Asked' /\ RunsOnce'
    BY <1>1, <2>8, <2>10 DEF ProcInv, Midway, Asked, RunsOnce
  <2> QED
    BY <1>1, <2>5, <2>6, <2>7, <2>8, <2>9, <2>11, FactAppends
<1>3. CASE Dangling = {}
  <2>1. proc' = "derive" /\ entry' = Len(log) /\ UNCHANGED log
    BY <1>3 DEF Expire, Goto
  <2>2. TypeOK' /\ LogInv'
    BY <1>1, <2>1, LogRests DEF TypeOK, Points
  <2>3. /\ \A t, c : Has(t, c)' <=> Has(t, c)
        /\ \A r : (InLog(r)' <=> InLog(r)) /\ (Terminated(r)' <=> Terminated(r))
        /\ Scope' = Scope
    BY <1>1, <2>1, SameLog
  <2>4. Entered'
    BY <1>1, <2>1, <2>3 DEF ProcInv, Entered, DriverPoints
  <2>5. Midway' /\ Asked' /\ RunsOnce' /\ OwnTurns'
    BY <1>1, <2>1, <2>3 DEF ProcInv, Midway, Asked, RunsOnce, OwnTurns
  <2> QED
    BY <2>2, <2>4, <2>5 DEF RInv, ProcInv
<1> QED
  BY <1>2, <1>3

LEMMA FlushStep ==
  ASSUME RInv, Flush
  PROVE  RInv'
<1>1. /\ TypeOK /\ LogInv /\ ProcInv /\ log \in Seq(Event) /\ proc = "flush"
      /\ UNCHANGED <<loopVars, proc, base, current, aborted, resolvers, busy, ran,
                     breaks>>
  BY DEF RInv, Flush, TypeOK, At
<1>2. PICK c \in Calls :
        /\ verdicts[c] # "none"
        /\ IF Has("permission_decided", c) THEN UNCHANGED log
           ELSE Record("permission_decided", c, verdicts[c])
        /\ verdicts' = [verdicts EXCEPT ![c] = "none"]
  BY DEF Flush
<1>3. /\ verdicts \in [Calls -> {"none", "humanAllow", "humanDeny"}]
      /\ verdicts' \in [Calls -> {"none", "humanAllow", "humanDeny"}]
      /\ verdicts[c] \in {"humanAllow", "humanDeny"}
      /\ \A d \in Calls : verdicts'[d] # "none" => verdicts[d] # "none"
  BY <1>1, <1>2 DEF TypeOK
<1>4. CASE UNCHANGED log
  <2>1. TypeOK'
    BY <1>1, <1>3, <1>4 DEF TypeOK
  <2>2. \A t, d : Has(t, d)' <=> Has(t, d)
    BY <1>1, <1>4, SameLog
  <2>3. Midway' /\ Asked' /\ RunsOnce'
    BY <1>1, <1>3, <2>2 DEF ProcInv, Midway, Asked, RunsOnce
  <2> QED
    BY <1>1, <1>4, <2>1, <2>3, RunRests
<1>5. CASE /\ ~Has("permission_decided", c)
           /\ Record("permission_decided", c, verdicts[c])
  <2>1. PICK e : /\ e = Ev(run, "permission_decided", c, verdicts[c])
                 /\ log' = Append(log, e)
    BY <1>5 DEF Record, Write
  <2>2. run \in Nat /\ InLog(run) /\ run \in 1..run
    <3>1. InLog(run)
      BY <1>1 DEF ProcInv, Entered
    <3> QED
      BY <1>1, <3>1 DEF InLog, LogInv, RunsInOrder, TypeOK
  <2>3. MayDecide(c, verdicts[c])
    BY <1>1, <1>2, <1>3, <1>5, MayAnswer DEF ProcInv, Asked
  <2>4. /\ e \in Event /\ e.type = "permission_decided" /\ e.call = c
        /\ e.tag = verdicts[c] /\ e.run = run
    <3>1. "permission_decided" \in Types /\ verdicts[c] \in Tags /\ c \in 0..MaxCalls
      BY <1>3, SessionLogAssumption DEF Types, Tags, Calls
    <3> QED
      BY <1>1, <2>1, <2>2, <3>1, RecordIsEvent
  <2>5. Extends(e)
    BY <2>2, <2>3, <2>4 DEF Extends, LoopTypes
  <2>6. TypeOK'
    <3>1. log' \in Seq(Event) /\ base' \in 0..Len(log')
      BY <1>1, <2>1, <2>4, TypeGrows
    <3> QED
      BY <1>1, <1>3, <3>1 DEF TypeOK
  <2>7. \A t, d : Has(t, d) => Has(t, d)'
    BY <1>1, <2>1, <2>4, Grown
  <2>8. Midway' /\ Asked' /\ RunsOnce'
    BY <1>1, <1>3, <2>7 DEF ProcInv, Midway, Asked, RunsOnce
  <2> QED
    BY <1>1, <2>1, <2>4, <2>5, <2>6, <2>8, FactAppends
<1> QED
  BY <1>2, <1>4, <1>5

\* The human answers, into the resolver or straight to the log.
LEMMA ApproveStep ==
  ASSUME RInv, NEW c \in Calls, Approve(c)
  PROVE  RInv'
<1>1. /\ TypeOK /\ LogInv /\ ProcInv /\ log \in Seq(Event)
      /\ Has("permission_requested", c) /\ ~Has("permission_decided", c)
      /\ verdicts[c] = "none"
      /\ UNCHANGED <<loopVars, proc, base, current, aborted, busy, ran, breaks>>
  BY DEF RInv, Approve, TypeOK
<1>2. verdicts \in [Calls -> {"none", "humanAllow", "humanDeny"}]
  BY <1>1 DEF TypeOK
<1>3. CASE /\ c \in resolvers /\ resolvers' = resolvers \ {c} /\ UNCHANGED log
           /\ \E v \in {"humanAllow", "humanDeny"} :
                verdicts' = [verdicts EXCEPT ![c] = v]
  <2>1. /\ verdicts' \in [Calls -> {"none", "humanAllow", "humanDeny"}]
        /\ verdicts'[c] # "none"
        /\ \A d \in Calls : d # c => verdicts'[d] = verdicts[d]
    BY <1>2, <1>3
  <2>2. TypeOK'
    BY <1>1, <1>3, <2>1 DEF TypeOK
  <2>3. /\ \A t, d : Has(t, d)' <=> Has(t, d)
        /\ Declared' = Declared
    BY <1>1, <1>3, SameLog
  <2>4. Midway' /\ RunsOnce'
    BY <1>1, <1>3, <2>1, <2>3 DEF ProcInv, Midway, RunsOnce
  <2>5. Asked'
    BY <1>1, <1>3, <2>1, <2>3 DEF ProcInv, Asked
  <2> QED
    BY <1>1, <1>3, <2>2, <2>4, <2>5, RunRests
<1>4. CASE /\ c \notin resolvers /\ UNCHANGED <<resolvers, verdicts>>
           /\ \E v \in {"humanAllow", "humanDeny"} :
                Write(Ev(log[Least(Events("permission_requested", c))].run,
                         "permission_decided", c, v))
  <2>1. Events("permission_requested", c) \in SUBSET Nat
        /\ Events("permission_requested", c) # {}
    BY <1>1 DEF Events, Has
  <2>2. PICK i : /\ i = Least(Events("permission_requested", c))
                 /\ i \in Events("permission_requested", c)
    BY <2>1, LeastOf
  <2>3. i \in DOMAIN log
    BY <2>2 DEF Events
  <2>4. log[i].run \in 1..run /\ log[i].run \in Nat /\ InLog(log[i].run)
    BY <1>1, <2>3, EventFields DEF InLog, LogInv, RunsInOrder
  <2>5. PICK v \in {"humanAllow", "humanDeny"} :
          log' = Append(log, Ev(log[i].run, "permission_decided", c, v))
    BY <1>4, <2>2 DEF Write
  <2>6. PICK e : e = Ev(log[i].run, "permission_decided", c, v)
    OBVIOUS
  <2>7. /\ e \in Event /\ e.type = "permission_decided" /\ e.call = c
        /\ e.tag = v /\ e.run = log[i].run /\ log' = Append(log, e)
    <3>1. "permission_decided" \in Types /\ v \in Tags /\ c \in 0..MaxCalls
      BY SessionLogAssumption DEF Types, Tags, Calls
    <3> QED
      BY <1>1, <2>4, <2>5, <2>6, <3>1, RecordIsEvent
  <2>8. MayDecide(c, v)
    BY <1>1, MayAnswer
  <2>9. Extends(e)
    BY <2>4, <2>7, <2>8 DEF Extends, LoopTypes
  <2>10. TypeOK'
    <3>1. log' \in Seq(Event) /\ base' \in 0..Len(log')
      BY <1>1, <2>7, TypeGrows
    <3> QED
      BY <1>1, <1>4, <3>1 DEF TypeOK
  <2>11. /\ \A t, d : Has(t, d)' <=>
              Has(t, d) \/ (t = "permission_decided" /\ d = c)
         /\ Declared' = Declared
    <3>1. \A t, d : Has(t, d)' <=> Has(t, d) \/ (e.type = t /\ e.call = d)
      BY <1>1, <2>7, Grown
    <3>2. \A t, d : Has(t, d)' <=>
            Has(t, d) \/ (t = "permission_decided" /\ d = c)
      BY <2>7, <3>1
    <3> QED
      BY <3>2 DEF Declared
  <2>12. Midway' /\ Asked' /\ RunsOnce'
    BY <1>1, <1>4, <2>11 DEF ProcInv, Midway, Asked, RunsOnce
  <2> QED
    BY <1>1, <2>7, <2>9, <2>10, <2>12, FactAppends
<1> QED
  BY <1>3, <1>4 DEF Approve

LEMMA FillStep ==
  ASSUME RInv, Fill
  PROVE  RInv'
<1>1. /\ TypeOK /\ LogInv /\ ProcInv /\ log \in Seq(Event) /\ proc = "fill"
      /\ proc' = "idle"
      /\ UNCHANGED <<loopVars, base, current, aborted, humanVars, busy, ran, breaks>>
  BY DEF RInv, Fill, TypeOK, At, Goto
<1>2. current \in Declared /\ Has("tool_execution_started", current)
  BY <1>1 DEF ProcInv, Midway
<1>3. CASE UNCHANGED log
  <2>1. TypeOK'
    BY <1>1, <1>3 DEF TypeOK, Points
  <2>2. \A t, d : Has(t, d)' <=> Has(t, d)
    BY <1>1, <1>3, SameLog
  <2>3. Midway' /\ Asked' /\ RunsOnce'
    BY <1>1, <2>2 DEF ProcInv, Midway, Asked, RunsOnce
  <2> QED
    BY <1>1, <1>3, <2>1, <2>3, RunRests
<1>4. CASE /\ ~Has("tool_result", current)
           /\ Write(Ev(log[Position(current)].run, "tool_result", current, "resolved"))
  <2>1. PICK e : /\ e = Ev(RunOf(current), "tool_result", current, "resolved")
                 /\ log' = Append(log, e)
    BY <1>4 DEF Write, RunOf
  <2>2. /\ current \in Calls /\ InLog(RunOf(current))
        /\ RunOf(current) \in 1..run /\ RunOf(current) \in Nat
    <3>1. current \in Calls /\ InLog(RunOf(current))
      BY <1>1, <1>2, Located
    <3>2. RunOf(current) \in 1..run
      BY <1>1, <3>1 DEF InLog, LogInv, RunsInOrder
    <3> QED
      BY <1>1, <3>1, <3>2 DEF TypeOK
  <2>3. /\ e \in Event /\ e.type = "tool_result" /\ e.call = current
        /\ e.tag = "resolved" /\ e.run = RunOf(current)
    <3>1. "tool_result" \in Types /\ "resolved" \in Tags /\ current \in 0..MaxCalls
      BY <1>1 DEF Types, Tags, TypeOK
    <3> QED
      BY <1>1, <2>1, <2>2, <3>1, RecordIsEvent
  <2>4. Extends(e)
    BY <1>2, <1>4, <2>2, <2>3 DEF Extends, MayResult, LoopTypes
  <2>5. TypeOK'
    <3>1. log' \in Seq(Event) /\ base' \in 0..Len(log')
      BY <1>1, <2>1, <2>3, TypeGrows
    <3> QED
      BY <1>1, <3>1 DEF TypeOK, Points
  <2>6. \A t, d : Has(t, d) => Has(t, d)'
    BY <1>1, <2>1, <2>3, Grown
  <2>7. Midway' /\ Asked' /\ RunsOnce'
    BY <1>1, <2>6 DEF ProcInv, Midway, Asked, RunsOnce
  <2> QED
    BY <1>1, <2>1, <2>3, <2>4, <2>5, <2>7, FactAppends
<1> QED
  BY <1>3, <1>4 DEF Fill

LEMMA ResolveStep ==
  ASSUME RInv, NEW c \in Calls, ResolveUncertain(c)
  PROVE  RInv'
<1>1. /\ TypeOK /\ LogInv /\ ProcInv /\ log \in Seq(Event) /\ proc = "idle"
      /\ proc' = "fill" /\ current' = c
      /\ Has("tool_execution_started", c)
      /\ UNCHANGED <<loopVars, base, aborted, humanVars, busy, ran, breaks>>
  BY DEF RInv, ResolveUncertain, Uncertain, TypeOK, At, Goto
<1>2. c \in 0..MaxCalls
  BY SessionLogAssumption DEF Calls
<1>3. c \in Declared
  BY <1>1, <1>2 DEF LogInv, CallsInOrder
<1>4. PICK e : /\ e = Ev(RunOf(c), "tool_execution_resolved", c, "plain")
               /\ log' = Append(log, e)
  BY DEF ResolveUncertain, Write, RunOf
<1>5. InLog(RunOf(c)) /\ RunOf(c) \in 1..run /\ RunOf(c) \in Nat
  <2>1. InLog(RunOf(c))
    BY <1>1, <1>3, Located
  <2>2. RunOf(c) \in 1..run
    BY <1>1, <2>1 DEF InLog, LogInv, RunsInOrder
  <2> QED
    BY <1>1, <2>1, <2>2 DEF TypeOK
<1>6. /\ e \in Event /\ e.type = "tool_execution_resolved" /\ e.call = c
      /\ e.run = RunOf(c)
  <2>1. "tool_execution_resolved" \in Types /\ "plain" \in Tags
    BY DEF Types, Tags
  <2> QED
    BY <1>1, <1>2, <1>4, <1>5, <2>1, RecordIsEvent
<1>7. Extends(e)
  BY <1>1, <1>5, <1>6 DEF Extends, LoopTypes
<1>8. TypeOK'
  <2>1. log' \in Seq(Event) /\ base' \in 0..Len(log')
    BY <1>1, <1>4, <1>6, TypeGrows
  <2> QED
    BY <1>1, <1>2, <2>1 DEF TypeOK, Points
<1>9. \A t, d : Has(t, d) => Has(t, d)'
  BY <1>1, <1>4, <1>6, Grown
<1>10. c \in Declared'
  BY <1>3, <1>9 DEF Declared
<1>11. Midway' /\ Asked' /\ RunsOnce'
  BY <1>1, <1>9, <1>10 DEF ProcInv, Midway, Asked, RunsOnce
<1> QED
  BY <1>1, <1>4, <1>6, <1>7, <1>8, <1>11, FactAppends

LEMMA FirstInputStep ==
  ASSUME RInv, FirstInput
  PROVE  RInv'
<1>1. /\ TypeOK /\ LogInv /\ ProcInv /\ log \in Seq(Event) /\ proc = "fresh"
      /\ Len(log) \in Nat /\ run \in Nat /\ run # 0 /\ run <= MaxRuns
      /\ UNCHANGED <<base, current, aborted, humanVars, busy, ran, breaks>>
      /\ proc' = "live" /\ entry' = Len(log') /\ turnStart' = 0 /\ run' = run
  BY DEF RInv, FirstInput, EnterLoop, ProcInv, Entered, TypeOK, At, Goto
<1>2. PICK e : e = Ev(run, "user_input", 0, "plain") /\ log' = Append(log, e)
  BY DEF FirstInput, Record, Write
<1>3. e \in Event /\ e.type = "user_input" /\ e.run = run
  <2>1. "user_input" \in Types /\ "plain" \in Tags /\ 0 \in 0..MaxCalls
    BY SessionLogAssumption DEF Types, Tags
  <2> QED
    BY <1>1, <1>2, <2>1, RecordIsEvent
<1>4. Extends(e)
  BY <1>1, <1>3 DEF Extends
<1>5. LogInv'
  BY <1>1, <1>2, <1>4, LogGrows
<1>6. Len(log') = Len(log) + 1 /\ DOMAIN log' = 1..(Len(log) + 1)
  BY <1>1, <1>2, <1>3, Appended
<1>7. TypeOK'
  <2>1. log' \in Seq(Event) /\ base' \in 0..Len(log')
    BY <1>1, <1>2, <1>3, TypeGrows
  <2>2. entry' \in Nat
    BY <1>1, <1>6
  <2> QED
    BY <1>1, <2>1, <2>2 DEF TypeOK, Points
<1>8. /\ \A t, d : Has(t, d) => Has(t, d)'
      /\ InLog(run)'
  BY <1>1, <1>2, <1>3, Grown
<1>9. Entered'
  BY <1>1, <1>8 DEF Entered, DriverPoints
<1>10. Midway' /\ Asked' /\ RunsOnce'
  BY <1>1, <1>8 DEF ProcInv, Midway, Asked, RunsOnce
<1>11. OwnTurns'
  <2>1. Declared' = Declared
    <3>1. Declared' = Declared \cup
              {c \in Calls : e.type = "tool_call_end" /\ e.call = c}
      BY <1>1, <1>2, <1>4, NewCall DEF LogInv
    <3> QED
      BY <1>3, <3>1
  <2>2. \A c \in Declared : Position(c)' = Position(c) /\ Position(c) \in 1..Len(log)
    BY <1>1, <1>2, <1>3, StaysPut, Located
  <2>3. \A c \in Declared : ~(Position(c)' > entry')
    BY <1>1, <1>6, <2>2
  <2>4. \A i \in DOMAIN log' : ~(i > entry')
    BY <1>1, <1>6
  <2>5. turnStart' <= Len(log')
    BY <1>1, <1>6
  <2> QED
    BY <2>1, <2>3, <2>4, <2>5 DEF OwnTurns
<1> QED
  BY <1>5, <1>7, <1>9, <1>10, <1>11 DEF RInv, ProcInv

(***************************************************************************)
(* Steps of the live loop.                                                 *)
(***************************************************************************)

\* TurnLog reads the log as Recovery does.
LEMMA LoopReads ==
  /\ \A t, c : Loop!Has(t, c) <=> Has(t, c)
  /\ \A t, c, tag : Loop!HasTag(t, c, tag) <=> HasTag(t, c, tag)
  /\ \A c : Loop!Position(c) = Position(c) /\ (Loop!Voided(c) <=> Voided(c))
  /\ \A c : (Loop!Safe(c) <=> Safe(c)) /\ (Loop!Denied(c) <=> Denied(c))
  /\ \A c : Loop!Committed(c) <=> Committed(c)
  /\ Loop!Declared = Declared
  /\ \A c : c \in Loop!OwnCalls <=> c \in Declared /\ Position(c) > entry
  /\ Loop!Cardinality(Loop!Declared) = Cardinality(Declared)
<1>1. /\ \A t, c : Loop!Events(t, c) = Events(t, c)
      /\ \A t, c : Loop!Has(t, c) <=> Has(t, c)
  BY DEF Loop!Events, Events, Loop!Has, Has
<1>2. \A t, c, tag : Loop!HasTag(t, c, tag) <=> HasTag(t, c, tag)
  BY <1>1 DEF Loop!HasTag, HasTag
<1>3. \A c : Loop!Position(c) = Position(c)
  BY <1>1 DEF Loop!Position, Position
<1>4. \A c : Loop!Voided(c) <=> Voided(c)
  BY <1>3 DEF Loop!Voided, Voided
<1>5. \A c : (Loop!Safe(c) <=> Safe(c)) /\ (Loop!Denied(c) <=> Denied(c))
  BY <1>2 DEF Loop!Safe, Safe, Loop!Denied, Denied
<1>6. \A c : Loop!Committed(c) <=> Committed(c)
  BY <1>3, <1>4 DEF Loop!Committed, Committed
<1>7. Loop!Declared = Declared
  BY <1>1 DEF Loop!Declared, Declared, Loop!Calls, Calls
<1>8. \A c : c \in Loop!OwnCalls <=> c \in Declared /\ Position(c) > entry
  BY <1>3, <1>7 DEF Loop!OwnCalls
<1>9. \A S : Loop!Cardinality(S) = Cardinality(S)
  BY Zenon DEF Loop!Cardinality, Cardinality
<1> QED
  BY <1>1, <1>2, <1>3, <1>4, <1>5, <1>6, <1>7, <1>8, <1>9

\* A call of the loop's own is of its run, and behind it stands its own stop.
LEMMA OwnCall ==
  ASSUME RInv, proc = "live", NEW c \in Loop!OwnCalls
  PROVE  /\ c \in Declared /\ c \in Calls /\ RunOf(c) = run
         /\ Committed(c) => StoppedAhead(c, Len(log))
<1>1. /\ TypeOK /\ OwnTurns /\ log \in Seq(Event) /\ turnStart \in Nat
      /\ Len(log) \in Nat /\ DOMAIN log = 1..Len(log)
  BY DEF RInv, ProcInv, TypeOK
<1>2. c \in Declared /\ Position(c) > entry
  BY LoopReads
<1>3. /\ Position(c) \in DOMAIN log /\ log[Position(c)].type = "tool_call_end"
      /\ c \in Calls /\ Position(c) \in Nat
  BY <1>1, <1>2, Located
<1>4. RunOf(c) = run
  BY <1>1, <1>2, <1>3 DEF OwnTurns, RunOf
<1>5. ASSUME Committed(c) PROVE StoppedAhead(c, Len(log))
  <2>1. ~Voided(c)
    BY <1>5 DEF Committed
  <2>2. PICK i \in DOMAIN log : log[i].type = "stop" /\ Position(c) < i
    BY <1>5 DEF Committed
  <2>3. ~(Loop!Streaming /\ Position(c) > turnStart)
    <3>1. SUFFICES ASSUME Loop!Streaming, Position(c) > turnStart PROVE FALSE
      OBVIOUS
    <3>2. i \in (turnStart + 1)..Len(log)
      BY <1>1, <1>3, <2>2, <3>1
    <3> QED
      BY <2>2, <3>1, <3>2 DEF Loop!Streaming
  <2> QED
    BY <1>1, <1>2, <2>1, <2>3 DEF OwnTurns
<1> QED
  BY <1>2, <1>3, <1>4, <1>5

\* The loop writes an event.
LEMMA LiveAppends ==
  ASSUME RInv, proc = "live", NEW e, Extends(e), log' = Append(log, e),
         UNCHANGED <<run, entry, proc, base, current, aborted, breaks,
                     verdicts, ran>>,
         resolvers' \subseteq Calls, busy' \subseteq Calls,
         \A c \in resolvers' \ resolvers :
           e.type = "permission_requested" /\ e.call = c,
         \A c \in busy' \ busy :
           e.type = "tool_execution_started" /\ e.call = c,
         turnStart' \in Nat, OwnTurns'
  PROVE  RInv'
<1>1. TypeOK /\ LogInv /\ ProcInv /\ e \in Event /\ log \in Seq(Event)
  BY DEF RInv, TypeOK, Extends
<1>2. TypeOK'
  <2>1. log' \in Seq(Event) /\ base' \in 0..Len(log')
    BY <1>1, TypeGrows
  <2> QED
    BY <1>1, <2>1 DEF TypeOK
<1>3. LogInv'
  BY <1>1, LogGrows
<1>4. /\ \A t, c : Has(t, c)' <=> Has(t, c) \/ (e.type = t /\ e.call = c)
      /\ \A r : InLog(r)' <=> InLog(r) \/ e.run = r
  BY <1>1, Grown
<1>5. Entered'
  BY <1>1, <1>4 DEF ProcInv, Entered, DriverPoints
<1>6. Midway' /\ Asked'
  BY <1>1, <1>4 DEF ProcInv, Midway, Asked
<1>7. RunsOnce'
  <2>1. ran \in [Calls -> Nat]
    BY <1>1 DEF TypeOK
  <2>2. ASSUME NEW c \in busy' \ busy
        PROVE  c \in Calls /\ Has("tool_execution_started", c)' /\ ran[c] = 0
    <3>1. ~Has("tool_execution_started", c) /\ c \in Calls
      BY <2>2 DEF Extends, MayStart
    <3> QED
      BY <1>1, <1>4, <2>1, <2>2, <3>1 DEF ProcInv, RunsOnce
  <2> QED
    BY <1>1, <1>4, <2>2 DEF ProcInv, RunsOnce
<1> QED
  BY <1>2, <1>3, <1>5, <1>6, <1>7 DEF RInv, ProcInv

\* The loop emits a record of the run.
LEMMA LiveEmits ==
  ASSUME RInv, proc = "live", NEW type \in Types, NEW c \in 0..MaxCalls,
         NEW tag \in Tags, Loop!Emit(type, c, tag)
  PROVE  \E e : /\ e \in Event /\ e.type = type /\ e.call = c /\ e.tag = tag
                /\ e.run = run /\ e.run \in 1..run /\ InLog(e.run)
                /\ log' = Append(log, e)
                /\ UNCHANGED <<run, entry, turnStart>>
<1>1. PICK e : e = Ev(run, type, c, tag)
  OBVIOUS
<1>2. log' = Append(log, e) /\ UNCHANGED <<run, entry, turnStart>>
  BY <1>1 DEF Loop!Emit, Loop!Ev, Ev
<1>3. TypeOK /\ run \in Nat /\ InLog(run)
  BY DEF RInv, TypeOK, ProcInv, Entered
<1>4. run \in 1..run
  BY <1>3 DEF RInv, LogInv, RunsInOrder, InLog
<1>5. /\ e \in Event /\ e.type = type /\ e.call = c /\ e.tag = tag /\ e.run = run
  BY <1>1, <1>3, RecordIsEvent
<1> QED
  BY <1>2, <1>3, <1>4, <1>5

\* The loop emits anything but a boundary or a call.
LEMMA LiveFact ==
  ASSUME RInv, proc = "live", NEW type \in Types, NEW c \in 0..MaxCalls,
         NEW tag \in Tags, Loop!Emit(type, c, tag),
         type \notin {"stop", "model_output_abandoned", "user_input",
                      "tool_call_end"},
         type = "permission_requested" => MayAsk(c),
         type = "permission_decided" => MayDecide(c, tag),
         type = "tool_execution_started" => MayStart(c),
         type \in {"tool_execution_receipt", "tool_execution_resolved"} =>
           c \in Calls /\ Has("tool_execution_started", c),
         type = "tool_result" => MayResult(c, tag),
         UNCHANGED <<proc, base, current, aborted, breaks, verdicts, ran>>,
         resolvers' \subseteq Calls, busy' \subseteq Calls,
         \A d \in resolvers' \ resolvers : type = "permission_requested" /\ c = d,
         \A d \in busy' \ busy : type = "tool_execution_started" /\ c = d
  PROVE  RInv'
<1>1. PICK e : /\ e \in Event /\ e.type = type /\ e.call = c /\ e.tag = tag
               /\ e.run = run /\ e.run \in 1..run /\ InLog(e.run)
               /\ log' = Append(log, e)
               /\ UNCHANGED <<run, entry, turnStart>>
  BY LiveEmits
<1>2. Extends(e)
  BY <1>1 DEF Extends
<1>3. OwnTurns' /\ turnStart' \in Nat
  BY <1>1, <1>2, OwnTurnsGrow DEF RInv, ProcInv, TypeOK
<1> QED
  BY <1>1, <1>2, <1>3, LiveAppends

LEMMA LiveCallStep ==
  ASSUME RInv, NEW c \in Calls, LiveCall(c)
  PROVE  RInv'
<1>1. /\ proc = "live" /\ TypeOK /\ LogInv /\ c \in 0..MaxCalls
      /\ UNCHANGED <<proc, base, current, aborted, breaks, verdicts, ran>>
      /\ resolvers \subseteq Calls /\ busy \subseteq Calls
  BY SessionLogAssumption DEF LiveCall, LiveQuiet, Live, At, RInv, TypeOK, Calls
<1>2. /\ {"permission_decided", "permission_requested", "tool_execution_started",
          "tool_execution_receipt", "tool_result"} \subseteq Types
      /\ {"plain", "policyAllow", "policyDeny", "humanAllow", "humanDeny", "ran",
          "denied"} \subseteq Tags
  BY DEF Types, Tags
<1>3. CASE LiveQuiet(Loop!Decide(c))
  <2>1. PICK tag \in {"policyAllow", "policyDeny"} :
          Loop!Emit("permission_decided", c, tag)
    BY <1>3 DEF LiveQuiet, Live, Loop!Decide
  <2>2. /\ ~Has("permission_decided", c) /\ ~Has("tool_execution_started", c)
        /\ ~Has("permission_requested", c) /\ UNCHANGED <<resolvers, busy>>
    BY <1>3, LoopReads DEF LiveQuiet, Live, Loop!Decide, Loop!Undecided
  <2>3. MayDecide(c, tag)
    BY <2>2 DEF MayDecide
  <2> QED
    BY <1>1, <1>2, <2>1, <2>2, <2>3, LiveFact
<1>4. CASE Live(Loop!Request(c)) /\ resolvers' = resolvers \cup {c} /\ UNCHANGED busy
  <2>1. /\ Loop!Emit("permission_requested", c, "plain")
        /\ c \in Loop!OwnCalls /\ Committed(c)
        /\ ~Has("permission_decided", c) /\ ~Has("tool_execution_started", c)
        /\ ~Has("permission_requested", c) /\ ~Has("tool_result", c)
    BY <1>4, LoopReads DEF Live, Loop!Request, Loop!Undecided
  <2>2. MayAsk(c)
    BY <1>1, <2>1, OwnCall DEF MayAsk, Facts
  <2> QED
    BY <1>1, <1>2, <1>4, <2>1, <2>2, LiveFact
<1>5. CASE LiveQuiet(Loop!HumanDecides(c))
  <2>1. PICK tag \in {"humanAllow", "humanDeny"} :
          Loop!Emit("permission_decided", c, tag)
    BY <1>5 DEF LiveQuiet, Live, Loop!HumanDecides
  <2>2. /\ ~Has("permission_decided", c) /\ ~Has("tool_execution_started", c)
        /\ Has("permission_requested", c) /\ UNCHANGED <<resolvers, busy>>
    BY <1>5, LoopReads DEF LiveQuiet, Live, Loop!HumanDecides, Loop!Undecided
  <2>3. MayDecide(c, tag)
    BY <2>2 DEF MayDecide
  <2> QED
    BY <1>1, <1>2, <2>1, <2>2, <2>3, LiveFact
<1>6. CASE Live(Loop!Start(c)) /\ busy' = busy \cup {c} /\ UNCHANGED resolvers
  <2>1. /\ Loop!Emit("tool_execution_started", c, "plain")
        /\ c \in Loop!OwnCalls
        /\ ~Has("tool_execution_started", c) /\ ~Has("tool_result", c) /\ ~Denied(c)
        /\ Committed(c) \/ Safe(c)
        /\ Has("permission_requested", c) =>
             HasTag("permission_decided", c, "humanAllow")
    BY <1>6, LoopReads DEF Live, Loop!Start
  <2>2. MayStart(c)
    BY <1>1, <2>1, OwnCall DEF MayStart
  <2> QED
    BY <1>1, <1>2, <1>6, <2>1, <2>2, LiveFact
<1>7. CASE LiveQuiet(Loop!Receipt(c))
  <2>1. /\ Loop!Emit("tool_execution_receipt", c, "plain")
        /\ Has("tool_execution_started", c) /\ UNCHANGED <<resolvers, busy>>
    BY <1>7, LoopReads DEF LiveQuiet, Live, Loop!Receipt
  <2> QED
    BY <1>1, <1>2, <2>1, LiveFact
<1>8. CASE LiveQuiet(Loop!Result(c))
  <2>1. ~Has("tool_result", c) /\ UNCHANGED <<resolvers, busy>>
    BY <1>8, LoopReads DEF LiveQuiet, Live, Loop!Result
  <2>2. CASE c \in Loop!Unpaired /\ Loop!Emit("tool_result", c, "ran")
    <3>1. Has("tool_execution_receipt", c)
      BY <2>2, LoopReads DEF Loop!Unpaired
    <3>2. Has("tool_execution_started", c)
      BY <1>1, <3>1 DEF LogInv, CallsInOrder
    <3>3. MayResult(c, "ran")
      BY <2>1, <3>2 DEF MayResult
    <3> QED
      BY <1>1, <1>2, <2>1, <2>2, <3>3, LiveFact
  <2>3. CASE /\ ~Loop!Has("tool_execution_started", c)
             /\ Loop!Has("permission_requested", c)
                  \/ Loop!Has("permission_decided", c) => Loop!Denied(c)
             /\ Loop!Emit("tool_result", c, "denied")
    <3>1. MayResult(c, "denied")
      BY <2>1, <2>3, LoopReads DEF MayResult
    <3> QED
      BY <1>1, <1>2, <2>1, <2>3, <3>1, LiveFact
  <2> QED
    BY <1>8, <2>2, <2>3 DEF LiveQuiet, Live, Loop!Result
<1> QED
  BY <1>3, <1>4, <1>5, <1>6, <1>7, <1>8 DEF LiveCall, LiveQuiet, Live

\* What an event of the loop leaves of its own calls that are not streamed.
LEMMA OwnCallsKept ==
  ASSUME RInv, proc = "live", NEW e, Extends(e), log' = Append(log, e),
         NEW c \in Declared, Position(c) > entry,
         ~(Loop!Streaming /\ Position(c) > turnStart)
  PROVE  StoppedAhead(c, Len(log))' \/ Voided(c)'
<1>1. /\ log \in Seq(Event) /\ e \in Event
      /\ ~(e.type = "tool_call_end" /\ e.call = c)
  BY NewCall DEF RInv, TypeOK, LogInv, Extends
<1>2. StoppedAhead(c, Len(log)) \/ Voided(c)
  BY DEF RInv, ProcInv, OwnTurns
<1> QED
  BY <1>1, <1>2, StaysPut

\* The log and the own calls when the loop writes no call.
LEMMA OwnLog ==
  ASSUME RInv, proc = "live", NEW e, Extends(e), log' = Append(log, e)
  PROVE  /\ log \in Seq(Event) /\ e \in Event /\ Len(log) \in Nat
         /\ entry \in Nat /\ turnStart \in Nat /\ turnStart <= Len(log)
         /\ Len(log') = Len(log) + 1 /\ DOMAIN log = 1..Len(log)
         /\ DOMAIN log' = 1..(Len(log) + 1)
         /\ \A i \in 1..Len(log) : log'[i] = log[i]
         /\ log'[Len(log) + 1] = e
         /\ Declared' = Declared \cup
              {c \in Calls : e.type = "tool_call_end" /\ e.call = c}
         /\ \A c \in Declared : Position(c)' = Position(c)
                                /\ Position(c) \in 1..Len(log)
         /\ \A i \in 1..Len(log) : i > entry /\ log[i].type = "tool_call_end" =>
              log[i].run = run
<1>1. /\ log \in Seq(Event) /\ e \in Event /\ Len(log) \in Nat
      /\ entry \in Nat /\ turnStart \in Nat /\ turnStart <= Len(log)
  BY DEF RInv, TypeOK, ProcInv, OwnTurns, Extends
<1>2. /\ Len(log') = Len(log) + 1 /\ DOMAIN log = 1..Len(log)
      /\ DOMAIN log' = 1..(Len(log) + 1)
      /\ \A i \in 1..Len(log) : log'[i] = log[i]
      /\ log'[Len(log) + 1] = e
  BY <1>1, Appended
<1>3. /\ Declared' = Declared \cup
             {c \in Calls : e.type = "tool_call_end" /\ e.call = c}
      /\ \A c \in Declared : ~(e.type = "tool_call_end" /\ e.call = c)
  BY NewCall DEF RInv, LogInv
<1>4. \A c \in Declared : Position(c)' = Position(c) /\ Position(c) \in 1..Len(log)
  BY <1>1, <1>3, StaysPut, Located
<1>5. \A i \in 1..Len(log) : i > entry /\ log[i].type = "tool_call_end" =>
        log[i].run = run
  BY <1>2 DEF RInv, ProcInv, OwnTurns
<1> QED
  BY <1>1, <1>2, <1>3, <1>4, <1>5

\* Between turns no call is being streamed.
LEMMA NoneStreamed ==
  ASSUME RInv, proc = "live", ~Loop!OpenDraft, NEW c \in Declared
  PROVE  ~(Loop!Streaming /\ Position(c) > turnStart)
<1>1. /\ Position(c) \in 1..Len(log) /\ Len(log) \in Nat /\ turnStart \in Nat
  BY Located DEF RInv, TypeOK
<1>2. Position(c) > turnStart => Len(log) > turnStart
  BY <1>1
<1> QED
  BY <1>2 DEF Loop!OpenDraft

LEMMA InputStep ==
  ASSUME RInv, LiveQuiet(Loop!Input)
  PROVE  RInv'
<1>1. /\ proc = "live" /\ ~Loop!OpenDraft /\ Loop!Emit("user_input", 0, "plain")
      /\ UNCHANGED <<proc, base, current, aborted, breaks, humanVars, busy, ran>>
  BY DEF LiveQuiet, Live, At, Loop!Input
<1>2. "user_input" \in Types /\ "plain" \in Tags /\ 0 \in 0..MaxCalls
  BY SessionLogAssumption DEF Types, Tags
<1>3. PICK e : /\ e \in Event /\ e.type = "user_input"
               /\ e.run = run /\ e.run \in 1..run
               /\ log' = Append(log, e) /\ UNCHANGED <<run, entry, turnStart>>
  BY <1>1, <1>2, LiveEmits
<1>4. Extends(e)
  BY <1>3 DEF Extends
<1>5. /\ entry \in Nat /\ turnStart \in Nat /\ turnStart <= Len(log) /\ Len(log) \in Nat
      /\ Len(log') = Len(log) + 1 /\ DOMAIN log' = 1..(Len(log) + 1)
      /\ \A i \in 1..Len(log) : log'[i] = log[i]
      /\ log'[Len(log) + 1] = e
      /\ Declared' = Declared \cup
             {c \in Calls : e.type = "tool_call_end" /\ e.call = c}
      /\ \A c \in Declared : Position(c)' = Position(c)
      /\ \A i \in 1..Len(log) : i > entry /\ log[i].type = "tool_call_end" =>
           log[i].run = run
  BY <1>1, <1>3, <1>4, OwnLog
<1>6. OwnTurns'
  <2>1. Declared' = Declared
    BY <1>3, <1>5
  <2>2. \A i \in DOMAIN log' :
          i > entry /\ log'[i].type = "tool_call_end" => log'[i].run = run
    BY <1>3, <1>5
  <2>3. \A c \in Declared : Position(c) > entry =>
          StoppedAhead(c, Len(log))' \/ Voided(c)'
    BY <1>1, <1>3, <1>4, NoneStreamed, OwnCallsKept
  <2>4. turnStart' <= Len(log')
    BY <1>3, <1>5
  <2> QED
    BY <1>1, <1>3, <1>5, <2>1, <2>2, <2>3, <2>4 DEF OwnTurns
<1>7. resolvers' \subseteq Calls /\ busy' \subseteq Calls /\ turnStart' \in Nat
  BY <1>1, <1>3 DEF RInv, TypeOK
<1> QED
  BY <1>1, <1>3, <1>4, <1>6, <1>7, LiveAppends

LEMMA BeginTurnStep ==
  ASSUME RInv, LiveQuiet(Loop!BeginTurn)
  PROVE  RInv'
<1>1. /\ proc = "live" /\ ~Loop!OpenDraft /\ turnStart' = Len(log)
      /\ UNCHANGED <<log, run, entry, proc, base, current, aborted, breaks,
                     humanVars, busy, ran>>
      /\ TypeOK /\ LogInv /\ ProcInv /\ Len(log) \in Nat
  BY DEF LiveQuiet, Live, At, Loop!BeginTurn, RInv, TypeOK
<1>2. TypeOK' /\ LogInv'
  BY <1>1, LogRests DEF TypeOK
<1>3. /\ \A t, c : Has(t, c)' <=> Has(t, c)
      /\ \A r : InLog(r)' <=> InLog(r)
      /\ Declared' = Declared /\ \A c : Position(c)' = Position(c)
  BY <1>1, SameLog
<1>4. Entered' /\ Midway' /\ Asked' /\ RunsOnce'
  BY <1>1, <1>3 DEF ProcInv, Entered, Midway, Asked, RunsOnce, DriverPoints
<1>5. \A c \in Declared : Position(c) > entry =>
        StoppedAhead(c, Len(log)) \/ Voided(c)
  BY <1>1, NoneStreamed DEF ProcInv, OwnTurns
<1>6. \A c : /\ StoppedAhead(c, Len(log))' <=> StoppedAhead(c, Len(log))
             /\ Voided(c)' <=> Voided(c)
  BY <1>1, <1>3 DEF StoppedAhead, Voided
<1>7. OwnTurns'
  <2>1. turnStart' <= Len(log')
    BY <1>1
  <2> QED
    BY <1>1, <1>3, <1>5, <1>6, <2>1 DEF ProcInv, OwnTurns
<1> QED
  BY <1>2, <1>4, <1>7 DEF RInv, ProcInv

\* A call is declared while its turn is streamed.
LEMMA CallEndStep ==
  ASSUME RInv, LiveQuiet(Loop!CallEnd)
  PROVE  RInv'
<1>1. /\ proc = "live" /\ Loop!Streaming
      /\ UNCHANGED <<proc, base, current, aborted, breaks, humanVars, busy, ran>>
  BY DEF LiveQuiet, Live, At, Loop!CallEnd
<1>2. PICK d : d = Cardinality(Declared) + 1
  OBVIOUS
<1>3. PICK kind \in Kinds : Loop!Emit("tool_call_end", d, kind)
  BY <1>2, LoopReads DEF LiveQuiet, Live, Loop!CallEnd
<1>4. d \in Calls /\ d \in 0..MaxCalls
  <2>1. PICK k \in 0..MaxCalls : Declared = 1..k
    BY DEF RInv, LogInv, CallsInOrder
  <2>2. Cardinality(1..k) = k
    <3>1. k \in Int /\ 1 \in Int
      BY <2>1, SessionLogAssumption
    <3>2. Cardinality(1..k) = IF 1 > k THEN 0 ELSE k - 1 + 1
      BY <3>1, FS_Interval
    <3> QED
      BY <2>1, <3>1, <3>2, SessionLogAssumption
  <2>3. Cardinality(Declared) < MaxCalls
    BY LoopReads DEF LiveQuiet, Live, Loop!CallEnd
  <2> QED
    BY <1>2, <2>1, <2>2, <2>3, SessionLogAssumption DEF Calls
<1>5. "tool_call_end" \in Types /\ kind \in Tags
  BY <1>3, SessionLogAssumption DEF Types, Tags
<1>6. PICK e : /\ e \in Event /\ e.type = "tool_call_end" /\ e.call = d
               /\ e.run = run /\ e.run \in 1..run /\ InLog(e.run)
               /\ log' = Append(log, e) /\ UNCHANGED <<run, entry, turnStart>>
  BY <1>1, <1>3, <1>4, <1>5, LiveEmits
<1>7. Extends(e)
  BY <1>2, <1>4, <1>6 DEF Extends
<1>8. /\ entry \in Nat /\ turnStart \in Nat /\ turnStart <= Len(log) /\ Len(log) \in Nat
      /\ Len(log') = Len(log) + 1 /\ DOMAIN log = 1..Len(log)
      /\ DOMAIN log' = 1..(Len(log) + 1)
      /\ \A i \in 1..Len(log) : log'[i] = log[i]
      /\ log'[Len(log) + 1] = e
      /\ Declared' = Declared \cup
             {c \in Calls : e.type = "tool_call_end" /\ e.call = c}
      /\ \A c \in Declared : Position(c)' = Position(c)
      /\ \A i \in 1..Len(log) : i > entry /\ log[i].type = "tool_call_end" =>
           log[i].run = run
  BY <1>1, <1>6, <1>7, OwnLog
<1>9. Loop!Streaming'
  <2>1. \A i \in (turnStart + 1)..Len(log) :
          log[i].type \notin {"stop", "model_output_abandoned", "user_input"}
    BY <1>1 DEF Loop!Streaming
  <2>2. ASSUME NEW i \in (turnStart + 1)..(Len(log) + 1)
        PROVE  log'[i].type \notin {"stop", "model_output_abandoned", "user_input"}
    <3>1. CASE i = Len(log) + 1
      BY <1>6, <1>8, <3>1
    <3>2. CASE i # Len(log) + 1
      <4>1. i \in (turnStart + 1)..Len(log) /\ i \in 1..Len(log)
        BY <1>8, <3>2
      <4> QED
        BY <1>8, <2>1, <4>1
    <3> QED
      BY <3>1, <3>2
  <2> QED
    BY <1>1, <1>6, <1>8, <2>2 DEF Loop!Streaming
<1>10. Position(d)' = Len(log) + 1
  <2>1. d \notin Declared
    BY <1>6, <1>7, NewCall DEF RInv, LogInv
  <2>2. Events("tool_call_end", d)' = {Len(log) + 1}
    <3>1. Events("tool_call_end", d) = {}
      BY <1>4, <2>1 DEF Declared, Has
    <3>2. Events("tool_call_end", d)' = Events("tool_call_end", d) \cup
            {i \in {Len(log) + 1} : e.type = "tool_call_end" /\ e.call = d}
      BY <1>6, Grown DEF RInv, TypeOK
    <3> QED
      BY <1>6, <3>1, <3>2
  <2> QED
    BY <2>2 DEF Position
<1>11. OwnTurns'
  <2>1. \A i \in DOMAIN log' :
          i > entry /\ log'[i].type = "tool_call_end" => log'[i].run = run
    BY <1>6, <1>8
  <2>2. ASSUME NEW c \in Declared', Position(c)' > entry
        PROVE  \/ Position(c)' > turnStart
               \/ StoppedAhead(c, Len(log))' \/ Voided(c)'
    <3>1. CASE c = d
      BY <1>8, <1>10, <3>1
    <3>2. CASE c # d
      <4>1. c \in Declared /\ Position(c)' = Position(c)
        BY <1>6, <1>8, <3>2
      <4> QED
        BY <1>1, <1>6, <1>7, <2>2, <4>1, OwnCallsKept
    <3> QED
      BY <3>1, <3>2
  <2>3. turnStart' <= Len(log')
    BY <1>6, <1>8
  <2> QED
    BY <1>6, <1>9, <2>1, <2>2, <2>3 DEF OwnTurns
<1>12. resolvers' \subseteq Calls /\ busy' \subseteq Calls /\ turnStart' \in Nat
  BY <1>1, <1>6 DEF RInv, TypeOK
<1> QED
  BY <1>1, <1>6, <1>7, <1>11, <1>12, LiveAppends

\* The stop stands behind every call of its turn.
LEMMA StopStep ==
  ASSUME RInv, LiveQuiet(Loop!Stop)
  PROVE  RInv'
<1>1. /\ proc = "live" /\ Loop!Streaming /\ Loop!Emit("stop", 0, "plain")
      /\ UNCHANGED <<proc, base, current, aborted, breaks, humanVars, busy, ran>>
  BY DEF LiveQuiet, Live, At, Loop!Stop
<1>2. "stop" \in Types /\ "plain" \in Tags /\ 0 \in 0..MaxCalls
  BY SessionLogAssumption DEF Types, Tags
<1>3. PICK e : /\ e \in Event /\ e.type = "stop"
               /\ e.run = run /\ e.run \in 1..run /\ InLog(e.run)
               /\ log' = Append(log, e) /\ UNCHANGED <<run, entry, turnStart>>
  BY <1>1, <1>2, LiveEmits
<1>4. Extends(e)
  BY <1>3 DEF Extends
<1>5. /\ entry \in Nat /\ turnStart \in Nat /\ turnStart <= Len(log) /\ Len(log) \in Nat
      /\ Len(log') = Len(log) + 1 /\ DOMAIN log' = 1..(Len(log) + 1)
      /\ \A i \in 1..Len(log) : log'[i] = log[i]
      /\ log'[Len(log) + 1] = e
      /\ Declared' = Declared \cup
             {c \in Calls : e.type = "tool_call_end" /\ e.call = c}
      /\ \A c \in Declared : Position(c)' = Position(c)
                             /\ Position(c) \in 1..Len(log)
      /\ \A i \in 1..Len(log) : i > entry /\ log[i].type = "tool_call_end" =>
           log[i].run = run
  BY <1>1, <1>3, <1>4, OwnLog
<1>6. ASSUME NEW c \in Declared, Position(c) > turnStart
      PROVE  StoppedAhead(c, Len(log))'
  <2>1. PICK p \in 1..Len(log) : p = Position(c) /\ Position(c)' = p
    BY <1>5
  <2>2. \A x \in (turnStart + 1)..Len(log) : log[x].type # "user_input"
    BY <1>1 DEF Loop!Streaming
  <2>3. ASSUME NEW x \in p..(Len(log) + 1) PROVE log'[x].type # "user_input"
    <3>1. CASE x = Len(log) + 1
      BY <1>3, <1>5, <3>1
    <3>2. CASE x # Len(log) + 1
      <4>1. x \in (turnStart + 1)..Len(log) /\ x \in 1..Len(log)
        BY <1>5, <1>6, <2>1, <2>3, <3>2
      <4> QED
        BY <1>5, <2>2, <4>1
    <3> QED
      BY <3>1, <3>2
  <2>4. Len(log) + 1 \in p..Len(log') /\ log'[Len(log) + 1].type = "stop"
    BY <1>3, <1>5, <2>1
  <2>5. StoppedAhead(c, Len(log))' <=>
          \E j \in p..Len(log') : /\ log'[j].type = "stop"
                                  /\ \A x \in p..j : log'[x].type # "user_input"
    BY <2>1 DEF StoppedAhead
  <2> QED
    BY <2>3, <2>4, <2>5
<1>7. OwnTurns'
  <2>1. Declared' = Declared
    BY <1>3, <1>5
  <2>2. \A i \in DOMAIN log' :
          i > entry /\ log'[i].type = "tool_call_end" => log'[i].run = run
    BY <1>3, <1>5
  <2>3. \A c \in Declared : Position(c) > entry =>
          StoppedAhead(c, Len(log))' \/ Voided(c)'
    BY <1>1, <1>3, <1>4, <1>6, OwnCallsKept
  <2>4. turnStart' <= Len(log')
    BY <1>3, <1>5
  <2> QED
    BY <1>1, <1>3, <1>5, <2>1, <2>2, <2>3, <2>4 DEF OwnTurns
<1>8. resolvers' \subseteq Calls /\ busy' \subseteq Calls /\ turnStart' \in Nat
  BY <1>1, <1>3 DEF RInv, TypeOK
<1> QED
  BY <1>1, <1>3, <1>4, <1>7, <1>8, LiveAppends

\* The marker voids every call of its attempt.
LEMMA VoidStep ==
  ASSUME RInv, LiveQuiet(Loop!Void)
  PROVE  RInv'
<1>1. /\ proc = "live" /\ turnStart' \in {turnStart, Len(log')}
      /\ UNCHANGED <<run, entry, proc, base, current, aborted, breaks, humanVars,
                     busy, ran>>
      /\ TypeOK /\ run \in Nat /\ turnStart \in Nat /\ InLog(run)
  BY DEF LiveQuiet, Live, At, Loop!Void, RInv, TypeOK, ProcInv, Entered
<1>2. PICK e : /\ e = [Ev(run, "model_output_abandoned", 0, "plain")
                         EXCEPT !.from = turnStart]
               /\ log' = Append(log, e)
  BY DEF LiveQuiet, Live, Loop!Void, Loop!Ev, Ev
<1>3. /\ e \in Event /\ e.type = "model_output_abandoned" /\ e.run = run
      /\ e.from = turnStart
  BY <1>1, <1>2, SessionLogAssumption DEF Ev, Event, Types, Tags
<1>4. Extends(e)
  <2>1. run \in 1..run
    BY <1>1 DEF RInv, LogInv, RunsInOrder, InLog
  <2> QED
    BY <1>1, <1>3, <2>1 DEF Extends, LoopTypes
<1>5. /\ entry \in Nat /\ turnStart \in Nat /\ turnStart <= Len(log) /\ Len(log) \in Nat
      /\ Len(log') = Len(log) + 1 /\ DOMAIN log' = 1..(Len(log) + 1)
      /\ \A i \in 1..Len(log) : log'[i] = log[i]
      /\ log'[Len(log) + 1] = e
      /\ Declared' = Declared \cup
             {c \in Calls : e.type = "tool_call_end" /\ e.call = c}
      /\ \A c \in Declared : Position(c)' = Position(c)
                             /\ Position(c) \in 1..Len(log)
      /\ \A i \in 1..Len(log) : i > entry /\ log[i].type = "tool_call_end" =>
           log[i].run = run
  BY <1>1, <1>2, <1>4, OwnLog
<1>6. ASSUME NEW c \in Declared, Position(c) > turnStart
      PROVE  Voided(c)'
  <2>1. PICK p \in 1..Len(log) : p = Position(c) /\ Position(c)' = p
    BY <1>5
  <2>2. Len(log) + 1 \in DOMAIN log' /\ turnStart < p /\ p < Len(log) + 1
    BY <1>5, <1>6, <2>1
  <2> QED
    BY <1>3, <1>5, <2>1, <2>2 DEF Voided
<1>7. OwnTurns'
  <2>1. Declared' = Declared
    BY <1>3, <1>5
  <2>2. \A i \in DOMAIN log' :
          i > entry /\ log'[i].type = "tool_call_end" => log'[i].run = run
    BY <1>3, <1>5
  <2>3. \A c \in Declared : Position(c) > entry =>
          StoppedAhead(c, Len(log))' \/ Voided(c)'
    BY <1>1, <1>2, <1>4, <1>6, OwnCallsKept
  <2>4. turnStart' <= Len(log')
    BY <1>1, <1>5
  <2> QED
    BY <1>1, <1>5, <2>1, <2>2, <2>3, <2>4 DEF OwnTurns
<1>8. resolvers' \subseteq Calls /\ busy' \subseteq Calls /\ turnStart' \in Nat
  BY <1>1, <1>5 DEF TypeOK
<1> QED
  BY <1>1, <1>2, <1>4, <1>7, <1>8, LiveAppends

LEMMA LiveTurnStep ==
  ASSUME RInv, LiveTurn
  PROVE  RInv'
<1>1. 0 \in 0..MaxCalls /\ {"text", "terminal"} \subseteq Types
      /\ {"plain", "aborted"} \subseteq Tags
  BY SessionLogAssumption DEF Types, Tags
<1>2. ASSUME NEW type \in {"text", "terminal"}, NEW tag \in {"plain", "aborted"},
             proc = "live", Loop!Emit(type, 0, tag),
             UNCHANGED <<proc, base, current, aborted, breaks, humanVars, busy, ran>>
      PROVE  RInv'
  <2>1. resolvers' \subseteq Calls /\ busy' \subseteq Calls
    BY <1>2 DEF RInv, TypeOK
  <2>2. type \in Types /\ tag \in Tags
    BY <1>1
  <2> QED
    BY <1>1, <1>2, <2>1, <2>2, LiveFact
<1>3. CASE LiveQuiet(Loop!Text) \/ LiveQuiet(Loop!Terminal)
  <2>1. PICK type \in {"text", "terminal"}, tag \in {"plain", "aborted"} :
          /\ proc = "live" /\ Loop!Emit(type, 0, tag)
          /\ UNCHANGED <<proc, base, current, aborted, breaks, humanVars, busy, ran>>
    BY <1>3 DEF LiveQuiet, Live, At, Loop!Text, Loop!Terminal
  <2> QED
    BY <1>2, <2>1
<1> QED
  BY <1>3, InputStep, BeginTurnStep, CallEndStep, StopStep, VoidStep DEF LiveTurn

(***************************************************************************)
(* The invariant, and what it says of every behaviour.                     *)
(***************************************************************************)

LEMMA InitHolds == Init => RInv
<1> SUFFICES ASSUME Init PROVE RInv
  OBVIOUS
<1>1. /\ log = <<>> /\ DOMAIN log = {} /\ Len(log) = 0 /\ log \in Seq(Event)
      /\ run = 0 /\ proc = "idle" /\ busy = {} /\ resolvers = {}
      /\ verdicts = [c \in Calls |-> "none"] /\ ran = [c \in Calls |-> 0]
  BY DEF Init
<1>2. TypeOK
  <2>1. current \in 0..MaxCalls
    BY SessionLogAssumption DEF Init
  <2>2. base \in 0..Len(log) /\ run \in Nat /\ entry \in Nat /\ turnStart \in Nat
    BY <1>1 DEF Init
  <2>3. proc \in Points /\ aborted \in BOOLEAN /\ breaks \in Nat
    BY <1>1 DEF Init, Points
  <2>4. verdicts \in [Calls -> {"none", "humanAllow", "humanDeny"}]
    BY <1>1
  <2>5. ran \in [Calls -> Nat]
    BY <1>1
  <2> QED
    BY <1>1, <2>1, <2>2, <2>3, <2>4, <2>5 DEF TypeOK
<1>3. \A t, c : Events(t, c) = {}
  BY <1>1 DEF Events
<1>4. \A t, c : ~Has(t, c)
  BY <1>3 DEF Has
<1>5. Declared = {}
  BY <1>4 DEF Declared
<1>6. LogInv
  <2>1. RunsInOrder
    <3>1. 1..run = {}
      BY <1>1
    <3> QED
      BY <1>1, <3>1 DEF RunsInOrder
  <2>2. CallsInOrder
    <3>1. 0 \in 0..MaxCalls /\ Declared = 1..0
      BY <1>5, SessionLogAssumption
    <3> QED
      BY <1>3, <1>4, <3>1 DEF CallsInOrder, Unique
  <2>3. WrittenOnce
    BY <1>3 DEF WrittenOnce, Unique
  <2>4. \A c \in Calls : Authorized(c) /\ Truthful(c)
    BY <1>3, <1>4 DEF Authorized, Truthful, DecidedBy
  <2> QED
    BY <1>5, <2>1, <2>2, <2>3, <2>4 DEF LogInv
<1>7. ProcInv
  <2>1. Entered
    BY <1>1, RecoveryAssumption DEF Entered, DriverPoints
  <2>2. Midway /\ Asked /\ RunsOnce /\ OwnTurns
    BY <1>1 DEF Midway, Asked, RunsOnce, OwnTurns
  <2> QED
    BY <2>1, <2>2 DEF ProcInv
<1> QED
  BY <1>2, <1>6, <1>7 DEF RInv

\* A step that changes nothing.
LEMMA StutterStep ==
  ASSUME RInv, UNCHANGED vars
  PROVE  RInv'
<1>1. /\ TypeOK /\ ProcInv
      /\ UNCHANGED <<log, loopVars, proc, base, current, aborted, humanVars, busy,
                     ran, breaks>>
  BY DEF RInv, vars
<1>2. TypeOK'
  BY <1>1 DEF TypeOK
<1>3. /\ \A t, c : Has(t, c)' <=> Has(t, c)
      /\ Declared' = Declared
  BY <1>1, SameLog
<1>4. Midway' /\ Asked' /\ RunsOnce'
  BY <1>1, <1>3 DEF ProcInv, Midway, Asked, RunsOnce
<1> QED
  BY <1>1, <1>2, <1>4, RunRests

LEMMA StepHolds == RInv /\ [Next]_vars => RInv'
<1> SUFFICES ASSUME RInv, [Next]_vars PROVE RInv'
  OBVIOUS
<1>1. CASE StartRun \/ Resume
  BY <1>1, StartStep, ResumeStep
<1>2. CASE RunStep
  BY <1>2, MendStep, FirstInputStep, ExpireStep, DriverKeeps, LiveTurnStep,
     LiveCallStep, EndStep, FlushStep, FillStep
  DEF RunStep
<1>3. ASSUME NEW c \in Calls, Handle(c) \/ Approve(c) \/ ResolveUncertain(c)
      PROVE  RInv'
  BY <1>3, HandleStep, ApproveStep, ResolveStep
<1>4. CASE Abort \/ Leave
  BY <1>4, EndStep
<1>5. CASE Crash \/ Reopen
  BY <1>5, OpenStep
<1>6. CASE Done \/ UNCHANGED vars
  BY <1>6, StutterStep DEF Done
<1> QED
  BY <1>1, <1>2, <1>3, <1>4, <1>5, <1>6 DEF Next

\* Every behaviour of the session, whatever crashes, resumes, aborts and answers
\* it meets, keeps the invariant.
THEOREM RecoveryInvariance == Spec => []RInv
<1>1. Init => RInv
  BY InitHolds
<1>2. RInv /\ [Next]_vars => RInv'
  BY StepHolds
<1> QED
  BY <1>1, <1>2, PTL DEF Spec

\* The variables stay in their types: what is stored is events, the driver's
\* step is about a call of the session, and a handler's runs are counted.
THEOREM RecoveryTypes == Spec => []TypeOK
<1>1. RInv => TypeOK
  BY DEF RInv
<1> QED
  BY <1>1, RecoveryInvariance, PTL

\* A handler runs at most once for a call, in the live loop or in the recovery
\* driver, in however many processes the run is resumed (run.ts, loop.ts).
THEOREM HandlersRunOnce == Spec => []HandlerAtMostOnce
<1>1. RInv => HandlerAtMostOnce
  BY DEF RInv, ProcInv, RunsOnce, HandlerAtMostOnce
<1> QED
  BY <1>1, RecoveryInvariance, PTL

\* What a human was asked about runs only behind the human's durable approval
\* (session.ts, approve and flushPendingVerdicts; recovery-plan.ts).
THEOREM EffectsApproved == Spec => []ApprovedBeforeEffect
<1>1. ASSUME RInv PROVE ApprovedBeforeEffect
  <2> SUFFICES ASSUME NEW c \in Declared, ran[c] > 0, Has("permission_requested", c)
               PROVE  \E i \in Events("permission_decided", c) :
                        /\ log[i].tag = "humanAllow"
                        /\ \A j \in Events("tool_execution_started", c) : i < j
    BY DEF ApprovedBeforeEffect
  <2>1. c \in Calls
    BY DEF Declared
  <2>2. Has("tool_execution_started", c)
    BY <1>1, <2>1 DEF RInv, ProcInv, RunsOnce
  <2>3. Approved(c)
    BY <1>1, <2>1, <2>2 DEF RInv, LogInv, Authorized
  <2> QED
    BY <2>3 DEF Approved
<1>2. RInv => ApprovedBeforeEffect
  BY <1>1
<1> QED
  BY <1>2, RecoveryInvariance, PTL

\* A call whose tool is not precommit-safe starts behind a stop of its turn, in
\* the process that streamed it and in every one that resumes it.
THEOREM EffectsCommitted == Spec => []CommitBeforeEffect
<1>1. ASSUME RInv PROVE CommitBeforeEffect
  <2> SUFFICES ASSUME NEW c \in Declared, ~Safe(c),
                      NEW i \in Events("tool_execution_started", c)
               PROVE  \E j \in Position(c)..i :
                        /\ log[j].type = "stop"
                        /\ \A k \in Position(c)..j : log[k].type # "user_input"
    BY DEF CommitBeforeEffect
  <2>1. StoppedAhead(c, i)
    BY <1>1 DEF RInv, LogInv, Stopped
  <2> QED
    BY <2>1 DEF StoppedAhead
<1>2. RInv => CommitBeforeEffect
  BY <1>1
<1> QED
  BY <1>2, RecoveryInvariance, PTL

\* A set whose members are equal has one member at most.
LEMMA AtMostOne ==
  ASSUME NEW S, \A i, j \in S : i = j
  PROVE  Cardinality(S) <= 1
<1>1. CASE S = {}
  <2>1. Cardinality({}) = 0
    BY FS_EmptySet
  <2> QED
    BY <1>1, <2>1
<1>2. CASE S # {}
  <2>1. PICK x \in S : S = {x}
    BY <1>2
  <2>2. Cardinality({x}) = 1
    BY FS_Singleton
  <2> QED
    BY <2>1, <2>2
<1> QED
  BY <1>1, <1>2

\* The loop, the driver, approve(), the flush at a run's end, resolveUncertain()
\* and the repair of aborted calls write no fact of a call twice.
THEOREM FactsWrittenOnce == Spec => []OneOfEach
<1>1. ASSUME RInv PROVE OneOfEach
  <2> SUFFICES ASSUME NEW c \in Declared,
                      NEW t \in {"permission_requested", "permission_decided",
                                 "tool_execution_started", "tool_result"}
               PROVE  Cardinality(Events(t, c)) <= 1
    BY DEF OneOfEach
  <2>1. c \in Calls /\ t \in Facts
    BY DEF Declared, Facts
  <2>2. \A i, j \in Events(t, c) : i = j
    BY <1>1, <2>1 DEF RInv, LogInv, WrittenOnce, Unique
  <2> QED
    BY <2>2, AtMostOne
<1>2. RInv => OneOfEach
  BY <1>1
<1> QED
  BY <1>2, RecoveryInvariance, PTL

\* A result that says a call was refused or never executed is true of every
\* process, the ones that resume the run later included.
THEOREM RefusalsTrue == Spec => []RefusalMeansNoEffect
<1>1. ASSUME RInv PROVE RefusalMeansNoEffect
  <2> SUFFICES ASSUME NEW c \in Declared, NEW tag \in {"denied", "aborted"},
                      HasTag("tool_result", c, tag)
               PROVE  ran[c] = 0
    BY DEF RefusalMeansNoEffect
  <2>1. c \in Calls
    BY DEF Declared
  <2>2. ~Has("tool_execution_started", c)
    BY <1>1, <2>1 DEF RInv, LogInv, Truthful, HasTag
  <2>3. ran[c] \in Nat /\ ~(ran[c] > 0)
    BY <1>1, <2>1, <2>2 DEF RInv, TypeOK, ProcInv, RunsOnce
  <2> QED
    BY <2>3
<1>2. RInv => RefusalMeansNoEffect
  BY <1>1
<1> QED
  BY <1>2, RecoveryInvariance, PTL

(***************************************************************************)
(* Why a request answers every call, where nobody aborts.                  *)
(***************************************************************************)

\* A call that asks nothing more of anyone: void, or with its result.
Rests(c) == Voided(c) \/ Has("tool_result", c)
Floor == IF turnStart = 0 THEN entry ELSE turnStart

\* The calls of a terminated run rest.
EndedRest == \A c \in Declared : Terminated(RunOf(c)) => Rests(c)

\* A call left behind a boundary rests, was started, or was stopped in its turn.
Bounded(c, i) == Has("tool_execution_started", c) \/ Rests(c) \/ StoppedAhead(c, i)
LeftBehind == \A c \in Declared : \A i \in DOMAIN log :
  IsBoundary(i) /\ Position(c) < i => Bounded(c, i)

\* What the loop has sent, or was entered with, rests.
SentRest ==
  proc = "live" =>
    /\ entry <= Len(log) /\ (turnStart # 0 => entry <= turnStart)
    /\ \A c \in Declared : Position(c) <= Floor => Rests(c)

\* A fresh run starts on a log at rest.
FreshRest == proc = "fresh" => \A c \in Declared : Rests(c)

\* A receipt or a verdict rides on the run of its call.
Filled == {"tool_execution_receipt", "tool_execution_resolved"}
FilledInRun == \A i \in DOMAIN log :
  log[i].type \in Filled =>
    \E c \in Declared : log[i].call = c /\ log[i].run = RunOf(c)

\* Since it loaded its records, the driver has written no turn, and no receipt
\* but with its result, or the one it is about to.
Underway == DriverPoints \cup {"resume"}
Turns == {"user_input", "tool_call_end", "stop", "terminal", "tool_execution_resolved"}
SinceLoaded ==
  proc \in Underway =>
    /\ \A i \in DOMAIN log : i > base => log[i].type \notin Turns
    /\ \A c \in Calls : \A i \in Events("tool_execution_receipt", c) :
         i > base => Has("tool_result", c) \/ (proc = "result" /\ current = c)
OfRun == proc \in {"started", "ran"} => current \in Declared /\ RunOf(current) = run

AnswersInv ==
  /\ ~aborted
  /\ EndedRest /\ LeftBehind /\ SentRest /\ FreshRest /\ FilledInRun /\ SinceLoaded
  /\ OfRun

\* An appended event declares no declared call, and a declared call that rests,
\* was started or was stopped stays so.
LEMMA CallsKept ==
  ASSUME TypeOK, CallsInOrder', NEW e \in Event, log' = Append(log, e)
  PROVE  /\ Declared' = Declared \cup
              {c \in Calls : e.type = "tool_call_end" /\ e.call = c}
         /\ \A c \in Declared :
              /\ ~(e.type = "tool_call_end" /\ e.call = c)
              /\ Position(c)' = Position(c) /\ RunOf(c)' = RunOf(c)
              /\ Position(c) \in 1..Len(log)
              /\ Rests(c) => Rests(c)'
              /\ \A k \in 1..Len(log) : Bounded(c, k) => Bounded(c, k)'
         /\ \A c \in Declared' \ Declared :
              Position(c)' = Len(log) + 1 /\ RunOf(c)' = e.run
<1> DEFINE n == Len(log)
<1>1. /\ log \in Seq(Event) /\ n \in Nat /\ DOMAIN log' = 1..(n + 1)
      /\ log'[n + 1] = e
      /\ DOMAIN log = 1..n /\ \A i \in 1..n : log'[i] = log[i]
  BY Appended DEF TypeOK
<1>2. /\ \A t, c : Events(t, c)' = Events(t, c) \cup
              {i \in {n + 1} : e.type = t /\ e.call = c}
      /\ \A t, c : Has(t, c)' <=> Has(t, c) \/ (e.type = t /\ e.call = c)
  BY <1>1, Grown
<1> HIDE DEF n
<1>3. Declared' = Declared \cup {c \in Calls : e.type = "tool_call_end" /\ e.call = c}
  BY <1>2 DEF Declared, Calls
<1>4. ASSUME NEW c \in Declared
      PROVE  ~(e.type = "tool_call_end" /\ e.call = c)
  <2> SUFFICES ASSUME e.type = "tool_call_end", e.call = c PROVE FALSE
    OBVIOUS
  <2>1. /\ Position(c) \in Events("tool_call_end", c) /\ Position(c) \in 1..n
        /\ c \in Calls
    BY <1>1, Located DEF n
  <2>2. {Position(c), n + 1} \subseteq Events("tool_call_end", c)'
    BY <1>2, <2>1
  <2>3. \A i, j \in Events("tool_call_end", c)' : i = j
    BY <2>1 DEF CallsInOrder, Unique
  <2> QED
    BY <1>1, <2>1, <2>2, <2>3
<1>5. ASSUME NEW c \in Declared
      PROVE  /\ Position(c)' = Position(c) /\ RunOf(c)' = RunOf(c)
             /\ Position(c) \in 1..n
             /\ Rests(c) => Rests(c)'
             /\ \A k \in 1..n : Bounded(c, k) => Bounded(c, k)'
  <2>1. /\ Position(c)' = Position(c) /\ RunOf(c)' = RunOf(c)
        /\ Voided(c) => Voided(c)'
        /\ \A k \in 1..n : StoppedAhead(c, k)' <=> StoppedAhead(c, k)
    BY <1>1, <1>4, StaysPut DEF n
  <2>2. Rests(c) => Rests(c)'
    BY <1>2, <2>1 DEF Rests
  <2>3. Position(c) \in 1..n
    BY <1>1, Located DEF n
  <2> QED
    BY <1>2, <2>1, <2>2, <2>3 DEF Bounded
<1>6. ASSUME NEW c \in Declared' \ Declared
      PROVE  Position(c)' = n + 1 /\ RunOf(c)' = e.run
  <2>1. e.type = "tool_call_end" /\ e.call = c /\ c \in Calls
    BY <1>3
  <2>2. Events("tool_call_end", c) = {}
    BY <2>1 DEF Declared, Has
  <2>3. Events("tool_call_end", c)' = {n + 1}
    BY <1>2, <2>1, <2>2
  <2>4. Position(c)' = n + 1
    BY <2>3 DEF Position
  <2> QED
    BY <1>1, <2>4 DEF RunOf
<1> QED
  BY <1>3, <1>4, <1>5, <1>6 DEF n

\* What an event may do to the calls: no turn begins and no run ends while a call
\* does not rest, and a boundary leaves none behind.
Settling(e) ==
  /\ e.type \in {"terminal", "user_input"} => \A c \in Declared : Rests(c)
  /\ e.type = "tool_call_end" => ~Terminated(e.run)
  /\ e.type \in {"stop", "model_output_abandoned"} =>
       \A c \in Declared : Bounded(c, Len(log))'
  /\ e.type \in Filled => \E c \in Declared : e.call = c /\ e.run = RunOf(c)

LEMMA RestGrows ==
  ASSUME TypeOK, CallsInOrder', EndedRest, LeftBehind, FilledInRun,
         NEW e \in Event, log' = Append(log, e), Settling(e)
  PROVE  EndedRest' /\ LeftBehind' /\ FilledInRun'
<1> DEFINE n == Len(log)
<1>1. /\ log \in Seq(Event) /\ n \in Nat /\ DOMAIN log = 1..n
      /\ DOMAIN log' = 1..(n + 1) /\ Len(log') = n + 1
      /\ log'[n + 1] = e /\ \A i \in 1..n : log'[i] = log[i]
  BY Appended DEF TypeOK
<1>2. /\ Declared' = Declared \cup
              {c \in Calls : e.type = "tool_call_end" /\ e.call = c}
      /\ \A c \in Declared :
           /\ Position(c)' = Position(c) /\ RunOf(c)' = RunOf(c)
           /\ Position(c) \in 1..n
           /\ Rests(c) => Rests(c)'
           /\ \A k \in 1..n : Bounded(c, k) => Bounded(c, k)'
      /\ \A c \in Declared' \ Declared :
           Position(c)' = n + 1 /\ RunOf(c)' = e.run
  BY CallsKept
<1>3. \A r : Terminated(r)' <=> Terminated(r) \/ (e.type = "terminal" /\ e.run = r)
  BY <1>1, Grown
<1>4. \A c \in Declared' \ Declared : e.type = "tool_call_end"
  BY <1>2
<1>5. EndedRest'
  <2> SUFFICES ASSUME NEW c \in Declared', Terminated(RunOf(c))' PROVE Rests(c)'
    BY DEF EndedRest
  <2>1. CASE c \in Declared
    BY <1>2, <1>3, <2>1 DEF EndedRest, Settling
  <2>2. CASE c \notin Declared
    BY <1>2, <1>3, <1>4, <2>2 DEF Settling
  <2> QED
    BY <2>1, <2>2
<1>6. LeftBehind'
  <2> SUFFICES ASSUME NEW c \in Declared', NEW i \in 1..(n + 1),
                      IsBoundary(i)', Position(c)' < i
               PROVE  Bounded(c, i)'
    BY <1>1 DEF LeftBehind
  <2>1. c \in Declared
    BY <1>1, <1>2
  <2>2. CASE i \in 1..n
    <3>1. IsBoundary(i) /\ Position(c) < i
      BY <1>1, <1>2, <2>1, <2>2 DEF IsBoundary
    <3> QED
      BY <1>1, <1>2, <2>1, <2>2, <3>1 DEF LeftBehind
  <2>3. CASE i = n + 1
    <3>1. e.type \in {"stop", "user_input", "terminal", "model_output_abandoned"}
      BY <1>1, <2>3 DEF IsBoundary
    <3>2. CASE e.type \in {"terminal", "user_input"}
      BY <1>2, <2>1, <3>2 DEF Settling, Bounded
    <3>3. CASE e.type \in {"stop", "model_output_abandoned"}
      <4>1. Bounded(c, Len(log))'
        BY <2>1, <3>3 DEF Settling
      <4> QED
        BY <1>1, <2>3, <4>1 DEF Bounded, StoppedAhead
    <3> QED
      BY <3>1, <3>2, <3>3
  <2> QED
    BY <1>1, <2>2, <2>3
<1>7. FilledInRun'
  <2> SUFFICES ASSUME NEW i \in 1..(n + 1), log'[i].type \in Filled
               PROVE  \E c \in Declared' : log'[i].call = c /\ log'[i].run = RunOf(c)'
    BY <1>1 DEF FilledInRun
  <2>1. CASE i \in 1..n
    BY <1>1, <1>2, <2>1 DEF FilledInRun
  <2>2. CASE i = n + 1
    BY <1>1, <1>2, <2>2 DEF Settling
  <2> QED
    BY <1>1, <2>1, <2>2
<1> QED
  BY <1>5, <1>6, <1>7

\* The driver's plan has nothing left: no step is due to a call, a request, a
\* receipt or a verdict of the run.
LEMMA PlanContinues ==
  ASSUME TypeOK, Plan.kind = "CONTINUE_MODEL"
  PROVE  /\ \A c \in Declared : ~Uncertain(c) /\ CommittedCallNeeds(c) = "nothing"
         /\ ~Draft
         /\ \A i \in DOMAIN log : StoredRequest(i) =>
              RequestNeeds(log[i].call) = "nothing"
         /\ \A i \in Scope : log[i].type \in Filled => Has("tool_result", log[i].call)
<1> DEFINE uncertain == {c \in Declared : Uncertain(c)}
           calls == {c \in Declared : CommittedCallNeeds(c) # "nothing"}
           requests == {i \in DOMAIN log : /\ StoredRequest(i)
                                           /\ RequestNeeds(log[i].call) # "nothing"}
           unfilled(t) == {i \in Scope : /\ log[i].type = t
                                             /\ ~Has("tool_result", log[i].call)}
           receipts == unfilled("tool_execution_receipt")
           resolutions == unfilled("tool_execution_resolved")
<1>1. calls \in SUBSET Nat /\ requests \in SUBSET Nat
  <2>1. DOMAIN log \subseteq Nat /\ Calls \subseteq Nat
    BY SessionLogAssumption DEF TypeOK, Calls
  <2> QED
    BY <2>1 DEF Declared
<1>2. calls # {} => CommittedCallNeeds(Least(calls)) \in
                      {"DECIDE_PERMISSION", "EXECUTE", "REPAIR_RESULT"}
  <2> SUFFICES ASSUME calls # {} PROVE CommittedCallNeeds(Least(calls)) \in
                      {"DECIDE_PERMISSION", "EXECUTE", "REPAIR_RESULT"}
    OBVIOUS
  <2>1. Least(calls) \in calls
    BY <1>1, LeastOf
  <2> QED
    BY <2>1 DEF CommittedCallNeeds, Needs
<1>3. requests # {} => RequestNeeds(log[Least(requests)].call) \in
                         {"WAIT_PERMISSION", "EXECUTE", "REPAIR_RESULT"}
  <2> SUFFICES ASSUME requests # {} PROVE RequestNeeds(log[Least(requests)].call) \in
                         {"WAIT_PERMISSION", "EXECUTE", "REPAIR_RESULT"}
    OBVIOUS
  <2>1. Least(requests) \in requests
    BY <1>1, LeastOf
  <2> QED
    BY <2>1 DEF RequestNeeds, Needs
<1> DEFINE step(kind, c) == [kind |-> kind, call |-> c]
           asked == log[Least(requests)].call
<1>4. Plan = IF uncertain # {} THEN step("RESOLVE_UNCERTAIN", Least(uncertain))
             ELSE IF Draft THEN step("ABANDON_DRAFT", 0)
             ELSE IF calls # {}
             THEN step(CommittedCallNeeds(Least(calls)), Least(calls))
             ELSE IF requests # {} THEN step(RequestNeeds(asked), asked)
             ELSE IF receipts # {}
             THEN step("REPAIR_RECEIPT", log[Least(receipts)].call)
             ELSE IF resolutions # {}
             THEN step("FILL_RESOLUTION", log[Least(resolutions)].call)
             ELSE step("CONTINUE_MODEL", 0)
  BY DEF Plan
<1> HIDE DEF uncertain, calls, requests, receipts, resolutions
<1>5. /\ uncertain = {} /\ ~Draft /\ calls = {} /\ requests = {}
      /\ receipts = {} /\ resolutions = {}
  BY <1>2, <1>3, <1>4
<1> QED
  BY <1>5 DEF uncertain, calls, requests, receipts, resolutions, Filled

\* The run's newest boundary.
LEMMA NewestBoundary ==
  ASSUME RInv, Scope # {}
  PROVE  /\ LastBoundary \in OpenEvents /\ LastBoundary \in 1..Len(log)
         /\ IsBoundary(LastBoundary)
         /\ \A i \in OpenEvents : IsBoundary(i) => i <= LastBoundary
<1>1. /\ TypeOK /\ LogInv /\ log \in Seq(Event)
      /\ Len(log) \in Nat /\ base \in 0..Len(log) /\ DOMAIN log = 1..Len(log)
  BY DEF RInv, TypeOK
<1> DEFINE B == {i \in OpenEvents : IsBoundary(i)}
<1>2. OpenEvents \subseteq 1..Len(log)
  BY <1>1 DEF OpenEvents, Scope
<1>3. PICK i \in Scope : TRUE
  OBVIOUS
<1>4. i \in DOMAIN log /\ i \in 1..base /\ log[i].run = run
  BY <1>1 DEF Scope
<1>5. PICK j \in 1..i : log[j].type = "user_input" /\ log[j].run = run
  BY <1>1, <1>4 DEF LogInv, RunsInOrder
<1>6. j \in Scope
  BY <1>1, <1>4, <1>5 DEF Scope
<1>7. j \in B
  BY <1>5, <1>6 DEF OpenEvents, IsBoundary
<1>8. B \in SUBSET (0..Len(log)) /\ B # {}
  <2>1. OpenEvents \subseteq 0..Len(log)
    BY <1>1, <1>2
  <2> QED
    BY <1>7, <2>1
<1>9. LastBoundary = Greatest(B)
  BY DEF LastBoundary
<1> HIDE DEF B
<1>10. LastBoundary \in B /\ \A x \in B : LastBoundary >= x
  BY <1>1, <1>8, <1>9, GreatestOf
<1> QED
  BY <1>2, <1>10 DEF B

\* Where the plan has nothing left, every call of the log rests.
LEMMA PlanRests ==
  ASSUME RInv, AnswersInv, proc = "derive", Plan.kind = "CONTINUE_MODEL",
         NEW c \in Declared
  PROVE  Rests(c)
<1> DEFINE p == Position(c)
           n == Len(log)
<1>1. /\ TypeOK /\ LogInv /\ log \in Seq(Event) /\ n \in Nat /\ DOMAIN log = 1..n
      /\ base \in 0..n /\ run \in Nat /\ Scope # {}
      /\ p \in 1..n /\ log[p].type = "tool_call_end" /\ log[p].call = c
      /\ c \in Calls /\ InLog(RunOf(c)) /\ RunOf(c) = log[p].run
  BY Located, RunIsOpen DEF RInv, TypeOK, DriverPoints, RunOf
<1>2. /\ EndedRest /\ LeftBehind /\ FilledInRun
      /\ \A i \in 1..n : i > base => log[i].type \notin Turns
      /\ \A i \in Events("tool_execution_receipt", c) : i > base => Has("tool_result", c)
  BY <1>1 DEF AnswersInv, SinceLoaded, Underway, DriverPoints
<1>3. /\ ~Uncertain(c) /\ CommittedCallNeeds(c) = "nothing" /\ ~Draft
      /\ \A i \in 1..n : StoredRequest(i) => RequestNeeds(log[i].call) = "nothing"
      /\ \A i \in Scope : log[i].type \in Filled => Has("tool_result", log[i].call)
  BY <1>1, PlanContinues
<1>4. CASE Terminated(RunOf(c))
  BY <1>2, <1>4 DEF EndedRest
<1>5. CASE ~Terminated(RunOf(c))
  <2>1. RunOf(c) = run
    <3>1. RunOf(c) \in 1..run
      BY <1>1 DEF LogInv, RunsInOrder
    <3> QED
      BY <1>1, <1>5, <3>1 DEF LogInv, RunsInOrder
  <2>2. p <= base /\ p \in Scope /\ p \in OpenEvents
    <3>1. p <= base
      BY <1>1, <1>2 DEF Turns
    <3>2. p \in Scope
      <4>1. p \in 1..base
        BY <1>1, <3>1
      <4>2. log[p].run = run
        BY <1>1, <2>1
      <4> HIDE DEF p
      <4> QED
        BY <4>1, <4>2 DEF Scope
    <3> QED
      BY <3>1, <3>2 DEF OpenEvents
  <2>3. CASE Has("tool_execution_started", c)
    <3>1. PICK i \in 1..n : log[i].type \in Filled /\ log[i].call = c
      BY <1>1, <1>3, <2>3 DEF Uncertain, Has, Events, Filled
    <3>2. log[i].run = run
      BY <1>1, <1>2, <2>1, <3>1 DEF FilledInRun
    <3>3. CASE i <= base
      <4>1. i \in Scope
        BY <1>1, <3>2, <3>3 DEF Scope
      <4> QED
        BY <1>3, <3>1, <4>1 DEF Rests
    <3>4. CASE i > base
      BY <1>1, <1>2, <3>1, <3>4 DEF Rests, Filled, Turns, Events
    <3> QED
      BY <1>1, <3>3, <3>4
  <2>4. CASE ~Has("tool_execution_started", c)
    <3> SUFFICES ASSUME ~Rests(c) PROVE FALSE
      OBVIOUS
    <3>1. /\ LastBoundary \in 1..n /\ IsBoundary(LastBoundary) /\ p < LastBoundary
      <4>1. LastBoundary \in 1..n /\ IsBoundary(LastBoundary)
        BY <1>1, NewestBoundary
      <4>2. p <= LastBoundary
        BY <1>1, <1>3, <2>2, <2>4, <4>1 DEF Draft
      <4>3. p # LastBoundary
        BY <1>1, <4>1 DEF IsBoundary
      <4> QED
        BY <1>1, <4>1, <4>2, <4>3
    <3>2. StoppedAhead(c, LastBoundary)
      BY <1>1, <1>2, <2>4, <3>1 DEF LeftBehind, Bounded
    <3>3. PICK j \in p..LastBoundary :
            log[j].type = "stop" /\ \A x \in p..j : log[x].type # "user_input"
      BY <3>2 DEF StoppedAhead
    <3>4. j \in 1..n /\ p < j
      <4>1. j \in 1..n /\ p <= j
        BY <1>1, <3>1, <3>3
      <4>2. j # p
        BY <1>1, <3>3
      <4> QED
        BY <1>1, <4>1, <4>2
    <3>5. log[j].run = run
      <4>1. log[j].run \in 1..run
        BY <1>1, <3>4 DEF LogInv, RunsInOrder
      <4>2. log[p].run <= log[j].run
        BY <1>1, <3>3, <3>4 DEF LogInv, RunsInOrder, LoopTypes
      <4> QED
        BY <1>1, <2>1, <4>1, <4>2
    <3>6. j \in Scope
      <4>1. j <= base
        BY <1>1, <1>2, <3>3, <3>4 DEF Turns
      <4> QED
        BY <1>1, <3>4, <3>5, <4>1 DEF Scope
    <3>7. InStoppedTurn(c)
      <4>1. \A x \in Scope : log[x].type = "user_input" => ~(p < x /\ x < j)
        <5>1. \A x \in Scope : x \in 1..n
          BY <1>1 DEF Scope
        <5>2. \A x \in 1..n : p < x /\ x < j => x \in p..j
          BY <1>1, <3>4
        <5> QED
          BY <3>3, <5>1, <5>2
      <4> QED
        BY <2>2, <3>3, <3>4, <3>6, <4>1 DEF InStoppedTurn
    <3>8. Has("permission_requested", c)
      BY <1>3, <2>4, <3>7 DEF CommittedCallNeeds, Needs, Rests
    <3>9. PICK i \in 1..n : log[i].type = "permission_requested" /\ log[i].call = c
      BY <1>1, <3>8 DEF Has, Events
    <3>10. log[i].run = run
      <4>1. i \in Events("permission_requested", c) /\ c \in 0..MaxCalls
        BY <1>1, <3>9, SessionLogAssumption DEF Events, Calls
      <4> QED
        BY <1>1, <2>1, <4>1 DEF LogInv, CallsInOrder
    <3>11. StoredRequest(i)
      <4>1. i <= base => i \in Scope
        BY <1>1, <3>9, <3>10 DEF Scope
      <4>2. i > base => i > Greatest(Scope)
        <5>1. Scope \in SUBSET (0..base)
          BY <1>1 DEF Scope
        <5>2. Greatest(Scope) \in Scope
          <6>1. base \in Nat /\ Scope # {}
            BY <1>1
          <6> QED
            BY <5>1, <6>1, GreatestOf
        <5>3. Greatest(Scope) \in 0..base
          BY <5>1, <5>2
        <5> QED
          BY <1>1, <3>9, <5>3
      <4>3. i <= base \/ i > base
        BY <1>1, <3>9
      <4> QED
        BY <3>9, <4>1, <4>2, <4>3 DEF StoredRequest
    <3>12. RequestNeeds(c) = "nothing"
      BY <1>3, <3>9, <3>11
    <3> QED
      BY <2>4, <3>12 DEF RequestNeeds, Needs, Rests
  <2> QED
    BY <2>3, <2>4
<1> QED
  BY <1>4, <1>5

(***************************************************************************)
(* The steps.                                                              *)
(***************************************************************************)

\* What stays of the calls when nothing is written.
LEMMA SameRests ==
  ASSUME TypeOK, UNCHANGED log
  PROVE  /\ Declared' = Declared
         /\ \A c : /\ Rests(c)' <=> Rests(c)
                   /\ Position(c)' = Position(c) /\ RunOf(c)' = RunOf(c)
         /\ EndedRest => EndedRest'
         /\ LeftBehind => LeftBehind'
         /\ FilledInRun => FilledInRun'
<1>1. /\ \A t, c : Has(t, c)' <=> Has(t, c)
      /\ \A r : Terminated(r)' <=> Terminated(r)
      /\ Declared' = Declared
      /\ \A c : Position(c)' = Position(c) /\ RunOf(c)' = RunOf(c)
  BY SameLog
<1>2. \A c : (Voided(c)' <=> Voided(c)) /\ (Rests(c)' <=> Rests(c))
  BY <1>1 DEF Voided, Rests
<1>3. \A c, k : StoppedAhead(c, k)' <=> StoppedAhead(c, k)
  BY <1>1 DEF StoppedAhead
<1>4. \A c, k : Bounded(c, k)' <=> Bounded(c, k)
  BY <1>1, <1>2, <1>3 DEF Bounded
<1>5. \A i : IsBoundary(i)' <=> IsBoundary(i)
  BY DEF IsBoundary
<1>6. EndedRest => EndedRest'
  BY <1>1, <1>2 DEF EndedRest
<1>7. LeftBehind => LeftBehind'
  BY <1>1, <1>4, <1>5 DEF LeftBehind
<1>8. FilledInRun => FilledInRun'
  BY <1>1 DEF FilledInRun
<1> QED
  BY <1>1, <1>2, <1>6, <1>7, <1>8

\* A step that writes nothing, and neither starts a run nor enters the loop.
LEMMA QuietStep ==
  ASSUME RInv, AnswersInv, UNCHANGED log, ~aborted',
         proc' = "live" => proc = "live" /\ UNCHANGED <<entry, turnStart>>,
         proc' = "fresh" => proc = "fresh",
         proc' \in Underway =>
           /\ proc \in Underway /\ base' = base
           /\ proc = "result" => proc' = "result" /\ current' = current,
         proc' \in {"started", "ran"} =>
           proc \in {"started", "ran"} /\ UNCHANGED <<current, run>>
  PROVE  AnswersInv'
<1>1. TypeOK /\ EndedRest /\ LeftBehind /\ SentRest /\ FreshRest /\ FilledInRun
      /\ SinceLoaded /\ OfRun
  BY DEF RInv, AnswersInv
<1>2. /\ Declared' = Declared
      /\ \A c : /\ Rests(c)' <=> Rests(c)
                /\ Position(c)' = Position(c) /\ RunOf(c)' = RunOf(c)
      /\ EndedRest' /\ LeftBehind' /\ FilledInRun'
  BY <1>1, SameRests
<1>3. \A t, c : Has(t, c)' <=> Has(t, c)
  BY <1>1, SameLog
<1>4. SentRest'
  <2> SUFFICES ASSUME proc' = "live" PROVE SentRest'
    BY DEF SentRest
  <2>1. proc = "live" /\ entry' = entry /\ turnStart' = turnStart
    OBVIOUS
  <2>2. Floor' = Floor
    BY <2>1 DEF Floor
  <2> QED
    BY <1>1, <1>2, <2>1, <2>2 DEF SentRest
<1>5. FreshRest'
  BY <1>1, <1>2 DEF FreshRest
<1>6. SinceLoaded'
  <2>1. \A t, c : Events(t, c)' = Events(t, c)
    BY <1>1, SameLog
  <2> QED
    BY <1>1, <1>3, <2>1 DEF SinceLoaded, Underway
<1>7. OfRun'
  BY <1>1, <1>2 DEF OfRun
<1> QED
  BY <1>2, <1>4, <1>5, <1>6, <1>7 DEF AnswersInv

\* A step that writes an event, and neither starts a run nor enters the loop.
LEMMA AppendStep ==
  ASSUME RInv, RInv', AnswersInv, ~aborted',
         NEW e \in Event, log' = Append(log, e), Settling(e),
         proc' = "live" => proc = "live" /\ UNCHANGED <<entry, turnStart>>,
         proc' = "fresh" => proc = "fresh" /\ e.type # "tool_call_end",
         proc' \in Underway =>
           /\ proc \in Underway /\ base' = base /\ e.type \notin Turns
           /\ e.type = "tool_execution_receipt" =>
                proc' = "result" /\ e.call = current'
           /\ proc = "result" =>
                \/ proc' = "result" /\ current' = current
                \/ e.type = "tool_result" /\ e.call = current,
         proc' \in {"started", "ran"} =>
           \E c \in Declared : current' = c /\ RunOf(c) = run'
  PROVE  AnswersInv'
<1> DEFINE n == Len(log)
<1>1. TypeOK /\ CallsInOrder' /\ EndedRest /\ LeftBehind /\ SentRest /\ FreshRest
      /\ FilledInRun /\ SinceLoaded /\ OfRun
  BY DEF RInv, LogInv, AnswersInv
<1>2. EndedRest' /\ LeftBehind' /\ FilledInRun'
  BY <1>1, RestGrows
<1>3. /\ log \in Seq(Event) /\ n \in Nat /\ DOMAIN log = 1..n
      /\ DOMAIN log' = 1..(n + 1) /\ Len(log') = n + 1
      /\ log'[n + 1] = e /\ \A i \in 1..n : log'[i] = log[i]
  BY <1>1, Appended DEF TypeOK
<1>4. /\ Declared' = Declared \cup
              {c \in Calls : e.type = "tool_call_end" /\ e.call = c}
      /\ \A c \in Declared :
           /\ Position(c)' = Position(c) /\ RunOf(c)' = RunOf(c)
           /\ Rests(c) => Rests(c)'
      /\ \A c \in Declared' \ Declared : Position(c)' = n + 1
  BY <1>1, CallsKept
<1>5. \A t, c : Has(t, c)' <=> Has(t, c) \/ (e.type = t /\ e.call = c)
  BY <1>3, Grown
<1>6. SentRest'
  <2> SUFFICES ASSUME proc' = "live" PROVE SentRest'
    BY DEF SentRest
  <2>1. /\ proc = "live" /\ entry' = entry /\ turnStart' = turnStart /\ Floor' = Floor
        /\ entry <= n /\ turnStart <= n /\ entry \in Nat /\ turnStart \in Nat
    BY <1>1 DEF Floor, SentRest, RInv, ProcInv, OwnTurns, TypeOK
  <2>2. ASSUME NEW c \in Declared', Position(c)' <= Floor PROVE Rests(c)'
    <3>1. Floor <= n /\ Floor \in Nat
      BY <2>1 DEF Floor
    <3>2. c \in Declared
      BY <1>3, <1>4, <2>2, <3>1
    <3> QED
      BY <1>1, <1>4, <2>1, <2>2, <3>2 DEF SentRest
  <2>3. entry <= n + 1 /\ (turnStart # 0 => entry <= turnStart)
    BY <1>1, <1>3, <2>1 DEF SentRest
  <2> QED
    BY <1>3, <2>1, <2>2, <2>3 DEF SentRest
<1>7. FreshRest'
  BY <1>1, <1>4 DEF FreshRest
<1>8. SinceLoaded'
  <2> SUFFICES ASSUME proc' \in Underway PROVE SinceLoaded'
    BY DEF SinceLoaded
  <2>1. ASSUME NEW i \in 1..(n + 1), i > base' PROVE log'[i].type \notin Turns
    BY <1>1, <1>3, <2>1 DEF SinceLoaded
  <2>2. ASSUME NEW c \in Calls, NEW i \in Events("tool_execution_receipt", c)', i > base'
        PROVE  Has("tool_result", c)' \/ (proc' = "result" /\ current' = c)
    <3>1. \/ i \in Events("tool_execution_receipt", c)
          \/ e.type = "tool_execution_receipt" /\ e.call = c
      BY <1>3, <2>2, Grown
    <3>2. CASE i \in Events("tool_execution_receipt", c)
      BY <1>1, <1>5, <2>2, <3>2 DEF SinceLoaded
    <3> QED
      BY <3>1, <3>2
  <2> QED
    BY <1>3, <2>1, <2>2 DEF SinceLoaded
<1>9. OfRun'
  BY <1>4 DEF OfRun
<1> QED
  BY <1>2, <1>6, <1>7, <1>8, <1>9 DEF AnswersInv

LEMMA WrittenIs ==
  ASSUME RInv, RInv', NEW r, NEW type, NEW c, NEW tag, Write(Ev(r, type, c, tag))
  PROVE  \E e \in Event : /\ log' = Append(log, e)
                          /\ e.type = type /\ e.call = c /\ e.tag = tag /\ e.run = r
<1>1. log \in Seq(Event) /\ log' \in Seq(Event)
  BY DEF RInv, TypeOK
<1>2. PICK e : e = Ev(r, type, c, tag) /\ log' = Append(log, e)
  BY DEF Write
<1>3. e \in Event
  <2>1. Len(log') \in DOMAIN log' /\ log'[Len(log')] = e
    BY <1>1, <1>2
  <2> QED
    BY <1>1, <2>1
<1>4. e.type = type /\ e.call = c /\ e.tag = tag /\ e.run = r
  BY <1>2 DEF Ev
<1> QED
  BY <1>2, <1>3, <1>4

\* What leaves the calls' turns alone.
Plain == {"text", "permission_requested", "permission_decided",
          "tool_execution_started", "tool_result", "permission_expired"}

LEMMA PlainSettles == \A e : e.type \in Plain => Settling(e) /\ e.type \notin Turns
BY DEF Plain, Settling, Turns, Filled

\* A fact about a call is written.
LEMMA FactStep ==
  ASSUME RInv, RInv', AnswersInv, ~aborted',
         NEW r, NEW type \in Plain, NEW c, NEW tag, Write(Ev(r, type, c, tag)),
         proc' = "live" => proc = "live" /\ UNCHANGED <<entry, turnStart>>,
         proc' = "fresh" => proc = "fresh",
         proc' \in Underway =>
           /\ proc \in Underway /\ base' = base
           /\ proc = "result" =>
                \/ proc' = "result" /\ current' = current
                \/ type = "tool_result" /\ c = current,
         proc' \in {"started", "ran"} =>
           \E d \in Declared : current' = d /\ RunOf(d) = run'
  PROVE  AnswersInv'
<1>1. PICK e \in Event : /\ log' = Append(log, e)
                         /\ e.type = type /\ e.call = c /\ e.tag = tag /\ e.run = r
  BY WrittenIs
<1>2. Settling(e) /\ e.type \notin Turns
      /\ e.type \notin {"tool_call_end", "tool_execution_receipt"}
  BY <1>1, PlainSettles DEF Plain
<1> QED
  BY <1>1, <1>2, AppendStep

\* A run is started on a log without an open run, or resumed on what is stored.
LEMMA BeginAnswers ==
  ASSUME RInv, AnswersInv, StartRun \/ Resume
  PROVE  AnswersInv'
<1>1. /\ TypeOK /\ LogInv /\ EndedRest /\ LeftBehind /\ FilledInRun
      /\ UNCHANGED log /\ ~aborted' /\ base' = Len(log) /\ proc' \in {"fresh", "resume"}
      /\ Len(log) \in Nat /\ DOMAIN log = 1..Len(log)
  BY DEF RInv, AnswersInv, StartRun, Resume, Begin, Goto, TypeOK
<1>2. /\ Declared' = Declared /\ \A c : Rests(c)' <=> Rests(c)
      /\ EndedRest' /\ LeftBehind' /\ FilledInRun'
  BY <1>1, SameRests
<1>3. SentRest' /\ OfRun'
  BY <1>1 DEF SentRest, OfRun
<1>4. SinceLoaded'
  <2>1. \A i \in DOMAIN log : ~ (i > Len(log))
    BY <1>1
  <2>2. \A t, c : Events(t, c)' = Events(t, c) /\ Events(t, c) \subseteq DOMAIN log
    BY <1>1, SameLog DEF Events
  <2> QED
    BY <1>1, <2>1, <2>2 DEF SinceLoaded
<1>5. FreshRest'
  <2> SUFFICES ASSUME proc' = "fresh", NEW c \in Declared PROVE Rests(c)
    BY <1>2 DEF FreshRest
  <2>1. OpenRuns = {}
    BY DEF StartRun, Resume, Begin, Goto
  <2>2. InLog(RunOf(c))
    BY <1>1, Located DEF TypeOK
  <2>3. Terminated(RunOf(c))
    BY <2>1, <2>2 DEF OpenRuns, InLog
  <2> QED
    BY <1>1, <2>3 DEF EndedRest
<1> QED
  BY <1>1, <1>2, <1>3, <1>4, <1>5 DEF AnswersInv

LEMMA MendAnswers ==
  ASSUME RInv, RInv', AnswersInv, Mend \/ Expire
  PROVE  AnswersInv'
<1>1. ~aborted' /\ UNCHANGED base
  BY DEF AnswersInv, Mend, Expire
<1>2. "tool_result" \in Plain /\ "permission_expired" \in Plain
  BY DEF Plain
<1>3. CASE Mend
  <2>1. PICK r, c : Write(Ev(r, "tool_result", c, "aborted"))
    BY <1>3 DEF Mend
  <2>2. proc' = proc /\ proc \in {"fresh", "resume"}
    BY <1>3 DEF Mend
  <2> QED
    BY <1>1, <1>2, <2>1, <2>2, FactStep DEF Underway, DriverPoints
<1>4. CASE Expire /\ Dangling # {}
  <2>1. PICK r, c : Write(Ev(r, "permission_expired", c, "plain"))
    BY <1>4, Zenon DEF Expire
  <2>2. proc' = proc /\ proc = "resume"
    BY <1>4 DEF Expire, At
  <2> QED
    BY <1>1, <1>2, <2>1, <2>2, FactStep DEF Underway, DriverPoints
<1>5. CASE Expire /\ Dangling = {}
  BY <1>1, <1>5, QuietStep DEF Expire, At, Goto, Underway, DriverPoints
<1> QED
  BY <1>3, <1>4, <1>5

\* A run's first input stands on a log at rest.
LEMMA FirstInputAnswers ==
  ASSUME RInv, RInv', AnswersInv, FirstInput
  PROVE  AnswersInv'
<1>1. /\ TypeOK /\ CallsInOrder' /\ EndedRest /\ LeftBehind /\ FilledInRun
      /\ proc = "fresh" /\ FreshRest /\ log \in Seq(Event)
      /\ proc' = "live" /\ entry' = Len(log') /\ turnStart' = 0 /\ ~aborted'
  BY DEF RInv, LogInv, AnswersInv, FirstInput, At, EnterLoop, Goto, TypeOK
<1>2. PICK e \in Event : log' = Append(log, e) /\ e.type = "user_input"
  <2>1. Write(Ev(run, "user_input", 0, "plain"))
    BY DEF FirstInput, Record
  <2> QED
    BY <2>1, WrittenIs
<1>3. \A c \in Declared : Rests(c)
  BY <1>1 DEF FreshRest
<1>4. Settling(e)
  BY <1>2, <1>3 DEF Settling, Filled
<1>5. EndedRest' /\ LeftBehind' /\ FilledInRun'
  BY <1>1, <1>2, <1>4, RestGrows
<1>6. Declared' = Declared /\ \A c \in Declared : Rests(c) => Rests(c)'
  BY <1>1, <1>2, CallsKept
<1>7. SentRest'
  <2>1. Len(log') \in Nat
    BY <1>1, <1>2
  <2> QED
    BY <1>1, <1>3, <1>6, <2>1 DEF SentRest
<1>8. FreshRest' /\ SinceLoaded' /\ OfRun'
  BY <1>1 DEF FreshRest, SinceLoaded, OfRun, Underway, DriverPoints
<1> QED
  BY <1>1, <1>5, <1>7, <1>8 DEF AnswersInv

\* What the human, the flush, the crash and the end of a run leave.
LEMMA AsideAnswers ==
  ASSUME RInv, RInv', AnswersInv,
         \/ RunOver \/ Leave \/ Flush \/ Close \/ Fill \/ Crash \/ Reopen
         \/ \E c \in Calls : Handle(c) \/ Approve(c)
  PROVE  AnswersInv'
<1>1. {"permission_decided", "tool_result"} \subseteq Plain /\ ~aborted
  BY DEF Plain, AnswersInv
<1>2. CASE RunOver \/ Leave \/ Close
  BY <1>1, <1>2, QuietStep DEF RunOver, Leave, Close, Goto, Underway, DriverPoints
<1>3. CASE Crash \/ Reopen
  BY <1>1, <1>3, QuietStep DEF Crash, Reopen, Opened, Underway, DriverPoints
<1>4. CASE Flush
  <2>1. /\ proc = "flush" /\ proc' = "flush" /\ ~aborted'
    BY <1>1, <1>4 DEF Flush, At
  <2>2. CASE UNCHANGED log
    BY <2>1, <2>2, QuietStep DEF Underway, DriverPoints
  <2>3. CASE ~ UNCHANGED log
    <3>1. PICK c, tag : Write(Ev(run, "permission_decided", c, tag))
      BY <1>4, <2>3 DEF Flush, Record
    <3> QED
      BY <1>1, <2>1, <3>1, FactStep DEF Underway, DriverPoints
  <2> QED
    BY <2>2, <2>3
<1>5. CASE Fill
  <2>1. proc = "fill" /\ proc' = "idle" /\ ~aborted'
    BY <1>1, <1>5 DEF Fill, At, Goto
  <2>2. CASE UNCHANGED log
    BY <2>1, <2>2, QuietStep DEF Underway, DriverPoints
  <2>3. CASE ~ UNCHANGED log
    <3>1. PICK r, c : Write(Ev(r, "tool_result", c, "resolved"))
      BY <1>5, <2>3 DEF Fill
    <3> QED
      BY <1>1, <2>1, <3>1, FactStep DEF Underway, DriverPoints
  <2> QED
    BY <2>2, <2>3
<1>6. ASSUME NEW c \in Calls, Handle(c) PROVE AnswersInv'
  BY <1>1, <1>6, QuietStep DEF Handle, Underway, DriverPoints
<1>7. ASSUME NEW c \in Calls, Approve(c) PROVE AnswersInv'
  <2>1. UNCHANGED <<loopVars, proc, base, current>> /\ ~aborted'
    BY <1>1, <1>7 DEF Approve
  <2>2. CASE UNCHANGED log
    BY <2>1, <2>2, QuietStep
  <2>3. CASE ~ UNCHANGED log
    <3>1. PICK r, tag : Write(Ev(r, "permission_decided", c, tag))
      BY <1>7, <2>3, Zenon DEF Approve
    <3>2. proc' \in {"started", "ran"} => \E d \in Declared : current' = d /\ RunOf(d) = run'
      BY <2>1 DEF AnswersInv, OfRun
    <3> QED
      BY <1>1, <2>1, <3>1, <3>2, FactStep
  <2> QED
    BY <2>2, <2>3
<1> QED
  BY <1>2, <1>3, <1>4, <1>5, <1>6, <1>7

\* A verdict on an uncertain execution rides on the run of its call.
LEMMA ResolveAnswers ==
  ASSUME RInv, RInv', AnswersInv, NEW c \in Calls, ResolveUncertain(c)
  PROVE  AnswersInv'
<1>1. c \in Declared
  <2>1. Has("tool_execution_started", c) /\ c \in 0..MaxCalls
    BY SessionLogAssumption DEF ResolveUncertain, Uncertain, Calls
  <2> QED
    BY <2>1 DEF RInv, LogInv, CallsInOrder
<1>2. PICK e \in Event : /\ log' = Append(log, e) /\ e.type = "tool_execution_resolved"
                         /\ e.call = c /\ e.run = RunOf(c)
  BY WrittenIs DEF ResolveUncertain, RunOf
<1>3. Settling(e)
  BY <1>1, <1>2 DEF Settling
<1>4. proc' = "fill" /\ ~aborted'
  BY DEF ResolveUncertain, Goto, AnswersInv
<1> QED
  BY <1>2, <1>3, <1>4, AppendStep DEF Underway, DriverPoints

(***************************************************************************)
(* The steps of the driver.                                                *)
(***************************************************************************)

LEMMA BoundedLater ==
  ASSUME RInv, RInv', NEW e \in Event, log' = Append(log, e), NEW c \in Declared,
         NEW k \in 1..Len(log), Bounded(c, k)
  PROVE  Bounded(c, Len(log))'
<1>1. /\ TypeOK /\ CallsInOrder' /\ log \in Seq(Event) /\ Len(log) \in Nat
  BY DEF RInv, LogInv, TypeOK
<1>2. /\ ~(e.type = "tool_call_end" /\ e.call = c) /\ (Rests(c) => Rests(c)')
  BY <1>1, CallsKept
<1>3. CASE Has("tool_execution_started", c) \/ Rests(c)
  BY <1>1, <1>2, <1>3, Grown DEF Bounded
<1>4. CASE StoppedAhead(c, k)
  <2>1. StoppedAhead(c, Len(log))
    BY <1>1, <1>4, StoppedLater
  <2>2. StoppedAhead(c, Len(log))'
    BY <1>1, <1>2, <2>1, StaysPut
  <2> QED
    BY <2>2 DEF Bounded
<1> QED
  BY <1>3, <1>4 DEF Bounded

\* The marker reaches back to the newest boundary: a call behind it is void, one
\* ahead of it had been left behind.
LEMMA AbandonAnswers ==
  ASSUME RInv, RInv', AnswersInv, AbandonDraft
  PROVE  AnswersInv'
<1>1. /\ TypeOK /\ TypeOK' /\ CallsInOrder' /\ log \in Seq(Event) /\ Len(log) \in Nat
      /\ DOMAIN log = 1..Len(log) /\ proc = "derive" /\ proc' = "check" /\ ~aborted'
      /\ base' = base /\ log' \in Seq(Event)
  BY DEF RInv, LogInv, TypeOK, AbandonDraft, Planned, At, Goto, AnswersInv
<1>2. Scope # {}
  BY <1>1, RunIsOpen DEF DriverPoints
<1>3. LastBoundary \in 1..Len(log) /\ IsBoundary(LastBoundary)
  BY <1>2, NewestBoundary
<1>4. PICK e : /\ e = [Ev(run, "model_output_abandoned", 0, "plain")
                         EXCEPT !.from = LastBoundary]
               /\ log' = Append(log, e)
  BY DEF AbandonDraft, Write
<1>5. e.type = "model_output_abandoned" /\ e.from = LastBoundary
  BY <1>4 DEF Ev
<1>6. e \in Event
  <2>1. Len(log') \in DOMAIN log' /\ log'[Len(log')] = e
    BY <1>1, <1>4
  <2> QED
    BY <1>1, <2>1
<1>7. ASSUME NEW c \in Declared PROVE Bounded(c, Len(log))'
  <2>1. Position(c) \in 1..Len(log) /\ log[Position(c)].type = "tool_call_end"
    BY <1>1, Located
  <2>2. CASE Position(c) < LastBoundary
    <3>1. Bounded(c, LastBoundary)
      BY <1>1, <1>3, <2>2 DEF AnswersInv, LeftBehind
    <3> QED
      BY <1>3, <1>4, <1>6, <3>1, BoundedLater
  <2>3. CASE LastBoundary < Position(c)
    <3>1. Position(c)' = Position(c)
      BY <1>1, <1>4, <1>6, CallsKept
    <3>2. /\ Len(log) + 1 \in DOMAIN log' /\ log'[Len(log) + 1] = e
          /\ Position(c) < Len(log) + 1
      BY <1>1, <1>4, <1>6, <2>1, Appended
    <3>3. Voided(c)'
      BY <1>5, <2>3, <3>1, <3>2 DEF Voided
    <3> QED
      BY <3>3 DEF Bounded, Rests
  <2>4. LastBoundary # Position(c)
    BY <1>3, <2>1 DEF IsBoundary
  <2> QED
    BY <1>1, <1>3, <2>1, <2>2, <2>3, <2>4
<1>8. Settling(e) /\ e.type \notin Turns /\ e.type # "tool_execution_receipt"
  BY <1>5, <1>7 DEF Settling, Turns, Filled
<1> QED
  BY <1>1, <1>4, <1>6, <1>8, AppendStep DEF Underway, DriverPoints

\* A call the plan starts is of the run.
LEMMA PlannedOfRun ==
  ASSUME RInv, proc = "derive", Plan.kind \in {"DECIDE_PERMISSION", "EXECUTE"}
  PROVE  Plan.call \in Declared /\ RunOf(Plan.call) = run
<1>1. TypeOK /\ LogInv /\ Scope # {}
  BY RunIsOpen DEF RInv, DriverPoints
<1>2. \/ PlansCall(Plan.kind, Plan.call) \/ PlansRequest(Plan.kind, Plan.call)
  BY <1>1, PlanRead DEF PlanReads
<1>3. CASE PlansCall(Plan.kind, Plan.call)
  <2>1. Plan.call \in Declared /\ InStoppedTurn(Plan.call)
    BY <1>3 DEF PlansCall, CommittedCallNeeds
  <2> QED
    BY <1>1, <2>1, CommittedTurn
<1>4. CASE PlansRequest(Plan.kind, Plan.call)
  <2>1. PICK i \in DOMAIN log : StoredRequest(i) /\ log[i].call = Plan.call
    BY <1>4 DEF PlansRequest
  <2>2. log[i].run = run /\ Plan.call \in Declared
    BY <1>1, <2>1, RequestTurn
  <2>3. i \in Events("permission_requested", Plan.call) /\ Plan.call \in 0..MaxCalls
    BY <2>1, <2>2, SessionLogAssumption DEF StoredRequest, Events, Declared, Calls
  <2> QED
    BY <1>1, <2>2, <2>3 DEF LogInv, CallsInOrder
<1> QED
  BY <1>2, <1>3, <1>4

\* loop() is entered on a log at rest.
LEMMA EnterAnswers ==
  ASSUME RInv, AnswersInv, Planned("CONTINUE_MODEL"), EnterLoop, UNCHANGED log, ~aborted'
  PROVE  AnswersInv'
<1>1. /\ TypeOK /\ EndedRest /\ LeftBehind /\ FilledInRun /\ proc = "derive"
      /\ proc' = "live" /\ entry' = Len(log') /\ turnStart' = 0 /\ Len(log) \in Nat
  BY DEF RInv, AnswersInv, EnterLoop, Goto, Planned, At, TypeOK
<1>2. \A c \in Declared : Rests(c)
  BY <1>1, PlanRests DEF Planned
<1>3. /\ Declared' = Declared /\ \A c : Rests(c)' <=> Rests(c)
      /\ EndedRest' /\ LeftBehind' /\ FilledInRun'
  BY <1>1, SameRests
<1>4. SentRest'
  BY <1>1, <1>2, <1>3 DEF SentRest
<1>5. FreshRest' /\ SinceLoaded' /\ OfRun'
  BY <1>1 DEF FreshRest, SinceLoaded, OfRun, Underway, DriverPoints
<1> QED
  BY <1>3, <1>4, <1>5 DEF AnswersInv

LEMMA DriverAnswers ==
  ASSUME RInv, RInv', AnswersInv, DriverStep
  PROVE  AnswersInv'
<1>1. ~aborted /\ ~aborted' /\ base' = base
  BY DEF AnswersInv, DriverStep, ResolveUncertainBlocks, AbandonDraft, DecidePermission,
     WaitPermission, WaitEnds, Execute, RunHandler, WriteReceipt, WriteResult,
     RepairDenial, RepairReceipt, FillResolution, Repair, ContinueModel, Check
<1>2. {"tool_result", "permission_decided", "permission_requested",
       "tool_execution_started", "permission_expired"} \subseteq Plain
  BY DEF Plain
<1>3. CASE ResolveUncertainBlocks \/ WaitPermission \/ RunHandler
  BY <1>1, <1>3, QuietStep
  DEF ResolveUncertainBlocks, WaitPermission, RunHandler, Planned, At, Goto,
      Underway, DriverPoints
<1>4. CASE AbandonDraft
  BY <1>4, AbandonAnswers
<1>5. ASSUME proc = "derive", Plan.kind \in {"DECIDE_PERMISSION", "EXECUTE"}, run' = run,
             ExecutePersisted(Plan.call)
      PROVE  AnswersInv'
  <2>1. /\ proc' = "started" /\ current' = Plan.call
        /\ Write(Ev(run, "tool_execution_started", Plan.call, "plain"))
    BY <1>1, <1>5 DEF ExecutePersisted, Goto, Record
  <2>2. Plan.call \in Declared /\ RunOf(Plan.call) = run
    BY <1>5, PlannedOfRun
  <2> QED
    BY <1>1, <1>2, <1>5, <2>1, <2>2, FactStep DEF Underway, DriverPoints
<1>6. CASE Execute
  BY <1>5, <1>6 DEF Execute, Planned, At
<1>7. ASSUME proc \in {"derive", "wait", "result"}, proc' = "check",
             NEW type \in Plain, NEW c, NEW tag, Record(type, c, tag),
             proc = "result" => type = "tool_result" /\ c = current
      PROVE  AnswersInv'
  BY <1>1, <1>7, FactStep DEF Record, Underway, DriverPoints
<1>8. CASE DecidePermission
  <2>1. /\ proc = "derive" /\ Plan.kind = "DECIDE_PERMISSION" /\ run' = run
        /\ \/ ExecutePersisted(Plan.call)
           \/ UNCHANGED log /\ proc' \in {"check", "flush"}
           \/ /\ proc' = "check"
              /\ \E type \in Plain : \E c, tag : Record(type, c, tag)
    BY <1>1, <1>2, <1>8, Zenon DEF DecidePermission, Planned, At, Goto
  <2>2. CASE UNCHANGED log /\ proc' \in {"check", "flush"}
    BY <1>1, <2>1, <2>2, QuietStep DEF Underway, DriverPoints
  <2> QED
    BY <1>5, <1>7, <2>1, <2>2
<1>9. CASE WaitEnds
  BY <1>1, <1>2, <1>7, <1>9 DEF WaitEnds, At, Goto
<1>10. CASE WriteResult
  BY <1>1, <1>2, <1>7, <1>10 DEF WriteResult, At, Goto
<1>11. CASE RepairDenial \/ RepairReceipt \/ FillResolution
  BY <1>1, <1>2, <1>7, <1>11
  DEF RepairDenial, RepairReceipt, FillResolution, Repair, Planned, At, Goto
<1>12. CASE WriteReceipt
  <2>1. /\ proc = "ran" /\ proc' = "result" /\ current' = current
        /\ Write(Ev(run, "tool_execution_receipt", current, "plain"))
    BY <1>12 DEF WriteReceipt, At, Goto, Record
  <2>2. PICK e \in Event : /\ log' = Append(log, e) /\ e.run = run
                           /\ e.type = "tool_execution_receipt" /\ e.call = current
    BY <2>1, WrittenIs
  <2>3. Settling(e) /\ e.type \notin Turns
    BY <2>1, <2>2 DEF Settling, Turns, AnswersInv, OfRun
  <2> QED
    BY <1>1, <2>1, <2>2, <2>3, AppendStep DEF Underway, DriverPoints
<1>13. CASE ContinueModel
  <2>1. /\ Planned("CONTINUE_MODEL") /\ proc = "derive"
        /\ \/ proc' = "check" /\ \E c : Record("permission_expired", c, "plain")
           \/ UNCHANGED log /\ EnterLoop
    BY <1>13, Zenon DEF ContinueModel, Planned, At, Goto
  <2> QED
    BY <1>1, <1>2, <1>7, <2>1, EnterAnswers
<1>14. CASE Check
  BY <1>1, <1>14, QuietStep DEF Check, At, Goto, Underway, DriverPoints
<1> QED
  BY <1>3, <1>4, <1>6, <1>8, <1>9, <1>10, <1>11, <1>12, <1>13, <1>14 DEF DriverStep

(***************************************************************************)
(* The steps of the live loop.                                             *)
(***************************************************************************)

\* What the loop emits is a record of the run.
LEMMA EmitsRecord ==
  ASSUME NEW type, NEW c, NEW tag, Loop!Emit(type, c, tag)
  PROVE  Write(Ev(run, type, c, tag)) /\ UNCHANGED <<run, entry, turnStart>>
BY DEF Loop!Emit, Loop!Ev, Ev, Write

\* Between turns, with its own committed calls answered, the log is at rest.
LEMMA TurnsRest ==
  ASSUME RInv, AnswersInv, proc = "live", ~Loop!OpenDraft, Loop!Answered,
         NEW c \in Declared
  PROVE  Rests(c)
<1>1. /\ TypeOK /\ log \in Seq(Event) /\ Len(log) \in Nat /\ DOMAIN log = 1..Len(log)
      /\ entry \in Nat /\ turnStart \in Nat /\ OwnTurns /\ SentRest
  BY DEF RInv, TypeOK, ProcInv, AnswersInv
<1>2. Position(c) \in 1..Len(log) /\ log[Position(c)].type = "tool_call_end"
  BY <1>1, Located
<1>3. CASE Position(c) <= entry
  <2>1. Position(c) <= Floor
    BY <1>1, <1>2, <1>3 DEF SentRest, Floor
  <2> QED
    BY <1>1, <2>1 DEF SentRest
<1>4. CASE Position(c) > entry /\ ~Voided(c)
  <2>1. StoppedAhead(c, Len(log))
    BY <1>1, <1>4, NoneStreamed DEF OwnTurns
  <2>2. PICK j \in Position(c)..Len(log) : log[j].type = "stop"
    BY <2>1 DEF StoppedAhead
  <2>3. j \in DOMAIN log /\ Position(c) < j
    <3>1. j # Position(c)
      BY <1>2, <2>2
    <3> QED
      BY <1>1, <1>2, <2>2, <3>1
  <2>4. Committed(c)
    BY <1>4, <2>2, <2>3 DEF Committed
  <2>5. Has("tool_result", c)
    BY <1>4, <2>4, LoopReads DEF Loop!Answered
  <2> QED
    BY <2>5 DEF Rests
<1> QED
  BY <1>1, <1>2, <1>3, <1>4 DEF Rests

\* A request is sent: what stands ahead of it rests.
LEMMA BeginTurnAnswers ==
  ASSUME RInv, AnswersInv, LiveQuiet(Loop!BeginTurn)
  PROVE  AnswersInv'
<1>1. /\ TypeOK /\ EndedRest /\ LeftBehind /\ FilledInRun /\ SentRest /\ Len(log) \in Nat
      /\ proc = "live" /\ proc' = "live" /\ UNCHANGED <<log, entry>>
      /\ turnStart' = Len(log) /\ ~aborted' /\ ~Loop!OpenDraft /\ Loop!Answered
  BY DEF RInv, AnswersInv, LiveQuiet, Live, At, Loop!BeginTurn, TypeOK
<1>2. \A c \in Declared : Rests(c)
  BY <1>1, TurnsRest
<1>3. /\ Declared' = Declared /\ \A c : Rests(c)' <=> Rests(c)
      /\ EndedRest' /\ LeftBehind' /\ FilledInRun'
  BY <1>1, SameRests
<1>4. SentRest'
  BY <1>1, <1>2, <1>3 DEF SentRest
<1>5. FreshRest' /\ SinceLoaded' /\ OfRun'
  BY <1>1 DEF FreshRest, SinceLoaded, OfRun, Underway, DriverPoints
<1> QED
  BY <1>1, <1>3, <1>4, <1>5 DEF AnswersInv

\* An event of the loop's turns that leaves no call behind.
LEMMA LiveAnswers ==
  ASSUME RInv, RInv', AnswersInv, proc = "live", proc' = "live", ~aborted',
         UNCHANGED <<entry, turnStart>>,
         NEW e \in Event, log' = Append(log, e), Settling(e)
  PROVE  AnswersInv'
BY AppendStep DEF Underway, DriverPoints

\* The stop stands behind every call of its turn.
LEMMA StopAnswers ==
  ASSUME RInv, RInv', AnswersInv, LiveQuiet(Loop!Stop)
  PROVE  AnswersInv'
<1>1. /\ proc = "live" /\ proc' = "live" /\ ~aborted' /\ Loop!Streaming
      /\ Loop!Emit("stop", 0, "plain") /\ TypeOK /\ CallsInOrder' /\ log \in Seq(Event)
      /\ OwnTurns' /\ Len(log) \in Nat
  BY DEF AnswersInv, LiveQuiet, Live, At, Loop!Stop, RInv, LogInv, ProcInv, TypeOK
<1>2. UNCHANGED <<run, entry, turnStart>> /\ Write(Ev(run, "stop", 0, "plain"))
  BY <1>1, EmitsRecord
<1>3. PICK e \in Event : log' = Append(log, e) /\ e.type = "stop"
  BY <1>2, WrittenIs
<1>4. /\ Len(log') = Len(log) + 1 /\ log'[Len(log) + 1] = e
      /\ Declared' = Declared
      /\ \A c \in Declared : Position(c)' = Position(c) /\ Position(c) \in 1..Len(log)
                             /\ (Rests(c) => Rests(c)')
  BY <1>1, <1>3, CallsKept, Appended
<1>5. ~Loop!Streaming'
  <2>1. turnStart' <= Len(log) /\ turnStart' \in Nat
    BY <1>1, <1>2 DEF RInv, ProcInv, OwnTurns, TypeOK
  <2>2. Len(log') \in (turnStart' + 1)..Len(log')
    BY <1>1, <1>4, <2>1
  <2> QED
    BY <1>3, <1>4, <2>2 DEF Loop!Streaming
<1>6. ASSUME NEW c \in Declared PROVE Bounded(c, Len(log))'
  <2>1. CASE Position(c) <= entry
    <3>1. Rests(c)
      <4>1. Position(c) <= Floor /\ SentRest
        BY <1>1, <1>4, <2>1 DEF AnswersInv, SentRest, Floor, RInv, TypeOK
      <4> QED
        BY <1>1, <4>1 DEF SentRest
    <3> QED
      BY <1>4, <3>1 DEF Bounded
  <2>2. CASE Position(c) > entry
    <3>1. StoppedAhead(c, Len(log))' \/ Voided(c)'
      BY <1>1, <1>2, <1>4, <1>5, <2>2 DEF OwnTurns
    <3> QED
      BY <3>1 DEF Bounded, Rests
  <2>3. Position(c) \in Nat /\ entry \in Nat
    BY <1>1, <1>4 DEF TypeOK
  <2> QED
    BY <2>1, <2>2, <2>3
<1>7. Settling(e)
  BY <1>3, <1>6 DEF Settling, Filled
<1> QED
  BY <1>1, <1>2, <1>3, <1>7, LiveAnswers

\* The marker voids the calls of its attempt; the others rested when it was sent.
LEMMA VoidAnswers ==
  ASSUME RInv, RInv', AnswersInv, LiveQuiet(Loop!Void)
  PROVE  AnswersInv'
<1>1. /\ proc = "live" /\ proc' = "live" /\ ~aborted' /\ entry' = entry
      /\ turnStart # 0 /\ turnStart' \in {turnStart, Len(log')}
      /\ TypeOK /\ CallsInOrder' /\ log \in Seq(Event) /\ log' \in Seq(Event)
      /\ Len(log) \in Nat /\ turnStart \in Nat /\ entry \in Nat /\ turnStart <= Len(log)
      /\ EndedRest /\ LeftBehind /\ FilledInRun /\ SentRest
  BY DEF AnswersInv, LiveQuiet, Live, At, Loop!Void, Loop!OpenDraft, Loop!Streaming,
     RInv, LogInv, ProcInv, OwnTurns, TypeOK
<1>2. PICK e : /\ e = [Ev(run, "model_output_abandoned", 0, "plain")
                         EXCEPT !.from = turnStart]
               /\ log' = Append(log, e)
  BY DEF LiveQuiet, Live, Loop!Void, Loop!Ev, Ev
<1>3. e.type = "model_output_abandoned" /\ e.from = turnStart
  BY <1>2 DEF Ev
<1>4. e \in Event
  <2>1. Len(log') \in DOMAIN log' /\ log'[Len(log')] = e
    BY <1>1, <1>2
  <2> QED
    BY <1>1, <2>1
<1>5. /\ Len(log') = Len(log) + 1 /\ log'[Len(log) + 1] = e
      /\ Len(log) + 1 \in DOMAIN log' /\ Declared' = Declared
      /\ \A c \in Declared : Position(c)' = Position(c) /\ Position(c) \in 1..Len(log)
                             /\ (Rests(c) => Rests(c)')
  <2>1. /\ Len(log') = Len(log) + 1 /\ log'[Len(log) + 1] = e
        /\ Len(log) + 1 \in DOMAIN log'
    BY <1>1, <1>2, <1>4, Appended
  <2>2. /\ Declared' = Declared
        /\ \A c \in Declared : Position(c)' = Position(c) /\ Position(c) \in 1..Len(log)
                               /\ (Rests(c) => Rests(c)')
    BY <1>1, <1>2, <1>3, <1>4, CallsKept
  <2> QED
    BY <2>1, <2>2
<1>6. ASSUME NEW c \in Declared PROVE Rests(c)'
  <2>1. CASE Position(c) <= turnStart
    BY <1>1, <1>5, <2>1 DEF SentRest, Floor
  <2>2. CASE turnStart < Position(c)
    <3>1. Position(c) < Len(log) + 1
      BY <1>1, <1>5
    <3>2. Voided(c)'
      BY <1>3, <1>5, <2>2, <3>1 DEF Voided
    <3> QED
      BY <3>2 DEF Rests
  <2> QED
    BY <1>1, <1>5, <2>1, <2>2
<1>7. Settling(e)
  BY <1>3, <1>6 DEF Settling, Filled, Bounded
<1>8. EndedRest' /\ LeftBehind' /\ FilledInRun'
  BY <1>1, <1>2, <1>4, <1>7, RestGrows
<1>9. SentRest'
  BY <1>1, <1>5, <1>6 DEF SentRest
<1>10. FreshRest' /\ SinceLoaded' /\ OfRun'
  BY <1>1 DEF FreshRest, SinceLoaded, OfRun, Underway, DriverPoints
<1> QED
  BY <1>1, <1>8, <1>9, <1>10 DEF AnswersInv

LEMMA LiveCallAnswers ==
  ASSUME RInv, RInv', AnswersInv, NEW c \in Calls, LiveCall(c)
  PROVE  AnswersInv'
<1>1. proc = "live" /\ proc' = "live" /\ ~aborted'
  BY DEF AnswersInv, LiveCall, LiveQuiet, Live, At
<1>2. CASE Loop!Receipt(c)
  <2>1. c \in Loop!OwnCalls /\ Loop!Emit("tool_execution_receipt", c, "plain")
    BY <1>2 DEF Loop!Receipt
  <2>2. /\ UNCHANGED <<run, entry, turnStart>>
        /\ Write(Ev(run, "tool_execution_receipt", c, "plain"))
    BY <2>1, EmitsRecord
  <2>3. PICK e \in Event : /\ log' = Append(log, e) /\ e.run = run /\ e.call = c
                           /\ e.type = "tool_execution_receipt"
    BY <2>2, WrittenIs
  <2>4. c \in Declared /\ RunOf(c) = run
    BY <1>1, <2>1, OwnCall
  <2>5. Settling(e)
    BY <2>3, <2>4 DEF Settling
  <2> QED
    BY <1>1, <2>2, <2>3, <2>5, LiveAnswers
<1>3. CASE ~Loop!Receipt(c)
  <2>1. PICK type, tag : type \in Plain /\ Loop!Emit(type, c, tag)
    <3>1. {"permission_decided", "permission_requested", "tool_execution_started",
           "tool_result"} \subseteq Plain
      BY DEF Plain
    <3>2. \/ Loop!Decide(c) \/ Loop!Request(c) \/ Loop!HumanDecides(c) \/ Loop!Start(c)
          \/ Loop!Result(c)
      BY <1>3 DEF LiveCall, LiveQuiet, Live
    <3> QED
      BY <3>1, <3>2, Zenon
      DEF Loop!Decide, Loop!Request, Loop!HumanDecides, Loop!Start, Loop!Result
  <2>2. /\ UNCHANGED <<run, entry, turnStart>> /\ Write(Ev(run, type, c, tag))
    BY <2>1, EmitsRecord
  <2>3. PICK e \in Event : log' = Append(log, e) /\ e.type = type
    BY <2>2, WrittenIs
  <2>4. UNCHANGED <<run, entry, turnStart>> /\ Settling(e)
    BY <1>1, <2>1, <2>2, <2>3, PlainSettles
  <2> QED
    BY <1>1, <2>3, <2>4, LiveAnswers
<1> QED
  BY <1>2, <1>3

\* A call is declared, or text written, in an open run; an input and a plain
\* terminal find the loop's calls answered.
LEMMA LiveTurnAnswers ==
  ASSUME RInv, RInv', AnswersInv, LiveTurn
  PROVE  AnswersInv'
<1>1. proc = "live" /\ proc' = "live" /\ ~aborted' /\ ~aborted
  BY DEF AnswersInv, LiveTurn, LiveQuiet, Live, At
<1>2. ASSUME NEW type, NEW c, NEW tag, Loop!Emit(type, c, tag),
             \/ type = "text"
             \/ type = "tool_call_end" /\ ~Loop!Ended
             \/ /\ type \in {"user_input", "terminal"}
                /\ ~Loop!OpenDraft /\ Loop!Answered
      PROVE  AnswersInv'
  <2>1. UNCHANGED <<run, entry, turnStart>> /\ Write(Ev(run, type, c, tag))
    BY <1>2, EmitsRecord
  <2>2. PICK e \in Event : log' = Append(log, e) /\ e.type = type /\ e.run = run
    BY <2>1, WrittenIs
  <2>3. Loop!Ended <=> Terminated(run)
    BY DEF Loop!Ended, Terminated
  <2>4. type \in {"user_input", "terminal"} => \A d \in Declared : Rests(d)
    BY <1>1, <1>2, TurnsRest
  <2>5. Settling(e)
    BY <1>2, <2>2, <2>3, <2>4 DEF Settling, Filled
  <2> QED
    BY <1>1, <2>1, <2>2, <2>5, LiveAnswers
<1>3. CASE LiveQuiet(Loop!Text)
  BY <1>2, <1>3 DEF LiveQuiet, Live, Loop!Text
<1>4. CASE LiveQuiet(Loop!CallEnd)
  BY <1>2, <1>4 DEF LiveQuiet, Live, Loop!CallEnd, Loop!Open
<1>5. CASE LiveQuiet(Loop!Input)
  BY <1>2, <1>5 DEF LiveQuiet, Live, Loop!Input
<1>6. CASE /\ LiveQuiet(Loop!Terminal)
           /\ IF log'[Len(log')].tag = "aborted" THEN aborted ELSE ~AbortedAtHead
  <2>1. PICK tag : /\ Loop!Emit("terminal", 0, tag) /\ ~Loop!OpenDraft
                   /\ tag \in {"plain", "aborted"} /\ (tag = "plain" => Loop!Answered)
    BY <1>6, Zenon DEF LiveQuiet, Live, Loop!Terminal
  <2>2. Write(Ev(run, "terminal", 0, tag))
    BY <2>1, EmitsRecord
  <2>3. PICK e \in Event : log' = Append(log, e) /\ e.tag = tag
    BY <2>2, WrittenIs
  <2>4. log'[Len(log')] = e
    BY <2>3, Appended DEF RInv, TypeOK
  <2>5. Loop!Answered
    BY <1>1, <1>6, <2>1, <2>3, <2>4
  <2> QED
    BY <1>2, <2>1, <2>5
<1>7. CASE LiveQuiet(Loop!BeginTurn)
  BY <1>7, BeginTurnAnswers
<1>8. CASE LiveQuiet(Loop!Stop)
  BY <1>8, StopAnswers
<1>9. CASE LiveQuiet(Loop!Void)
  BY <1>9, VoidAnswers
<1> QED
  BY <1>3, <1>4, <1>5, <1>6, <1>7, <1>8, <1>9 DEF LiveTurn

LEMMA AnswersAtInit == Init => AnswersInv
<1> SUFFICES ASSUME Init PROVE AnswersInv
  OBVIOUS
<1>1. /\ log = <<>> /\ DOMAIN log = {} /\ proc = "idle" /\ ~aborted
  BY DEF Init
<1>2. Declared = {}
  BY <1>1 DEF Declared, Has, Events
<1> QED
  BY <1>1, <1>2
  DEF AnswersInv, EndedRest, LeftBehind, SentRest, FreshRest, FilledInRun, SinceLoaded,
      OfRun, Underway, DriverPoints

LEMMA AnswersStep ==
  ASSUME "abort" \notin Faults, RInv, RInv', AnswersInv, [Next]_vars
  PROVE  AnswersInv'
<1>1. CASE StartRun \/ Resume
  BY <1>1, BeginAnswers
<1>2. CASE RunStep
  BY <1>2, MendAnswers, FirstInputAnswers, DriverAnswers, LiveTurnAnswers,
     LiveCallAnswers, AsideAnswers DEF RunStep
<1>3. ASSUME NEW c \in Calls, Handle(c) \/ Approve(c) \/ ResolveUncertain(c)
      PROVE  AnswersInv'
  BY <1>3, AsideAnswers, ResolveAnswers
<1>4. CASE Leave \/ Crash \/ Reopen
  BY <1>4, AsideAnswers
<1>5. ~Abort
  BY DEF Abort
<1>6. CASE Done \/ UNCHANGED vars
  <2>1. UNCHANGED <<log, loopVars, proc, base, current, aborted>> /\ ~aborted'
    BY <1>6 DEF Done, vars, AnswersInv
  <2> QED
    BY <2>1, QuietStep
<1> QED
  BY <1>1, <1>2, <1>3, <1>4, <1>5, <1>6 DEF Next

\* Where nobody aborts, a request answers every call ahead of it: what crashed,
\* left or failed in between, the recovery plan is complete, and no process
\* projects a dangling tool_use (session.ts, repairAbortedCalls; recovery-plan.ts).
THEOREM CallsAnswered == "abort" \notin Faults => (Spec => []RequestsAnswerCalls)
<1> SUFFICES ASSUME "abort" \notin Faults PROVE Spec => []RequestsAnswerCalls
  OBVIOUS
<1>1. Init => AnswersInv
  BY AnswersAtInit
<1>2. RInv /\ RInv' /\ AnswersInv /\ [Next]_vars => AnswersInv'
  BY AnswersStep
<1>3. AnswersInv => RequestsAnswerCalls
  BY DEF AnswersInv, SentRest, RequestsAnswerCalls, Rests, Floor
<1> QED
  BY <1>1, <1>2, <1>3, RecoveryInvariance, PTL DEF Spec
==============================================================================
