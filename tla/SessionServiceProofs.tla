------------------------ MODULE SessionServiceProofs ------------------------
(***************************************************************************)
(* What the hosted session promises whatever requests meet, however often  *)
(* it is opened anew: its variables stay in their types, its log never     *)
(* holds two open runs, its live run is known, and a steered input has one *)
(* fate.                                                                   *)
(***************************************************************************)
EXTENDS SessionService, FiniteSetTheorems, SequenceTheorems, WellFoundedInduction,
        TLAPS

(***************************************************************************)
(* The inductive invariant.                                                *)
(***************************************************************************)
Phases == InFlight \cup {"settling"} \cup Finished
Session == [log : Seq(Line), poisoned : BOOLEAN, active : Nat, answered : Nat]
RunOf == [of : Nat, id : 0..MaxRuns + 1, phase : Phases, work : Nat,
          aborted : BOOLEAN, ingress : SUBSET Steers, unadmitted : SUBSET Steers,
          behind : Nat, told : -1..MaxRuns + 1]
RequestOf == [at : {"holding", "resuming", "opening", "answered"},
              asks : Requests \cup {"nothing"}, run : Nat]

Shapes ==
  /\ records \in Seq(Line) /\ sessions \in Seq(Session)
  /\ runs \in Seq(RunOf) /\ requests \in Seq(RequestOf)
  /\ hold \in {"no", "opening", "yes"} /\ live \in Nat /\ executing \in Nat
  /\ accepted \subseteq Steers /\ draining \in BOOLEAN /\ drained \in BOOLEAN

\* What one record says of another: runs are of sessions that were built, a
\* session's slot, the live run and a request's run are runs that were made,
\* and a session is held once one was built.
Links ==
  /\ live <= Len(runs) /\ Len(runs) <= MaxRuns
  /\ \A s \in DOMAIN sessions :
       sessions[s].active <= Len(runs) /\ sessions[s].answered <= Len(runs)
  /\ \A r \in RunIds : runs[r].of \in DOMAIN sessions /\ runs[r].behind <= Len(runs)
  /\ \A c \in DOMAIN requests :
       /\ requests[c].run <= Len(runs)
       /\ requests[c].at = "resuming" => requests[c].run # 0
  /\ hold = "yes" => sessions # <<>>

\* The log of an object the store has refused nothing is a part of the store's.
Mirrors ==
  \A s \in DOMAIN sessions : ~sessions[s].poisoned =>
    /\ Len(sessions[s].log) <= Len(records)
    /\ \A n \in DOMAIN sessions[s].log : sessions[s].log[n] = records[n]

Basics == Shapes /\ Links /\ Mirrors

\* A run between its first await and its terminal holds its object's slot; one
\* that the store would take an event of found no other run open.
Writing == {"going", "executing", "asking", "sealed"}
Holds(r) ==
  runs[r].phase \in Writing \cup {"making"} => sessions[runs[r].of].active = r
StartsClear(r) ==
  runs[r].phase = "making" /\ Fits(runs[r].of) => OpenLines = {}
WritesItsOwn(r) ==
  runs[r].phase \in Writing /\ Fits(runs[r].of) =>
    \A i \in OpenLines : records[i].run = runs[r].id
Turns ==
  /\ OneOpenRun
  /\ \A r \in RunIds : Holds(r) /\ StartsClear(r) /\ WritesItsOwn(r)

\* Where an input is: with a run, handed back by one, in the store, or only in
\* the log of an object.
Stored(i) == \E n \in DOMAIN records : i \in records[n].of
At(i, place, n) ==
  \/ place = "run" /\ n \in RunIds /\ i \in runs[n].ingress
  \/ place = "back" /\ n \in RunIds /\ i \in runs[n].unadmitted
  \/ place = "store" /\ n \in DOMAIN records /\ i \in records[n].of
  \/ /\ place = "refused" /\ ~Stored(i) /\ n \in DOMAIN sessions
     /\ \E k \in DOMAIN sessions[n].log : i \in sessions[n].log[k].of
Places == {"run", "back", "store", "refused"}
Fate(i) ==
  /\ \A p, q \in Places, n, m \in Nat : At(i, p, n) /\ At(i, q, m) => p = q /\ n = m
  /\ i \in accepted <=> \E p \in Places, n \in Nat : At(i, p, n)
Fates == \A i \in Steers : Fate(i)

(***************************************************************************)
(* Numbers and sequences.                                                  *)
(***************************************************************************)

\* A set of numbers that is not empty has a smallest element.
LEMMA SmallestOf ==
  ASSUME NEW S \in SUBSET Nat, S # {}
  PROVE  \E m \in S : \A x \in S : m <= x
<1> DEFINE R == OpToRel(<, Nat)
<1>1. \A j \in S, i \in S : i < j => <<i, j>> \in R
  BY DEF OpToRel
<1>2. IsWellFoundedOn(R, Nat)
  BY NatLessThanWellFounded
<1> HIDE DEF R
<1>3. PICK m \in S : \A i \in S : ~(<<i, m>> \in R)
  BY <1>2, WFMin
<1>4. ASSUME NEW x \in S PROVE m <= x
  <2>1. ~(x < m)
    BY <1>1, <1>3
  <2> QED
    BY <2>1
<1> QED
  BY <1>4

\* A set of numbers below a bound that is not empty has a largest element.
LEMMA LargestOf ==
  ASSUME NEW k \in Nat, NEW S \in SUBSET (0..k), S # {}
  PROVE  \E m \in S : \A x \in S : m >= x
<1> DEFINE T == {j \in Nat : k - j \in S}
<1>1. T \subseteq Nat /\ T # {}
  <2>1. PICK x \in S : TRUE
    OBVIOUS
  <2>2. k - x \in Nat /\ k - (k - x) = x
    BY <2>1
  <2> QED
    BY <2>1, <2>2
<1>2. \A x \in S : k - x \in T
  <2> SUFFICES ASSUME NEW x \in S PROVE k - x \in Nat /\ k - (k - x) \in S
    OBVIOUS
  <2>1. k - x \in Nat /\ k - (k - x) = x
    OBVIOUS
  <2> QED
    BY <2>1
<1>3. PICK m \in T : \A j \in T : m <= j
  BY <1>1, SmallestOf
<1>4. m \in Nat /\ k - m \in S
  BY <1>1
<1> HIDE DEF T
<1>5. ASSUME NEW x \in S PROVE k - m >= x
  <2>1. m <= k - x
    BY <1>2, <1>3
  <2> QED
    BY <1>4, <2>1
<1> QED
  BY <1>4, <1>5

\* What one more element makes of a sequence.
LEMMA Longer ==
  ASSUME NEW S, NEW q \in Seq(S), NEW e \in S
  PROVE  /\ Append(q, e) \in Seq(S) /\ Len(Append(q, e)) = Len(q) + 1
         /\ DOMAIN q = 1..Len(q) /\ DOMAIN Append(q, e) = 1..Len(q) + 1
         /\ \A i \in DOMAIN q : Append(q, e)[i] = q[i]
         /\ Append(q, e)[Len(q) + 1] = e
OBVIOUS

\* What a change of one element makes of a sequence.
LEMMA Replaced ==
  ASSUME NEW S, NEW q \in Seq(S), NEW i \in DOMAIN q, NEW e \in S
  PROVE  /\ [q EXCEPT ![i] = e] \in Seq(S)
         /\ Len([q EXCEPT ![i] = e]) = Len(q)
         /\ DOMAIN [q EXCEPT ![i] = e] = DOMAIN q
         /\ \A j \in DOMAIN q : [q EXCEPT ![i] = e][j] = IF j = i THEN e ELSE q[j]
<1>1. i \in 1..Len(q)
  BY LenProperties
<1>2. DOMAIN q = 1..Len(q)
  BY LenProperties
<1> QED
  BY <1>1, <1>2, ExceptSeq

\* What a change of every element makes of a sequence.
LEMMA Mapped ==
  ASSUME NEW S, NEW q \in Seq(S), NEW f, f \in [DOMAIN q -> S]
  PROVE  f \in Seq(S) /\ Len(f) = Len(q) /\ DOMAIN f = DOMAIN q
<1>1. DOMAIN q = 1..Len(q) /\ Len(q) \in Nat
  BY LenProperties
<1> QED
  BY <1>1

\* The elements of a sequence are where its domain says.
LEMMA Element ==
  ASSUME NEW S, NEW q \in Seq(S)
  PROVE  /\ Len(q) \in Nat /\ DOMAIN q = 1..Len(q)
         /\ \A i \in DOMAIN q : q[i] \in S
BY LenProperties

(***************************************************************************)
(* What an event of a session object does.                                 *)
(***************************************************************************)
Took(s, e) ==
  /\ DOMAIN sessions' = DOMAIN sessions /\ sessions' \in Seq(Session)
  /\ records' \in Seq(Line)
  /\ \A t \in DOMAIN sessions : t # s => sessions'[t] = sessions[t]
  /\ sessions'[s].log = Append(sessions[s].log, e)
  /\ sessions'[s].poisoned <=> ~Fits(s)
  /\ sessions'[s].active = sessions[s].active
  /\ sessions'[s].answered \in {0, sessions[s].answered}
  /\ Fits(s) => records' = Append(records, e) /\ sessions[s].log = records
  /\ ~Fits(s) => records' = records

\* The store takes the event of an object that mirrors it, and the log of a
\* refused one grows alone.
LEMMA EventTaken ==
  ASSUME Shapes, Mirrors, NEW s \in DOMAIN sessions, NEW e \in Line, Appended(s, e)
  PROVE  Took(s, e)
<1> DEFINE new == [sessions[s] EXCEPT !.log = Append(@, e),
                     !.poisoned = @ \/ ~Fits(s),
                     !.answered = IF e.type = "decided" THEN 0 ELSE @]
<1>1. sessions \in Seq(Session) /\ records \in Seq(Line) /\ sessions[s] \in Session
  BY Element DEF Shapes
<1>2. sessions' = [sessions EXCEPT ![s] = new]
  BY Zenon DEF Appended
<1>3. Append(sessions[s].log, e) \in Seq(Line) /\ Append(records, e) \in Seq(Line)
  BY <1>1, Longer DEF Session
<1>4. new \in Session
  BY <1>1, <1>3 DEF Session, Fits
<1>5. /\ new.log = Append(sessions[s].log, e) /\ new.active = sessions[s].active
      /\ new.poisoned <=> ~Fits(s)
      /\ new.answered \in {0, sessions[s].answered}
  BY <1>1 DEF Session, Fits
<1> HIDE DEF new
<1>6. /\ DOMAIN sessions' = DOMAIN sessions /\ sessions' \in Seq(Session)
      /\ \A t \in DOMAIN sessions : t # s => sessions'[t] = sessions[t]
      /\ sessions'[s] = new
  BY <1>1, <1>2, <1>4, Replaced
<1>7. Fits(s) => sessions[s].log = records
  <2> SUFFICES ASSUME Fits(s) PROVE sessions[s].log = records
    OBVIOUS
  <2>1. /\ sessions[s].log \in Seq(Line) /\ Len(sessions[s].log) = Len(records)
        /\ \A n \in DOMAIN sessions[s].log : sessions[s].log[n] = records[n]
    BY <1>1 DEF Fits, Mirrors, Session
  <2>2. DOMAIN sessions[s].log = 1..Len(sessions[s].log)
    BY <2>1, Element
  <2> QED
    BY <1>1, <2>1, <2>2, SeqEqual
<1>8. /\ Fits(s) => records' = Append(records, e)
      /\ ~Fits(s) => records' = records
  BY DEF Appended
<1> QED
  BY <1>1, <1>3, <1>5, <1>6, <1>7, <1>8 DEF Took

\* After it the objects still mirror the store, and only the object whose
\* event was taken fits a store that has grown.
LEMMA StillMirrors ==
  ASSUME Shapes, Mirrors, NEW s \in DOMAIN sessions, NEW e \in Line, Took(s, e)
  PROVE  /\ Mirrors'
         /\ \A t \in DOMAIN sessions :
              Fits(t)' => Fits(t) /\ (t = s \/ records' = records)
<1>1. records \in Seq(Line) /\ \A t \in DOMAIN sessions : sessions[t] \in Session
  BY Element DEF Shapes
<1>2. /\ DOMAIN records = 1..Len(records) /\ Len(records) \in Nat
      /\ Fits(s) => /\ Len(records') = Len(records) + 1
                    /\ \A n \in DOMAIN records : records'[n] = records[n]
  BY <1>1, Longer, Element DEF Took
<1>3. ASSUME NEW t \in DOMAIN sessions, t # s
      PROVE  /\ ~sessions'[t].poisoned =>
                  /\ Len(sessions'[t].log) <= Len(records')
                  /\ \A n \in DOMAIN sessions'[t].log :
                       sessions'[t].log[n] = records'[n]
             /\ Fits(t)' => Fits(t) /\ records' = records
  <2>1. /\ sessions'[t] = sessions[t] /\ sessions[t].log \in Seq(Line)
        /\ sessions[t].poisoned \in BOOLEAN
    BY <1>1, <1>3 DEF Took, Session
  <2>2. /\ Len(sessions[t].log) \in Nat
        /\ DOMAIN sessions[t].log = 1..Len(sessions[t].log)
    BY <2>1, Element
  <2>3. ~sessions[t].poisoned =>
          /\ Len(sessions[t].log) <= Len(records)
          /\ \A n \in DOMAIN sessions[t].log : sessions[t].log[n] = records[n]
    BY DEF Mirrors
  <2>4. Fits(t)' <=> ~sessions'[t].poisoned /\ Len(sessions'[t].log) = Len(records')
    BY DEF Fits
  <2>5. CASE Fits(s)
    BY <1>2, <2>1, <2>2, <2>3, <2>4, <2>5
  <2>6. CASE ~Fits(s)
    BY <2>1, <2>3, <2>4, <2>6 DEF Took, Fits
  <2> QED
    BY <2>5, <2>6
<1>4. /\ ~sessions'[s].poisoned =>
            /\ Len(sessions'[s].log) <= Len(records')
            /\ \A n \in DOMAIN sessions'[s].log : sessions'[s].log[n] = records'[n]
      /\ Fits(s)' => Fits(s)
  <2>1. Fits(s)' => ~sessions'[s].poisoned
    BY DEF Fits
  <2>2. Fits(s) => sessions'[s].log = records'
    BY DEF Took
  <2>3. records' \in Seq(Line) /\ Len(records') \in Nat
    BY Element DEF Took
  <2> QED
    BY <2>1, <2>2, <2>3 DEF Took
<1> QED
  BY <1>3, <1>4 DEF Took, Mirrors

(***************************************************************************)
(* What a step does to the runs.                                           *)
(***************************************************************************)
\* Run r becomes what it is now, with its session and its place in line kept.
Becomes(r) ==
  /\ runs' \in Seq(RunOf) /\ Len(runs') = Len(runs) /\ RunIds' = RunIds
  /\ \A q \in RunIds : q # r => runs'[q] = runs[q]
  /\ \A q \in RunIds : /\ runs'[q].of = runs[q].of
                       /\ runs'[q].id = runs[q].id
                       /\ runs'[q].behind = runs[q].behind

LEMMA RunChanges ==
  ASSUME Shapes, NEW r \in RunIds, NEW new \in RunOf,
         new.of = runs[r].of, new.id = runs[r].id, new.behind = runs[r].behind,
         runs' = [runs EXCEPT ![r] = new]
  PROVE  Becomes(r) /\ runs'[r] = new
<1>1. runs \in Seq(RunOf) /\ DOMAIN runs = RunIds
  BY Element DEF Shapes, RunIds
<1>2. /\ runs' \in Seq(RunOf) /\ Len(runs') = Len(runs)
      /\ \A q \in RunIds : runs'[q] = IF q = r THEN new ELSE runs[q]
  BY <1>1, Replaced
<1> QED
  BY <1>2 DEF Becomes, RunIds

\* What a run and a session are made of.
LEMMA RunFields ==
  ASSUME Shapes, Links, NEW r \in RunIds
  PROVE  /\ runs[r] \in RunOf /\ r \in 1..Len(runs) /\ r \in Nat
         /\ runs[r].of \in DOMAIN sessions /\ sessions[runs[r].of] \in Session
         /\ sessions # <<>> /\ Len(sessions) \in DOMAIN sessions
<1>1. runs \in Seq(RunOf) /\ DOMAIN runs = RunIds /\ Len(runs) \in Nat
  BY Element DEF Shapes, RunIds
<1>2. /\ sessions \in Seq(Session) /\ Len(sessions) \in Nat
      /\ DOMAIN sessions = 1..Len(sessions)
      /\ \A s \in DOMAIN sessions : sessions[s] \in Session
  BY Element DEF Shapes
<1>3. runs[r].of \in DOMAIN sessions
  BY DEF Links
<1> QED
  BY <1>1, <1>2, <1>3, Element DEF RunIds

Wrote(r, type, of, next) ==
  LET s == runs[r].of
      e == Entry(runs[r].id, type, of)
  IN /\ s \in DOMAIN sessions /\ e \in Line /\ Took(s, e) /\ Becomes(r)
     /\ runs'[r].phase = IF Fits(s) THEN next ELSE "threw"
     /\ runs'[r].ingress = runs[r].ingress \ of
     /\ runs'[r].unadmitted = runs[r].unadmitted
     /\ executing' \in Nat /\ UNCHANGED <<accepted, serviceVars>>

\* An event of a run: its object takes the event and the run goes on or throws.
LEMMA EventWritten ==
  ASSUME Basics, NEW r \in RunIds, NEW type \in Types, NEW of \in SUBSET Steers,
         NEW next \in Phases, NEW delta \in {-1, 0, 1}, Emit(r, type, of, next, delta)
  PROVE  Wrote(r, type, of, next)
<1> DEFINE s == runs[r].of
           e == Entry(runs[r].id, type, of)
           new == [runs[r] EXCEPT
                     !.phase = IF Fits(runs[r].of) THEN next ELSE "threw",
                     !.work = IF type \in {"started", "asked"} THEN @ + 1 ELSE @,
                     !.ingress = @ \ of]
<1>1. runs[r] \in RunOf /\ s \in DOMAIN sessions
  BY RunFields DEF Basics
<1>2. e \in Line
  BY <1>1 DEF Entry, Line, RunOf
<1>3. Appended(s, e) /\ runs' = [runs EXCEPT ![r] = new]
  BY Zenon DEF Emit
<1>4. Took(s, e)
  BY <1>1, <1>2, <1>3, EventTaken DEF Basics
<1>5. /\ new.of = s /\ new.id = runs[r].id /\ new.behind = runs[r].behind
      /\ new.ingress = runs[r].ingress \ of /\ new.unadmitted = runs[r].unadmitted
      /\ new.phase = IF Fits(s) THEN next ELSE "threw"
      /\ new.work \in Nat /\ new.aborted = runs[r].aborted
      /\ new.told = runs[r].told
  BY <1>1 DEF RunOf
<1>6. new \in RunOf
  <2>1. (IF Fits(runs[r].of) THEN next ELSE "threw") \in Phases
    BY DEF Phases, InFlight
  <2>2. (IF type \in {"started", "asked"} THEN runs[r].work + 1 ELSE runs[r].work)
          \in Nat
    BY <1>1 DEF RunOf
  <2> QED
    BY <1>1, <2>1, <2>2 DEF RunOf
<1> HIDE DEF new
<1>7. Becomes(r) /\ runs'[r] = new
  BY <1>3, <1>5, <1>6, RunChanges DEF Basics
<1>8. executing' \in Nat /\ UNCHANGED <<accepted, serviceVars>>
  BY DEF Emit, Basics, Shapes
<1> QED
  BY <1>1, <1>2, <1>4, <1>5, <1>7, <1>8 DEF Wrote

Same(s) ==
  /\ sessions'[s].log = sessions[s].log
  /\ sessions'[s].poisoned = sessions[s].poisoned
  /\ sessions'[s].answered = sessions[s].answered

Began(behind) ==
  LET n == Len(runs) + 1
      s == Len(sessions)
  IN /\ Len(runs) < MaxRuns /\ runs' \in Seq(RunOf) /\ Len(runs') = n
     /\ RunIds' = RunIds \cup {n} /\ n \notin RunIds
     /\ \A q \in RunIds : runs'[q] = runs[q]
     /\ runs'[n].of = s /\ runs'[n].behind = behind
     /\ runs'[n].ingress = {} /\ runs'[n].unadmitted = {}
     /\ live' = n
     /\ sessions' \in Seq(Session) /\ DOMAIN sessions' = DOMAIN sessions
     /\ \A t \in DOMAIN sessions :
          /\ Same(t)
          /\ \/ sessions'[t].active = sessions[t].active
             \/ t = s /\ sessions[t].active = 0 /\ sessions'[t].active = n
     /\ runs'[n].phase \in Writing \cup {"making"} => sessions'[s].active = n
     /\ runs'[n].phase = "making" => OpenLines = {}
     /\ runs'[n].phase \in Writing =>
          OpenLines # {} /\ runs'[n].id = OpenRunId

\* The open run is the run of one of the log's lines.
LEMMA OpenRun ==
  ASSUME Shapes, OpenLines # {}
  PROVE  \E i \in OpenLines : OpenRunId = records[i].run /\ OpenRunId \in 0..MaxRuns + 1
<1>1. /\ Len(records) \in Nat /\ DOMAIN records = 1..Len(records)
      /\ \A i \in DOMAIN records : records[i] \in Line
  BY Element DEF Shapes
<1>2. OpenLines \subseteq 0..Len(records)
  BY <1>1 DEF OpenLines
<1>3. \E m \in OpenLines : \A x \in OpenLines : m >= x
  BY <1>1, <1>2, LargestOf
<1>4. \E m \in OpenLines : \A x \in OpenLines : x <= m
  BY <1>1, <1>2, <1>3
<1> DEFINE m == CHOOSE i \in OpenLines : \A j \in OpenLines : j <= i
<1>5. m \in OpenLines
  BY <1>4
<1>6. OpenRunId = records[m].run
  BY DEF OpenRunId
<1> HIDE DEF m
<1>7. records[m] \in Line
  BY <1>1, <1>5 DEF OpenLines
<1> QED
  BY <1>5, <1>6, <1>7 DEF Line

\* A run that starts is the newest one, of the object now held, whose slot it
\* has if it goes on at all; it goes on where the store shows no open run, or
\* as the open run.
LEMMA RunBegins ==
  ASSUME Basics, sessions # <<>>, NEW kind \in {"fresh", "resume"},
         NEW behind \in Nat, Start(kind, behind)
  PROVE  Began(behind)
<1> DEFINE free == ~held.poisoned /\ held.active = 0
           resumes == kind = "resume" /\ OpenLines # {}
           phase == IF ~free \/ (kind = "fresh" /\ OpenLines # {}) THEN "threw"
                    ELSE IF kind = "fresh" THEN "making"
                    ELSE IF ~resumes THEN "over"
                    ELSE IF Asked(records, OpenRunId) THEN "asking" ELSE "going"
           id == IF resumes THEN OpenRunId ELSE Len(runs) + 1
           n == Len(runs) + 1
           s == Len(sessions)
           new == [of |-> s, id |-> id, phase |-> phase, work |-> 0,
                   aborted |-> FALSE, ingress |-> {}, unadmitted |-> {},
                   behind |-> behind, told |-> -1]
<1>1. /\ runs \in Seq(RunOf) /\ Len(runs) \in Nat /\ DOMAIN runs = 1..Len(runs)
      /\ sessions \in Seq(Session) /\ s \in DOMAIN sessions /\ s \in Nat
      /\ DOMAIN sessions = 1..s
      /\ \A t \in DOMAIN sessions : sessions[t] \in Session
  BY Element DEF Basics, Shapes
<1>2. /\ Len(runs) < MaxRuns /\ runs' = Append(runs, new) /\ live' = n
      /\ sessions' = IF free THEN [sessions EXCEPT ![s].active = n] ELSE sessions
  BY DEF Start
<1>3. id \in 0..MaxRuns + 1
  <2>1. resumes => OpenRunId \in 0..MaxRuns + 1
    BY OpenRun DEF Basics
  <2>2. n \in 0..MaxRuns + 1
    BY <1>1, <1>2, ServiceAssumption
  <2> QED
    BY <2>1, <2>2
<1>4. /\ phase \in Phases
      /\ phase = "making" => free /\ OpenLines = {}
      /\ phase \in Writing => free /\ resumes
  <2> HIDE DEF free
  <2>1. CASE ~free \/ (kind = "fresh" /\ OpenLines # {})
    <3>1. phase = "threw"
      BY <2>1
    <3> QED
      BY <3>1 DEF Phases, InFlight, Unsealed, Writing
  <2>2. CASE free /\ kind = "fresh" /\ OpenLines = {}
    <3>1. phase = "making"
      BY <2>2
    <3> QED
      BY <2>2, <3>1 DEF Phases, InFlight, Unsealed, Writing
  <2>3. CASE free /\ kind = "resume" /\ ~resumes
    <3>1. phase = "over"
      BY <2>3
    <3> QED
      BY <3>1 DEF Phases, InFlight, Unsealed, Writing
  <2>4. CASE free /\ kind = "resume" /\ resumes
    <3>1. phase \in {"asking", "going"}
      BY <2>4
    <3> QED
      BY <2>4, <3>1 DEF Phases, InFlight, Unsealed, Writing
  <2> QED
    BY <2>1, <2>2, <2>3, <2>4
<1> HIDE DEF phase, id, resumes
<1>5. new \in RunOf
  BY <1>1, <1>3, <1>4, ServiceAssumption DEF RunOf
<1>6. /\ runs' \in Seq(RunOf) /\ Len(runs') = n /\ runs'[n] = new
      /\ \A q \in RunIds : runs'[q] = runs[q]
  BY <1>1, <1>2, <1>5, Longer DEF RunIds
<1>7. RunIds' = RunIds \cup {n} /\ n \notin RunIds
  BY <1>1, <1>6 DEF RunIds
<1>8. /\ sessions' \in Seq(Session) /\ DOMAIN sessions' = DOMAIN sessions
      /\ \A t \in DOMAIN sessions :
           /\ Same(t)
           /\ \/ sessions'[t].active = sessions[t].active
              \/ t = s /\ sessions[t].active = 0 /\ sessions'[t].active = n
      /\ free => sessions'[s].active = n
  <2>1. CASE ~free
    <3>1. sessions' = sessions
      BY <1>2, <2>1
    <3> QED
      BY <1>1, <2>1, <3>1 DEF Same
  <2>2. CASE free
    <3> DEFINE f == [sessions[s] EXCEPT !.active = n]
    <3>1. f \in Session /\ f.active = n /\ f.log = sessions[s].log
          /\ f.poisoned = sessions[s].poisoned /\ f.answered = sessions[s].answered
      <4>1. sessions[s] \in Session /\ n \in Nat
        BY <1>1
      <4> HIDE DEF s, n
      <4> QED
        BY <4>1 DEF Session
    <3>2. sessions' = [sessions EXCEPT ![s] = f]
      BY <1>2, <2>2
    <3> HIDE DEF f
    <3>3. /\ sessions' \in Seq(Session) /\ DOMAIN sessions' = DOMAIN sessions
          /\ \A t \in DOMAIN sessions : sessions'[t] = IF t = s THEN f ELSE sessions[t]
      BY <1>1, <3>1, <3>2, Replaced
    <3>4. sessions[s].active = 0
      BY <2>2 DEF held
    <3> QED
      BY <1>1, <3>1, <3>3, <3>4 DEF Same
  <2> QED
    BY <2>1, <2>2
<1> DEFINE o == runs'[n]
<1>9. o.of = s /\ o.behind = behind /\ o.ingress = {} /\ o.unadmitted = {}
      /\ o.phase = phase /\ o.id = id
  BY <1>6
<1>10. o.phase \in Writing => OpenLines # {} /\ o.id = OpenRunId
  BY <1>4, <1>9 DEF id, resumes
<1>11. o.phase \in Writing \cup {"making"} => sessions'[s].active = n
  BY <1>4, <1>8, <1>9
<1>12. o.phase = "making" => OpenLines = {}
  BY <1>4, <1>9
<1> HIDE DEF free, new
<1> QED
  BY <1>2, <1>6, <1>7, <1>8, <1>9, <1>10, <1>11, <1>12 DEF Began

(***************************************************************************)
(* The basics are kept.                                                    *)
(***************************************************************************)
LEMMA InitBasics == ASSUME Init PROVE Basics
<1>1. records \in Seq(Line)
  <2>1. Entry(Earlier, "input", {}) \in Line /\ Entry(Earlier, "asked", {}) \in Line
    BY ServiceAssumption DEF Entry, Earlier, Line, Types
  <2>2. \A a, b \in Line : {<<>>, <<a>>, <<a, b>>} \subseteq Seq(Line)
    OBVIOUS
  <2> QED
    BY <2>1, <2>2 DEF Init
<1>2. Shapes
  BY <1>1, EmptySeq DEF Init, Shapes
<1>3. Links /\ Mirrors
  BY ServiceAssumption DEF Init, Links, Mirrors, RunIds
<1> QED
  BY <1>2, <1>3 DEF Basics

LEMMA EventBasics ==
  ASSUME Basics, NEW r \in RunIds, NEW type, NEW of, NEW next,
         Wrote(r, type, of, next)
  PROVE  Basics'
<1> DEFINE s == runs[r].of
           e == Entry(runs[r].id, type, of)
<1>1. s \in DOMAIN sessions /\ e \in Line /\ Took(s, e) /\ Becomes(r)
  BY DEF Wrote
<1> HIDE DEF s, e
<1>2. Mirrors'
  BY <1>1, StillMirrors DEF Basics
<1>3. UNCHANGED <<hold, live, requests, draining, drained, accepted>>
      /\ executing' \in Nat
  BY DEF Wrote, serviceVars
<1>4. Shapes'
  BY <1>1, <1>3 DEF Basics, Shapes, Took, Becomes
<1>5. \A t \in DOMAIN sessions :
        sessions'[t].active <= Len(runs) /\ sessions'[t].answered <= Len(runs)
  <2>1. Len(runs) \in Nat
    BY Element DEF Basics, Shapes
  <2> QED
    BY <1>1, <2>1 DEF Basics, Links, Took
<1>6. sessions # <<>> => sessions' # <<>>
  <2>1. DOMAIN sessions' = DOMAIN sessions
    BY <1>1 DEF Took
  <2>2. sessions' \in Seq(Session) /\ sessions \in Seq(Session)
    BY <1>1 DEF Took, Basics, Shapes
  <2> QED
    BY <1>1, <2>1, <2>2
<1>7. Links'
  BY <1>1, <1>3, <1>5, <1>6 DEF Basics, Links, Took, Becomes
<1> QED
  BY <1>2, <1>4, <1>7 DEF Basics

\* A run alone changes.
LEMMA RunBasics ==
  ASSUME Basics, NEW r \in RunIds, Becomes(r), accepted' \subseteq Steers,
         UNCHANGED <<records, sessions, executing, hold, live, draining, drained>>,
         requests' \in Seq(RequestOf),
         \A d \in DOMAIN requests' :
           /\ requests'[d].run <= Len(runs)
           /\ requests'[d].at = "resuming" => requests'[d].run # 0
  PROVE  Basics'
<1>1. Shapes'
  BY DEF Basics, Shapes, Becomes
<1>2. Mirrors'
  BY DEF Basics, Mirrors
<1>3. Links'
  BY DEF Basics, Links, Becomes
<1> QED
  BY <1>1, <1>2, <1>3 DEF Basics

\* What is so of the requests while none of them moves.
LEMMA RequestsStay ==
  ASSUME Basics
  PROVE  /\ requests \in Seq(RequestOf) /\ Len(runs) \in Nat
         /\ \A d \in DOMAIN requests :
              /\ requests[d].run <= Len(runs)
              /\ requests[d].at = "resuming" => requests[d].run # 0
BY Element DEF Basics, Shapes, Links

\* A request leaves or moves on.
LEMMA RequestMoves ==
  ASSUME Shapes, Links, NEW c \in DOMAIN requests, NEW new \in RequestOf,
         new.run <= Len(runs'), new.at = "resuming" => new.run # 0,
         Len(runs) <= Len(runs'), Len(runs') \in Nat,
         requests' = [requests EXCEPT ![c] = new]
  PROVE  /\ requests' \in Seq(RequestOf)
         /\ \A d \in DOMAIN requests' :
              /\ requests'[d].run <= Len(runs')
              /\ requests'[d].at = "resuming" => requests'[d].run # 0
<1>1. /\ requests \in Seq(RequestOf) /\ Len(runs) \in Nat
      /\ \A d \in DOMAIN requests : requests[d] \in RequestOf
  BY Element DEF Shapes
<1>2. /\ requests' \in Seq(RequestOf) /\ DOMAIN requests' = DOMAIN requests
      /\ \A d \in DOMAIN requests : requests'[d] = IF d = c THEN new ELSE requests[d]
  BY <1>1, Replaced
<1>3. ASSUME NEW d \in DOMAIN requests, d # c
      PROVE  /\ requests[d].run <= Len(runs')
             /\ requests[d].at = "resuming" => requests[d].run # 0
  <2>1. requests[d].run \in Nat /\ requests[d].run <= Len(runs)
    BY <1>1 DEF Links, RequestOf
  <2>2. requests[d].at = "resuming" => requests[d].run # 0
    BY DEF Links
  <2> QED
    BY <1>1, <2>1, <2>2
<1> QED
  BY <1>2, <1>3

LEMMA AnsweredRequest ==
  Answered \in RequestOf /\ Answered.run = 0 /\ Answered.at = "answered"
BY DEF Answered, RequestOf

\* A step that leaves the store, the objects and the runs alone.
LEMMA RequestBasics ==
  ASSUME Basics, UNCHANGED <<records, sessions, executing, runs, accepted, live>>,
         hold' \in {"no", "opening", "yes"}, hold' = "yes" => hold = "yes",
         draining' \in BOOLEAN, drained' \in BOOLEAN,
         requests' \in Seq(RequestOf),
         \A d \in DOMAIN requests' :
           /\ requests'[d].run <= Len(runs)
           /\ requests'[d].at = "resuming" => requests'[d].run # 0
  PROVE  Basics'
<1>1. Shapes'
  BY DEF Basics, Shapes
<1>2. Mirrors'
  BY DEF Basics, Mirrors
<1>3. Links'
  BY DEF Basics, Links, RunIds
<1> QED
  BY <1>1, <1>2, <1>3 DEF Basics

\* A request leaves, and all else but what it asked for stays.
LEMMA LeaveFacts ==
  ASSUME Basics, NEW c \in DOMAIN requests, Leave(c),
         Len(runs) <= Len(runs'), Len(runs') \in Nat
  PROVE  /\ requests' \in Seq(RequestOf)
         /\ \A d \in DOMAIN requests' :
              /\ requests'[d].run <= Len(runs')
              /\ requests'[d].at = "resuming" => requests'[d].run # 0
<1>1. Answered.run <= Len(runs') /\ (Answered.at = "resuming" => Answered.run # 0)
  BY AnsweredRequest
<1>2. requests' = [requests EXCEPT ![c] = Answered] /\ Shapes /\ Links
  BY DEF Leave, Basics
<1> QED
  BY <1>1, <1>2, AnsweredRequest, RequestMoves

\* An object is built on the log as it is.
LEMMA BuiltBasics ==
  ASSUME Basics, sessions' = Built,
         UNCHANGED <<records, executing, runs, accepted, live, draining, drained>>,
         hold' \in {"no", "opening", "yes"}, requests' \in Seq(RequestOf),
         \A d \in DOMAIN requests' :
           /\ requests'[d].run <= Len(runs)
           /\ requests'[d].at = "resuming" => requests'[d].run # 0
  PROVE  Basics'
<1> DEFINE new == [log |-> records, poisoned |-> FALSE, active |-> 0, answered |-> 0]
<1>1. new \in Session /\ sessions \in Seq(Session) /\ records \in Seq(Line)
      /\ Len(records) \in Nat /\ Len(runs) \in Nat
  BY Element DEF Basics, Shapes, Session
<1>2. /\ sessions' \in Seq(Session) /\ DOMAIN sessions' = 1..Len(sessions) + 1
      /\ DOMAIN sessions = 1..Len(sessions) /\ Len(sessions) \in Nat
      /\ \A s \in DOMAIN sessions : sessions'[s] = sessions[s]
      /\ sessions'[Len(sessions) + 1] = new
  BY <1>1, Longer, Element DEF Built
<1>3. \A s \in DOMAIN sessions' : s \in DOMAIN sessions \/ sessions'[s] = new
  BY <1>2
<1>4. Shapes'
  BY <1>2 DEF Basics, Shapes
<1>5. Mirrors'
  <2> SUFFICES ASSUME NEW s \in DOMAIN sessions', ~sessions'[s].poisoned
               PROVE  /\ Len(sessions'[s].log) <= Len(records)
                      /\ \A n \in DOMAIN sessions'[s].log :
                           sessions'[s].log[n] = records[n]
    BY DEF Mirrors
  <2>1. CASE s \in DOMAIN sessions
    BY <1>2, <2>1 DEF Basics, Mirrors
  <2>2. CASE sessions'[s] = new
    BY <1>1, <2>2
  <2> QED
    BY <1>3, <2>1, <2>2
<1>6. \A s \in DOMAIN sessions' :
        sessions'[s].active <= Len(runs) /\ sessions'[s].answered <= Len(runs)
  <2>1. new.active <= Len(runs) /\ new.answered <= Len(runs)
    BY <1>1
  <2> HIDE DEF new
  <2> QED
    BY <1>2, <1>3, <2>1 DEF Basics, Links
<1>7. sessions' # <<>>
  BY <1>2
<1>8. Links'
  BY <1>2, <1>6, <1>7 DEF Basics, Links, RunIds
<1> QED
  BY <1>4, <1>5, <1>8 DEF Basics

\* A run begins.
LEMMA BeganBasics ==
  ASSUME Basics, NEW behind \in Nat, Began(behind), behind <= Len(runs),
         sessions # <<>>,
         UNCHANGED <<records, executing, accepted, hold, draining, drained>>,
         requests' \in Seq(RequestOf),
         \A d \in DOMAIN requests' :
           /\ requests'[d].run <= Len(runs')
           /\ requests'[d].at = "resuming" => requests'[d].run # 0
  PROVE  Basics'
<1> DEFINE n == Len(runs) + 1
           o == runs'[n]
<1>1. Len(runs) \in Nat /\ Len(sessions) \in DOMAIN sessions
      /\ \A r \in RunIds : runs[r] \in RunOf
  BY Element DEF Basics, Shapes, RunIds
<1>2. n \in Nat /\ o.of = Len(sessions) /\ o.behind = behind
  BY <1>1 DEF Began
<1>3. Shapes'
  BY <1>1, <1>2 DEF Basics, Shapes, Began
<1>4. Mirrors'
  <2> SUFFICES ASSUME NEW s \in DOMAIN sessions, ~sessions'[s].poisoned
               PROVE  /\ Len(sessions'[s].log) <= Len(records)
                      /\ \A k \in DOMAIN sessions'[s].log :
                           sessions'[s].log[k] = records[k]
    BY DEF Mirrors, Began
  <2>1. sessions'[s].log = sessions[s].log /\ ~sessions[s].poisoned
    BY DEF Began, Same
  <2> QED
    BY <2>1 DEF Basics, Mirrors
<1>5. ASSUME NEW s \in DOMAIN sessions
      PROVE  sessions'[s].active <= n /\ sessions'[s].answered <= n
  <2>1. /\ sessions[s].active <= Len(runs) /\ sessions[s].answered <= Len(runs)
        /\ sessions[s] \in Session
    BY Element DEF Basics, Links, Shapes
  <2>2. sessions'[s].active \in {sessions[s].active, n}
        /\ sessions'[s].answered = sessions[s].answered
    BY DEF Began, Same
  <2> QED
    BY <1>1, <2>1, <2>2 DEF Session
<1>6. ASSUME NEW r \in RunIds'
      PROVE  runs'[r].of \in DOMAIN sessions /\ runs'[r].behind <= n
  <2>1. CASE r \in RunIds
    <3>1. runs'[r] = runs[r] /\ runs[r].behind \in Nat
      BY <1>1, <2>1 DEF Began, RunOf
    <3>2. runs[r].of \in DOMAIN sessions /\ runs[r].behind <= Len(runs)
      BY <2>1 DEF Basics, Links
    <3> QED
      BY <1>1, <3>1, <3>2
  <2>2. CASE r = n
    BY <1>1, <1>2, <2>2
  <2> QED
    BY <2>1, <2>2 DEF Began
<1>7. Len(runs') = n /\ n <= MaxRuns /\ live' = n /\ DOMAIN sessions' = DOMAIN sessions
  BY <1>1, ServiceAssumption DEF Began
<1>8. sessions' # <<>>
  <2>1. sessions' \in Seq(Session) /\ DOMAIN sessions' # {}
    BY <1>1 DEF Began
  <2> QED
    BY <2>1
<1> HIDE DEF n, o
<1>9. Links'
  <2>1. live' <= n
    BY <1>2, <1>7
  <2> QED
    BY <1>5, <1>6, <1>7, <1>8, <2>1 DEF Links
<1> QED
  BY <1>3, <1>4, <1>9 DEF Basics

(***************************************************************************)
(* The steps of a run.                                                     *)
(***************************************************************************)

\* Which event each step of the iterator writes, and where the run is then.
EmittingStep(r) ==
  \/ Prompt(r) \/ Admit(r) \/ ToolStarts(r) \/ ToolEnds(r) \/ Ask(r) \/ Decide(r)
  \/ Terminal(r)
Writes(r) ==
  \/ /\ runs[r].phase = "making" /\ Wrote(r, "input", {}, "going")
  \/ /\ runs[r].phase = "going" /\ runs[r].ingress # {}
     /\ Wrote(r, "input", runs[r].ingress, "going")
  \/ \E type \in {"started", "asked", "ended", "decided"}, next \in Writing :
       runs[r].phase \in Writing /\ Wrote(r, type, {}, next)
  \/ runs[r].phase = "sealed" /\ Wrote(r, "terminal", {}, "over")

LEMMA StepWrites ==
  ASSUME Basics, NEW r \in RunIds, EmittingStep(r)
  PROVE  Writes(r)
<1>1. runs[r].ingress \in SUBSET Steers /\ {} \in SUBSET Steers
  BY RunFields DEF Basics, RunOf
<1>2. /\ {"input", "started", "ended", "asked", "decided", "terminal"} \subseteq Types
      /\ {"going", "executing", "asking", "over"} \subseteq Phases
      /\ {0, 1, -1} \subseteq {-1, 0, 1}
  BY DEF Types, Phases, InFlight, Unsealed
<1>3. CASE Prompt(r)
  BY <1>1, <1>2, <1>3, EventWritten DEF Prompt, Writes
<1>4. CASE Admit(r)
  BY <1>1, <1>2, <1>4, EventWritten DEF Admit, Writes
<1>5. CASE ToolStarts(r)
  <2>1. Wrote(r, "started", {}, "executing")
    BY <1>1, <1>2, <1>5, EventWritten DEF ToolStarts
  <2> QED
    BY <1>5, <2>1 DEF ToolStarts, Writes, Writing
<1>6. CASE ToolEnds(r)
  <2>1. Wrote(r, "ended", {}, "going")
    BY <1>1, <1>2, <1>6, EventWritten DEF ToolEnds
  <2> QED
    BY <1>6, <2>1 DEF ToolEnds, Writes, Writing
<1>7. CASE Ask(r)
  <2>1. Wrote(r, "asked", {}, "asking")
    BY <1>1, <1>2, <1>7, EventWritten DEF Ask
  <2> QED
    BY <1>7, <2>1 DEF Ask, Writes, Writing
<1>8. CASE Decide(r)
  <2>1. Wrote(r, "decided", {}, "going")
    BY <1>1, <1>2, <1>8, EventWritten DEF Decide
  <2> QED
    BY <1>8, <2>1 DEF Decide, Writes, Writing
<1>9. CASE Terminal(r)
  BY <1>1, <1>2, <1>9, EventWritten DEF Terminal, Writes
<1> QED
  BY <1>3, <1>4, <1>5, <1>6, <1>7, <1>8, <1>9 DEF EmittingStep

\* The run that decides to end hands back what it was not given to read.
LEMMA SealFacts ==
  ASSUME Basics, NEW r \in RunIds, Seal(r)
  PROVE  /\ Becomes(r) /\ runs[r].phase \in Writing /\ runs'[r].phase = "sealed"
         /\ runs'[r].ingress = {}
         /\ runs'[r].unadmitted = runs[r].unadmitted \cup runs[r].ingress
<1> DEFINE new == [runs[r] EXCEPT !.phase = "sealed", !.ingress = {},
                                  !.unadmitted = @ \cup runs[r].ingress]
<1>1. runs[r] \in RunOf /\ Shapes
  BY RunFields DEF Basics
<1>2. runs' = [runs EXCEPT ![r] = new]
  BY Zenon DEF Seal
<1>3. /\ new \in RunOf /\ new.of = runs[r].of /\ new.id = runs[r].id
      /\ new.behind = runs[r].behind /\ new.phase = "sealed" /\ new.ingress = {}
      /\ new.unadmitted = runs[r].unadmitted \cup runs[r].ingress
  BY <1>1 DEF RunOf, Phases, InFlight
<1> HIDE DEF new
<1>4. Becomes(r) /\ runs'[r] = new
  BY <1>1, <1>2, <1>3, RunChanges
<1> QED
  BY <1>3, <1>4 DEF Seal, Writing

LEMMA HookFacts ==
  ASSUME Basics, NEW r \in RunIds, HookReturns(r)
  PROVE  /\ Becomes(r) /\ runs'[r].phase = "settled"
         /\ runs'[r].ingress = runs[r].ingress
         /\ runs'[r].unadmitted = runs[r].unadmitted
<1> DEFINE new == [runs[r] EXCEPT !.phase = "settled"]
<1>1. runs[r] \in RunOf /\ Shapes
  BY RunFields DEF Basics
<1>2. runs' = [runs EXCEPT ![r] = new]
  BY Zenon DEF HookReturns
<1>3. /\ new \in RunOf /\ new.of = runs[r].of /\ new.id = runs[r].id
      /\ new.behind = runs[r].behind /\ new.phase = "settled"
      /\ new.ingress = runs[r].ingress /\ new.unadmitted = runs[r].unadmitted
  BY <1>1 DEF RunOf, Phases, Finished
<1> HIDE DEF new
<1>4. Becomes(r) /\ runs'[r] = new
  BY <1>1, <1>2, <1>3, RunChanges
<1> QED
  BY <1>3, <1>4

\* The pump of a run that is over frees what the run held, and hands back what
\* nobody read.
LEMMA PumpFacts ==
  ASSUME Basics, NEW r \in RunIds, PumpEnds(r)
  PROVE  /\ Becomes(r) /\ runs[r].phase \in {"over", "threw"}
         /\ runs'[r].phase \in {"settling", "rejected"}
         /\ runs'[r].ingress = {}
         /\ runs'[r].unadmitted = runs[r].unadmitted \cup runs[r].ingress
         /\ sessions' \in Seq(Session) /\ DOMAIN sessions' = DOMAIN sessions
         /\ \A s \in DOMAIN sessions :
              /\ Same(s)
              /\ sessions'[s].active = IF sessions[s].active = r THEN 0
                                       ELSE sessions[s].active
         /\ live' = IF live = r THEN 0 ELSE live
         /\ executing' \in Nat
<1> DEFINE ends == {i \in DOMAIN held.log : held.log[i].type = "terminal"}
           told == IF ends = {} THEN -1
                   ELSE held.log[CHOOSE i \in ends : \A j \in ends : j <= i].run
           new == [runs[r] EXCEPT
                     !.phase = IF @ = "over" THEN "settling" ELSE "rejected",
                     !.ingress = {}, !.told = told,
                     !.unadmitted = @ \cup runs[r].ingress]
<1>1. /\ runs[r] \in RunOf /\ Shapes /\ sessions \in Seq(Session)
      /\ \A s \in DOMAIN sessions : sessions[s] \in Session
      /\ held \in Session
  BY RunFields, Element DEF Basics, Shapes, held
<1>2. told \in -1..MaxRuns + 1
  <2>1. /\ Len(held.log) \in Nat /\ DOMAIN held.log = 1..Len(held.log)
        /\ \A i \in DOMAIN held.log : held.log[i] \in Line
    BY <1>1, Element DEF Session
  <2>2. CASE ends = {}
    BY <2>2, ServiceAssumption
  <2>3. CASE ends # {}
    <3> DEFINE m == CHOOSE i \in ends : \A j \in ends : j <= i
    <3>1. ends \subseteq 0..Len(held.log)
      BY <2>1
    <3>2. \E i \in ends : \A j \in ends : i >= j
      BY <2>1, <2>3, <3>1, LargestOf
    <3>3. \E i \in ends : \A j \in ends : j <= i
      BY <2>1, <3>1, <3>2
    <3>4. m \in ends /\ told = held.log[m].run
      BY <2>3, <3>3
    <3> HIDE DEF m
    <3>5. held.log[m].run \in 0..MaxRuns + 1
      BY <2>1, <3>4 DEF Line
    <3> QED
      BY <3>4, <3>5
  <2> QED
    BY <2>2, <2>3
<1>3. runs' = [runs EXCEPT ![r] = new]
  BY Zenon DEF PumpEnds
<1> HIDE DEF told
<1>4. /\ new \in RunOf /\ new.of = runs[r].of /\ new.id = runs[r].id
      /\ new.behind = runs[r].behind /\ new.phase \in {"settling", "rejected"}
      /\ new.ingress = {}
      /\ new.unadmitted = runs[r].unadmitted \cup runs[r].ingress
  BY <1>1, <1>2 DEF RunOf, Phases, Finished
<1> HIDE DEF new
<1>5. Becomes(r) /\ runs'[r] = new
  BY <1>1, <1>3, <1>4, RunChanges
<1>6. /\ sessions' \in Seq(Session) /\ DOMAIN sessions' = DOMAIN sessions
      /\ \A s \in DOMAIN sessions :
           sessions'[s] = IF sessions[s].active = r
                          THEN [sessions[s] EXCEPT !.active = 0] ELSE sessions[s]
  <2>1. sessions' = [s \in DOMAIN sessions |->
                       IF sessions[s].active = r
                       THEN [sessions[s] EXCEPT !.active = 0] ELSE sessions[s]]
    BY DEF PumpEnds
  <2>2. \A s \in DOMAIN sessions : [sessions[s] EXCEPT !.active = 0] \in Session
    BY <1>1 DEF Session
  <2>3. sessions' \in [DOMAIN sessions -> Session]
    BY <1>1, <2>1, <2>2
  <2> QED
    BY <1>1, <2>1, <2>3, Mapped
<1>7. ASSUME NEW s \in DOMAIN sessions
      PROVE  /\ Same(s)
             /\ sessions'[s].active = IF sessions[s].active = r THEN 0
                                      ELSE sessions[s].active
  BY <1>1, <1>6, <1>7 DEF Same, Session
<1>8. live' = (IF live = r THEN 0 ELSE live) /\ executing' \in Nat
      /\ runs[r].phase \in {"over", "threw"}
  BY DEF PumpEnds, Basics, Shapes
<1> QED
  BY <1>4, <1>5, <1>6, <1>7, <1>8

\* Whatever a run does, the basics are kept.
LEMMA RunStepBasics ==
  ASSUME Basics, NEW r \in RunIds, RunStep(r)
  PROVE  Basics'
<1>1. CASE EmittingStep(r)
  BY <1>1, StepWrites, EventBasics DEF Writes
<1>2. CASE Seal(r)
  <2>1. Becomes(r) /\ accepted' \subseteq Steers
    BY <1>2, SealFacts DEF Seal, Basics, Shapes
  <2> QED
    BY <1>2, <2>1, RequestsStay, RunBasics DEF Seal, serviceVars
<1>3. CASE HookReturns(r)
  <2>1. Becomes(r) /\ accepted' \subseteq Steers
    BY <1>3, HookFacts DEF HookReturns, Basics, Shapes
  <2> QED
    BY <1>3, <2>1, RequestsStay, RunBasics DEF HookReturns, serviceVars
<1>4. CASE PumpEnds(r)
  <2>1. /\ Becomes(r) /\ sessions' \in Seq(Session)
        /\ DOMAIN sessions' = DOMAIN sessions
        /\ \A s \in DOMAIN sessions :
             /\ Same(s)
             /\ sessions'[s].active = IF sessions[s].active = r THEN 0
                                      ELSE sessions[s].active
        /\ live' = (IF live = r THEN 0 ELSE live) /\ executing' \in Nat
    BY <1>4, PumpFacts
  <2>2. UNCHANGED <<records, accepted, hold, requests, draining, drained>>
    BY <1>4 DEF PumpEnds
  <2>3. Shapes'
    BY <2>1, <2>2 DEF Basics, Shapes, Becomes
  <2>4. Mirrors'
    BY <2>1, <2>2 DEF Basics, Mirrors, Same
  <2>5. Len(runs) \in Nat /\ sessions # <<>> /\ sessions' # <<>>
    BY <2>1, RunFields, RequestsStay DEF Basics
  <2>6. Links'
    BY <2>1, <2>2, <2>5 DEF Basics, Links, Becomes, Same
  <2> QED
    BY <2>3, <2>4, <2>6 DEF Basics
<1> QED
  BY <1>1, <1>2, <1>3, <1>4 DEF RunStep, EmittingStep

(***************************************************************************)
(* The steps of a request.                                                 *)
(***************************************************************************)
Requested ==
  /\ requests' \in Seq(RequestOf)
  /\ \A d \in DOMAIN requests' :
       /\ requests'[d].run <= Len(runs')
       /\ requests'[d].at = "resuming" => requests'[d].run # 0

LEMMA HeldExists ==
  ASSUME Basics, sessions # <<>>
  PROVE  /\ Len(sessions) \in DOMAIN sessions /\ held = sessions[Len(sessions)]
         /\ held \in Session
<1>1. sessions \in Seq(Session)
  BY DEF Basics, Shapes
<1>2. Len(sessions) \in DOMAIN sessions
  BY <1>1
<1> QED
  BY <1>1, <1>2, Element DEF held

StartStep(c) == Run(c) \/ RunFirst(c) \/ RunNext(c) \/ Resume(c)

\* A request starts a run or none.  It starts one where none is live, unless it
\* waited for another to be resumed.
MayBegin ==
  \/ UNCHANGED <<runs, live, sessions>>
  \/ /\ sessions # <<>>
     /\ \E behind \in 0..Len(runs) : Began(behind) /\ (live = 0 \/ behind # 0)

LEMMA RequestStarts ==
  ASSUME Basics, NEW c \in DOMAIN requests, StartStep(c)
  PROVE  /\ MayBegin /\ Requested
         /\ UNCHANGED <<records, executing, accepted, hold, draining, drained>>
<1>1. /\ Len(runs) \in Nat /\ 0 \in 0..Len(runs)
      /\ requests[c] \in RequestOf /\ requests[c].run \in 0..Len(runs)
  <2>1. Len(runs) \in Nat /\ requests[c] \in RequestOf
    BY Element DEF Basics, Shapes
  <2>2. requests[c].run <= Len(runs)
    BY DEF Basics, Links
  <2> QED
    BY <2>1, <2>2 DEF RequestOf
<1>2. hold = "yes" => sessions # <<>>
  BY DEF Basics, Links
<1>3. MayBegin => Len(runs) <= Len(runs') /\ Len(runs') \in Nat
  BY <1>1 DEF MayBegin, Began
<1>4. UNCHANGED <<records, executing, accepted, hold, draining, drained>>
  BY DEF StartStep, Run, RunFirst, RunNext, Resume
<1>5. MayBegin /\ Leave(c) => Requested
  BY <1>3, LeaveFacts DEF Requested
<1>6. CASE Run(c)
  <2>1. MayBegin
    BY <1>1, <1>2, <1>6, RunBegins DEF Run, Serving, MayBegin
  <2> QED
    BY <1>4, <1>5, <1>6, <2>1 DEF Run
<1>7. CASE RunFirst(c)
  <2>1. MayBegin
    BY <1>1, <1>2, <1>7, RunBegins DEF RunFirst, Serving, MayBegin
  <2>2. CASE Leave(c)
    BY <1>4, <1>5, <2>1, <2>2
  <2>3. CASE /\ Start("resume", 0) /\ live = 0
             /\ requests' = [requests EXCEPT ![c].at = "resuming",
                                             ![c].run = Len(runs) + 1]
    <3> DEFINE new == [requests[c] EXCEPT !.at = "resuming", !.run = Len(runs) + 1]
    <3>1. /\ new \in RequestOf /\ new.run = Len(runs) + 1
      <4>1. \A q \in RequestOf, k \in Nat :
              LET o == [q EXCEPT !.at = "resuming", !.run = k]
              IN o \in RequestOf /\ o.run = k
        BY DEF RequestOf
      <4>2. Len(runs) + 1 \in Nat
        BY <1>1
      <4> QED
        BY <1>1, <4>1, <4>2
    <3>2. requests' = [requests EXCEPT ![c] = new]
      BY <2>3
    <3> HIDE DEF new
    <3>3. Began(0)
      BY <1>1, <1>2, <1>7, <2>3, RunBegins DEF RunFirst, Serving
    <3>4. /\ Len(runs') = Len(runs) + 1 /\ Len(runs) <= Len(runs')
          /\ Len(runs') \in Nat /\ new.run <= Len(runs') /\ new.run # 0
      BY <1>1, <3>1, <3>3 DEF Began
    <3>5. Requested
      BY <3>1, <3>2, <3>4, RequestMoves DEF Basics, Requested
    <3> QED
      BY <1>4, <2>1, <3>5
  <2> QED
    BY <1>7, <2>2, <2>3 DEF RunFirst
<1>8. CASE RunNext(c)
  <2>1. requests[c].run # 0 /\ sessions # <<>>
    <3>1. requests[c].run # 0
      BY <1>8 DEF RunNext, Basics, Links
    <3>2. requests[c].run \in RunIds
      BY <1>1, <3>1 DEF RunIds
    <3> QED
      BY <3>1, <3>2, RunFields DEF Basics
  <2>2. MayBegin
    BY <1>1, <1>8, <2>1, RunBegins DEF RunNext, MayBegin
  <2> QED
    BY <1>4, <1>5, <1>8, <2>2 DEF RunNext
<1>9. CASE Resume(c)
  <2>1. MayBegin
    BY <1>1, <1>2, <1>9, RunBegins DEF Resume, Serving, MayBegin
  <2> QED
    BY <1>4, <1>5, <1>9, <2>1 DEF Resume
<1> QED
  BY <1>6, <1>7, <1>8, <1>9 DEF StartStep

\* An answer reaches a run's resolver, or is an event at once, of a run that is
\* asked for or of nobody's.
AnswerStep(c) == Approve(c) \/ ApproveStray(c)
Reaches ==
  \E r \in RunIds :
    /\ records' = records
    /\ sessions' \in Seq(Session) /\ DOMAIN sessions' = DOMAIN sessions
    /\ \A s \in DOMAIN sessions :
         /\ sessions'[s].log = sessions[s].log
         /\ sessions'[s].poisoned = sessions[s].poisoned
         /\ sessions'[s].active = sessions[s].active
         /\ sessions'[s].answered \in {r, sessions[s].answered}
WrittenAside ==
  \E id \in 0..MaxRuns + 1 :
    /\ Entry(id, "decided", {}) \in Line
    /\ Took(Len(sessions), Entry(id, "decided", {}))
    /\ Asked(held.log, id) \/ "approveStray" \in Requests
Answers == UNCHANGED <<sessions, records>> \/ Reaches \/ WrittenAside

LEMMA RequestAnswers ==
  ASSUME Basics, NEW c \in DOMAIN requests, AnswerStep(c)
  PROVE  /\ Answers /\ Requested /\ sessions # <<>>
         /\ UNCHANGED <<executing, runs, accepted, hold, live, draining, drained>>
<1>1. /\ sessions # <<>> /\ Len(sessions) \in DOMAIN sessions
      /\ held = sessions[Len(sessions)] /\ held \in Session
      /\ sessions \in Seq(Session)
  <2>1. hold = "yes"
    BY DEF AnswerStep, Approve, ApproveStray, Serving
  <2>2. sessions # <<>>
    BY <2>1 DEF Basics, Links
  <2> QED
    BY <2>2, HeldExists DEF Basics, Shapes
<1>2. /\ Leave(c)
      /\ UNCHANGED <<executing, runs, accepted, hold, live, draining, drained>>
  BY DEF AnswerStep, Approve, ApproveStray
<1>3. Requested
  <2>1. Len(runs) <= Len(runs') /\ Len(runs') \in Nat
    BY <1>2, RequestsStay
  <2> QED
    BY <1>2, <2>1, LeaveFacts DEF Requested
<1>4. ASSUME NEW id \in 0..MaxRuns + 1,
             Appended(Len(sessions), Entry(id, "decided", {}))
      PROVE  /\ Entry(id, "decided", {}) \in Line
             /\ Took(Len(sessions), Entry(id, "decided", {}))
  <2>1. Entry(id, "decided", {}) \in Line
    BY DEF Entry, Line, Types
  <2> QED
    BY <1>1, <1>4, <2>1, EventTaken DEF Basics
<1>5. CASE Approve(c)
  <2> DEFINE waits(id) == {r \in RunIds : /\ runs[r].of = Len(sessions)
                                          /\ runs[r].id = id
                                          /\ runs[r].phase = "asking"
                                          /\ held.active = r}
  <2>1. PICK id \in 0..MaxRuns :
          /\ Asked(held.log, id)
          /\ \/ /\ waits(id) # {} /\ records' = records
                /\ sessions' = [sessions EXCEPT
                     ![Len(sessions)].answered = CHOOSE r \in waits(id) : TRUE]
             \/ UNCHANGED <<sessions, records>>
             \/ Appended(Len(sessions), Entry(id, "decided", {}))
    BY <1>5 DEF Approve
  <2>2. CASE Appended(Len(sessions), Entry(id, "decided", {}))
    <3>1. id \in 0..MaxRuns + 1
      BY ServiceAssumption
    <3>2. WrittenAside
      BY <1>4, <2>1, <2>2, <3>1 DEF WrittenAside
    <3> QED
      BY <1>1, <1>2, <1>3, <3>2 DEF Answers
  <2>3. CASE /\ waits(id) # {} /\ records' = records
             /\ sessions' = [sessions EXCEPT
                  ![Len(sessions)].answered = CHOOSE r \in waits(id) : TRUE]
    <3> DEFINE w == CHOOSE r \in waits(id) : TRUE
               new == [held EXCEPT !.answered = w]
    <3>1. w \in RunIds /\ w \in Nat
      BY <2>3 DEF RunIds
    <3>2. sessions' = [sessions EXCEPT ![Len(sessions)] = new]
      BY <1>1, <2>3
    <3> HIDE DEF w
    <3>3. /\ new \in Session /\ new.log = held.log /\ new.poisoned = held.poisoned
          /\ new.active = held.active /\ new.answered = w
      BY <1>1, <3>1 DEF Session
    <3> HIDE DEF new
    <3>4. /\ sessions' \in Seq(Session) /\ DOMAIN sessions' = DOMAIN sessions
          /\ \A s \in DOMAIN sessions :
               sessions'[s] = IF s = Len(sessions) THEN new ELSE sessions[s]
      BY <1>1, <3>2, <3>3, Replaced
    <3>5. \A s \in DOMAIN sessions :
            /\ sessions'[s].log = sessions[s].log
            /\ sessions'[s].poisoned = sessions[s].poisoned
            /\ sessions'[s].active = sessions[s].active
            /\ sessions'[s].answered \in {w, sessions[s].answered}
      BY <1>1, <3>3, <3>4
    <3>6. Reaches
      BY <2>3, <3>1, <3>4, <3>5 DEF Reaches
    <3> QED
      BY <1>1, <1>2, <1>3, <3>6 DEF Answers
  <2> QED
    BY <1>1, <1>2, <1>3, <2>1, <2>2, <2>3 DEF Answers
<1>6. CASE ApproveStray(c)
  <2>1. Stray \in 0..MaxRuns + 1
    BY ServiceAssumption DEF Stray
  <2>2. "approveStray" \in Requests
    <3>1. requests[c] \in RequestOf /\ requests[c].asks = "approveStray"
      BY <1>6, Element DEF ApproveStray, Serving, Basics, Shapes
    <3> QED
      BY <3>1 DEF RequestOf
  <2>3. CASE Appended(Len(sessions), Entry(Stray, "decided", {}))
    <3>1. WrittenAside
      BY <1>4, <2>1, <2>2, <2>3 DEF WrittenAside
    <3> QED
      BY <1>1, <1>2, <1>3, <3>1 DEF Answers
  <2> QED
    BY <1>1, <1>2, <1>3, <1>6, <2>3 DEF ApproveStray, Answers
<1> QED
  BY <1>5, <1>6 DEF AnswerStep

\* An abort marks the live run and nothing else.
LEMMA AbortMarks ==
  ASSUME Basics, NEW c \in DOMAIN requests, Abort(c)
  PROVE  /\ runs' \in Seq(RunOf) /\ Len(runs') = Len(runs) /\ RunIds' = RunIds
         /\ \A r \in RunIds :
              /\ runs'[r].of = runs[r].of /\ runs'[r].id = runs[r].id
              /\ runs'[r].behind = runs[r].behind /\ runs'[r].phase = runs[r].phase
              /\ runs'[r].ingress = runs[r].ingress
              /\ runs'[r].unadmitted = runs[r].unadmitted
         /\ Requested
         /\ UNCHANGED <<records, sessions, executing, accepted, hold, live,
                        draining, drained>>
<1>1. /\ Leave(c)
      /\ UNCHANGED <<records, sessions, executing, accepted, hold, live,
                     draining, drained>>
  BY DEF Abort
<1>2. /\ runs \in Seq(RunOf) /\ Len(runs) \in Nat /\ DOMAIN runs = RunIds
      /\ live \in Nat /\ live <= Len(runs)
  BY Element DEF Basics, Shapes, Links, RunIds
<1>3. Len(runs') = Len(runs) => Requested
  <2> SUFFICES ASSUME Len(runs') = Len(runs) PROVE Requested
    OBVIOUS
  <2>1. Len(runs) <= Len(runs') /\ Len(runs') \in Nat
    BY <1>2
  <2> QED
    BY <1>1, <2>1, LeaveFacts DEF Requested
<1>4. CASE UNCHANGED runs
  BY <1>1, <1>2, <1>3, <1>4 DEF RunIds
<1>5. CASE live # 0 /\ runs' = [runs EXCEPT ![live].aborted = TRUE]
  <2> DEFINE new == [runs[live] EXCEPT !.aborted = TRUE]
  <2>1. live \in RunIds /\ runs[live] \in RunOf
    BY <1>2, <1>5, Element DEF RunIds
  <2>2. /\ new \in RunOf /\ new.of = runs[live].of /\ new.id = runs[live].id
        /\ new.behind = runs[live].behind /\ new.phase = runs[live].phase
        /\ new.ingress = runs[live].ingress
        /\ new.unadmitted = runs[live].unadmitted
    BY <2>1 DEF RunOf
  <2>3. runs' = [runs EXCEPT ![live] = new]
    BY <1>5
  <2> HIDE DEF new
  <2>4. Becomes(live) /\ runs'[live] = new
    BY <2>1, <2>2, <2>3, RunChanges DEF Basics
  <2> QED
    BY <1>1, <1>3, <2>2, <2>4 DEF Becomes
<1> QED
  BY <1>4, <1>5 DEF Abort

\* A steered input joins the live run's ingress.
LEMMA SteerFacts ==
  ASSUME Basics, NEW i \in Steers, Steer(i)
  PROVE  /\ live \in RunIds /\ Becomes(live) /\ i \notin accepted
         /\ accepted' = accepted \cup {i}
         /\ runs'[live].phase = runs[live].phase
         /\ runs'[live].ingress = runs[live].ingress \cup {i}
         /\ runs'[live].unadmitted = runs[live].unadmitted
         /\ UNCHANGED <<records, sessions, executing, serviceVars>>
<1> DEFINE new == [runs[live] EXCEPT !.ingress = @ \cup {i}]
<1>1. live \in RunIds /\ runs[live] \in RunOf
  <2>1. live \in Nat /\ live # 0 /\ live <= Len(runs) /\ Len(runs) \in Nat
    BY RequestsStay DEF Steer, Basics, Shapes, Links
  <2>2. live \in RunIds
    BY <2>1 DEF RunIds
  <2> QED
    BY <2>2, RunFields DEF Basics
<1>2. /\ new \in RunOf /\ new.of = runs[live].of /\ new.id = runs[live].id
      /\ new.behind = runs[live].behind /\ new.phase = runs[live].phase
      /\ new.ingress = runs[live].ingress \cup {i}
      /\ new.unadmitted = runs[live].unadmitted
  BY <1>1 DEF RunOf
<1>3. runs' = [runs EXCEPT ![live] = new]
  BY Zenon DEF Steer
<1> HIDE DEF new
<1>4. Becomes(live) /\ runs'[live] = new
  BY <1>1, <1>2, <1>3, RunChanges DEF Basics
<1> QED
  BY <1>1, <1>2, <1>4 DEF Steer

\* A request or an opening that leaves the store, the objects and the runs alone.
QuietStep ==
  \/ \E c \in DOMAIN requests : Reopen(c) \/ ReopenFails(c) \/ NothingAsked(c)
  \/ \E kind \in Requests : Request(kind)
  \/ OpenFails \/ Drain \/ DrainReturns

LEMMA QuietFacts ==
  ASSUME Basics, QuietStep
  PROVE  /\ UNCHANGED <<records, sessions, executing, runs, accepted, live>>
         /\ Requested
         /\ hold' \in {"no", "opening", "yes"} /\ (hold' = "yes" => hold = "yes")
         /\ draining' \in BOOLEAN /\ drained' \in BOOLEAN
<1>1. /\ requests \in Seq(RequestOf) /\ Len(runs) \in Nat
      /\ \A d \in DOMAIN requests :
           /\ requests[d] \in RequestOf /\ requests[d].run <= Len(runs)
           /\ requests[d].at = "resuming" => requests[d].run # 0
      /\ hold \in {"no", "opening", "yes"} /\ draining \in BOOLEAN
      /\ drained \in BOOLEAN
  BY RequestsStay, Element DEF Basics, Shapes
<1>2. UNCHANGED runs /\ requests' = requests => Requested
  BY <1>1 DEF Requested
<1>3. \A c \in DOMAIN requests : UNCHANGED runs /\ Leave(c) => Requested
  <2> SUFFICES ASSUME NEW c \in DOMAIN requests, UNCHANGED runs, Leave(c)
               PROVE  Requested
    OBVIOUS
  <2>1. Len(runs) <= Len(runs') /\ Len(runs') \in Nat
    BY <1>1
  <2> QED
    BY <2>1, LeaveFacts DEF Requested
<1>4. ASSUME NEW new \in RequestOf, new.run = 0, new.at # "resuming",
             requests' = Append(requests, new), UNCHANGED runs
      PROVE  Requested
  <2>1. /\ requests' \in Seq(RequestOf)
        /\ \A d \in DOMAIN requests' :
             requests'[d] = new \/ (d \in DOMAIN requests /\ requests'[d] = requests[d])
    BY <1>1, <1>4, Longer
  <2> QED
    BY <1>1, <1>4, <2>1 DEF Requested
<1>5. ASSUME NEW c \in DOMAIN requests, Reopen(c) PROVE Requested
  <2>1. CASE Go(c, "opening")
    <3> DEFINE new == [requests[c] EXCEPT !.at = "opening"]
    <3>1. new \in RequestOf /\ new.at = "opening" /\ new.run = requests[c].run
      BY <1>1 DEF RequestOf
    <3>2. requests' = [requests EXCEPT ![c] = new]
      BY <2>1 DEF Go
    <3>3. UNCHANGED runs
      BY <1>5 DEF Reopen
    <3> HIDE DEF new
    <3>4. Len(runs) <= Len(runs') /\ Len(runs') \in Nat /\ new.run <= Len(runs')
      BY <1>1, <3>1, <3>3
    <3> QED
      BY <3>1, <3>2, <3>4, RequestMoves DEF Basics, Requested
  <2> QED
    BY <1>3, <1>5, <2>1 DEF Reopen
<1>6. ASSUME OpenFails PROVE Requested
  <2>1. /\ UNCHANGED runs
        /\ requests' = [d \in DOMAIN requests |->
                          IF requests[d].at = "holding" THEN Answered
                          ELSE requests[d]]
    BY <1>6 DEF OpenFails
  <2>2. requests' \in [DOMAIN requests -> RequestOf]
    BY <1>1, <2>1, AnsweredRequest
  <2>3. requests' \in Seq(RequestOf)
    BY <1>1, <2>2, Mapped
  <2> QED
    BY <1>1, <2>1, <2>3, AnsweredRequest DEF Requested
<1>7. ASSUME NEW kind \in Requests, Request(kind) PROVE Requested
  <2> DEFINE new == [at |-> "holding", asks |-> kind, run |-> 0]
  <2>1. new \in RequestOf /\ new.run = 0 /\ new.at # "resuming"
    BY DEF RequestOf
  <2>2. requests' = Append(requests, new) /\ UNCHANGED runs
    BY <1>7 DEF Request
  <2> HIDE DEF new
  <2> QED
    BY <1>4, <2>1, <2>2
<1>8. QuietStep => Requested
  BY <1>2, <1>3, <1>4, <1>5, <1>6, <1>7, AnsweredRequest
     DEF QuietStep, ReopenFails, NothingAsked, Drain, DrainReturns
<1> QED
  BY <1>1, <1>8 DEF QuietStep, Reopen, ReopenFails, NothingAsked, Request,
     OpenFails, Drain, DrainReturns

\* An object is built, for the first request or in the held one's place.
BuildStep == Opened \/ \E c \in DOMAIN requests : Reopened(c)

LEMMA BuildFacts ==
  ASSUME Basics, BuildStep
  PROVE  /\ sessions' = Built /\ Requested /\ hold' \in {"no", "opening", "yes"}
         /\ UNCHANGED <<records, executing, runs, accepted, live, draining, drained>>
<1>1. CASE Opened
  <2>1. Requested
    BY <1>1, RequestsStay DEF Opened, Requested
  <2> QED
    BY <1>1, <2>1 DEF Opened
<1>2. ASSUME NEW c \in DOMAIN requests, Reopened(c)
      PROVE  Requested
  <2>1. UNCHANGED runs /\ Leave(c)
    BY <1>2 DEF Reopened
  <2>2. Len(runs) <= Len(runs') /\ Len(runs') \in Nat
    BY <2>1, RequestsStay
  <2> QED
    BY <2>1, <2>2, LeaveFacts DEF Requested
<1>3. hold \in {"no", "opening", "yes"}
  BY DEF Basics, Shapes
<1> QED
  BY <1>1, <1>2, <1>3 DEF BuildStep, Reopened

(***************************************************************************)
(* Every step is one of these.                                             *)
(***************************************************************************)
RunAlone(r) == Seal(r) \/ HookReturns(r)

LEMMA StepKinds ==
  ASSUME Next
  PROVE  \/ \E r \in RunIds : EmittingStep(r) \/ RunAlone(r) \/ PumpEnds(r)
         \/ \E c \in DOMAIN requests : StartStep(c) \/ AnswerStep(c) \/ Abort(c)
         \/ \E i \in Steers : Steer(i)
         \/ QuietStep \/ BuildStep
BY DEF Next, RunStep, RequestStep, EmittingStep, RunAlone, StartStep, AnswerStep,
       QuietStep, BuildStep

LEMMA AnswerBasics ==
  ASSUME Basics, Answers, Requested, sessions # <<>>,
         UNCHANGED <<executing, runs, accepted, hold, live, draining, drained>>
  PROVE  Basics'
<1>1. sessions \in Seq(Session) /\ Len(sessions) \in DOMAIN sessions
      /\ Len(runs) \in Nat
  BY HeldExists, RequestsStay DEF Basics, Shapes
<1>2. ASSUME sessions' \in Seq(Session), DOMAIN sessions' = DOMAIN sessions,
             records' \in Seq(Line), Mirrors',
             \A s \in DOMAIN sessions :
               /\ sessions'[s].active <= Len(runs)
               /\ sessions'[s].answered <= Len(runs)
      PROVE  Basics'
  <2>1. Shapes'
    BY <1>2 DEF Basics, Shapes, Requested
  <2>2. sessions' # <<>>
    BY <1>1, <1>2
  <2>3. Links'
    BY <1>2, <2>2 DEF Basics, Links, Requested, RunIds
  <2> QED
    BY <1>2, <2>1, <2>3 DEF Basics
<1>3. CASE UNCHANGED <<sessions, records>>
  <2>1. Mirrors'
    BY <1>3 DEF Basics, Mirrors
  <2> QED
    BY <1>1, <1>2, <1>3, <2>1 DEF Basics, Shapes, Links
<1>4. CASE Reaches
  <2>1. PICK r \in RunIds :
          /\ records' = records
          /\ sessions' \in Seq(Session) /\ DOMAIN sessions' = DOMAIN sessions
          /\ \A s \in DOMAIN sessions :
               /\ sessions'[s].log = sessions[s].log
               /\ sessions'[s].poisoned = sessions[s].poisoned
               /\ sessions'[s].active = sessions[s].active
               /\ sessions'[s].answered \in {r, sessions[s].answered}
    BY <1>4 DEF Reaches
  <2>2. r <= Len(runs)
    BY <1>1 DEF RunIds
  <2>3. Mirrors'
    BY <2>1 DEF Basics, Mirrors
  <2>4. records' \in Seq(Line)
    BY <2>1 DEF Basics, Shapes
  <2>5. \A s \in DOMAIN sessions :
          sessions'[s].active <= Len(runs) /\ sessions'[s].answered <= Len(runs)
    BY <2>1, <2>2 DEF Basics, Links
  <2> QED
    BY <1>2, <2>1, <2>3, <2>4, <2>5
<1>5. CASE WrittenAside
  <2>1. PICK e \in Line : Took(Len(sessions), e)
    BY <1>5 DEF WrittenAside
  <2>2. Mirrors'
    BY <1>1, <2>1, StillMirrors DEF Basics
  <2>3. \A s \in DOMAIN sessions :
          sessions'[s].active <= Len(runs) /\ sessions'[s].answered <= Len(runs)
    BY <1>1, <2>1 DEF Basics, Links, Took
  <2> QED
    BY <1>2, <2>1, <2>2, <2>3 DEF Took
<1> QED
  BY <1>3, <1>4, <1>5 DEF Answers

LEMMA StepBasics == ASSUME Basics, [Next]_vars PROVE Basics'
<1>1. CASE UNCHANGED vars
  BY <1>1 DEF vars, serviceVars, Basics, Shapes, Links, Mirrors, RunIds
<1>2. ASSUME NEW r \in RunIds, EmittingStep(r) \/ RunAlone(r) \/ PumpEnds(r)
      PROVE  Basics'
  <2>1. RunStep(r)
    BY <1>2 DEF EmittingStep, RunAlone, RunStep
  <2> QED
    BY <2>1, RunStepBasics
<1>3. ASSUME NEW c \in DOMAIN requests, StartStep(c) PROVE Basics'
  <2>1. /\ MayBegin /\ Requested
        /\ UNCHANGED <<records, executing, accepted, hold, draining, drained>>
    BY <1>3, RequestStarts
  <2>2. CASE UNCHANGED <<runs, live, sessions>>
    BY <2>1, <2>2, RequestBasics DEF Requested, Basics, Shapes
  <2>3. ASSUME sessions # <<>>, NEW behind \in 0..Len(runs), Began(behind)
        PROVE  Basics'
    <3>1. behind \in Nat /\ behind <= Len(runs)
      BY RequestsStay
    <3> QED
      BY <2>1, <2>3, <3>1, BeganBasics DEF Requested
  <2> QED
    BY <2>1, <2>2, <2>3 DEF MayBegin
<1>4. ASSUME NEW c \in DOMAIN requests, AnswerStep(c) PROVE Basics'
  BY <1>4, RequestAnswers, AnswerBasics
<1>5. ASSUME NEW c \in DOMAIN requests, Abort(c) PROVE Basics'
  <2>1. /\ runs' \in Seq(RunOf) /\ Len(runs') = Len(runs) /\ RunIds' = RunIds
        /\ \A r \in RunIds : /\ runs'[r].of = runs[r].of
                             /\ runs'[r].behind = runs[r].behind
        /\ Requested
        /\ UNCHANGED <<records, sessions, executing, accepted, hold, live,
                       draining, drained>>
    BY <1>5, AbortMarks
  <2>2. Shapes'
    BY <2>1 DEF Basics, Shapes, Requested
  <2>3. Mirrors'
    BY <2>1 DEF Basics, Mirrors
  <2>4. Links'
    BY <2>1 DEF Basics, Links, Requested
  <2> QED
    BY <2>2, <2>3, <2>4 DEF Basics
<1>6. ASSUME NEW i \in Steers, Steer(i) PROVE Basics'
  <2>1. /\ live \in RunIds /\ Becomes(live) /\ accepted' = accepted \cup {i}
        /\ UNCHANGED <<records, sessions, executing, serviceVars>>
    BY <1>6, SteerFacts
  <2>2. accepted' \subseteq Steers
    BY <2>1 DEF Basics, Shapes
  <2> QED
    BY <2>1, <2>2, RequestsStay, RunBasics DEF serviceVars
<1>7. CASE QuietStep
  BY <1>7, QuietFacts, RequestBasics DEF Requested
<1>8. CASE BuildStep
  <2>1. Requested /\ UNCHANGED runs
    BY <1>8, BuildFacts
  <2> QED
    BY <1>8, <2>1, BuildFacts, BuiltBasics DEF Requested
<1> QED
  BY <1>1, <1>2, <1>3, <1>4, <1>5, <1>6, <1>7, <1>8, StepKinds

\* The service's variables stay in their types, and the log of an object that
\* the store refused nothing stays a part of the store's, whatever the requests
\* and however many objects a session's runs are spread over.
THEOREM ServiceBasics == Spec => []Basics
<1>1. Init => Basics
  BY InitBasics
<1>2. Basics /\ [Next]_vars => Basics'
  BY StepBasics
<1> QED
  BY <1>1, <1>2, PTL DEF Spec

\* The variables of a hosted session stay in their types.
THEOREM ServiceTypes == Spec => []TypeOK
<1>1. ASSUME Basics PROVE TypeOK
  <2>1. /\ records \in Seq(Line) /\ hold \in {"no", "opening", "yes"}
        /\ live \in 0..Len(runs) /\ executing \in Nat /\ accepted \subseteq Steers
        /\ draining \in BOOLEAN /\ drained \in BOOLEAN /\ Len(runs) \in Nat
    BY <1>1, Element DEF Basics, Shapes, Links
  <2>2. ASSUME NEW s \in DOMAIN sessions
        PROVE  /\ sessions[s].log \in Seq(Line) /\ sessions[s].poisoned \in BOOLEAN
               /\ {sessions[s].active, sessions[s].answered} \subseteq 0..Len(runs)
    <3>1. sessions[s] \in Session
      BY <1>1, Element DEF Basics, Shapes
    <3>2. sessions[s].active <= Len(runs) /\ sessions[s].answered <= Len(runs)
      BY <1>1 DEF Basics, Links
    <3> QED
      BY <2>1, <3>1, <3>2 DEF Session
  <2>3. ASSUME NEW r \in RunIds
        PROVE  /\ runs[r].phase \in InFlight \cup {"settling"} \cup Finished
               /\ runs[r].of \in DOMAIN sessions /\ runs[r].id \in 0..MaxRuns + 1
               /\ {runs[r].ingress, runs[r].unadmitted} \subseteq SUBSET Steers
               /\ runs[r].work \in Nat /\ runs[r].aborted \in BOOLEAN
               /\ runs[r].behind \in 0..Len(runs) /\ runs[r].told \in -1..MaxRuns + 1
    <3>1. runs[r] \in RunOf /\ runs[r].of \in DOMAIN sessions
      BY <1>1, RunFields DEF Basics
    <3>2. runs[r].behind <= Len(runs)
      BY <1>1 DEF Basics, Links
    <3> QED
      BY <2>1, <3>1, <3>2 DEF RunOf, Phases
  <2>4. ASSUME NEW c \in DOMAIN requests
        PROVE  /\ requests[c].at \in {"holding", "resuming", "opening", "answered"}
               /\ requests[c].asks \in Requests \cup {"nothing"}
               /\ requests[c].run \in 0..Len(runs)
    <3>1. requests[c] \in RequestOf /\ requests[c].run <= Len(runs)
      BY <1>1, RequestsStay, Element DEF Basics, Shapes
    <3> QED
      BY <2>1, <3>1 DEF RequestOf
  <2> QED
    BY <2>1, <2>2, <2>3, <2>4 DEF TypeOK
<1> QED
  BY <1>1, ServiceBasics, PTL

(***************************************************************************)
(* The live run.                                                           *)
(***************************************************************************)
LEMMA KnownStays ==
  ASSUME Basics, RunsAreKnown, RunIds' = RunIds, Len(runs') = Len(runs), live' = live,
         \A r \in RunIds : runs'[r].of = runs[r].of /\ runs'[r].behind = runs[r].behind,
         \A s \in DOMAIN sessions : sessions'[s].active = sessions[s].active
  PROVE  RunsAreKnown'
<1> SUFFICES ASSUME NEW r \in RunIds
             PROVE  \/ sessions'[runs'[r].of].active = r => live' = r
                    \/ \E q \in r + 1..Len(runs') : runs'[q].behind # 0
  BY DEF RunsAreKnown, Known
<1>1. runs[r].of \in DOMAIN sessions /\ r \in 1..Len(runs) /\ Len(runs) \in Nat
  BY RunFields, RequestsStay DEF Basics
<1>2. CASE Known(r)
  BY <1>1, <1>2 DEF Known
<1>3. CASE \E q \in r + 1..Len(runs) : runs[q].behind # 0
  <2>1. PICK q \in r + 1..Len(runs) : runs[q].behind # 0
    BY <1>3
  <2>2. q \in RunIds
    BY <1>1, <2>1 DEF RunIds
  <2> QED
    BY <2>1, <2>2
<1> QED
  BY <1>2, <1>3 DEF RunsAreKnown

LEMMA KnownBegins ==
  ASSUME Basics, RunsAreKnown, sessions # <<>>, NEW behind \in 0..Len(runs),
         Began(behind), live = 0 \/ behind # 0
  PROVE  RunsAreKnown'
<1> DEFINE n == Len(runs) + 1
<1>1. /\ Len(runs) \in Nat /\ n \in Nat /\ live' = n /\ Len(runs') = n
      /\ RunIds' = RunIds \cup {n}
  BY RequestsStay DEF Began
<1>2. runs'[n].behind = behind
  BY DEF Began
<1>3. ASSUME NEW r \in RunIds
      PROVE  \/ sessions'[runs'[r].of].active = r => live' = r
             \/ \E q \in r + 1..n : runs'[q].behind # 0
  <2>1. /\ runs[r].of \in DOMAIN sessions /\ r \in 1..Len(runs)
        /\ runs'[r] = runs[r] /\ r # n
    BY <1>1, RunFields DEF Basics, Began
  <2>2. CASE behind # 0
    BY <1>1, <1>2, <2>1, <2>2
  <2>3. CASE live = 0 /\ Known(r)
    <3>1. sessions[runs[r].of].active # r
      BY <2>1, <2>3 DEF Known
    <3>2. sessions'[runs[r].of].active \in {sessions[runs[r].of].active, n}
      BY <2>1 DEF Began
    <3> QED
      BY <2>1, <3>1, <3>2
  <2>4. CASE \E q \in r + 1..Len(runs) : runs[q].behind # 0
    <3>1. PICK q \in r + 1..Len(runs) : runs[q].behind # 0
      BY <2>4
    <3>2. q \in RunIds /\ q \in r + 1..n
      BY <1>1, <2>1, <3>1 DEF RunIds
    <3>3. runs'[q].behind # 0
      BY <3>1, <3>2 DEF Began
    <3> QED
      BY <3>2, <3>3
  <2> QED
    BY <2>2, <2>3, <2>4 DEF RunsAreKnown
<1> HIDE DEF n
<1> QED
  BY <1>1, <1>3 DEF RunsAreKnown, Known

LEMMA KnownEnds ==
  ASSUME Basics, RunsAreKnown, NEW r \in RunIds, PumpEnds(r)
  PROVE  RunsAreKnown'
<1>1. /\ Becomes(r)
      /\ \A s \in DOMAIN sessions :
           sessions'[s].active = IF sessions[s].active = r THEN 0
                                 ELSE sessions[s].active
      /\ live' = IF live = r THEN 0 ELSE live
  BY PumpFacts
<1> SUFFICES ASSUME NEW q \in RunIds
             PROVE  \/ sessions'[runs'[q].of].active = q => live' = q
                    \/ \E p \in q + 1..Len(runs') : runs'[p].behind # 0
  BY <1>1 DEF RunsAreKnown, Known, Becomes
<1>2. /\ runs[q].of \in DOMAIN sessions /\ q \in 1..Len(runs) /\ Len(runs) \in Nat
      /\ runs'[q].of = runs[q].of
  BY <1>1, RunFields, RequestsStay DEF Basics, Becomes
<1>3. CASE Known(q)
  BY <1>1, <1>2, <1>3 DEF Known
<1>4. CASE \E p \in q + 1..Len(runs) : runs[p].behind # 0
  <2>1. PICK p \in q + 1..Len(runs) : runs[p].behind # 0
    BY <1>4
  <2>2. p \in RunIds
    BY <1>2, <2>1 DEF RunIds
  <2> QED
    BY <1>1, <2>1, <2>2 DEF Becomes
<1> QED
  BY <1>3, <1>4 DEF RunsAreKnown

LEMMA StepKnown ==
  ASSUME Basics, RunsAreKnown, [Next]_vars
  PROVE  RunsAreKnown'
<1>1. CASE UNCHANGED vars
  BY <1>1, KnownStays DEF vars, serviceVars, RunIds
<1>2. ASSUME NEW r \in RunIds, EmittingStep(r) PROVE RunsAreKnown'
  <2>1. \E type, of, next : Wrote(r, type, of, next)
    BY <1>2, StepWrites DEF Writes
  <2>2. /\ Becomes(r) /\ live' = live
        /\ \A s \in DOMAIN sessions : sessions'[s].active = sessions[s].active
    BY <2>1 DEF Wrote, Took, serviceVars
  <2> QED
    BY <2>2, KnownStays DEF Becomes
<1>3. ASSUME NEW r \in RunIds, RunAlone(r) PROVE RunsAreKnown'
  <2>1. Becomes(r) /\ live' = live /\ sessions' = sessions
    BY <1>3, SealFacts, HookFacts DEF RunAlone, Seal, HookReturns, serviceVars
  <2> QED
    BY <2>1, KnownStays DEF Becomes
<1>4. ASSUME NEW c \in DOMAIN requests, StartStep(c) PROVE RunsAreKnown'
  <2>1. MayBegin
    BY <1>4, RequestStarts
  <2>2. CASE UNCHANGED <<runs, live, sessions>>
    BY <2>2, KnownStays DEF RunIds
  <2> QED
    BY <2>1, <2>2, KnownBegins DEF MayBegin
<1>5. ASSUME NEW c \in DOMAIN requests, AnswerStep(c) PROVE RunsAreKnown'
  <2>1. Answers /\ UNCHANGED <<runs, live>> /\ sessions # <<>>
    BY <1>5, RequestAnswers
  <2>2. \A s \in DOMAIN sessions : sessions'[s].active = sessions[s].active
    BY <2>1 DEF Answers, Reaches, WrittenAside, Took
  <2> QED
    BY <2>1, <2>2, KnownStays DEF RunIds
<1>6. ASSUME NEW c \in DOMAIN requests, Abort(c) PROVE RunsAreKnown'
  BY <1>6, AbortMarks, KnownStays
<1>7. ASSUME NEW i \in Steers, Steer(i) PROVE RunsAreKnown'
  <2>1. Becomes(live) /\ live' = live /\ sessions' = sessions
    BY <1>7, SteerFacts DEF serviceVars
  <2> QED
    BY <2>1, KnownStays DEF Becomes
<1>8. CASE QuietStep
  BY <1>8, QuietFacts, KnownStays DEF RunIds
<1>9. CASE BuildStep
  <2>1. sessions' = Built /\ UNCHANGED <<runs, live>> /\ sessions \in Seq(Session)
        /\ records \in Seq(Line)
    BY <1>9, BuildFacts DEF Basics, Shapes
  <2>2. [log |-> records, poisoned |-> FALSE, active |-> 0, answered |-> 0] \in Session
    BY <2>1 DEF Session
  <2>3. \A s \in DOMAIN sessions : sessions'[s] = sessions[s]
    BY <2>1, <2>2, Longer DEF Built
  <2> QED
    BY <2>1, <2>3, KnownStays DEF RunIds
<1> QED
  BY <1>1, <1>2, <1>3, <1>4, <1>5, <1>6, <1>7, <1>8, <1>9, KnownEnds, StepKinds

\* A run that holds its object's slot is the live one, unless a turn that waited
\* for an earlier run to be resumed started over it.
THEOREM LiveRunKnown == Spec => []RunsAreKnown
<1>1. Init => RunsAreKnown
  BY DEF Init, RunsAreKnown, RunIds
<1>2. Basics /\ RunsAreKnown /\ [Next]_vars => RunsAreKnown'
  BY StepKnown
<1> QED
  BY <1>1, <1>2, ServiceBasics, PTL DEF Spec

(***************************************************************************)
(* The fate of an input.                                                   *)
(***************************************************************************)
\* Where it may be: with a run, given back by one, in the store, in a log alone.
With(i, n) == n \in RunIds /\ i \in runs[n].ingress
Back(i, n) == n \in RunIds /\ i \in runs[n].unadmitted
In(i, n) == n \in DOMAIN records /\ i \in records[n].of
Alone(i, n) == /\ ~Stored(i) /\ n \in DOMAIN sessions
               /\ \E k \in DOMAIN sessions[n].log : i \in sessions[n].log[k].of

LEMMA AtCases ==
  /\ \A i, n : (At(i, "run", n) <=> With(i, n)) /\ (At(i, "back", n) <=> Back(i, n))
  /\ \A i, n : (At(i, "store", n) <=> In(i, n)) /\ (At(i, "refused", n) <=> Alone(i, n))
BY DEF At, With, Back, In, Alone

\* An input that is where it was has the fate it had.
LEMMA FateStays ==
  ASSUME NEW i, Fate(i), i \in accepted' <=> i \in accepted,
         \A n \in Nat : (With(i, n)' <=> With(i, n)) /\ (Back(i, n)' <=> Back(i, n)),
         \A n \in Nat : (In(i, n)' <=> In(i, n)) /\ (Alone(i, n)' <=> Alone(i, n))
  PROVE  Fate(i)'
<1>1. \A p \in Places, n \in Nat : At(i, p, n)' <=> At(i, p, n)
  BY AtCases DEF Places, At, With, Back, In, Alone
<1> QED
  BY <1>1 DEF Fate

\* An input that is in one place and is taken has the fate it is in.
LEMMA FateMoves ==
  ASSUME NEW i, i \in accepted', NEW place \in Places, NEW m \in Nat,
         \A n \in Nat : With(i, n)' <=> place = "run" /\ n = m,
         \A n \in Nat : Back(i, n)' <=> place = "back" /\ n = m,
         \A n \in Nat : In(i, n)' <=> place = "store" /\ n = m,
         \A n \in Nat : Alone(i, n)' <=> place = "refused" /\ n = m
  PROVE  Fate(i)'
<1>1. \A p \in Places, n \in Nat : At(i, p, n)' <=> p = place /\ n = m
  BY DEF Places, At, With, Back, In, Alone
<1> QED
  BY <1>1 DEF Fate

\* An input that is with a run is nowhere else.
LEMMA OnlyWith ==
  ASSUME Basics, NEW i, Fate(i), NEW r \in RunIds, i \in runs[r].ingress
  PROVE  /\ i \in accepted /\ ~Stored(i)
         /\ \A n \in Nat : With(i, n) <=> n = r
         /\ \A n \in Nat : ~Back(i, n) /\ ~In(i, n) /\ ~Alone(i, n)
<1>1. r \in Nat /\ At(i, "run", r) /\ "run" \in Places
  BY RunFields DEF Basics, At, Places
<1>2. \A p \in Places, n \in Nat : At(i, p, n) => p = "run" /\ n = r
  BY <1>1 DEF Fate
<1>3. i \in accepted
  BY <1>1 DEF Fate
<1>4. \A n \in Nat : ~Back(i, n) /\ ~In(i, n) /\ ~Alone(i, n) /\ (With(i, n) => n = r)
  BY <1>2, AtCases DEF Places
<1>5. DOMAIN records \subseteq Nat
  BY Element DEF Basics, Shapes
<1>6. ~Stored(i)
  BY <1>4, <1>5 DEF Stored, In
<1> QED
  BY <1>3, <1>4, <1>6 DEF With

\* An event that does not carry an input leaves it where it is in the logs.
LEMMA EventWithout ==
  ASSUME Basics, NEW i, NEW s \in DOMAIN sessions, NEW e \in Line, i \notin e.of,
         Took(s, e)
  PROVE  \A n \in Nat : (In(i, n)' <=> In(i, n)) /\ (Alone(i, n)' <=> Alone(i, n))
<1>1. /\ records \in Seq(Line) /\ \A t \in DOMAIN sessions : sessions[t] \in Session
  BY Element DEF Basics, Shapes
<1>2. \A n : In(i, n)' <=> In(i, n)
  <2>1. CASE Fits(s)
    <3>1. records' = Append(records, e)
      BY <2>1 DEF Took
    <3> QED
      BY <1>1, <3>1, Longer DEF In
  <2>2. CASE ~Fits(s)
    BY <2>2 DEF Took, In
  <2> QED
    BY <2>1, <2>2
<1>3. Stored(i)' <=> Stored(i)
  <2>1. Stored(i) <=> \E n : In(i, n)
    BY DEF Stored, In
  <2>2. Stored(i)' <=> \E n : In(i, n)'
    BY DEF Stored, In
  <2> QED
    BY <1>2, <2>1, <2>2
<1>4. sessions[s].log \in Seq(Line)
  BY <1>1 DEF Session
<1>5. (\E k \in DOMAIN sessions'[s].log : i \in sessions'[s].log[k].of)
        <=> \E k \in DOMAIN sessions[s].log : i \in sessions[s].log[k].of
  <2>1. sessions'[s].log = Append(sessions[s].log, e)
    BY DEF Took
  <2> QED
    BY <1>4, <2>1, Longer
<1>6. ASSUME NEW n \in Nat PROVE Alone(i, n)' <=> Alone(i, n)
  <2>1. CASE n = s
    BY <1>3, <1>5, <2>1 DEF Alone, Took
  <2>2. CASE n # s
    BY <1>3, <2>2 DEF Alone, Took
  <2> QED
    BY <2>1, <2>2
<1> QED
  BY <1>2, <1>6

\* An event that carries an input that was in no log is the one place it has in
\* the logs: in the store if that took the event, in the object's own if not.
LEMMA EventWith ==
  ASSUME Basics, NEW i, NEW s \in DOMAIN sessions, NEW e \in Line, i \in e.of,
         Took(s, e), ~Stored(i), \A n \in Nat : ~Alone(i, n)
  PROVE  /\ Fits(s) => \A n \in Nat :
                         ~Alone(i, n)' /\ (In(i, n)' <=> n = Len(records) + 1)
         /\ ~Fits(s) => \A n \in Nat : ~In(i, n)' /\ (Alone(i, n)' <=> n = s)
<1>1. /\ records \in Seq(Line) /\ Len(records) \in Nat
      /\ DOMAIN records = 1..Len(records)
      /\ sessions[s].log \in Seq(Line) /\ DOMAIN sessions \subseteq Nat
  <2>1. records \in Seq(Line) /\ sessions \in Seq(Session)
    BY DEF Basics, Shapes
  <2>2. sessions[s] \in Session /\ DOMAIN sessions \subseteq Nat
    BY <2>1, Element
  <2> QED
    BY <2>1, <2>2, Element DEF Session
<1>2. CASE Fits(s)
  <2>1. /\ DOMAIN records' = 1..Len(records) + 1
        /\ records'[Len(records) + 1] = e
        /\ \A n \in DOMAIN records : records'[n] = records[n]
    BY <1>1, <1>2, Longer DEF Took
  <2>2. Len(records) + 1 \in DOMAIN records'
    BY <1>1, <2>1
  <2>3. Stored(i)'
    BY <2>1, <2>2 DEF Stored
  <2>4. \A n \in DOMAIN records : i \notin records'[n].of
    BY <2>1 DEF Stored
  <2>5. ASSUME NEW n \in Nat PROVE In(i, n)' <=> n = Len(records) + 1
    <3>1. n \in DOMAIN records' <=> n \in DOMAIN records \/ n = Len(records) + 1
      BY <1>1, <2>1
    <3> QED
      BY <2>1, <2>4, <3>1 DEF In
  <2> QED
    BY <1>2, <2>3, <2>5 DEF Alone
<1>3. CASE ~Fits(s)
  <2>1. records' = records /\ ~Stored(i)'
    BY <1>3 DEF Took, Stored
  <2>2. \A n \in DOMAIN sessions :
          \A k \in DOMAIN sessions[n].log : i \notin sessions[n].log[k].of
    BY <1>1 DEF Alone
  <2>3. \A n \in Nat : ~In(i, n)'
    BY <2>1 DEF In, Stored
  <2>4. /\ Len(sessions[s].log) + 1 \in DOMAIN sessions'[s].log
        /\ sessions'[s].log[Len(sessions[s].log) + 1] = e
    <3>1. sessions'[s].log = Append(sessions[s].log, e) /\ Len(sessions[s].log) \in Nat
      BY <1>1, Element DEF Took
    <3> QED
      BY <1>1, <3>1, Longer
  <2>5. Alone(i, s)'
    BY <2>1, <2>4 DEF Alone, Took
  <2>6. ASSUME NEW n \in Nat, n # s PROVE ~Alone(i, n)'
    BY <2>2, <2>6 DEF Alone, Took
  <2> QED
    BY <1>3, <2>3, <2>5, <2>6
<1> QED
  BY <1>2, <1>3

\* The runs leave an input where it is.
RunsKeep(i) ==
  \A n \in Nat : (With(i, n)' <=> With(i, n)) /\ (Back(i, n)' <=> Back(i, n))

LEMMA BecomesKeeps ==
  ASSUME NEW i, NEW r \in RunIds, Becomes(r),
         i \in runs'[r].ingress <=> i \in runs[r].ingress,
         i \in runs'[r].unadmitted <=> i \in runs[r].unadmitted
  PROVE  RunsKeep(i)
<1> SUFFICES ASSUME NEW n \in Nat
             PROVE  (With(i, n)' <=> With(i, n)) /\ (Back(i, n)' <=> Back(i, n))
  BY DEF RunsKeep
<1>1. CASE n = r
  BY <1>1 DEF Becomes, With, Back
<1>2. CASE n # r
  BY <1>2 DEF Becomes, With, Back
<1> QED
  BY <1>1, <1>2

\* The store and the objects' logs leave it where it is.
LogsKeep(i) == \A n \in Nat : (In(i, n)' <=> In(i, n)) /\ (Alone(i, n)' <=> Alone(i, n))

LEMMA SameLogs ==
  ASSUME NEW i, records' = records, DOMAIN sessions' = DOMAIN sessions,
         \A s \in DOMAIN sessions : sessions'[s].log = sessions[s].log
  PROVE  LogsKeep(i)
<1>1. Stored(i)' <=> Stored(i)
  BY DEF Stored
<1> QED
  BY <1>1 DEF LogsKeep, In, Alone

\* An object built on the store's lines holds nothing the store does not.
LEMMA BuiltLogs ==
  ASSUME Basics, NEW i, records' = records, sessions' = Built
  PROVE  LogsKeep(i)
<1> DEFINE new == [log |-> records, poisoned |-> FALSE, active |-> 0, answered |-> 0]
<1>1. new \in Session /\ sessions \in Seq(Session) /\ new.log = records
  BY DEF Basics, Shapes, Session
<1>2. sessions' = Append(sessions, new)
  BY DEF Built
<1> HIDE DEF new
<1>3. /\ DOMAIN sessions' = 1..Len(sessions) + 1 /\ DOMAIN sessions = 1..Len(sessions)
      /\ Len(sessions) \in Nat
      /\ \A s \in DOMAIN sessions : sessions'[s] = sessions[s]
      /\ sessions'[Len(sessions) + 1] = new
  BY <1>1, <1>2, Longer, Element
<1>4. Stored(i)' <=> Stored(i)
  BY DEF Stored
<1>5. ASSUME NEW n \in Nat PROVE Alone(i, n)' <=> Alone(i, n)
  <2>1. CASE n \in DOMAIN sessions
    <3>1. n \in DOMAIN sessions'
      BY <1>3, <2>1
    <3> QED
      BY <1>3, <1>4, <2>1, <3>1 DEF Alone
  <2>2. CASE n = Len(sessions) + 1
    <3>1. n \notin DOMAIN sessions /\ sessions'[n].log = records
      BY <1>1, <1>3, <2>2
    <3>2. ~Alone(i, n)
      BY <3>1 DEF Alone
    <3>3. ~Alone(i, n)'
      BY <1>4, <3>1 DEF Alone, Stored
    <3> QED
      BY <3>2, <3>3
  <2>3. CASE n \notin DOMAIN sessions /\ n \notin DOMAIN sessions'
    BY <2>3 DEF Alone
  <2> QED
    BY <1>3, <2>1, <2>2, <2>3
<1> QED
  BY <1>5 DEF LogsKeep, In

\* An event carries an input from its run into the logs, or another one's.
LEMMA EventFate ==
  ASSUME Basics, NEW i, Fate(i), NEW r \in RunIds, NEW type, NEW of, NEW next,
         Wrote(r, type, of, next), of = {} \/ of = runs[r].ingress
  PROVE  Fate(i)'
<1> DEFINE s == runs[r].of
           e == Entry(runs[r].id, type, of)
<1>1. /\ s \in DOMAIN sessions /\ e \in Line /\ Took(s, e) /\ Becomes(r)
      /\ e.of = of /\ accepted' = accepted
  BY DEF Wrote, Entry
<1>2. /\ runs'[r].ingress = runs[r].ingress \ of
      /\ runs'[r].unadmitted = runs[r].unadmitted
  BY DEF Wrote
<1>3. s \in Nat /\ Len(records) \in Nat
  BY <1>1, Element DEF Basics, Shapes
<1> HIDE DEF s, e
<1>4. CASE i \notin of
  <2>1. RunsKeep(i)
    BY <1>1, <1>2, <1>4, BecomesKeeps
  <2>2. \A n \in Nat : (In(i, n)' <=> In(i, n)) /\ (Alone(i, n)' <=> Alone(i, n))
    BY <1>1, <1>4, EventWithout
  <2> QED
    BY <1>1, <2>1, <2>2, FateStays DEF RunsKeep
<1>5. CASE i \in of
  <2>1. i \in runs[r].ingress
    BY <1>5
  <2>2. /\ i \in accepted /\ ~Stored(i)
        /\ \A n \in Nat : With(i, n) <=> n = r
        /\ \A n \in Nat : ~Back(i, n) /\ ~In(i, n) /\ ~Alone(i, n)
    BY <2>1, OnlyWith
  <2>3. /\ Fits(s) => \A n \in Nat :
                        ~Alone(i, n)' /\ (In(i, n)' <=> n = Len(records) + 1)
        /\ ~Fits(s) => \A n \in Nat : ~In(i, n)' /\ (Alone(i, n)' <=> n = s)
    BY <1>1, <1>5, <2>2, EventWith
  <2>4. \A n \in Nat : ~With(i, n)'
    <3> SUFFICES ASSUME NEW n \in Nat PROVE ~With(i, n)'
      OBVIOUS
    <3>1. CASE n = r
      BY <1>2, <1>5, <3>1 DEF With
    <3>2. CASE n # r
      BY <1>1, <2>2, <3>2 DEF With, Becomes
    <3> QED
      BY <3>1, <3>2
  <2>5. \A n \in Nat : ~Back(i, n)'
    <3> SUFFICES ASSUME NEW n \in Nat PROVE ~Back(i, n)'
      OBVIOUS
    <3>1. ~Back(i, n)
      BY <2>2
    <3> QED
      BY <1>1, <1>2, <3>1 DEF Back, Becomes
  <2>6. CASE Fits(s)
    <3>1. "store" \in Places /\ Len(records) + 1 \in Nat /\ i \in accepted'
      BY <1>1, <1>3, <2>2 DEF Places
    <3>2. \A n \in Nat : ~Alone(i, n)' /\ (In(i, n)' <=> n = Len(records) + 1)
      BY <2>3, <2>6
    <3> QED
      BY <2>4, <2>5, <3>1, <3>2, FateMoves
  <2>7. CASE ~Fits(s)
    <3>1. "refused" \in Places /\ i \in accepted'
      BY <1>1, <2>2 DEF Places
    <3>2. \A n \in Nat : ~In(i, n)' /\ (Alone(i, n)' <=> n = s)
      BY <2>3, <2>7
    <3>3. \A n \in Nat : Alone(i, n)' <=> "refused" = "refused" /\ n = s
      BY <3>2
    <3>4. \A n \in Nat : ~In(i, n)'
      BY <3>2
    <3> QED
      BY <1>3, <2>4, <2>5, <3>1, <3>3, <3>4, FateMoves
  <2> QED
    BY <2>6, <2>7
<1> QED
  BY <1>4, <1>5

\* A run hands back what it was not given to read.
LEMMA BackFate ==
  ASSUME Basics, NEW i, Fate(i), NEW r \in RunIds, Becomes(r), LogsKeep(i),
         accepted' = accepted, runs'[r].ingress = {},
         runs'[r].unadmitted = runs[r].unadmitted \cup runs[r].ingress
  PROVE  Fate(i)'
<1>1. CASE i \notin runs[r].ingress
  <2>1. RunsKeep(i)
    BY <1>1, BecomesKeeps
  <2> QED
    BY <2>1, FateStays DEF RunsKeep, LogsKeep
<1>2. CASE i \in runs[r].ingress
  <2>1. /\ i \in accepted
        /\ \A n \in Nat : With(i, n) <=> n = r
        /\ \A n \in Nat : ~Back(i, n) /\ ~In(i, n) /\ ~Alone(i, n)
    BY <1>2, OnlyWith
  <2>2. ASSUME NEW n \in Nat
        PROVE  ~With(i, n)' /\ (Back(i, n)' <=> n = r) /\ ~In(i, n)' /\ ~Alone(i, n)'
    <3>1. ~In(i, n)' /\ ~Alone(i, n)'
      BY <2>1 DEF LogsKeep
    <3>2. CASE n = r
      BY <1>2, <3>1, <3>2 DEF With, Back, Becomes
    <3>3. CASE n # r
      <4>1. ~With(i, n) /\ ~Back(i, n)
        BY <2>1, <3>3
      <4> QED
        BY <3>1, <3>3, <4>1 DEF With, Back, Becomes
    <3> QED
      BY <3>2, <3>3
  <2>3. r \in Nat /\ "back" \in Places /\ i \in accepted'
    BY <2>1, RunFields DEF Basics, Places
  <2>4. \A n \in Nat : Back(i, n)' <=> "back" = "back" /\ n = r
    BY <2>2
  <2>5. \A n \in Nat : ~With(i, n)' /\ ~In(i, n)' /\ ~Alone(i, n)'
    BY <2>2
  <2> QED
    BY <2>3, <2>4, <2>5, FateMoves
<1> QED
  BY <1>1, <1>2

\* A steered input is with the live run; another one is where it was.
LEMMA SteerFate ==
  ASSUME Basics, NEW i, Fate(i), NEW j \in Steers, Steer(j)
  PROVE  Fate(i)'
<1>1. /\ live \in RunIds /\ Becomes(live) /\ j \notin accepted
      /\ accepted' = accepted \cup {j}
      /\ runs'[live].ingress = runs[live].ingress \cup {j}
      /\ runs'[live].unadmitted = runs[live].unadmitted
      /\ UNCHANGED <<records, sessions>>
  BY SteerFacts
<1>2. LogsKeep(i)
  BY <1>1, SameLogs
<1>3. CASE i # j
  <2>1. RunsKeep(i)
    BY <1>1, <1>3, BecomesKeeps
  <2> QED
    BY <1>1, <1>2, <1>3, <2>1, FateStays DEF RunsKeep, LogsKeep
<1>4. CASE i = j
  <2>1. \A p \in Places, n \in Nat : ~At(i, p, n)
    BY <1>1, <1>4 DEF Fate
  <2>2. \A n \in Nat : ~With(i, n) /\ ~Back(i, n) /\ ~In(i, n) /\ ~Alone(i, n)
    BY <2>1, AtCases DEF Places
  <2>3. ASSUME NEW n \in Nat
        PROVE  (With(i, n)' <=> n = live) /\ ~Back(i, n)' /\ ~In(i, n)' /\ ~Alone(i, n)'
    <3>1. ~In(i, n)' /\ ~Alone(i, n)'
      BY <1>2, <2>2 DEF LogsKeep
    <3>2. ~With(i, n) /\ ~Back(i, n)
      BY <2>2
    <3>3. CASE n = live
      BY <1>1, <1>4, <3>1, <3>2, <3>3 DEF With, Back, Becomes
    <3>4. CASE n # live
      BY <1>1, <3>1, <3>2, <3>4 DEF With, Back, Becomes
    <3> QED
      BY <3>3, <3>4
  <2>4. live \in Nat /\ "run" \in Places /\ i \in accepted'
    BY <1>1, <1>4, RunFields DEF Basics, Places
  <2>5. \A n \in Nat : With(i, n)' <=> "run" = "run" /\ n = live
    BY <2>3
  <2>6. \A n \in Nat : ~Back(i, n)' /\ ~In(i, n)' /\ ~Alone(i, n)'
    BY <2>3
  <2> QED
    BY <2>4, <2>5, <2>6, FateMoves
<1> QED
  BY <1>3, <1>4

LEMMA BeganKeeps ==
  ASSUME Basics, NEW i, NEW behind, Began(behind), records' = records
  PROVE  RunsKeep(i) /\ LogsKeep(i)
<1> DEFINE m == Len(runs) + 1
<1>1. /\ RunIds' = RunIds \cup {m} /\ m \notin RunIds
      /\ \A q \in RunIds : runs'[q] = runs[q]
      /\ runs'[m].ingress = {} /\ runs'[m].unadmitted = {}
  BY DEF Began
<1> HIDE DEF m
<1>2. RunsKeep(i)
  BY <1>1 DEF RunsKeep, With, Back
<1>3. LogsKeep(i)
  BY SameLogs DEF Began, Same
<1> QED
  BY <1>2, <1>3

LEMMA StepFate ==
  ASSUME Basics, NEW i \in Steers, Fate(i), [Next]_vars
  PROVE  Fate(i)'
<1>1. ASSUME RunsKeep(i), LogsKeep(i), accepted' = accepted PROVE Fate(i)'
  BY <1>1, FateStays DEF RunsKeep, LogsKeep
<1>2. UNCHANGED runs => RunsKeep(i)
  BY DEF RunsKeep, With, Back, RunIds
<1>3. UNCHANGED <<records, sessions>> => LogsKeep(i)
  BY SameLogs
<1>4. CASE UNCHANGED vars
  BY <1>1, <1>2, <1>3, <1>4 DEF vars
<1>5. ASSUME NEW r \in RunIds, EmittingStep(r) PROVE Fate(i)'
  <2>1. \E type, of, next :
          Wrote(r, type, of, next) /\ (of = {} \/ of = runs[r].ingress)
    BY <1>5, StepWrites DEF Writes
  <2> QED
    BY <2>1, EventFate
<1>6. ASSUME NEW r \in RunIds, Seal(r) PROVE Fate(i)'
  <2>1. LogsKeep(i) /\ accepted' = accepted
    BY <1>3, <1>6 DEF Seal
  <2> QED
    BY <1>6, <2>1, SealFacts, BackFate
<1>7. ASSUME NEW r \in RunIds, HookReturns(r) PROVE Fate(i)'
  <2>1. LogsKeep(i) /\ accepted' = accepted
    BY <1>3, <1>7 DEF HookReturns
  <2>2. RunsKeep(i)
    BY <1>7, HookFacts, BecomesKeeps
  <2> QED
    BY <1>1, <2>1, <2>2
<1>8. ASSUME NEW r \in RunIds, PumpEnds(r) PROVE Fate(i)'
  <2>1. /\ Becomes(r) /\ runs'[r].ingress = {}
        /\ runs'[r].unadmitted = runs[r].unadmitted \cup runs[r].ingress
        /\ DOMAIN sessions' = DOMAIN sessions
        /\ \A s \in DOMAIN sessions : sessions'[s].log = sessions[s].log
        /\ UNCHANGED <<records, accepted>>
    BY <1>8, PumpFacts DEF Same, PumpEnds
  <2>2. LogsKeep(i)
    BY <2>1, SameLogs
  <2> QED
    BY <2>1, <2>2, BackFate
<1>9. ASSUME NEW c \in DOMAIN requests, StartStep(c) PROVE Fate(i)'
  <2>1. MayBegin /\ UNCHANGED <<records, accepted>>
    BY <1>9, RequestStarts
  <2>2. CASE UNCHANGED <<runs, live, sessions>>
    BY <1>1, <1>2, <1>3, <2>1, <2>2
  <2>3. CASE \E behind : Began(behind)
    BY <1>1, <2>1, <2>3, BeganKeeps
  <2> QED
    BY <2>1, <2>2, <2>3 DEF MayBegin
<1>10. ASSUME NEW c \in DOMAIN requests, AnswerStep(c) PROVE Fate(i)'
  <2>1. Answers /\ UNCHANGED <<runs, accepted>> /\ sessions # <<>>
    BY <1>10, RequestAnswers
  <2>2. CASE UNCHANGED <<sessions, records>>
    BY <1>1, <1>2, <1>3, <2>1, <2>2
  <2>3. CASE Reaches
    <3>1. /\ records' = records /\ DOMAIN sessions' = DOMAIN sessions
          /\ \A s \in DOMAIN sessions : sessions'[s].log = sessions[s].log
      BY <2>3 DEF Reaches
    <3> QED
      BY <1>1, <1>2, <2>1, <3>1, SameLogs
  <2>4. CASE WrittenAside
    <3>1. PICK id \in 0..MaxRuns + 1 :
            /\ Entry(id, "decided", {}) \in Line
            /\ Took(Len(sessions), Entry(id, "decided", {}))
      BY <2>4 DEF WrittenAside
    <3>2. i \notin Entry(id, "decided", {}).of /\ Len(sessions) \in DOMAIN sessions
      BY <2>1, HeldExists DEF Entry
    <3>3. LogsKeep(i)
      BY <3>1, <3>2, EventWithout DEF LogsKeep
    <3> QED
      BY <1>1, <1>2, <2>1, <3>3
  <2> QED
    BY <2>1, <2>2, <2>3, <2>4 DEF Answers
<1>11. ASSUME NEW c \in DOMAIN requests, Abort(c) PROVE Fate(i)'
  <2>1. /\ RunIds' = RunIds
        /\ \A r \in RunIds : /\ runs'[r].ingress = runs[r].ingress
                             /\ runs'[r].unadmitted = runs[r].unadmitted
        /\ UNCHANGED <<records, sessions, accepted>>
    BY <1>11, AbortMarks
  <2>2. RunsKeep(i)
    BY <2>1 DEF RunsKeep, With, Back
  <2> QED
    BY <1>1, <1>3, <2>1, <2>2
<1>12. CASE QuietStep
  BY <1>1, <1>2, <1>3, <1>12, QuietFacts
<1>13. CASE BuildStep
  <2>1. sessions' = Built /\ UNCHANGED <<records, runs, accepted>>
    BY <1>13, BuildFacts
  <2> QED
    BY <1>1, <1>2, <2>1, BuiltLogs
<1> QED
  BY <1>4, <1>5, <1>6, <1>7, <1>8, <1>9, <1>10, <1>11, <1>12, <1>13, SteerFate,
     StepKinds DEF RunAlone

LEMMA InitFate == ASSUME Init, NEW i \in Steers PROVE Fate(i)
<1>1. \A n \in DOMAIN records : records[n].of = {}
  BY DEF Init, Entry
<1>2. \A p \in Places, n \in Nat : ~At(i, p, n)
  BY <1>1 DEF Init, At, RunIds
<1> QED
  BY <1>2 DEF Init, Fate

\* The four sets whose sizes the property adds up, of one place.
LEMMA OneFate ==
  ASSUME Basics, NEW i \in accepted, Fate(i)
  PROVE  LET waiting == {r \in RunIds : i \in runs[r].ingress}
             returned == {r \in RunIds : i \in runs[r].unadmitted}
             stored == {n \in DOMAIN records : i \in records[n].of}
             refused == {s \in DOMAIN sessions :
                          /\ sessions[s].poisoned /\ stored = {}
                          /\ \E n \in DOMAIN sessions[s].log :
                               i \in sessions[s].log[n].of}
         IN Cardinality(waiting) + Cardinality(returned) + Cardinality(stored)
            + Cardinality(refused) = 1
<1> DEFINE waiting == {r \in RunIds : i \in runs[r].ingress}
           returned == {r \in RunIds : i \in runs[r].unadmitted}
           stored == {n \in DOMAIN records : i \in records[n].of}
           refused == {s \in DOMAIN sessions :
                        /\ sessions[s].poisoned /\ stored = {}
                        /\ \E n \in DOMAIN sessions[s].log :
                             i \in sessions[s].log[n].of}
<1>1. /\ RunIds \subseteq Nat /\ DOMAIN records \subseteq Nat
      /\ DOMAIN sessions \subseteq Nat
  BY Element DEF Basics, Shapes, RunIds
<1>2. \A n : (n \in waiting <=> With(i, n)) /\ (n \in returned <=> Back(i, n))
  BY DEF With, Back
<1>3. \A n : n \in stored <=> In(i, n)
  BY DEF In
<1>4. stored = {} <=> ~Stored(i)
  BY DEF Stored
<1>5. ASSUME NEW s PROVE s \in refused <=> Alone(i, s)
  <2>1. s \in refused => Alone(i, s)
    BY <1>4 DEF Alone
  <2>2. ASSUME Alone(i, s) PROVE sessions[s].poisoned
    <3> SUFFICES ASSUME ~sessions[s].poisoned PROVE FALSE
      OBVIOUS
    <3>1. PICK k \in DOMAIN sessions[s].log : i \in sessions[s].log[k].of
      BY <2>2 DEF Alone
    <3>2. /\ Len(sessions[s].log) <= Len(records) /\ s \in DOMAIN sessions
          /\ sessions[s].log[k] = records[k]
      BY <2>2, <3>1 DEF Alone, Basics, Mirrors
    <3>3. /\ Len(sessions[s].log) \in Nat /\ Len(records) \in Nat
          /\ DOMAIN sessions[s].log = 1..Len(sessions[s].log)
          /\ DOMAIN records = 1..Len(records)
      <4>1. sessions \in Seq(Session) /\ records \in Seq(Line)
        BY DEF Basics, Shapes
      <4>2. sessions[s] \in Session
        BY <3>2, <4>1, Element
      <4>3. sessions[s].log \in Seq(Line)
        BY <4>2 DEF Session
      <4> QED
        BY <4>1, <4>3, Element
    <3>4. k \in DOMAIN records
      BY <3>1, <3>2, <3>3
    <3> QED
      BY <2>2, <3>1, <3>2, <3>4 DEF Alone, Stored
  <2> QED
    BY <1>4, <2>1, <2>2 DEF Alone
<1> HIDE DEF waiting, returned, stored, refused
<1>6. PICK p \in Places, m \in Nat : At(i, p, m)
  BY DEF Fate
<1>7. \A q \in Places, n \in Nat : At(i, q, n) => q = p /\ n = m
  BY <1>6 DEF Fate
<1>8. /\ waiting \subseteq Nat /\ returned \subseteq Nat /\ stored \subseteq Nat
      /\ refused \subseteq Nat
  BY <1>1 DEF waiting, returned, stored, refused
<1>9. /\ \A n : n \in waiting <=> At(i, "run", n)
      /\ \A n : n \in returned <=> At(i, "back", n)
      /\ \A n : n \in stored <=> At(i, "store", n)
      /\ \A n : n \in refused <=> At(i, "refused", n)
  BY <1>2, <1>3, <1>5, AtCases
<1>10. /\ waiting = IF p = "run" THEN {m} ELSE {}
       /\ returned = IF p = "back" THEN {m} ELSE {}
       /\ stored = IF p = "store" THEN {m} ELSE {}
       /\ refused = IF p = "refused" THEN {m} ELSE {}
  <2>1. ASSUME NEW q \in Places, NEW S \in SUBSET Nat, \A n : n \in S <=> At(i, q, n)
        PROVE  S = IF p = q THEN {m} ELSE {}
    BY <1>6, <1>7, <2>1
  <2> QED
    BY <1>8, <1>9, <2>1 DEF Places
<1>11. Cardinality({m}) = 1 /\ Cardinality({}) = 0
  BY FS_Singleton, FS_EmptySet
<1>12. Cardinality(waiting) + Cardinality(returned) + Cardinality(stored)
         + Cardinality(refused) = 1
  BY <1>10, <1>11 DEF Places
<1> QED
  BY <1>12 DEF waiting, returned, stored, refused

\* An input that steer() took is with the run that took it, in the log, or
\* handed back: in one of them and in one only.
THEOREM SteersKeepOneFate == Spec => []SteersHaveOneFate
<1>1. Init => Fates
  BY InitFate DEF Fates
<1>2. Basics /\ Fates /\ [Next]_vars => Fates'
  BY StepFate DEF Fates
<1>3. Basics /\ Fates => SteersHaveOneFate
  <2> SUFFICES ASSUME Basics, Fates, NEW i \in accepted
               PROVE  LET waiting == {r \in RunIds : i \in runs[r].ingress}
                          returned == {r \in RunIds : i \in runs[r].unadmitted}
                          stored == {n \in DOMAIN records : i \in records[n].of}
                          refused == {s \in DOMAIN sessions :
                                       /\ sessions[s].poisoned /\ stored = {}
                                       /\ \E n \in DOMAIN sessions[s].log :
                                            i \in sessions[s].log[n].of}
                      IN Cardinality(waiting) + Cardinality(returned)
                         + Cardinality(stored) + Cardinality(refused) = 1
    BY DEF SteersHaveOneFate
  <2>1. Fate(i)
    BY DEF Basics, Shapes, Fates
  <2> QED
    BY <2>1, OneFate
<1> QED
  BY <1>1, <1>2, <1>3, ServiceBasics, PTL DEF Spec

(***************************************************************************)
(* One open run.                                                           *)
(***************************************************************************)
LEMMA OpenLine ==
  \A i : i \in OpenLines <=>
    /\ i \in DOMAIN records
    /\ \A j \in DOMAIN records :
         records[j].run = records[i].run => records[j].type # "terminal"
BY DEF OpenLines, Of

\* An event opens at most its own run, and a terminal closes it.
LEMMA OpenGrows ==
  ASSUME records \in Seq(Line), NEW e \in Line, records' = Append(records, e)
  PROVE  \A i \in OpenLines' :
           /\ \/ i \in OpenLines /\ records'[i] = records[i]
              \/ records'[i].run = e.run
           /\ e.type = "terminal" => records'[i].run # e.run
<1>1. /\ Len(records) \in Nat /\ DOMAIN records = 1..Len(records)
      /\ DOMAIN records' = 1..Len(records) + 1
      /\ \A n \in DOMAIN records : records'[n] = records[n]
      /\ records'[Len(records) + 1] = e
  BY Longer, Element
<1> SUFFICES ASSUME NEW i \in OpenLines'
             PROVE  /\ \/ i \in OpenLines /\ records'[i] = records[i]
                       \/ records'[i].run = e.run
                    /\ e.type = "terminal" => records'[i].run # e.run
  OBVIOUS
<1>2. /\ i \in DOMAIN records'
      /\ \A j \in DOMAIN records' :
           records'[j].run = records'[i].run => records'[j].type # "terminal"
  BY DEF OpenLines, Of
<1>3. Len(records) + 1 \in DOMAIN records'
  BY <1>1
<1>4. e.type = "terminal" => records'[i].run # e.run
  BY <1>1, <1>2, <1>3
<1>5. CASE i \in DOMAIN records
  <2>1. \A j \in DOMAIN records : j \in DOMAIN records' /\ records'[j] = records[j]
    BY <1>1
  <2>2. i \in OpenLines
    BY <1>2, <1>5, <2>1, OpenLine
  <2> QED
    BY <1>4, <1>5, <2>1, <2>2
<1>6. CASE i = Len(records) + 1
  BY <1>1, <1>4, <1>6
<1> QED
  BY <1>1, <1>2, <1>5, <1>6

\* Two runs that write do so for two objects.
LEMMA OneWrites ==
  ASSUME Turns, NEW r \in RunIds, NEW q \in RunIds, r # q,
         runs[r].phase \in Writing \cup {"making"},
         runs[q].phase \in Writing \cup {"making"}
  PROVE  runs[r].of # runs[q].of
BY DEF Turns, Holds

\* What must hold behind a step for the turns to be kept.
FitsNext(t) == ~sessions'[t].poisoned /\ Len(sessions'[t].log) = Len(records')
KeepsTurn(q) ==
  /\ runs'[q].phase \in Writing \cup {"making"} => sessions'[runs'[q].of].active = q
  /\ runs'[q].phase = "making" /\ FitsNext(runs'[q].of) => OpenLines' = {}
  /\ runs'[q].phase \in Writing /\ FitsNext(runs'[q].of) =>
       \A i \in OpenLines' : records'[i].run = runs'[q].id

LEMMA TurnsKept ==
  ASSUME OneOpenRun', \A q \in RunIds' : KeepsTurn(q)
  PROVE  Turns'
BY DEF Turns, Holds, StartsClear, WritesItsOwn, Fits, FitsNext, KeepsTurn

\* A step that adds no line and makes no object fit the store keeps the turn of
\* a run that it leaves where it is or ends.
LEMMA SameTurn ==
  ASSUME Turns, NEW q \in RunIds, OpenLines' = OpenLines, records' = records,
         runs'[q].of = runs[q].of, runs'[q].id = runs[q].id,
         runs'[q].phase \in Writing => runs[q].phase \in Writing,
         runs'[q].phase = "making" => runs[q].phase = "making",
         runs'[q].phase \in Writing \cup {"making"} =>
           sessions'[runs[q].of].active = sessions[runs[q].of].active,
         FitsNext(runs[q].of) => Fits(runs[q].of)
  PROVE  KeepsTurn(q)
BY DEF Turns, Holds, StartsClear, WritesItsOwn, KeepsTurn

LEMMA SameLines ==
  ASSUME records' = records
  PROVE  OpenLines' = OpenLines /\ (OneOpenRun => OneOpenRun')
BY DEF OpenLines, Of, OneOpenRun

\* The run that writes an event, and what it is then.
LEMMA Emitter ==
  ASSUME Basics, NEW r \in RunIds, EmittingStep(r)
  PROVE  /\ runs[r].phase \in Writing \cup {"making"}
         /\ \E type, of, next :
              /\ Wrote(r, type, of, next)
              /\ next \in Writing \/ (next = "over" /\ type = "terminal")
<1>1. CASE runs[r].phase = "making" /\ Wrote(r, "input", {}, "going")
  BY <1>1 DEF Writing
<1>2. CASE runs[r].phase = "going" /\ Wrote(r, "input", runs[r].ingress, "going")
  BY <1>2 DEF Writing
<1>3. CASE \E type \in {"started", "asked", "ended", "decided"}, next \in Writing :
             runs[r].phase \in Writing /\ Wrote(r, type, {}, next)
  BY <1>3
<1>4. CASE runs[r].phase = "sealed" /\ Wrote(r, "terminal", {}, "over")
  BY <1>4 DEF Writing
<1> QED
  BY <1>1, <1>2, <1>3, <1>4, StepWrites DEF Writes

\* An event of the run that holds the object's slot, if the store takes it, is
\* of the one open run, or the first of its own where none is open.
LEMMA EventTurns ==
  ASSUME Basics, Turns, NEW r \in RunIds, EmittingStep(r)
  PROVE  Turns'
<1> DEFINE s == runs[r].of
<1>1. PICK type, of, next :
        /\ Wrote(r, type, of, next)
        /\ next \in Writing \/ (next = "over" /\ type = "terminal")
  BY Emitter
<1> DEFINE e == Entry(runs[r].id, type, of)
<1>2. /\ s \in DOMAIN sessions /\ e \in Line /\ Took(s, e) /\ Becomes(r)
      /\ e.run = runs[r].id /\ e.type = type
      /\ runs'[r].phase = IF Fits(s) THEN next ELSE "threw"
  BY <1>1 DEF Wrote, Entry
<1>3. \A t \in DOMAIN sessions :
        FitsNext(t) => Fits(t) /\ (t = s \/ records' = records)
  <2>1. \A t \in DOMAIN sessions : Fits(t)' => Fits(t) /\ (t = s \/ records' = records)
    BY <1>2, StillMirrors DEF Basics
  <2> QED
    BY <2>1 DEF Fits, FitsNext
<1>4. \A t \in DOMAIN sessions : sessions'[t].active = sessions[t].active
  BY <1>2 DEF Took
<1>5. /\ \A q \in RunIds : runs[q].of \in DOMAIN sessions /\ runs'[q].of = runs[q].of
      /\ \A q \in RunIds : runs'[q].id = runs[q].id
      /\ \A q \in RunIds : q # r => runs'[q].phase = runs[q].phase
      /\ RunIds' = RunIds /\ runs[r].phase \in Writing \cup {"making"}
  BY <1>2, Emitter DEF Becomes, Basics, Links
<1>6. sessions'[s].active = r /\ runs'[r].of = s
  BY <1>2, <1>4, <1>5 DEF Turns, Holds
<1>7. CASE ~Fits(s)
  <2>1. records' = records
    BY <1>2, <1>7 DEF Took
  <2>2. runs'[r].phase = "threw"
    BY <1>2, <1>7
  <2>3. KeepsTurn(r)
    BY <2>2 DEF KeepsTurn, Writing
  <2>4. ASSUME NEW q \in RunIds, q # r PROVE KeepsTurn(q)
    BY <1>3, <1>4, <1>5, <2>1, <2>4, SameLines, SameTurn
  <2> QED
    BY <1>5, <2>1, <2>3, <2>4, SameLines, TurnsKept DEF Turns
<1>8. CASE Fits(s)
  <2>1. records' = Append(records, e) /\ records \in Seq(Line)
    BY <1>2, <1>8 DEF Took, Basics, Shapes
  <2>2. \A i \in OpenLines : records[i].run = runs[r].id
    BY <1>5, <1>8 DEF Turns, StartsClear, WritesItsOwn
  <2>3. \A i \in OpenLines' : records'[i].run = runs[r].id /\ type # "terminal"
    BY <1>2, <2>1, <2>2, OpenGrows
  <2>4. OneOpenRun'
    BY <2>3 DEF OneOpenRun
  <2>5. KeepsTurn(r)
    <3>1. runs'[r].phase # "making" /\ runs'[r].id = runs[r].id
      BY <1>1, <1>2, <1>5, <1>8 DEF Writing
    <3> QED
      BY <1>6, <2>3, <3>1 DEF KeepsTurn
  <2>6. ASSUME NEW q \in RunIds, q # r PROVE KeepsTurn(q)
    <3>1. CASE runs[q].phase \in Writing \cup {"making"}
      <4>1. runs[q].of # s
        BY <1>5, <2>6, <3>1, OneWrites
      <4>2. records' # records
        <5>1. Len(records') = Len(records) + 1 /\ Len(records) \in Nat
          BY <1>2, <2>1, Longer, Element
        <5> QED
          BY <5>1
      <4>3. ~FitsNext(runs[q].of)
        BY <1>3, <1>5, <4>1, <4>2
      <4>4. sessions'[runs[q].of].active = q
        BY <1>4, <1>5, <3>1 DEF Turns, Holds
      <4> QED
        BY <1>5, <4>3, <4>4 DEF KeepsTurn
    <3>2. CASE runs[q].phase \notin Writing \cup {"making"}
      BY <1>5, <2>6, <3>2 DEF KeepsTurn
    <3> QED
      BY <3>1, <3>2
  <2> QED
    BY <1>5, <2>4, <2>5, <2>6, TurnsKept
<1> QED
  BY <1>7, <1>8

LEMMA SameTurns ==
  ASSUME Basics, Turns, records' = records, RunIds' = RunIds,
         \A q \in RunIds :
           /\ runs'[q].of = runs[q].of /\ runs'[q].id = runs[q].id
           /\ runs'[q].phase \in Writing => runs[q].phase \in Writing
           /\ runs'[q].phase = "making" => runs[q].phase = "making"
           /\ runs'[q].phase \in Writing \cup {"making"} =>
                sessions'[runs[q].of].active = sessions[runs[q].of].active,
         \A s \in DOMAIN sessions : FitsNext(s) => Fits(s)
  PROVE  Turns'
<1>1. \A q \in RunIds : runs[q].of \in DOMAIN sessions
  BY DEF Basics, Links
<1>2. \A q \in RunIds : KeepsTurn(q)
  BY <1>1, SameLines, SameTurn
<1> QED
  BY <1>2, SameLines, TurnsKept DEF Turns

LEMMA FitsUnchanged ==
  ASSUME records' = records,
         \A s \in DOMAIN sessions : /\ sessions'[s].log = sessions[s].log
                                    /\ sessions'[s].poisoned = sessions[s].poisoned
  PROVE  \A s \in DOMAIN sessions : FitsNext(s) => Fits(s)
BY DEF FitsNext, Fits

\* A run starts where no run is open, or as the open one.
LEMMA BeganTurns ==
  ASSUME Basics, Turns, sessions # <<>>, NEW behind \in Nat, Began(behind),
         records' = records
  PROVE  Turns'
<1> DEFINE n == Len(runs) + 1
           s == Len(sessions)
           o == runs'[n]
<1>1. /\ s \in DOMAIN sessions /\ o.of = s
      /\ RunIds' = RunIds \cup {n} /\ n \notin RunIds
      /\ \A q \in RunIds : runs'[q] = runs[q]
      /\ \A t \in DOMAIN sessions :
           /\ Same(t)
           /\ \/ sessions'[t].active = sessions[t].active
              \/ t = s /\ sessions[t].active = 0 /\ sessions'[t].active = n
      /\ o.phase \in Writing \cup {"making"} => sessions'[s].active = n
      /\ o.phase = "making" => OpenLines = {}
      /\ o.phase \in Writing => OpenLines # {} /\ o.id = OpenRunId
  BY HeldExists DEF Began
<1> HIDE DEF n, s
<1>2. OpenLines' = OpenLines /\ OneOpenRun'
  BY SameLines DEF Turns
<1>3. o.phase \in Writing => \A i \in OpenLines : records[i].run = o.id
  <2> SUFFICES ASSUME o.phase \in Writing, NEW i \in OpenLines
               PROVE  records[i].run = o.id
    OBVIOUS
  <2>1. \E j \in OpenLines : o.id = records[j].run
    BY <1>1, OpenRun DEF Basics
  <2> QED
    BY <2>1 DEF Turns, OneOpenRun
<1>4. KeepsTurn(n)
  BY <1>1, <1>2, <1>3 DEF KeepsTurn
<1>5. ASSUME NEW q \in RunIds PROVE KeepsTurn(q)
  <2>1. runs[q].of \in DOMAIN sessions /\ runs'[q] = runs[q] /\ q # 0
    BY <1>1, RunFields DEF Basics, RunIds
  <2>2. runs[q].phase \in Writing \cup {"making"} =>
          sessions'[runs[q].of].active = sessions[runs[q].of].active
    BY <1>1, <2>1 DEF Turns, Holds
  <2>3. FitsNext(runs[q].of) => Fits(runs[q].of)
    BY <1>1, <2>1 DEF FitsNext, Fits, Same
  <2> QED
    BY <1>2, <2>1, <2>2, <2>3, SameTurn
<1> QED
  BY <1>1, <1>2, <1>4, <1>5, TurnsKept

\* An answer that is written at once is of the open run: it is asked for, and
\* the store takes it only of an object that knows all its lines.
LEMMA AsideTurns ==
  ASSUME Basics, Turns, sessions # <<>>, "approveStray" \notin Requests,
         WrittenAside, UNCHANGED runs
  PROVE  Turns'
<1> DEFINE s == Len(sessions)
<1>1. /\ s \in DOMAIN sessions /\ held = sessions[s]
  BY HeldExists
<1>2. PICK id \in 0..MaxRuns + 1 :
        /\ Entry(id, "decided", {}) \in Line /\ Took(s, Entry(id, "decided", {}))
        /\ Asked(held.log, id)
  BY DEF WrittenAside
<1> DEFINE e == Entry(id, "decided", {})
<1>3. /\ e \in Line /\ Took(s, e) /\ e.run = id
  BY <1>2 DEF Entry
<1>4. \A t \in DOMAIN sessions :
        FitsNext(t) => Fits(t) /\ (t = s \/ records' = records)
  <2>1. \A t \in DOMAIN sessions : Fits(t)' => Fits(t) /\ (t = s \/ records' = records)
    BY <1>1, <1>3, StillMirrors DEF Basics
  <2> QED
    BY <2>1 DEF Fits, FitsNext
<1>5. \A t \in DOMAIN sessions : sessions'[t].active = sessions[t].active
  BY <1>1, <1>3 DEF Took
<1>6. \A q \in RunIds : runs[q].of \in DOMAIN sessions
  BY DEF Basics, Links
<1> HIDE DEF s, e
<1>7. CASE ~Fits(s)
  <2>1. records' = records
    BY <1>3, <1>7 DEF Took
  <2> QED
    BY <1>4, <1>5, <1>6, <2>1, SameTurns DEF RunIds
<1>8. CASE Fits(s)
  <2>1. /\ records' = Append(records, e) /\ records \in Seq(Line)
        /\ sessions[s].log = records
    BY <1>3, <1>8 DEF Took, Basics, Shapes
  <2>2. PICK i \in OpenLines : records[i].run = id
    <3>1. Asked(records, id)
      BY <1>1, <1>2, <2>1
    <3>2. ASSUME Of(records, id, "asked") = {} PROVE FALSE
      <4>1. IsFiniteSet(Of(records, id, "decided"))
        <5>1. DOMAIN records = 1..Len(records) /\ Len(records) \in Nat
          BY <2>1, Element
        <5>2. IsFiniteSet(1..Len(records))
          BY <5>1, FS_Interval
        <5> QED
          BY <5>1, <5>2, FS_Subset DEF Of
      <4>2. Cardinality(Of(records, id, "decided")) \in Nat
        BY <4>1, FS_CardinalityType
      <4>3. Cardinality({}) = 0
        BY FS_EmptySet
      <4>4. Cardinality(Of(records, id, "asked"))
              > Cardinality(Of(records, id, "decided"))
        BY <3>1 DEF Asked
      <4>5. 0 > Cardinality(Of(records, id, "decided"))
        BY <3>2, <4>3, <4>4
      <4> QED
        BY <4>2, <4>5
    <3>3. PICK i \in Of(records, id, "asked") : TRUE
      BY <3>2
    <3>4. i \in DOMAIN records /\ records[i].run = id
      BY <3>3 DEF Of
    <3>5. Of(records, id, "terminal") = {}
      BY <3>1 DEF Asked
    <3> QED
      BY <3>4, <3>5 DEF OpenLines
  <2>3. \A j \in OpenLines : records[j].run = id
    BY <2>2 DEF Turns, OneOpenRun
  <2>4. \A j \in OpenLines' : records'[j].run = id
    BY <1>3, <2>1, <2>3, OpenGrows
  <2>5. OneOpenRun'
    BY <2>4 DEF OneOpenRun
  <2>6. ASSUME NEW q \in RunIds PROVE KeepsTurn(q)
    <3>1. runs'[q] = runs[q] /\ runs[q].of \in DOMAIN sessions
      BY <1>6
    <3>2. records' # records
      <4>1. Len(records') = Len(records) + 1 /\ Len(records) \in Nat
        BY <1>3, <2>1, Longer, Element
      <4> QED
        BY <4>1
    <3>3. FitsNext(runs[q].of) => Fits(runs[q].of) /\ runs[q].of = s
      BY <1>4, <3>1, <3>2
    <3>4. runs[q].phase = "making" => ~FitsNext(runs[q].of)
      BY <2>2, <3>3 DEF Turns, StartsClear
    <3>5. runs[q].phase \in Writing /\ FitsNext(runs[q].of) => runs[q].id = id
      BY <2>2, <3>3 DEF Turns, WritesItsOwn
    <3>6. runs[q].phase \in Writing \cup {"making"} =>
            sessions'[runs[q].of].active = q
      BY <1>5, <3>1 DEF Turns, Holds
    <3> QED
      BY <2>4, <3>1, <3>4, <3>5, <3>6 DEF KeepsTurn
  <2> QED
    BY <2>5, <2>6, TurnsKept DEF RunIds
<1> QED
  BY <1>7, <1>8

LEMMA StepTurns ==
  ASSUME "approveStray" \notin Requests, Basics, Turns, [Next]_vars
  PROVE  Turns'
<1>1. ASSUME UNCHANGED <<records, sessions>>, RunIds' = RunIds,
             \A q \in RunIds : /\ runs'[q].of = runs[q].of /\ runs'[q].id = runs[q].id
                               /\ runs'[q].phase = runs[q].phase
      PROVE  Turns'
  BY <1>1, FitsUnchanged, SameTurns
<1>2. CASE UNCHANGED vars
  BY <1>1, <1>2 DEF vars, RunIds
<1>3. ASSUME NEW r \in RunIds, RunAlone(r) \/ PumpEnds(r) PROVE Turns'
  <2>1. /\ Becomes(r)
        /\ runs'[r].phase \in Writing => runs[r].phase \in Writing
        /\ runs'[r].phase # "making"
    BY <1>3, SealFacts, HookFacts, PumpFacts DEF RunAlone, Writing
  <2>2. /\ records' = records
        /\ \A s \in DOMAIN sessions : Same(s)
        /\ \A s \in DOMAIN sessions :
             \/ sessions'[s].active = sessions[s].active
             \/ sessions[s].active = r /\ runs'[r].phase \notin Writing
    <3>1. CASE RunAlone(r)
      BY <3>1 DEF RunAlone, Seal, HookReturns, Same
    <3>2. CASE PumpEnds(r)
      <4>1. /\ runs'[r].phase \in {"settling", "rejected"}
            /\ \A s \in DOMAIN sessions :
                 /\ Same(s)
                 /\ sessions'[s].active = IF sessions[s].active = r THEN 0
                                          ELSE sessions[s].active
        BY <3>2, PumpFacts
      <4> QED
        BY <3>2, <4>1 DEF PumpEnds, Writing
    <3> QED
      BY <1>3, <3>1, <3>2
  <2>3. \A q \in RunIds : runs[q].of \in DOMAIN sessions
    BY DEF Basics, Links
  <2>4. ASSUME NEW q \in RunIds
        PROVE  /\ runs'[q].phase \in Writing => runs[q].phase \in Writing
               /\ runs'[q].phase = "making" => runs[q].phase = "making"
               /\ runs'[q].phase \in Writing \cup {"making"} =>
                    sessions'[runs[q].of].active = sessions[runs[q].of].active
    <3>1. CASE q = r
      BY <2>1, <2>2, <2>3, <3>1
    <3>2. CASE q # r
      <4>1. runs'[q].phase = runs[q].phase
        BY <2>1, <3>2 DEF Becomes
      <4>2. runs[q].phase \in Writing \cup {"making"} => sessions[runs[q].of].active = q
        BY DEF Turns, Holds
      <4> QED
        BY <2>2, <2>3, <3>2, <4>1, <4>2
    <3> QED
      BY <3>1, <3>2
  <2>5. \A s \in DOMAIN sessions : FitsNext(s) => Fits(s)
    BY <2>2, FitsUnchanged DEF Same
  <2> QED
    BY <2>1, <2>2, <2>4, <2>5, SameTurns DEF Becomes
<1>4. ASSUME NEW c \in DOMAIN requests, StartStep(c) PROVE Turns'
  <2>1. MayBegin /\ UNCHANGED records
    BY <1>4, RequestStarts
  <2>2. CASE UNCHANGED <<runs, live, sessions>>
    BY <1>1, <2>1, <2>2 DEF RunIds
  <2>3. \A behind \in 0..Len(runs) : behind \in Nat
    BY RequestsStay
  <2> QED
    BY <2>1, <2>2, <2>3, BeganTurns DEF MayBegin
<1>5. ASSUME NEW c \in DOMAIN requests, AnswerStep(c) PROVE Turns'
  <2>1. Answers /\ UNCHANGED runs /\ sessions # <<>>
    BY <1>5, RequestAnswers
  <2>2. CASE UNCHANGED <<sessions, records>>
    BY <1>1, <2>1, <2>2 DEF RunIds
  <2>3. CASE Reaches
    <3>1. /\ records' = records
          /\ \A s \in DOMAIN sessions :
               /\ sessions'[s].log = sessions[s].log
               /\ sessions'[s].poisoned = sessions[s].poisoned
               /\ sessions'[s].active = sessions[s].active
      BY <2>3 DEF Reaches
    <3>2. \A q \in RunIds : runs[q].of \in DOMAIN sessions
      BY DEF Basics, Links
    <3> QED
      BY <2>1, <3>1, <3>2, FitsUnchanged, SameTurns DEF RunIds
  <2> QED
    BY <2>1, <2>2, <2>3, AsideTurns DEF Answers
<1>6. ASSUME NEW c \in DOMAIN requests, Abort(c) PROVE Turns'
  BY <1>1, <1>6, AbortMarks
<1>7. ASSUME NEW i \in Steers, Steer(i) PROVE Turns'
  <2>1. /\ Becomes(live) /\ live \in RunIds
        /\ runs'[live].phase = runs[live].phase /\ UNCHANGED <<records, sessions>>
    BY <1>7, SteerFacts
  <2>2. \A q \in RunIds : runs'[q].phase = runs[q].phase
    BY <2>1 DEF Becomes
  <2> QED
    BY <1>1, <2>1, <2>2 DEF Becomes
<1>8. CASE QuietStep
  BY <1>1, <1>8, QuietFacts DEF RunIds
<1>9. CASE BuildStep
  <2>1. sessions' = Built /\ UNCHANGED <<records, runs>> /\ sessions \in Seq(Session)
        /\ records \in Seq(Line)
    BY <1>9, BuildFacts DEF Basics, Shapes
  <2>2. [log |-> records, poisoned |-> FALSE, active |-> 0, answered |-> 0] \in Session
    BY <2>1 DEF Session
  <2>3. \A s \in DOMAIN sessions : sessions'[s] = sessions[s]
    BY <2>1, <2>2, Longer DEF Built
  <2>4. \A q \in RunIds : runs[q].of \in DOMAIN sessions
    BY DEF Basics, Links
  <2> QED
    BY <2>1, <2>3, <2>4, FitsUnchanged, SameTurns DEF RunIds
<1> QED
  BY <1>2, <1>3, <1>4, <1>5, <1>6, <1>7, <1>8, <1>9, EventTurns, StepKinds

\* The session's log never holds two open runs, however many objects were built
\* on it, where nobody answers a decision that the log does not know (an answer
\* to none is a line of a run of its own, that nothing ends).
THEOREM RunsFollowEachOther ==
  ASSUME "approveStray" \notin Requests
  PROVE  Spec => []OneOpenRun
<1>1. Init => Turns
  <2> SUFFICES ASSUME Init PROVE Turns
    OBVIOUS
  <2>1. \A i \in DOMAIN records : records[i].run = Earlier
    BY DEF Init, Entry
  <2>2. OneOpenRun
    BY <2>1 DEF OneOpenRun, OpenLines
  <2>3. RunIds = {}
    BY DEF Init, RunIds
  <2> QED
    BY <2>2, <2>3 DEF Turns
<1>2. Basics /\ Turns /\ [Next]_vars => Turns'
  BY StepTurns
<1>3. Turns => OneOpenRun
  BY DEF Turns
<1> QED
  BY <1>1, <1>2, <1>3, ServiceBasics, PTL DEF Spec
==============================================================================
