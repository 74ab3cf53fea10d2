----------------------------- MODULE SessionStore -----------------------------
(***************************************************************************)
(* The append path of packages/runtime/src/store.ts over the link lock,    *)
(* and the session above it that keeps the log in memory and is poisoned   *)
(* by the first refused write (session.ts, persist).                       *)
(*                                                                         *)
(* An instance serves its appends one at a time (its queue passes a        *)
(* rejection on to what waits behind it).  The events' content is their    *)
(* author and seq.  A process kill loses no completed write, so fsync      *)
(* changes nothing here; a kill inside a write leaves a torn tail.         *)
(***************************************************************************)
EXTENDS LinkLock

CONSTANTS
  MaxEvents,          \* bound on the length of a log
  MaxFaults,          \* bound on killed processes and failed writes
  DieAside            \* may a process die while it has a rival's lock aside?

ASSUME SessionStoreAssumption ==
  MaxEvents \in Nat /\ MaxFaults \in Nat /\ DieAside \in BOOLEAN

VARIABLES
  file,               \* the committed lines of the session's file
  torn,               \* does it end in a partial line?
  memory,             \* the log each writer's session keeps
  cut,                \* where a repair is about to truncate
  faults

storeVars == <<file, torn, memory, cut, faults>>
vars == <<at, lockVars, storeVars>>

Appending == {"repair", "cut", "compare", "write"}
Points == LockPoints \cup Appending \cup {"closed", "open", "refused"}
Record == [seq : 0..MaxEvents, by : Writers]
Garbage(w) == [seq |-> 0, by |-> w]

TypeOK ==
  /\ LockTypeOK
  /\ at \in [Writers -> Points]
  /\ file \in Seq(Record) /\ torn \in BOOLEAN
  /\ memory \in [Writers -> Seq(Record)]
  /\ cut \in [Writers -> Nat] /\ faults \in 0..MaxFaults

\* A session another process has left: free, released, or with a dead holder's
\* lock, which may name the pid of one of ours; with or without a torn tail.
Init ==
  /\ file = <<>> /\ torn \in BOOLEAN
  /\ \/ path \in {Absent, Blank} /\ pidOf = <<>>
     \/ path = 1 /\ pidOf \in {<<p>> : p \in {0} \cup {Pid[w] : w \in Writers}}
  /\ aside = [w \in Writers |-> Absent]
  /\ seen = [w \in Writers |-> Blank]
  /\ token = [w \in Writers |-> 0]
  /\ held = {} /\ alive = {Pid[w] : w \in Writers}
  /\ at = [w \in Writers |-> "closed"]
  /\ memory = [w \in Writers |-> <<>>]
  /\ cut = [w \in Writers |-> 0] /\ faults = 0

Contiguous == \A i \in DOMAIN file : file[i].seq = i

\* A fresh handle loads the committed lines; a corrupt file throws.
Open(w) ==
  /\ at[w] = "closed" /\ Len(pidOf) < MaxTokens /\ Contiguous
  /\ memory' = [memory EXCEPT ![w] = file]
  /\ Go(w, "open")
  /\ UNCHANGED <<lockVars, file, torn, cut, faults>>

\* The log in memory grows, then the event goes to the store, which takes the
\* lock if this instance has none.
Persist(w) ==
  /\ at[w] = "open" /\ Len(memory[w]) < MaxEvents
  /\ memory' = [memory EXCEPT ![w] =
                  Append(@, [seq |-> Len(@) + 1, by |-> w])]
  /\ IF token[w] = 0 THEN Acquire(w) ELSE Go(w, "linked") /\ UNCHANGED lockVars
  /\ UNCHANGED <<file, torn, cut, faults>>

Verify_Trusting(w) ==
  /\ at[w] = "linked" /\ Go(w, "repair")
  /\ UNCHANGED <<lockVars, storeVars>>

\* Possession is checked at every append.
Verify(w) ==
  /\ at[w] = "linked"
  /\ Go(w, IF Holds(w) THEN "repair" ELSE "refused")
  /\ UNCHANGED <<lockVars, storeVars>>

\* repairTornTail: the end of the last complete line is found, then cut at.
Repair(w) ==
  /\ at[w] = "repair"
  /\ Go(w, IF torn THEN "cut" ELSE "compare")
  /\ cut' = [cut EXCEPT ![w] = IF torn THEN Len(file) ELSE 0]
  /\ UNCHANGED <<lockVars, file, torn, memory, faults>>

Cut_OneMore(w) ==
  /\ at[w] = "cut"
  /\ Go(w, "compare")
  /\ file' = SubSeq(file, 1, cut[w] - 1) /\ torn' = FALSE
  /\ cut' = [cut EXCEPT ![w] = 0]
  /\ UNCHANGED <<lockVars, memory, faults>>

\* Behind a rival's cut the file ends before that, and is filled up with zeros.
Cut(w) ==
  /\ at[w] = "cut"
  /\ Go(w, "compare")
  /\ file' = IF Len(file) < cut[w] THEN file ELSE SubSeq(file, 1, cut[w])
  /\ torn' = (Len(file) < cut[w])
  /\ cut' = [cut EXCEPT ![w] = 0]
  /\ UNCHANGED <<lockVars, memory, faults>>

Compare_Skipped(w) ==
  /\ at[w] = "compare" /\ Go(w, "write")
  /\ UNCHANGED <<lockVars, storeVars>>

\* The event's seq against the last committed one; an unreadable last line is
\* refused too.
Compare(w) ==
  LET next == IF file = <<>> THEN 1 ELSE file[Len(file)].seq + 1
      readable == ~torn /\ (file # <<>> => file[Len(file)].seq # 0)
  IN /\ at[w] = "compare"
     /\ Go(w, IF readable /\ Len(memory[w]) = next THEN "write" ELSE "refused")
     /\ UNCHANGED <<lockVars, storeVars>>

\* The line goes to the end of the file, behind whatever is there by now.
WriteLine(w) ==
  /\ file' = Append(file, IF torn THEN Garbage(w)
                          ELSE memory[w][Len(memory[w])])
  /\ torn' = FALSE

Write(w) ==
  /\ at[w] = "write"
  /\ Go(w, "open") /\ WriteLine(w)
  /\ UNCHANGED <<lockVars, memory, cut, faults>>

Faulty == faults < MaxFaults /\ faults' = faults + 1

\* Nothing or a fragment is written, or the sync after the line fails.
FailedWrite(w) ==
  \/ torn' \in {torn, TRUE} /\ UNCHANGED file
  \/ WriteLine(w)

WriteFails_NotPoisoned(w) ==
  /\ at[w] = "write" /\ Faulty
  /\ FailedWrite(w) /\ Go(w, "open")
  /\ UNCHANGED <<lockVars, memory, cut>>

\* Every failure of the append poisons the session.
WriteFails(w) ==
  /\ at[w] = "write" /\ Faulty
  /\ FailedWrite(w) /\ Go(w, "refused")
  /\ UNCHANGED <<lockVars, memory, cut>>

\* close(): also of a poisoned session, while an acquisition sleeps (it is
\* cancelled) or before its result is used.
Close(w) ==
  /\ \/ /\ at[w] \in {"open", "refused", "linked"} /\ UNCHANGED lockVars
        /\ Go(w, IF token[w] = 0 THEN "closed" ELSE "release")
     \/ at[w] = "read" /\ GiveUp(w, "closed")
  /\ memory' = [memory EXCEPT ![w] = <<>>]
  /\ UNCHANGED <<file, torn, cut, faults>>

\* Two instances of one process never interleave inside a synchronous section.
Turn(w) ==
  /\ Pid[w] \in alive
  /\ \A v \in Writers \ {w} :
       Pid[v] = Pid[w] => at[v] \notin Synchronous \cup Appending

StoreStep(w) ==
  \/ Open(w) \/ Persist(w) \/ Verify(w) \/ Repair(w) \/ Cut(w) \/ Compare(w)
  \/ Write(w) \/ WriteFails(w) \/ Close(w)

\* A rival's live lock file this process has moved away and not put back.
Displaces(p) ==
  \E w \in Writers : /\ Pid[w] = p
                     /\ aside[w] \in held \ {token[w]}

Kill(p) ==
  /\ p \in alive /\ Faulty
  /\ Displaces(p) => DieAside
  /\ LockDies(p)
  /\ torn' \in {torn, torn \/ \E w \in Writers : Pid[w] = p /\ at[w] = "write"}
  /\ memory' = [w \in Writers |-> IF Pid[w] = p THEN <<>> ELSE memory[w]]
  /\ cut' = [w \in Writers |-> IF Pid[w] = p THEN 0 ELSE cut[w]]
  /\ UNCHANGED file

Restart(p) ==
  /\ p \notin alive /\ alive' = alive \cup {p}
  /\ UNCHANGED <<at, path, aside, seen, token, held, pidOf, storeVars>>

Done ==
  /\ \A w \in Writers : at[w] = "closed"
  /\ UNCHANGED vars

Next ==
  \/ \E w \in Writers : Turn(w) /\ LockStep(w) /\ UNCHANGED storeVars
  \/ \E w \in Writers : Turn(w) /\ StoreStep(w)
  \/ \E p \in {Pid[w] : w \in Writers} : Kill(p) \/ Restart(p)
  \/ Done

Spec == Init /\ [][Next]_vars

(***************************************************************************)
(* Properties.                                                             *)
(***************************************************************************)

\* At every instant at most one writer is inside an append, from its check of
\* the lock to its write (docs/adrs/0050: "exactly one writer at every
\* instant"; store.ts: "never two writers").
OneWriter == Cardinality({w \in Writers : at[w] \in Appending}) <= 1

\* Every load succeeds: the committed lines are records with the seqs 1, 2, ...
\* whoever wrote them and whatever was torn in between (docs/adrs/0050: "never
\* a lockless write, never a second writer").
LogIsContiguous == Contiguous

\* A committed line is never truncated or changed (store.ts: "committed records
\* are never truncated").
CommittedStays ==
  [][Len(file) <= Len(file') /\ SubSeq(file', 1, Len(file)) = file]_vars

\* The memory of a session that may go on is on disk, event for event: a
\* session that missed a rival's event, or whose own event was refused, never
\* writes another.
MemoryIsOnDisk ==
  \A w \in Writers : at[w] = "open" =>
    /\ Len(memory[w]) <= Len(file)
    /\ \A i \in DOMAIN memory[w] : memory[w][i] = file[i]
==============================================================================
