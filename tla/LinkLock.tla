------------------------------- MODULE LinkLock -------------------------------
(***************************************************************************)
(* The identity-confirmed link lock of a session: the file-system calls of *)
(* packages/runtime/src/lock-adapter.ts, one call an action, so that the   *)
(* processes interleave between any two.  Writers are store instances;     *)
(* several may live in one process, whose synchronous sections exclude     *)
(* each other.                                                             *)
(***************************************************************************)
EXTENDS Naturals, Sequences, FiniteSets

CONSTANTS
  Writers,            \* store instances
  Pid,                \* the process each of them lives in
  MaxTokens,          \* bound on the lock identities ever written
  Absent, Blank       \* no file; a file that names nobody (the released
                      \* marker, or half-written residue)

Tokens == 1..MaxTokens

ASSUME LinkLockAssumption ==
  /\ Pid \in [Writers -> Nat \ {0}] /\ MaxTokens \in Nat \ {0}
  /\ Absent # Blank /\ Absent \notin Tokens /\ Blank \notin Tokens

VARIABLES
  path,               \* the lock file: Absent, Blank or the token it names
  aside,              \* the file a writer renamed away
  at,                 \* the writer's control point
  seen, token,        \* what it read at the path; its own token, 0: none
  held,               \* the tokens living processes know to be theirs
  pidOf,              \* the pid written beside each token
  alive               \* the running processes

lockVars == <<path, aside, seen, token, held, pidOf, alive>>

LockPoints == {"read", "reread", "judge", "rename", "confirm", "link", "linked",
               "release", "tomb"}
Synchronous == {"judge", "rename", "confirm", "link", "reread", "tomb"}

LockTypeOK ==
  /\ path \in Tokens \cup {Absent, Blank}
  /\ aside \in [Writers -> Tokens \cup {Absent, Blank}]
  /\ seen \in [Writers -> Tokens \cup {Blank}]
  /\ token \in [Writers -> 0..MaxTokens]
  /\ held \subseteq Tokens
  /\ pidOf \in Seq(Nat) /\ Len(pidOf) <= MaxTokens
  /\ alive \subseteq {Pid[w] : w \in Writers}
  /\ \A w \in Writers : at[w] = "closed" => token[w] = 0

Go(w, point) == at' = [at EXCEPT ![w] = point]
Identity(content) == IF content = Absent THEN Blank ELSE content

\* A free path, a dead holder, or residue of an earlier process with our pid.
Takeable(w) ==
  IF seen[w] = Blank THEN TRUE
  ELSE \/ pidOf[seen[w]] \notin alive
       \/ pidOf[seen[w]] = Pid[w] /\ seen[w] \notin held

\* linkSync and open "wx": create the path only if it is absent.
CreateIfAbsent(content) == path' = IF path = Absent THEN content ELSE path

(***************************************************************************)
(* acquire                                                                 *)
(***************************************************************************)

Acquire(w) ==
  /\ Len(pidOf) < MaxTokens
  /\ pidOf' = Append(pidOf, Pid[w])
  /\ token' = [token EXCEPT ![w] = Len(pidOf')]
  /\ held' = held \cup {Len(pidOf')}
  /\ Go(w, "reread")
  /\ UNCHANGED <<path, aside, seen, alive>>

Read(w) ==
  /\ at[w] \in {"read", "reread"}
  /\ seen' = [seen EXCEPT ![w] = Identity(path)]
  /\ Go(w, "judge")
  /\ UNCHANGED <<path, aside, token, held, pidOf, alive>>

\* The acquisition fails: its token is dropped.
GiveUp(w, point) ==
  /\ held' = held \ {token[w]} /\ token' = [token EXCEPT ![w] = 0]
  /\ seen' = [seen EXCEPT ![w] = Blank]
  /\ Go(w, point)
  /\ UNCHANGED <<path, aside, pidOf, alive>>

\* Takeable: on to the takeover.  Another instance of this process holds it:
\* sleep and retry, up to a cap.  A live foreign writer: refused.
Judge(w) ==
  /\ at[w] = "judge"
  /\ \/ Takeable(w) /\ Go(w, "rename") /\ UNCHANGED lockVars
     \/ /\ ~Takeable(w) /\ pidOf[seen[w]] = Pid[w]
        /\ Go(w, "read") /\ UNCHANGED lockVars
     \/ ~Takeable(w) /\ GiveUp(w, "refused")

RenameAway(w) ==
  /\ at[w] = "rename"
  /\ Go(w, IF path = Absent THEN "link" ELSE "confirm")
  /\ path' = Absent
  /\ aside' = [aside EXCEPT ![w] = path]
  /\ UNCHANGED <<seen, token, held, pidOf, alive>>

\* What was moved is what was judged; else it is a rival's live file and is
\* restored, unless the path is taken again.
Confirm(w) ==
  /\ at[w] = "confirm"
  /\ IF Identity(aside[w]) = seen[w]
     THEN Go(w, "link") /\ UNCHANGED <<path, aside>>
     ELSE /\ CreateIfAbsent(aside[w])
          /\ aside' = [aside EXCEPT ![w] = Absent]
          /\ Go(w, "reread")
  /\ UNCHANGED <<seen, token, held, pidOf, alive>>

\* The fsynced identity is linked at the path; a rival that linked first wins.
Link(w) ==
  /\ at[w] = "link"
  /\ CreateIfAbsent(token[w])
  /\ Go(w, IF path = Absent THEN "linked" ELSE "reread")
  /\ aside' = [aside EXCEPT ![w] = Absent]
  /\ seen' = [seen EXCEPT ![w] = Blank]
  /\ UNCHANGED <<token, held, pidOf, alive>>

(***************************************************************************)
(* verify and release                                                      *)
(***************************************************************************)

Holds(w) == path = token[w]

Release(w) ==
  /\ at[w] = "release"
  /\ held' = held \ {token[w]}
  /\ path' = Absent /\ aside' = [aside EXCEPT ![w] = path]
  /\ IF path = Absent
     THEN Go(w, "closed") /\ token' = [token EXCEPT ![w] = 0]
     ELSE Go(w, "tomb") /\ UNCHANGED token
  /\ UNCHANGED <<seen, pidOf, alive>>

\* Ours: the empty marker is left.  A rival's: it is restored.
Bury(w) ==
  /\ at[w] = "tomb"
  /\ CreateIfAbsent(IF aside[w] = token[w] THEN Blank ELSE aside[w])
  /\ aside' = [aside EXCEPT ![w] = Absent]
  /\ token' = [token EXCEPT ![w] = 0]
  /\ Go(w, "closed")
  /\ UNCHANGED <<seen, held, pidOf, alive>>

LockStep(w) ==
  \/ Read(w) \/ Judge(w) \/ RenameAway(w) \/ Confirm(w) \/ Link(w)
  \/ Release(w) \/ Bury(w)

\* A killed process leaves the path and what it moved as they are.
LockDies(p) ==
  LET gone == {w \in Writers : Pid[w] = p} IN
  /\ alive' = alive \ {p}
  /\ held' = held \ {token[w] : w \in gone}
  /\ token' = [w \in Writers |-> IF w \in gone THEN 0 ELSE token[w]]
  /\ aside' = [w \in Writers |-> IF w \in gone THEN Absent ELSE aside[w]]
  /\ at' = [w \in Writers |-> IF w \in gone THEN "closed" ELSE at[w]]
  /\ seen' = [w \in Writers |-> IF w \in gone THEN Blank ELSE seen[w]]
  /\ UNCHANGED <<path, pidOf>>
==============================================================================
