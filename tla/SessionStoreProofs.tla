------------------------- MODULE SessionStoreProofs -------------------------
(***************************************************************************)
(* Theorems about SessionStore: the types with any number of processes,    *)
(* and with two of them one writer at a time, from which the file is one   *)
(* contiguous log that only grows.                                         *)
(***************************************************************************)
EXTENDS SessionStore, SequenceTheorems, FiniteSetTheorems, TLAPS

(***************************************************************************)
(* The inductive invariant.                                                *)
(***************************************************************************)

\* Who owns which token.  Tokens are numbered as they are written, so a token
\* somebody has read is older than any that is still to be taken.
Written == 1..Len(pidOf)
Owns(w) ==
  /\ aside[w] \in Written \cup {Absent, Blank}
  /\ seen[w] \in Written \cup {Blank}
  /\ token[w] \in Written \cup {0}
  /\ token[w] # 0 => pidOf[token[w]] = Pid[w]
  /\ at[w] \in LockPoints \cup Appending => token[w] # 0
  /\ at[w] # "closed" => Pid[w] \in alive
TokenInv ==
  /\ path \in Written \cup {Absent, Blank}
  /\ \A w \in Writers : Owns(w)
  /\ \A v, w \in Writers : token[v] = token[w] /\ token[v] # 0 => v = w

\* A process knows the tokens of its writers to be its own, and no others; what
\* was judged takeable is none of them.
Known(w) ==
  /\ token[w] # 0 => (token[w] \in held <=> at[w] # "tomb")
  /\ at[w] \in {"rename", "confirm"} => seen[w] \notin held
HeldInv ==
  /\ \A w \in Writers : Known(w)
  /\ \A t \in held : \E w \in Writers : token[w] = t

\* The lock of a writer inside an append is at the path, or with a rival who will
\* put it back.
Displaced(w) ==
  /\ path = Absent
  /\ \E v \in Writers :
       Pid[v] # Pid[w] /\ at[v] \in {"confirm", "tomb"} /\ aside[v] = token[w]
WriterInv ==
  /\ \A w \in Writers : at[w] \in Appending => path = token[w] \/ Displaced(w)
  /\ \A v, w \in Writers : at[v] \in Appending /\ at[w] \in Appending => v = w

\* What a writer is about to do to the file, and what it believes of it: its
\* memory is the file's beginning, but for the event it is carrying to it.
Carrying == (LockPoints \ {"release", "tomb"}) \cup Appending
Behind(w, n) == n <= Len(file) /\ \A i \in 1..n : memory[w][i] = file[i]
Content(w) ==
  /\ \A i \in DOMAIN memory[w] : memory[w][i].seq = i
  /\ at[w] = "open" => Behind(w, Len(memory[w]))
  /\ at[w] = "cut" => cut[w] = Len(file)
  /\ at[w] = "write" => ~torn /\ Len(memory[w]) = Len(file) + 1
  /\ at[w] \in Carrying => Behind(w, Len(memory[w]) - 1)
FileInv == Contiguous /\ \A w \in Writers : Content(w)

\* A writer on its way to the file has an event for it.
CarryInv == \A w \in Writers : at[w] \in Carrying => memory[w] # <<>>

LockInv == TypeOK /\ TokenInv /\ HeldInv
TypeInv == LockInv /\ CarryInv
IInv == TypeInv /\ WriterInv /\ FileInv

\* Writers of at most two processes share the session.
TwoPids == \E p, q \in Nat : \A w \in Writers : Pid[w] \in {p, q}

LEMMA ConstantsAre ==
  /\ Pid \in [Writers -> Nat \ {0}] /\ MaxTokens \in Nat \ {0}
  /\ Absent # Blank
  /\ \A t \in 1..MaxTokens : t # Absent /\ t # Blank
  /\ MaxEvents \in Nat /\ MaxFaults \in Nat
<1>1. LinkLockAssumption /\ SessionStoreAssumption
  BY LinkLockAssumption, SessionStoreAssumption
<1> QED
  BY <1>1 DEF LinkLockAssumption, SessionStoreAssumption, Tokens

(***************************************************************************)
(* Types.                                                                  *)
(***************************************************************************)

\* A writer moves to another point of its code.
LEMMA GoIs ==
  ASSUME NEW w \in Writers, NEW point \in Points, at \in [Writers -> Points],
         Go(w, point)
  PROVE  /\ at' \in [Writers -> Points] /\ at'[w] = point
         /\ \A v \in Writers \ {w} : at'[v] = at[v]
  BY DEF Go

LEMMA PointsAre ==
  /\ \A p \in LockPoints \cup Appending : p \in Points /\ p # "closed"
  /\ {"closed", "open", "refused"} \subseteq Points
  BY DEF Points, LockPoints, Appending

LEMMA InitLock == Init => LockInv
<1> SUFFICES ASSUME Init PROVE LockInv
  OBVIOUS
<1>1. /\ path \in 1..Len(pidOf) \cup {Absent, Blank}
      /\ Len(pidOf) \in Nat /\ Len(pidOf) <= 1
      /\ pidOf \in Seq(Nat)
  <2>1. CASE pidOf = <<>>
    BY <2>1, ConstantsAre DEF Init
  <2>2. CASE path = 1 /\ pidOf \in {<<p>> : p \in {0} \cup {Pid[w] : w \in Writers}}
    <3>1. PICK p \in Nat : pidOf = <<p>>
      BY <2>2, ConstantsAre
    <3> QED
      BY <2>2, <3>1
  <2> QED
    BY <2>1, <2>2 DEF Init
<1>2. at \in [Writers -> Points] /\ \A w \in Writers : at[w] = "closed"
  BY PointsAre DEF Init
<1>3. /\ aside = [w \in Writers |-> Absent] /\ seen = [w \in Writers |-> Blank]
      /\ token = [w \in Writers |-> 0] /\ held = {}
      /\ alive = {Pid[w] : w \in Writers}
  BY DEF Init
<1>4. LockTypeOK
  <2>1. 1..Len(pidOf) \subseteq Tokens /\ Len(pidOf) <= MaxTokens
    <3>1. MaxTokens \in Nat /\ 1 <= MaxTokens
      BY ConstantsAre
    <3> QED
      BY <1>1, <3>1 DEF Tokens
  <2>2. path \in Tokens \cup {Absent, Blank}
    BY <1>1, <2>1
  <2>3. /\ aside \in [Writers -> Tokens \cup {Absent, Blank}]
        /\ seen \in [Writers -> Tokens \cup {Blank}]
        /\ token \in [Writers -> 0..MaxTokens]
    BY <1>3, ConstantsAre
  <2> QED
    BY <1>1, <1>3, <2>1, <2>2, <2>3 DEF LockTypeOK
<1>5. file \in Seq(Record) /\ torn \in BOOLEAN /\ faults \in 0..MaxFaults
  BY ConstantsAre DEF Init
<1>6. memory \in [Writers -> Seq(Record)] /\ cut \in [Writers -> Nat]
  BY DEF Init
<1>7. TokenInv
  <2>1. \A w \in Writers : at[w] \notin LockPoints \cup Appending
    BY <1>2, PointsAre
  <2> QED
    BY <1>1, <1>2, <1>3, <2>1 DEF TokenInv, Owns, Written
<1>8. HeldInv
  BY <1>2, <1>3 DEF HeldInv, Known
<1> QED
  BY <1>2, <1>4, <1>5, <1>6, <1>7, <1>8 DEF LockInv, TypeOK

(***************************************************************************)
(* One writer's step and the locks.                                        *)
(***************************************************************************)

\* A step of w leaves another writer as it is.
Same(v) ==
  at'[v] = at[v] /\ token'[v] = token[v] /\ seen'[v] = seen[v] /\ aside'[v] = aside[v]
Others(w) == \A v \in Writers \ {w} : Same(v)

\* What a step without a new token may do to who owns what.
Moves(w) ==
  /\ Others(w) /\ pidOf' = pidOf /\ alive' = alive
  /\ \/ path' \in {path, Absent, Blank, aside[w]}
     \/ path' = token[w] /\ token[w] # 0
  /\ aside'[w] \in {aside[w], path, Absent}
  /\ seen'[w] \in {seen[w], Blank} \/ seen'[w] = Identity(path)
  /\ token'[w] \in {token[w], 0}
  /\ at'[w] \in LockPoints \cup Appending => token'[w] # 0
  /\ at'[w] # "closed" => Pid[w] \in alive

LEMMA MovesToken ==
  ASSUME NEW w \in Writers, LockInv, Moves(w)
  PROVE  TokenInv'
<1>1. Owns(w) /\ path \in Written \cup {Absent, Blank} /\ Written' = Written
  BY DEF LockInv, TokenInv, Moves, Written
<1>2. path' \in Written \cup {Absent, Blank}
  BY <1>1 DEF Moves, Owns
<1>3. Owns(w)'
  <2>1. aside'[w] \in Written \cup {Absent, Blank}
    BY <1>1 DEF Moves, Owns
  <2>2. seen'[w] \in Written \cup {Blank}
    BY <1>1 DEF Moves, Owns, Identity
  <2>3. token'[w] \in Written \cup {0} /\ (token'[w] # 0 => pidOf'[token'[w]] = Pid[w])
    BY <1>1 DEF Moves, Owns
  <2>4. at'[w] # "closed" => Pid[w] \in alive'
    BY DEF Moves
  <2> QED
    BY <1>1, <2>1, <2>2, <2>3, <2>4 DEF Owns, Moves
<1>4. ASSUME NEW v \in Writers, v # w PROVE Owns(v)'
  BY <1>1, <1>4 DEF LockInv, TokenInv, Owns, Moves, Others, Same
<1>5. ASSUME NEW u \in Writers, NEW v \in Writers, token'[u] = token'[v],
             token'[u] # 0
      PROVE  u = v
  <2>1. \A x \in Writers : token'[x] # 0 => token'[x] = token[x]
    BY DEF Moves, Others, Same
  <2> QED
    BY <1>5, <2>1 DEF LockInv, TokenInv
<1> QED
  BY <1>1, <1>2, <1>3, <1>4, <1>5 DEF TokenInv

\* What it may do to the tokens a process knows.
Knows(w) ==
  /\ Others(w) /\ held' \in {held, held \ {token[w]}}
  /\ token'[w] \in {token[w], 0}
  /\ token'[w] # 0 => (token[w] \in held' <=> at'[w] # "tomb")
  /\ token'[w] # token[w] => token[w] \notin held'
  /\ at'[w] \in {"rename", "confirm"} => seen'[w] \notin held'

LEMMA KnowsHeld ==
  ASSUME NEW w \in Writers, LockInv, Knows(w)
  PROVE  HeldInv'
<1>1. TokenInv /\ HeldInv
  BY DEF LockInv
<1>2. Known(w)'
  BY DEF Knows, Known
<1>3. ASSUME NEW v \in Writers, v # w PROVE Known(v)'
  <2>1. Same(v) /\ Known(v)
    BY <1>1, <1>3 DEF Knows, Others, HeldInv
  <2>2. token[v] # 0 => token[v] # token[w]
    BY <1>1, <1>3 DEF TokenInv
  <2> QED
    BY <2>1, <2>2 DEF Knows, Known, Same
<1>4. ASSUME NEW t \in held' PROVE \E v \in Writers : token'[v] = t
  <2>1. PICK v \in Writers : token[v] = t
    BY <1>1 DEF Knows, HeldInv
  <2> QED
    BY <2>1 DEF Knows, Others, Same
<1> QED
  BY <1>2, <1>3, <1>4 DEF HeldInv

\* The types of the store's own variables.
StoreTypeOK ==
  /\ file \in Seq(Record) /\ torn \in BOOLEAN
  /\ memory \in [Writers -> Seq(Record)]
  /\ cut \in [Writers -> Nat] /\ faults \in 0..MaxFaults

LEMMA LockStepInv ==
  ASSUME NEW w \in Writers, LockInv, at' \in [Writers -> Points], LockTypeOK',
         StoreTypeOK', Moves(w), Knows(w)
  PROVE  LockInv'
<1>1. TypeOK'
  BY DEF TypeOK, StoreTypeOK
<1> QED
  BY <1>1, MovesToken, KnowsHeld DEF LockInv

LEMMA TypesAre ==
  LockInv => /\ TypeOK /\ LockTypeOK /\ StoreTypeOK /\ at \in [Writers -> Points]
             /\ TokenInv /\ HeldInv
             /\ Len(pidOf) \in Nat /\ Written \subseteq Tokens
             /\ \A w \in Writers : Owns(w) /\ Known(w)
             /\ held \subseteq Written
<1> SUFFICES ASSUME LockInv
             PROVE  /\ TypeOK /\ LockTypeOK /\ StoreTypeOK /\ at \in [Writers -> Points]
                    /\ TokenInv /\ HeldInv
                    /\ Len(pidOf) \in Nat /\ Written \subseteq Tokens
                    /\ \A w \in Writers : Owns(w) /\ Known(w)
                    /\ held \subseteq Written
  OBVIOUS
<1>1. /\ TypeOK /\ LockTypeOK /\ StoreTypeOK /\ at \in [Writers -> Points]
      /\ TokenInv /\ HeldInv
      /\ \A w \in Writers : Owns(w) /\ Known(w)
  BY DEF LockInv, TypeOK, StoreTypeOK, TokenInv, HeldInv
<1>2. Len(pidOf) \in Nat /\ Written \subseteq Tokens
  BY <1>1, ConstantsAre DEF LockTypeOK, Written, Tokens
<1>3. held \subseteq Written
  BY <1>1, ConstantsAre DEF HeldInv, LockTypeOK, Tokens, Owns
<1> QED
  BY <1>1, <1>2, <1>3

\* A step that leaves the locks alone.
LEMMA QuietLock ==
  ASSUME NEW w \in Writers, NEW point \in Points, LockInv, Go(w, point),
         UNCHANGED lockVars, StoreTypeOK', Pid[w] \in alive,
         point # "tomb", at[w] # "tomb", point = "closed" => token[w] = 0,
         point \in LockPoints \cup Appending => token[w] # 0,
         point \in {"rename", "confirm"} => seen[w] \notin held
  PROVE  LockInv'
<1>1. /\ at' \in [Writers -> Points] /\ at'[w] = point
      /\ \A v \in Writers \ {w} : at'[v] = at[v]
  BY GoIs, TypesAre
<1>2. /\ path' = path /\ aside' = aside /\ token' = token /\ held' = held
      /\ pidOf' = pidOf /\ alive' = alive /\ seen' = seen
  BY DEF lockVars
<1>3. LockTypeOK'
  BY <1>1, <1>2, TypesAre DEF LockTypeOK
<1>4. Others(w)
  BY <1>1, <1>2 DEF Others, Same
<1>5. Moves(w)
  BY <1>1, <1>2, <1>4 DEF Moves
<1>6. Knows(w)
  BY <1>1, <1>2, <1>4, TypesAre DEF Knows, Known
<1> QED
  BY <1>1, <1>3, <1>5, <1>6, LockStepInv

LEMMA StoreKept == LockInv /\ UNCHANGED storeVars => StoreTypeOK'
  BY TypesAre DEF StoreTypeOK, storeVars

LEMMA ReadLock ==
  ASSUME NEW w \in Writers, LockInv, Read(w), UNCHANGED storeVars
  PROVE  LockInv'
<1>1. /\ at[w] \in LockPoints /\ at[w] # "closed" /\ at[w] # "tomb"
      /\ "judge" \in Points /\ Go(w, "judge")
      /\ seen' = [seen EXCEPT ![w] = Identity(path)]
  BY PointsAre DEF Read, LockPoints
<1>2. /\ at' \in [Writers -> Points] /\ at'[w] = "judge"
      /\ \A v \in Writers \ {w} : at'[v] = at[v]
  BY <1>1, GoIs, TypesAre
<1>3. /\ path' = path /\ aside' = aside /\ token' = token /\ held' = held
      /\ pidOf' = pidOf /\ alive' = alive
  BY DEF Read
<1>4. token[w] # 0 /\ Pid[w] \in alive /\ token[w] \in held
  BY <1>1, TypesAre DEF Owns, Known
<1>5. LockTypeOK'
  <2>1. LockTypeOK
    BY TypesAre
  <2>2. seen' \in [Writers -> Tokens \cup {Blank}]
    BY <1>1, <2>1 DEF LockTypeOK, Identity
  <2> QED
    BY <1>2, <1>3, <2>1, <2>2 DEF LockTypeOK
<1>6. seen'[w] = Identity(path) /\ \A v \in Writers \ {w} : seen'[v] = seen[v]
  BY <1>1, TypesAre DEF LockTypeOK
<1>7. Others(w)
  BY <1>2, <1>3, <1>6 DEF Others, Same
<1>8. Moves(w)
  BY <1>2, <1>3, <1>4, <1>6, <1>7 DEF Moves
<1>9. Knows(w)
  BY <1>2, <1>3, <1>4, <1>7 DEF Knows
<1> QED
  BY <1>2, <1>5, <1>8, <1>9, StoreKept, LockStepInv

LEMMA GivesUpLock ==
  ASSUME NEW w \in Writers, NEW point \in {"closed", "refused"}, LockInv,
         GiveUp(w, point), at[w] \in {"read", "judge"}, StoreTypeOK', Pid[w] \in alive
  PROVE  LockInv'
<1>1. point \in Points /\ point \notin LockPoints \cup Appending
  BY DEF Points, LockPoints, Appending
<1>2. /\ at' \in [Writers -> Points] /\ at'[w] = point
      /\ \A v \in Writers \ {w} : at'[v] = at[v]
  BY <1>1, GoIs, TypesAre DEF GiveUp
<1>3. /\ path' = path /\ aside' = aside /\ held' = held \ {token[w]}
      /\ token' = [token EXCEPT ![w] = 0] /\ seen' = [seen EXCEPT ![w] = Blank]
      /\ pidOf' = pidOf /\ alive' = alive
  BY DEF GiveUp
<1>4. LockTypeOK'
  BY <1>2, <1>3, TypesAre, ConstantsAre DEF LockTypeOK
<1>5. token'[w] = 0 /\ seen'[w] = Blank
  BY <1>3, TypesAre DEF LockTypeOK
<1>6. Others(w)
  BY <1>2, <1>3, TypesAre DEF Others, Same, LockTypeOK
<1>7. Moves(w)
  BY <1>1, <1>2, <1>3, <1>5, <1>6 DEF Moves
<1>8. Knows(w)
  BY <1>1, <1>2, <1>3, <1>5, <1>6 DEF Knows
<1> QED
  BY <1>2, <1>4, <1>7, <1>8, LockStepInv

\* What is takeable is nobody's.
LEMMA TakeableIsFree ==
  ASSUME NEW w \in Writers, LockInv, Takeable(w)
  PROVE  seen[w] \notin held
<1>1. CASE seen[w] = Blank
  BY <1>1, TypesAre, ConstantsAre DEF Tokens
<1>2. CASE seen[w] # Blank /\ pidOf[seen[w]] \notin alive
  <2>1. ASSUME NEW v \in Writers, token[v] = seen[w], seen[w] \in held PROVE FALSE
    <3>1. token[v] # 0 /\ Owns(v)
      BY <2>1, TypesAre DEF Written
    <3>2. at[v] # "closed"
      BY <3>1, TypesAre DEF LockTypeOK
    <3> QED
      BY <1>2, <2>1, <3>1, <3>2 DEF Owns
  <2> QED
    BY <2>1, TypesAre DEF HeldInv
<1>3. CASE seen[w] # Blank /\ seen[w] \notin held
  BY <1>3
<1> QED
  BY <1>1, <1>2, <1>3 DEF Takeable

LEMMA JudgeLock ==
  ASSUME NEW w \in Writers, LockInv, Judge(w), UNCHANGED storeVars, Pid[w] \in alive
  PROVE  LockInv'
<1>1. /\ at[w] = "judge" /\ token[w] # 0 /\ StoreTypeOK'
      /\ {"read", "rename"} \subseteq Points
  BY TypesAre, StoreKept, PointsAre DEF Judge, Owns, LockPoints
<1>2. CASE Takeable(w) /\ Go(w, "rename") /\ UNCHANGED lockVars
  BY <1>1, <1>2, TakeableIsFree, QuietLock
<1>3. CASE Go(w, "read") /\ UNCHANGED lockVars
  BY <1>1, <1>3, QuietLock
<1>4. CASE GiveUp(w, "refused")
  BY <1>1, <1>4, GivesUpLock
<1> QED
  BY <1>2, <1>3, <1>4 DEF Judge

LEMMA RenameAwayLock ==
  ASSUME NEW w \in Writers, LockInv, RenameAway(w), UNCHANGED storeVars
  PROVE  LockInv'
<1>1. PICK point \in {"link", "confirm"} : Go(w, point)
  BY DEF RenameAway
<1>2. point \in Points /\ point \notin {"closed", "tomb", "rename"}
  BY PointsAre DEF LockPoints
<1>3. /\ at' \in [Writers -> Points] /\ at'[w] = point
      /\ \A v \in Writers \ {w} : at'[v] = at[v]
  BY <1>1, <1>2, GoIs, TypesAre
<1>4. /\ path' = Absent /\ aside' = [aside EXCEPT ![w] = path] /\ token' = token
      /\ held' = held /\ pidOf' = pidOf /\ alive' = alive /\ seen' = seen
  BY DEF RenameAway
<1>5. LockTypeOK'
  BY <1>2, <1>3, <1>4, TypesAre DEF LockTypeOK
<1>6. aside'[w] = path /\ Others(w)
  BY <1>3, <1>4, TypesAre DEF Others, Same, LockTypeOK
<1>7. /\ token[w] # 0 /\ Pid[w] \in alive /\ token[w] \in held /\ seen[w] \notin held
  BY TypesAre DEF RenameAway, Owns, Known, LockPoints
<1>8. Moves(w)
  BY <1>3, <1>4, <1>6, <1>7 DEF Moves
<1>9. Knows(w)
  BY <1>2, <1>3, <1>4, <1>6, <1>7 DEF Knows
<1> QED
  BY <1>3, <1>5, <1>8, <1>9, StoreKept, LockStepInv

\* What a writer has moved away goes back to the path, or away for good.
LEMMA ConfirmLock ==
  ASSUME NEW w \in Writers, LockInv, Confirm(w), UNCHANGED storeVars
  PROVE  LockInv'
<1>1. PICK point \in {"link", "reread"} : Go(w, point)
  BY DEF Confirm
<1>2. point \in Points /\ point \notin {"closed", "tomb", "rename", "confirm"}
  BY PointsAre DEF LockPoints
<1>3. /\ at' \in [Writers -> Points] /\ at'[w] = point
      /\ \A v \in Writers \ {w} : at'[v] = at[v]
  BY <1>1, <1>2, GoIs, TypesAre
<1>4. /\ path' \in {path, aside[w]}
      /\ aside' \in {aside, [aside EXCEPT ![w] = Absent]} /\ token' = token
      /\ held' = held /\ pidOf' = pidOf /\ alive' = alive /\ seen' = seen
  BY DEF Confirm, CreateIfAbsent
<1>5. LockTypeOK'
  BY <1>2, <1>3, <1>4, TypesAre DEF LockTypeOK
<1>6. aside'[w] \in {aside[w], Absent} /\ Others(w)
  BY <1>3, <1>4, TypesAre DEF Others, Same, LockTypeOK
<1>7. /\ token[w] # 0 /\ Pid[w] \in alive /\ token[w] \in held
  BY TypesAre DEF Confirm, Owns, Known, LockPoints
<1>8. Moves(w)
  BY <1>3, <1>4, <1>6, <1>7 DEF Moves
<1>9. Knows(w)
  BY <1>2, <1>3, <1>4, <1>6, <1>7 DEF Knows
<1> QED
  BY <1>3, <1>5, <1>8, <1>9, StoreKept, LockStepInv

LEMMA LinkLockInv ==
  ASSUME NEW w \in Writers, LockInv, Link(w), UNCHANGED storeVars
  PROVE  LockInv'
<1>1. PICK point \in {"linked", "reread"} : Go(w, point)
  BY DEF Link
<1>2. point \in Points /\ point \notin {"closed", "tomb", "rename", "confirm"}
  BY PointsAre DEF LockPoints
<1>3. /\ at' \in [Writers -> Points] /\ at'[w] = point
      /\ \A v \in Writers \ {w} : at'[v] = at[v]
  BY <1>1, <1>2, GoIs, TypesAre
<1>4. /\ path' \in {path, token[w]}
      /\ aside' = [aside EXCEPT ![w] = Absent] /\ token' = token
      /\ seen' = [seen EXCEPT ![w] = Blank]
      /\ held' = held /\ pidOf' = pidOf /\ alive' = alive
  BY DEF Link, CreateIfAbsent
<1>5. /\ token[w] # 0 /\ Pid[w] \in alive /\ token[w] \in held
      /\ token[w] \in Tokens
  BY TypesAre DEF Link, Owns, Known, LockPoints
<1>6. LockTypeOK'
  BY <1>2, <1>3, <1>4, <1>5, TypesAre DEF LockTypeOK
<1>7. aside'[w] = Absent /\ seen'[w] = Blank /\ Others(w)
  BY <1>3, <1>4, TypesAre DEF Others, Same, LockTypeOK
<1>8. Moves(w)
  BY <1>3, <1>4, <1>5, <1>7 DEF Moves
<1>9. Knows(w)
  BY <1>2, <1>3, <1>4, <1>5, <1>7 DEF Knows
<1> QED
  BY <1>3, <1>6, <1>8, <1>9, StoreKept, LockStepInv

LEMMA ReleaseLock ==
  ASSUME NEW w \in Writers, LockInv, Release(w), UNCHANGED storeVars
  PROVE  LockInv'
<1>1. PICK point \in {"closed", "tomb"} :
        /\ Go(w, point)
        /\ token' = IF point = "closed" THEN [token EXCEPT ![w] = 0] ELSE token
  BY DEF Release
<1>2. /\ point \in Points /\ "closed" \notin LockPoints \cup Appending
  BY PointsAre DEF LockPoints
<1>3. /\ at' \in [Writers -> Points] /\ at'[w] = point
      /\ \A v \in Writers \ {w} : at'[v] = at[v]
  BY <1>1, <1>2, GoIs, TypesAre
<1>4. /\ path' = Absent /\ aside' = [aside EXCEPT ![w] = path]
      /\ held' = held \ {token[w]} /\ seen' = seen
      /\ pidOf' = pidOf /\ alive' = alive
  BY DEF Release
<1>5. token[w] # 0 /\ Pid[w] \in alive
  BY TypesAre DEF Release, Owns, LockPoints
<1>6. LockTypeOK'
  <2>1. /\ token' \in [Writers -> 0..MaxTokens] /\ (point = "closed" => token'[w] = 0)
        /\ \A v \in Writers \ {w} : token'[v] = token[v]
    BY <1>1, TypesAre, ConstantsAre DEF LockTypeOK
  <2>2. /\ aside' \in [Writers -> Tokens \cup {Absent, Blank}] /\ held' \subseteq Tokens
        /\ path' \in Tokens \cup {Absent, Blank}
    BY <1>4, TypesAre DEF LockTypeOK
  <2>3. \A v \in Writers : at'[v] = "closed" => token'[v] = 0
    BY <1>3, <2>1, TypesAre DEF LockTypeOK
  <2> QED
    BY <1>4, <2>1, <2>2, <2>3, TypesAre DEF LockTypeOK
<1>7. /\ aside'[w] = path /\ Others(w)
      /\ token'[w] = IF point = "closed" THEN 0 ELSE token[w]
  BY <1>1, <1>3, <1>4, TypesAre DEF Others, Same, LockTypeOK
<1>8. Moves(w)
  BY <1>1, <1>2, <1>3, <1>4, <1>5, <1>7 DEF Moves
<1>9. Knows(w)
  BY <1>1, <1>3, <1>4, <1>5, <1>7 DEF Knows
<1> QED
  BY <1>3, <1>6, <1>8, <1>9, StoreKept, LockStepInv

LEMMA BuryLock ==
  ASSUME NEW w \in Writers, LockInv, Bury(w), UNCHANGED storeVars
  PROVE  LockInv'
<1>1. /\ "closed" \in Points /\ Go(w, "closed") /\ at[w] = "tomb"
      /\ "closed" \notin LockPoints \cup Appending
  BY PointsAre DEF Bury
<1>2. /\ at' \in [Writers -> Points] /\ at'[w] = "closed"
      /\ \A v \in Writers \ {w} : at'[v] = at[v]
  BY <1>1, GoIs, TypesAre
<1>3. /\ path' \in {path, Blank, aside[w]} /\ aside' = [aside EXCEPT ![w] = Absent]
      /\ token' = [token EXCEPT ![w] = 0] /\ held' = held /\ seen' = seen
      /\ pidOf' = pidOf /\ alive' = alive
  BY DEF Bury, CreateIfAbsent
<1>4. token[w] # 0 /\ token[w] \notin held
  BY <1>1, TypesAre DEF Owns, Known, LockPoints
<1>5. LockTypeOK'
  BY <1>2, <1>3, TypesAre, ConstantsAre DEF LockTypeOK
<1>6. aside'[w] = Absent /\ token'[w] = 0 /\ Others(w)
  BY <1>2, <1>3, TypesAre DEF Others, Same, LockTypeOK
<1>7. Moves(w)
  BY <1>1, <1>2, <1>3, <1>6 DEF Moves
<1>8. Knows(w)
  BY <1>2, <1>3, <1>4, <1>6 DEF Knows
<1> QED
  BY <1>2, <1>5, <1>7, <1>8, StoreKept, LockStepInv

LEMMA AcquireLock ==
  ASSUME NEW w \in Writers, LockInv, Acquire(w), token[w] = 0, StoreTypeOK',
         Pid[w] \in alive
  PROVE  LockInv'
<1> DEFINE n == Len(pidOf) + 1
<1>1. /\ "reread" \in Points /\ Go(w, "reread")
      /\ "reread" \notin {"closed", "tomb", "rename", "confirm"}
  BY PointsAre DEF Acquire, LockPoints
<1>2. /\ at' \in [Writers -> Points] /\ at'[w] = "reread"
      /\ \A v \in Writers \ {w} : at'[v] = at[v]
  BY <1>1, GoIs, TypesAre
<1>3. /\ Pid[w] \in Nat /\ pidOf \in Seq(Nat)
      /\ Len(pidOf) < MaxTokens /\ Len(pidOf) \in Nat
  BY TypesAre, ConstantsAre DEF LockTypeOK, Acquire
<1>4. /\ pidOf' \in Seq(Nat) /\ Len(pidOf') = n /\ pidOf'[n] = Pid[w]
      /\ \A t \in Written : pidOf'[t] = pidOf[t]
  <2>1. pidOf' = Append(pidOf, Pid[w])
    BY DEF Acquire
  <2> QED
    BY <1>3, <2>1 DEF Written
<1>5. /\ n \in Tokens /\ n \notin Written /\ n # 0
      /\ Written \subseteq Written' /\ n \in Written'
  BY <1>3, <1>4, ConstantsAre DEF Tokens, Written
<1>6. /\ token' = [token EXCEPT ![w] = n] /\ held' = held \cup {n}
      /\ path' = path /\ aside' = aside /\ seen' = seen /\ alive' = alive
  BY <1>4 DEF Acquire
<1>7. /\ token' \in [Writers -> 0..MaxTokens] /\ token'[w] = n
      /\ \A v \in Writers \ {w} : token'[v] = token[v]
  BY <1>5, <1>6, TypesAre, ConstantsAre DEF LockTypeOK, Tokens
<1>8. LockTypeOK'
  <2>1. \A v \in Writers : at'[v] = "closed" => token'[v] = 0
    BY <1>1, <1>2, <1>7, TypesAre DEF LockTypeOK
  <2>2. held' \subseteq Tokens /\ Len(pidOf') <= MaxTokens
    BY <1>3, <1>4, <1>5, <1>6, TypesAre, ConstantsAre DEF LockTypeOK
  <2>3. LockTypeOK
    BY TypesAre
  <2> QED
    BY <1>4, <1>6, <1>7, <2>1, <2>2, <2>3 DEF LockTypeOK
<1>9. TokenInv'
  <2>1. path' \in Written' \cup {Absent, Blank}
    BY <1>5, <1>6, TypesAre DEF TokenInv
  <2>2. Owns(w)'
    BY <1>2, <1>4, <1>5, <1>6, <1>7, TypesAre DEF Owns
  <2>3. ASSUME NEW v \in Writers, v # w PROVE Owns(v)'
    <3>1. Owns(v) /\ at'[v] = at[v] /\ token'[v] = token[v]
      BY <1>2, <1>7, <2>3, TypesAre
    <3>2. token[v] # 0 => pidOf'[token[v]] = Pid[v]
      BY <1>4, <3>1 DEF Owns
    <3> QED
      BY <1>5, <1>6, <3>1, <3>2 DEF Owns
  <2>4. ASSUME NEW u \in Writers, NEW v \in Writers, token'[u] = token'[v],
               token'[u] # 0
        PROVE  u = v
    <3>1. \A x \in Writers : token[x] \in Written \cup {0}
      BY TypesAre DEF Owns
    <3> QED
      BY <1>5, <1>7, <2>4, <3>1, TypesAre DEF TokenInv
  <2> QED
    BY <2>1, <2>2, <2>3, <2>4 DEF TokenInv
<1>10. HeldInv'
  <2>1. Known(w)'
    BY <1>1, <1>2, <1>6, <1>7 DEF Known
  <2>2. ASSUME NEW v \in Writers, v # w PROVE Known(v)'
    <3>1. Known(v) /\ Owns(v) /\ at'[v] = at[v] /\ token'[v] = token[v]
      BY <1>2, <1>7, <2>2, TypesAre
    <3>2. seen[v] # n /\ (token[v] # 0 => token[v] # n)
      BY <1>5, <3>1, ConstantsAre DEF Owns, Tokens
    <3> QED
      BY <1>6, <3>1, <3>2 DEF Known
  <2>3. ASSUME NEW t \in held' PROVE \E v \in Writers : token'[v] = t
    <3>1. CASE t = n
      BY <1>7, <3>1
    <3>2. CASE t \in held
      <4>1. PICK v \in Writers : token[v] = t
        BY <3>2, TypesAre DEF HeldInv
      <4>2. t # 0
        BY <3>2, TypesAre DEF Written
      <4> QED
        BY <1>7, <4>1, <4>2
    <3> QED
      BY <1>6, <2>3, <3>1, <3>2
  <2> QED
    BY <2>1, <2>2, <2>3 DEF HeldInv
<1> QED
  BY <1>2, <1>8, <1>9, <1>10 DEF LockInv, TypeOK, StoreTypeOK

LEMMA LockDiesLock ==
  ASSUME NEW p \in {Pid[w] : w \in Writers}, LockInv, LockDies(p), StoreTypeOK'
  PROVE  LockInv'
<1> DEFINE gone == {w \in Writers : Pid[w] = p}
<1>1. /\ alive' = alive \ {p} /\ held' = held \ {token[w] : w \in gone}
      /\ token' = [w \in Writers |-> IF w \in gone THEN 0 ELSE token[w]]
      /\ aside' = [w \in Writers |-> IF w \in gone THEN Absent ELSE aside[w]]
      /\ at' = [w \in Writers |-> IF w \in gone THEN "closed" ELSE at[w]]
      /\ seen' = [w \in Writers |-> IF w \in gone THEN Blank ELSE seen[w]]
      /\ path' = path /\ pidOf' = pidOf /\ Written' = Written
  BY DEF LockDies, Written
<1>2. at' \in [Writers -> Points]
  BY <1>1, TypesAre, PointsAre
<1>3. \A w \in gone : /\ at'[w] = "closed" /\ token'[w] = 0 /\ seen'[w] = Blank
                       /\ aside'[w] = Absent
  BY <1>1
<1>4. \A w \in Writers \ gone : Same(w)
  BY <1>1 DEF Same
<1>5. LockTypeOK'
  <2>1. LockTypeOK
    BY TypesAre
  <2>2. /\ aside' \in [Writers -> Tokens \cup {Absent, Blank}]
        /\ seen' \in [Writers -> Tokens \cup {Blank}]
    BY <1>1, <2>1 DEF LockTypeOK
  <2>3. token' \in [Writers -> 0..MaxTokens]
    BY <1>1, <2>1, ConstantsAre DEF LockTypeOK
  <2>4. \A w \in Writers : at'[w] = "closed" => token'[w] = 0
    BY <1>3, <1>4, <2>1 DEF LockTypeOK, Same
  <2> QED
    BY <1>1, <2>1, <2>2, <2>3, <2>4 DEF LockTypeOK
<1>6. TokenInv'
  <2>1. ASSUME NEW w \in gone PROVE Owns(w)'
    BY <1>3, PointsAre DEF Owns
  <2>2. ASSUME NEW w \in Writers \ gone PROVE Owns(w)'
    <3>1. Owns(w) /\ Same(w) /\ Pid[w] # p
      BY <1>4, TypesAre
    <3> QED
      BY <1>1, <3>1 DEF Owns, Same
  <2>3. \A v, w \in Writers : token'[v] = token'[w] /\ token'[v] # 0 => v = w
    BY <1>3, <1>4, TypesAre DEF TokenInv, Same
  <2> QED
    BY <1>1, <2>1, <2>2, <2>3, TypesAre DEF TokenInv
<1>7. HeldInv'
  <2>1. ASSUME NEW w \in gone PROVE Known(w)'
    BY <1>3 DEF Known
  <2>2. ASSUME NEW w \in Writers \ gone PROVE Known(w)'
    <3>1. Known(w) /\ Same(w)
      BY <1>4, TypesAre
    <3>2. token[w] # 0 => token[w] \notin {token[v] : v \in gone}
      BY TypesAre DEF TokenInv
    <3> QED
      BY <1>1, <3>1, <3>2 DEF Known, Same
  <2>3. ASSUME NEW t \in held' PROVE \E v \in Writers : token'[v] = t
    <3>1. PICK v \in Writers : token[v] = t
      BY <1>1, TypesAre DEF HeldInv
    <3> QED
      BY <1>1, <1>4, <3>1 DEF Same
  <2> QED
    BY <2>1, <2>2, <2>3 DEF HeldInv
<1> QED
  BY <1>2, <1>5, <1>6, <1>7 DEF LockInv, TypeOK, StoreTypeOK

LEMMA RestartLock ==
  ASSUME NEW p \in {Pid[w] : w \in Writers}, LockInv, Restart(p)
  PROVE  LockInv'
<1>1. /\ alive' = alive \cup {p} /\ path' = path /\ aside' = aside /\ seen' = seen
      /\ token' = token /\ held' = held /\ pidOf' = pidOf /\ at' = at
      /\ UNCHANGED storeVars
  BY DEF Restart
<1>2. StoreTypeOK'
  BY <1>1, StoreKept
<1>3. LockTypeOK'
  BY <1>1, TypesAre DEF LockTypeOK
<1>4. TokenInv'
  BY <1>1, TypesAre DEF TokenInv, Owns, Written
<1>5. HeldInv'
  BY <1>1, TypesAre DEF HeldInv, Known
<1> QED
  BY <1>1, <1>2, <1>3, <1>4, <1>5, TypesAre DEF LockInv, TypeOK, StoreTypeOK

(***************************************************************************)
(* One writer's step and the store.                                        *)
(***************************************************************************)

\* A step on the lock neither starts an append nor ends one.
LEMMA LockPoint ==
  ASSUME NEW w \in Writers, LockStep(w)
  PROVE  \E point \in Points :
           /\ Go(w, point) /\ point \notin Appending \cup {"open"}
           /\ point \in Carrying => at[w] \in Carrying
           /\ at[w] \notin Appending \cup {"open", "closed", "refused"}
<1> USE DEF Points, LockPoints, Appending, Carrying
<1>1. CASE Read(w)
  BY <1>1 DEF Read
<1>2. CASE Judge(w)
  BY <1>2 DEF Judge, GiveUp
<1>3. CASE RenameAway(w)
  BY <1>3 DEF RenameAway
<1>4. CASE Confirm(w)
  BY <1>4 DEF Confirm
<1>5. CASE Link(w)
  BY <1>5 DEF Link
<1>6. CASE Release(w)
  BY <1>6 DEF Release
<1>7. CASE Bury(w)
  BY <1>7 DEF Bury
<1> QED
  BY <1>1, <1>2, <1>3, <1>4, <1>5, <1>6, <1>7 DEF LockStep

LEMMA LockStepKeeps ==
  ASSUME NEW w \in Writers, TypeInv, Pid[w] \in alive, LockStep(w), UNCHANGED storeVars
  PROVE  TypeInv'
<1>1. LockInv'
  BY ReadLock, JudgeLock, RenameAwayLock, ConfirmLock, LinkLockInv, ReleaseLock,
     BuryLock
  DEF LockStep, TypeInv
<1>2. PICK point \in Points : Go(w, point) /\ (point \in Carrying => at[w] \in Carrying)
  BY LockPoint
<1>3. CarryInv'
  BY <1>2, GoIs, TypesAre DEF TypeInv, CarryInv, storeVars
<1> QED
  BY <1>1, <1>3 DEF TypeInv

\* The last event of a writer's memory is a record, with its position as seq.
LEMMA LastIs ==
  ASSUME NEW w \in Writers, StoreTypeOK, memory[w] # <<>>
  PROVE  /\ Len(memory[w]) \in Nat \ {0} /\ Len(memory[w]) \in DOMAIN memory[w]
         /\ memory[w][Len(memory[w])] \in Record
  BY DEF StoreTypeOK

LEMMA GarbageIs == \A w \in Writers : Garbage(w) \in Record
  BY ConstantsAre DEF Garbage, Record

LEMMA WriteLineTypes ==
  ASSUME NEW w \in Writers, TypeInv, at[w] = "write", WriteLine(w)
  PROVE  file' \in Seq(Record) /\ torn' \in BOOLEAN
<1>1. at[w] \in Carrying
  BY DEF Carrying, Appending
<1>2. memory[w] # <<>> /\ StoreTypeOK
  BY <1>1, TypesAre DEF TypeInv, CarryInv
<1> DEFINE line == IF torn THEN Garbage(w) ELSE memory[w][Len(memory[w])]
<1>3. line \in Record
  BY <1>2, LastIs, GarbageIs
<1>4. file' = Append(file, line) /\ torn' = FALSE
  BY DEF WriteLine
<1>5. file \in Seq(Record)
  BY <1>2 DEF StoreTypeOK
<1>6. \A x \in Record : Append(file, x) \in Seq(Record)
  BY <1>5
<1> QED
  BY <1>3, <1>4, <1>6

LEMMA PersistTypes ==
  ASSUME NEW w \in Writers, StoreTypeOK, Persist(w)
  PROVE  /\ StoreTypeOK' /\ memory'[w] = Append(memory[w],
               [seq |-> Len(memory[w]) + 1, by |-> w])
         /\ \A v \in Writers \ {w} : memory'[v] = memory[v]
<1> DEFINE e == [seq |-> Len(memory[w]) + 1, by |-> w]
<1>1. memory[w] \in Seq(Record) /\ Len(memory[w]) \in Nat /\ Len(memory[w]) < MaxEvents
  BY DEF Persist, StoreTypeOK
<1>2. e \in Record
  BY <1>1, ConstantsAre DEF Record
<1>3. memory' = [memory EXCEPT ![w] = Append(memory[w], e)]
  BY DEF Persist
<1>4. Append(memory[w], e) \in Seq(Record)
  BY <1>1, <1>2
<1>5. memory' \in [Writers -> Seq(Record)]
  BY <1>3, <1>4 DEF StoreTypeOK
<1> QED
  BY <1>3, <1>5 DEF StoreTypeOK, Persist

LEMMA CutTypes ==
  ASSUME NEW w \in Writers, StoreTypeOK, Cut(w)
  PROVE  StoreTypeOK'
<1>1. cut[w] \in Nat /\ Len(file) \in Nat /\ file \in Seq(Record)
  BY DEF StoreTypeOK
<1>2. CASE Len(file) < cut[w]
  BY <1>1, <1>2 DEF Cut, StoreTypeOK
<1>3. CASE ~(Len(file) < cut[w])
  <2>1. SubSeq(file, 1, cut[w]) \in Seq(Record)
    BY <1>1, <1>3
  <2> QED
    BY <1>1, <1>3, <2>1 DEF Cut, StoreTypeOK
<1> QED
  BY <1>2, <1>3

LEMMA StoreStepTypes ==
  ASSUME NEW w \in Writers, TypeInv, StoreStep(w)
  PROVE  StoreTypeOK'
<1>1. StoreTypeOK
  BY TypesAre DEF TypeInv
<1>2. CASE Open(w)
  BY <1>1, <1>2 DEF Open, StoreTypeOK
<1>3. CASE Persist(w)
  BY <1>1, <1>3, PersistTypes
<1>4. CASE Verify(w) \/ Compare(w)
  BY <1>1, <1>4 DEF Verify, Compare, StoreTypeOK, storeVars
<1>5. CASE Repair(w)
  BY <1>1, <1>5 DEF Repair, StoreTypeOK
<1>6. CASE Cut(w)
  BY <1>1, <1>6, CutTypes
<1>7. CASE Write(w)
  <2>1. at[w] = "write" /\ WriteLine(w) /\ UNCHANGED <<memory, cut, faults>>
    BY <1>7 DEF Write
  <2> QED
    BY <1>1, <2>1, WriteLineTypes DEF StoreTypeOK
<1>8. CASE WriteFails(w)
  <2>1. /\ at[w] = "write" /\ UNCHANGED <<memory, cut>>
        /\ faults < MaxFaults /\ faults' = faults + 1
        /\ (torn' \in {torn, TRUE} /\ file' = file) \/ WriteLine(w)
    BY <1>8 DEF WriteFails, Faulty, FailedWrite
  <2>2. faults' \in 0..MaxFaults
    BY <1>1, <2>1, ConstantsAre DEF StoreTypeOK
  <2>3. file' \in Seq(Record) /\ torn' \in BOOLEAN
    BY <1>1, <2>1, WriteLineTypes DEF StoreTypeOK
  <2> QED
    BY <1>1, <2>1, <2>2, <2>3 DEF StoreTypeOK
<1>9. CASE Close(w)
  BY <1>1, <1>9 DEF Close, StoreTypeOK
<1> QED
  BY <1>2, <1>3, <1>4, <1>5, <1>6, <1>7, <1>8, <1>9 DEF StoreStep

\* Where a step of the store leaves its writer, and that but for acquiring and
\* giving up it leaves the locks alone.
LEMMA StorePoint ==
  ASSUME NEW w \in Writers, LockInv, StoreStep(w)
  PROVE  \/ \E point \in Points :
              /\ Go(w, point) /\ UNCHANGED lockVars
              /\ point \notin {"tomb", "rename", "confirm"} /\ at[w] # "tomb"
              /\ point = "closed" => token[w] = 0
              /\ point \in LockPoints \cup Appending => token[w] # 0
              /\ point \in Appending =>
                   at[w] \in Appending \/ (at[w] = "linked" /\ Holds(w))
              /\ at[w] \notin {"confirm", "tomb"}
         \/ at[w] = "open" /\ token[w] = 0 /\ Acquire(w)
         \/ at[w] = "read" /\ GiveUp(w, "closed")
<1> USE DEF Points, LockPoints, Appending
<1>1. Owns(w) /\ (at[w] = "closed" => token[w] = 0)
  BY TypesAre DEF LockTypeOK
<1>2. at[w] \in LockPoints \cup Appending => token[w] # 0
  BY <1>1 DEF Owns
<1>3. CASE Open(w)
  BY <1>3 DEF Open
<1>4. CASE Persist(w)
  BY <1>4 DEF Persist
<1>5. CASE Verify(w)
  BY <1>2, <1>5 DEF Verify
<1>6. CASE Repair(w)
  BY <1>2, <1>6 DEF Repair
<1>7. CASE Cut(w)
  BY <1>2, <1>7 DEF Cut
<1>8. CASE Compare(w)
  BY <1>2, <1>8 DEF Compare
<1>9. CASE Write(w) \/ WriteFails(w)
  BY <1>2, <1>9 DEF Write, WriteFails
<1>10. CASE Close(w)
  BY <1>2, <1>10 DEF Close
<1> QED
  BY <1>3, <1>4, <1>5, <1>6, <1>7, <1>8, <1>9, <1>10 DEF StoreStep

LEMMA StoreStepLock ==
  ASSUME NEW w \in Writers, TypeInv, StoreStep(w), Pid[w] \in alive
  PROVE  LockInv'
<1>1. StoreTypeOK' /\ LockInv
  BY StoreStepTypes DEF TypeInv
<1>2. CASE at[w] = "open" /\ token[w] = 0 /\ Acquire(w)
  BY <1>1, <1>2, AcquireLock
<1>3. CASE at[w] = "read" /\ GiveUp(w, "closed")
  BY <1>1, <1>3, GivesUpLock
<1>4. ASSUME NEW point \in Points, Go(w, point), UNCHANGED lockVars,
             point \notin {"tomb", "rename", "confirm"}, at[w] # "tomb",
             point = "closed" => token[w] = 0,
             point \in LockPoints \cup Appending => token[w] # 0
      PROVE  LockInv'
  BY <1>1, <1>4, QuietLock
<1> QED
  BY <1>1, <1>2, <1>3, <1>4, StorePoint

LEMMA StoreStepKeeps ==
  ASSUME NEW w \in Writers, TypeInv, StoreStep(w), Pid[w] \in alive
  PROVE  TypeInv'
<1> USE DEF Carrying, LockPoints, Appending
<1>1. /\ at \in [Writers -> Points] /\ StoreTypeOK
      /\ \A v \in Writers : at[v] \in Carrying => memory[v] # <<>>
  BY TypesAre DEF TypeInv, CarryInv
<1>2. ASSUME NEW v \in Writers, v # w
      PROVE  at'[v] = at[v] /\ memory'[v] = memory[v]
  <2>1. CASE Persist(w)
    BY <1>1, <1>2, <2>1 DEF Persist, Acquire, Go, StoreTypeOK
  <2>2. CASE Open(w) \/ Close(w)
    BY <1>1, <1>2, <2>2 DEF Open, Close, GiveUp, Go, StoreTypeOK
  <2>3. CASE Verify(w) \/ Repair(w) \/ Cut(w) \/ Compare(w) \/ Write(w) \/ WriteFails(w)
    BY <1>1, <1>2, <2>3
    DEF Verify, Repair, Cut, Compare, Write, WriteFails, Go, storeVars
  <2> QED
    BY <2>1, <2>2, <2>3 DEF StoreStep
<1>3. at'[w] \in Carrying => memory'[w] # <<>>
  <2>1. CASE Persist(w)
    <3>1. /\ memory'[w] = Append(memory[w], [seq |-> Len(memory[w]) + 1, by |-> w])
          /\ memory[w] \in Seq(Record)
      BY <1>1, <2>1, PersistTypes DEF StoreTypeOK
    <3> QED
      BY <3>1
  <2>2. CASE Open(w)
    BY <1>1, <2>2 DEF Open, Go
  <2>3. CASE Close(w)
    BY <1>1, <2>3 DEF Close, GiveUp, Go
  <2>4. CASE Write(w) \/ WriteFails(w)
    BY <1>1, <2>4 DEF Write, WriteFails, Go
  <2>5. CASE Verify(w) \/ Repair(w) \/ Cut(w) \/ Compare(w)
    BY <1>1, <2>5 DEF Verify, Repair, Cut, Compare, storeVars
  <2> QED
    BY <2>1, <2>2, <2>3, <2>4, <2>5 DEF StoreStep
<1>4. CarryInv'
  BY <1>1, <1>2, <1>3 DEF CarryInv
<1> QED
  BY <1>4, StoreStepLock DEF TypeInv

\* What a killed process leaves in the store.
LEMMA KillIs ==
  ASSUME NEW p \in {Pid[w] : w \in Writers}, TypeInv, Kill(p)
  PROVE  /\ StoreTypeOK' /\ file' = file
         /\ torn' # torn => \E v \in Writers : Pid[v] = p /\ at[v] = "write"
         /\ \A v \in Writers :
              /\ Pid[v] = p => at'[v] = "closed" /\ memory'[v] = <<>>
              /\ Pid[v] # p => Same(v) /\ memory'[v] = memory[v] /\ cut'[v] = cut[v]
<1>1. StoreTypeOK
  BY TypesAre DEF TypeInv
<1>2. /\ file' = file /\ torn' \in BOOLEAN /\ faults' \in 0..MaxFaults
      /\ torn' # torn => \E v \in Writers : Pid[v] = p /\ at[v] = "write"
  <2>1. /\ faults < MaxFaults /\ faults' = faults + 1 /\ file' = file
        /\ \/ torn' = torn
           \/ torn' = (torn \/ \E v \in Writers : Pid[v] = p /\ at[v] = "write")
    BY DEF Kill, Faulty
  <2>2. faults' \in 0..MaxFaults
    BY <1>1, <2>1, ConstantsAre DEF StoreTypeOK
  <2>3. torn' \in BOOLEAN
    BY <1>1, <2>1 DEF StoreTypeOK
  <2>4. ASSUME torn' # torn PROVE \E v \in Writers : Pid[v] = p /\ at[v] = "write"
    BY <1>1, <2>1, <2>4 DEF StoreTypeOK
  <2> QED
    BY <2>1, <2>2, <2>3, <2>4
<1>3. /\ memory' = [w \in Writers |-> IF Pid[w] = p THEN <<>> ELSE memory[w]]
      /\ cut' = [w \in Writers |-> IF Pid[w] = p THEN 0 ELSE cut[w]]
  BY DEF Kill
<1>4. /\ memory' \in [Writers -> Seq(Record)] /\ cut' \in [Writers -> Nat]
      /\ \A v \in Writers :
           /\ Pid[v] = p => memory'[v] = <<>>
           /\ Pid[v] # p => memory'[v] = memory[v] /\ cut'[v] = cut[v]
  BY <1>1, <1>3 DEF StoreTypeOK
<1>5. \A v \in Writers : (Pid[v] = p => at'[v] = "closed") /\ (Pid[v] # p => Same(v))
  BY DEF Kill, LockDies, Same
<1> QED
  BY <1>1, <1>2, <1>4, <1>5 DEF StoreTypeOK

LEMMA NextTypes == TypeInv /\ [Next]_vars => TypeInv'
<1> SUFFICES ASSUME TypeInv, [Next]_vars PROVE TypeInv'
  OBVIOUS
<1>1. ASSUME NEW w \in Writers, Turn(w), LockStep(w), UNCHANGED storeVars PROVE TypeInv'
  BY <1>1, LockStepKeeps DEF Turn
<1>2. ASSUME NEW w \in Writers, Turn(w), StoreStep(w) PROVE TypeInv'
  BY <1>2, StoreStepKeeps DEF Turn
<1>3. ASSUME NEW p \in {Pid[w] : w \in Writers}, Kill(p) PROVE TypeInv'
  <2>1. LockInv'
    BY <1>3, KillIs, LockDiesLock DEF Kill, TypeInv
  <2>2. "closed" \notin Carrying
    BY DEF Carrying, LockPoints, Appending
  <2>3. CarryInv'
    BY <1>3, <2>2, KillIs DEF TypeInv, CarryInv, Same
  <2> QED
    BY <2>1, <2>3 DEF TypeInv
<1>4. ASSUME NEW p \in {Pid[w] : w \in Writers}, Restart(p) PROVE TypeInv'
  <2>1. LockInv'
    BY <1>4, RestartLock DEF TypeInv
  <2>2. CarryInv'
    BY <1>4 DEF Restart, TypeInv, CarryInv, storeVars
  <2> QED
    BY <2>1, <2>2 DEF TypeInv
<1>5. CASE UNCHANGED vars
  BY <1>5
  DEF vars, lockVars, storeVars, TypeInv, LockInv, CarryInv, TypeOK, LockTypeOK,
      TokenInv, Owns, Written, HeldInv, Known
<1> QED
  BY <1>1, <1>2, <1>3, <1>4, <1>5 DEF Next, Done

(***************************************************************************)
(* One writer at a time.                                                   *)
(***************************************************************************)

\* Inside an append a writer owns its token, and its process knows it.
LEMMA AppendingIs ==
  ASSUME NEW u \in Writers, LockInv, at[u] \in Appending
  PROVE  /\ token[u] \in held /\ token[u] \in Written /\ token[u] # 0
         /\ token[u] # Absent /\ token[u] # Blank
<1>1. Owns(u) /\ Known(u) /\ at[u] # "tomb" /\ token[u] # 0
  BY TypesAre DEF Owns, Appending
<1> QED
  BY <1>1, TypesAre, ConstantsAre DEF Owns, Known, Tokens

\* Who takes a step while another is inside an append is of the other process.
LEMMA TurnIs ==
  ASSUME NEW w \in Writers, NEW u \in Writers, Turn(w), at[u] \in Appending, u # w
  PROVE  Pid[u] # Pid[w]
  BY DEF Turn

\* Of two processes only the one writer that moved a lock away may step before
\* it is back.
LEMMA DisplacerSteps ==
  ASSUME NEW w \in Writers, NEW u \in Writers, TwoPids, Turn(w),
         at[u] \in Appending, u # w, Displaced(u)
  PROVE  at[w] \in {"confirm", "tomb"} /\ aside[w] = token[u] /\ path = Absent
<1>1. PICK v \in Writers :
        Pid[v] # Pid[u] /\ at[v] \in {"confirm", "tomb"} /\ aside[v] = token[u]
  BY DEF Displaced
<1>2. Pid[v] = Pid[w]
  BY <1>1, TurnIs DEF TwoPids
<1>3. at[v] \in Synchronous
  BY <1>1 DEF Synchronous
<1> QED
  BY <1>1, <1>2, <1>3 DEF Turn, Displaced

LEMMA LockStepWriter ==
  ASSUME NEW w \in Writers, TwoPids, TypeInv, WriterInv, Turn(w), LockStep(w)
  PROVE  WriterInv'
<1>1. PICK point \in Points : Go(w, point) /\ point \notin Appending
  BY LockPoint
<1>2. at'[w] \notin Appending /\ \A v \in Writers \ {w} : at'[v] = at[v]
  BY <1>1, GoIs, TypesAre DEF TypeInv
<1>3. \A v \in Writers \ {w} : token'[v] = token[v]
  BY TypesAre
  DEF TypeInv, LockTypeOK, LockStep, Read, Judge, GiveUp, RenameAway, Confirm, Link,
      Release, Bury, lockVars
<1>4. ASSUME NEW u \in Writers, at'[u] \in Appending
      PROVE  (path = token[u] \/ Displaced(u))'
  <2>1. u # w /\ at[u] \in Appending /\ token'[u] = token[u] /\ Pid[u] # Pid[w]
    BY <1>2, <1>3, <1>4, TurnIs
  <2>2. /\ token[u] \in held /\ token[u] # 0 /\ token[u] # Absent /\ token[u] # Blank
        /\ token[u] # token[w]
    BY <2>1, AppendingIs, TypesAre DEF TypeInv, TokenInv
  <2>3. at \in [Writers -> Points] /\ aside \in [Writers -> Tokens \cup {Absent, Blank}]
    BY TypesAre DEF TypeInv, LockTypeOK
  <2>4. CASE path = token[u]
    <3>1. CASE Read(w) \/ Judge(w)
      BY <2>1, <2>4, <3>1 DEF Read, Judge, GiveUp, lockVars
    <3>2. CASE RenameAway(w)
      <4>1. /\ path' = Absent /\ aside' = [aside EXCEPT ![w] = path]
            /\ Go(w, "confirm")
        BY <2>2, <2>4, <3>2 DEF RenameAway
      <4>2. at'[w] = "confirm" /\ aside'[w] = token'[u]
        BY <2>1, <2>3, <2>4, <4>1 DEF Go
      <4> QED
        BY <2>1, <4>1, <4>2 DEF Displaced
    <3>3. CASE Confirm(w) \/ Link(w) \/ Bury(w)
      BY <2>1, <2>2, <2>4, <3>3 DEF Confirm, Link, Bury, CreateIfAbsent
    <3>4. CASE Release(w)
      <4>1. /\ path' = Absent /\ aside' = [aside EXCEPT ![w] = path]
            /\ Go(w, "tomb")
        BY <2>2, <2>4, <3>4 DEF Release
      <4>2. at'[w] = "tomb" /\ aside'[w] = token'[u]
        BY <2>1, <2>3, <2>4, <4>1 DEF Go
      <4> QED
        BY <2>1, <4>1, <4>2 DEF Displaced
    <3> QED
      BY <3>1, <3>2, <3>3, <3>4 DEF LockStep
  <2>5. CASE Displaced(u)
    <3>1. at[w] \in {"confirm", "tomb"} /\ aside[w] = token[u] /\ path = Absent
      BY <2>1, <2>5, DisplacerSteps
    <3>2. CASE Confirm(w)
      <4>1. seen[w] \notin held
        BY <3>2, TypesAre DEF TypeInv, Confirm, Known
      <4>2. Identity(aside[w]) # seen[w]
        BY <2>2, <3>1, <4>1 DEF Identity
      <4> QED
        BY <2>1, <3>1, <3>2, <4>2 DEF Confirm, CreateIfAbsent
    <3>3. CASE Bury(w)
      BY <2>1, <2>2, <3>1, <3>3 DEF Bury, CreateIfAbsent
    <3>4. ~(Read(w) \/ Judge(w) \/ RenameAway(w) \/ Link(w) \/ Release(w))
      BY <3>1 DEF Read, Judge, RenameAway, Link, Release
    <3> QED
      BY <3>2, <3>3, <3>4 DEF LockStep
  <2> QED
    BY <2>1, <2>4, <2>5 DEF WriterInv
<1>5. ASSUME NEW u \in Writers, NEW v \in Writers, at'[u] \in Appending,
             at'[v] \in Appending
      PROVE  u = v
  BY <1>2, <1>5 DEF WriterInv
<1> QED
  BY <1>4, <1>5 DEF WriterInv

LEMMA StoreStepWriter ==
  ASSUME NEW w \in Writers, TwoPids, TypeInv, WriterInv, Turn(w), StoreStep(w)
  PROVE  WriterInv'
<1> DEFINE Local ==
      /\ path' = path /\ aside' = aside
      /\ \A v \in Writers \ {w} : at'[v] = at[v] /\ token'[v] = token[v]
      /\ at[w] \notin {"confirm", "tomb"}
      /\ at'[w] \in Appending =>
           token'[w] = token[w] /\ (at[w] \in Appending \/ path = token[w])
<1>1. Local
  <2>1. /\ LockInv /\ at \in [Writers -> Points]
        /\ token \in [Writers -> 0..MaxTokens]
    BY TypesAre DEF TypeInv, LockTypeOK
  <2>2. CASE at[w] = "open" /\ token[w] = 0 /\ Acquire(w)
    BY <2>1, <2>2 DEF Acquire, Go, Appending
  <2>3. CASE at[w] = "read" /\ GiveUp(w, "closed")
    BY <2>1, <2>3 DEF GiveUp, Go, Appending
  <2>4. ASSUME NEW point \in Points, Go(w, point), UNCHANGED lockVars,
               at[w] \notin {"confirm", "tomb"},
               point \in Appending =>
                 at[w] \in Appending \/ (at[w] = "linked" /\ Holds(w))
        PROVE  Local
    <3>1. at'[w] = point /\ \A v \in Writers \ {w} : at'[v] = at[v]
      BY <2>1, <2>4, GoIs
    <3> QED
      BY <2>4, <3>1 DEF lockVars, Holds
  <2> HIDE DEF Local
  <2> QED
    BY <2>1, <2>2, <2>3, <2>4, StorePoint
<1>2. ASSUME NEW u \in Writers, u # w, at'[u] \in Appending
      PROVE  /\ at[u] \in Appending /\ path = token[u] /\ path' = token'[u]
             /\ token[u] # 0
  <2>1. at[u] \in Appending /\ token'[u] = token[u] /\ token[u] # 0
    BY <1>1, <1>2, AppendingIs DEF TypeInv
  <2>2. ~Displaced(u)
    BY <1>1, <1>2, <2>1, DisplacerSteps
  <2> QED
    BY <1>1, <2>1, <2>2 DEF WriterInv
<1>3. ASSUME at'[w] \in Appending
      PROVE  (path = token[w] \/ Displaced(w))'
  <2>1. CASE path = token[w]
    BY <1>1, <1>3, <2>1
  <2>2. CASE Displaced(w)
    <3>1. PICK v \in Writers :
            Pid[v] # Pid[w] /\ at[v] \in {"confirm", "tomb"} /\ aside[v] = token[w]
      BY <2>2 DEF Displaced
    <3>2. at'[v] = at[v] /\ aside'[v] = token'[w] /\ path' = Absent
      BY <1>1, <1>3, <2>2, <3>1 DEF Displaced
    <3> QED
      BY <3>1, <3>2 DEF Displaced
  <2> QED
    BY <1>1, <1>3, <2>1, <2>2 DEF WriterInv
<1>4. ASSUME NEW u \in Writers, u # w, at'[u] \in Appending, at'[w] \in Appending
      PROVE  FALSE
  <2>1. at[u] \in Appending /\ path = token[u] /\ token[u] # 0
    BY <1>2, <1>4
  <2>2. at[w] \notin Appending
    BY <1>4, <2>1 DEF WriterInv
  <2>3. token[u] = token[w]
    BY <1>1, <1>4, <2>1, <2>2
  <2> QED
    BY <1>4, <2>1, <2>3, TypesAre DEF TypeInv, TokenInv
<1> QED
  BY <1>2, <1>3, <1>4 DEF WriterInv

LEMMA KillWriter ==
  ASSUME NEW p \in {Pid[w] : w \in Writers}, ~DieAside, TypeInv, WriterInv, Kill(p)
  PROVE  WriterInv'
<1>1. "closed" \notin Appending
  BY DEF Appending
<1>2. ASSUME NEW u \in Writers, at'[u] \in Appending
      PROVE  Same(u) /\ Pid[u] # p /\ at[u] \in Appending
  BY <1>1, <1>2, KillIs DEF Same
<1>3. path' = path
  BY DEF Kill, LockDies
<1>4. ASSUME NEW u \in Writers, at'[u] \in Appending
      PROVE  (path = token[u] \/ Displaced(u))'
  <2>1. Same(u) /\ at[u] \in Appending
    BY <1>2, <1>4
  <2>2. CASE Displaced(u)
    <3>1. PICK v \in Writers :
            Pid[v] # Pid[u] /\ at[v] \in {"confirm", "tomb"} /\ aside[v] = token[u]
      BY <2>2 DEF Displaced
    <3>2. aside[v] \in held \ {token[v]}
      BY <2>1, <3>1, AppendingIs, TypesAre DEF TypeInv, TokenInv
    <3>3. Pid[v] # p
      BY <3>2 DEF Kill, Displaces
    <3>4. Same(v)
      BY <3>3, KillIs
    <3> QED
      BY <1>3, <2>1, <2>2, <3>1, <3>4 DEF Displaced, Same
  <2> QED
    BY <1>3, <2>1, <2>2 DEF WriterInv, Same
<1> QED
  BY <1>2, <1>4 DEF WriterInv

(***************************************************************************)
(* The file.                                                               *)
(***************************************************************************)

\* The line an append writes is the last event of its session's memory.
LEMMA LineIs ==
  ASSUME NEW w \in Writers, TypeInv, FileInv, at[w] = "write", WriteLine(w)
  PROVE  /\ torn' = FALSE /\ Len(memory[w]) = Len(file) + 1
         /\ file' = Append(file, memory[w][Len(memory[w])])
         /\ memory[w][Len(memory[w])].seq = Len(file) + 1
<1>1. /\ ~torn /\ Len(memory[w]) = Len(file) + 1
      /\ \A i \in DOMAIN memory[w] : memory[w][i].seq = i
  BY DEF FileInv, Content
<1>2. memory[w] \in Seq(Record) /\ Len(file) \in Nat
  BY TypesAre DEF TypeInv, StoreTypeOK
<1>3. Len(memory[w]) \in DOMAIN memory[w]
  BY <1>1, <1>2
<1> QED
  BY <1>1, <1>3 DEF WriteLine

\* A repair cuts at the end of the last committed line: it cuts none.
LEMMA CutIs ==
  ASSUME NEW w \in Writers, TypeInv, FileInv, Cut(w)
  PROVE  file' = file
<1>1. cut[w] = Len(file)
  BY DEF FileInv, Content, Cut
<1>2. file \in Seq(Record) /\ Len(file) \in Nat
  BY TypesAre DEF TypeInv, StoreTypeOK
<1>3. SubSeq(file, 1, Len(file)) = file
  BY <1>2
<1> QED
  BY <1>1, <1>2, <1>3 DEF Cut

\* What a step of the store may do to the file.
LEMMA FileChanges ==
  ASSUME NEW w \in Writers, TypeInv, FileInv, StoreStep(w)
  PROVE  \/ file' = file /\ (torn' = torn \/ at[w] \in Appending)
         \/ at[w] = "write" /\ WriteLine(w)
<1>1. CASE Open(w) \/ Persist(w) \/ Verify(w) \/ Repair(w) \/ Compare(w) \/ Close(w)
  BY <1>1 DEF Open, Persist, Verify, Repair, Compare, Close, storeVars
<1>2. CASE Cut(w)
  BY <1>2, CutIs DEF Cut, Appending
<1>3. CASE Write(w) \/ WriteFails(w)
  BY <1>3 DEF Write, WriteFails, FailedWrite, Appending
<1> QED
  BY <1>1, <1>2, <1>3 DEF StoreStep

LEMMA OthersKept ==
  ASSUME NEW w \in Writers, TypeInv, StoreStep(w), NEW v \in Writers, v # w
  PROVE  at'[v] = at[v] /\ memory'[v] = memory[v] /\ cut'[v] = cut[v]
<1>1. at \in [Writers -> Points] /\ StoreTypeOK
  BY TypesAre DEF TypeInv
<1>2. CASE Persist(w)
  BY <1>1, <1>2 DEF Persist, Acquire, Go, StoreTypeOK
<1>3. CASE Open(w) \/ Close(w)
  BY <1>1, <1>3 DEF Open, Close, GiveUp, Go, StoreTypeOK
<1>4. CASE Verify(w) \/ Repair(w) \/ Cut(w) \/ Compare(w) \/ Write(w) \/ WriteFails(w)
  BY <1>1, <1>4
  DEF Verify, Repair, Cut, Compare, Write, WriteFails, Go, storeVars, StoreTypeOK
<1> QED
  BY <1>2, <1>3, <1>4 DEF StoreStep

\* What a writer believes of the file stays true while another appends, unless
\* it is inside an append itself.
LEMMA ContentKept ==
  ASSUME NEW v \in Writers, TypeInv, Content(v), at'[v] = at[v],
         memory'[v] = memory[v], cut'[v] = cut[v],
         \/ file' = file /\ (torn' = torn \/ at[v] \notin Appending)
         \/ at[v] \notin Appending /\ \E x \in Record : file' = Append(file, x)
  PROVE  Content(v)'
<1>1. file \in Seq(Record) /\ memory[v] \in Seq(Record)
  BY TypesAre DEF TypeInv, StoreTypeOK
<1>2. CASE file' = file /\ (torn' = torn \/ at[v] \notin Appending)
  BY <1>2 DEF Content, Behind, Appending
<1>3. ASSUME NEW x \in Record, file' = Append(file, x), at[v] \notin Appending
      PROVE  Content(v)'
  <2>1. Len(file') = Len(file) + 1 /\ \A i \in 1..Len(file) : file'[i] = file[i]
    BY <1>1, <1>3
  <2>2. ASSUME NEW n \in Int, Behind(v, n) PROVE Behind(v, n)'
    <3>1. n <= Len(file) /\ \A i \in 1..n : memory[v][i] = file[i]
      BY <2>2 DEF Behind
    <3>2. Len(file) \in Nat /\ n <= Len(file')
      BY <1>1, <2>1, <3>1
    <3>3. \A i \in 1..n : memory'[v][i] = file'[i]
      BY <2>1, <3>1, <3>2
    <3> QED
      BY <3>2, <3>3 DEF Behind
  <2>3. Len(memory[v]) \in Int /\ Len(memory[v]) - 1 \in Int
    BY <1>1
  <2>4. at[v] # "cut" /\ at[v] # "write"
    BY <1>3 DEF Appending
  <2>5. at[v] = "open" => Behind(v, Len(memory[v]))'
    BY <2>2, <2>3 DEF Content, Behind
  <2>6. at[v] \in Carrying => Behind(v, Len(memory[v]) - 1)'
    BY <2>2, <2>3 DEF Content, Behind
  <2> QED
    BY <2>4, <2>5, <2>6 DEF Content
<1> QED
  BY <1>2, <1>3

LEMMA StoreStepContent ==
  ASSUME NEW w \in Writers, TypeInv, FileInv, StoreStep(w)
  PROVE  Contiguous' /\ Content(w)'
<1>1. /\ at \in [Writers -> Points] /\ file \in Seq(Record) /\ Len(file) \in Nat
      /\ memory \in [Writers -> Seq(Record)] /\ cut \in [Writers -> Nat]
      /\ memory[w] \in Seq(Record) /\ Len(memory[w]) \in Nat /\ StoreTypeOK
  BY TypesAre DEF TypeInv, StoreTypeOK
<1>2. /\ Contiguous /\ Content(w) /\ DOMAIN memory[w] = 1..Len(memory[w])
      /\ DOMAIN file = 1..Len(file)
  BY <1>1 DEF FileInv
<1>3. CASE Open(w)
  <2>1. at'[w] = "open" /\ memory'[w] = file /\ file' = file
    BY <1>1, <1>3 DEF Open, Go
  <2>2. at'[w] \notin Carrying \cup {"cut", "write"}
    BY <2>1 DEF Carrying, LockPoints, Appending
  <2>3. Behind(w, Len(memory[w]))'
    BY <1>1, <2>1 DEF Behind
  <2> QED
    BY <1>2, <2>1, <2>2, <2>3 DEF Content, Contiguous
<1>4. CASE Persist(w)
  <2>1. /\ memory'[w] = Append(memory[w], [seq |-> Len(memory[w]) + 1, by |-> w])
        /\ file' = file /\ at[w] = "open" /\ at'[w] \in {"reread", "linked"}
    BY <1>1, <1>4, PersistTypes DEF Persist, Acquire, Go
  <2>2. Behind(w, Len(memory[w]))
    BY <1>2, <2>1 DEF Content
  <2>3. /\ Len(memory'[w]) = Len(memory[w]) + 1
        /\ \A i \in 1..Len(memory[w]) : memory'[w][i] = memory[w][i]
        /\ memory'[w][Len(memory[w]) + 1].seq = Len(memory[w]) + 1
        /\ DOMAIN memory'[w] = 1..Len(memory[w]) + 1
    BY <1>1, <2>1
  <2>4. \A i \in DOMAIN memory'[w] : memory'[w][i].seq = i
    <3>1. \A i \in 1..Len(memory[w]) + 1 :
            i \in 1..Len(memory[w]) \/ i = Len(memory[w]) + 1
      BY <1>1
    <3> QED
      BY <1>2, <2>3, <3>1 DEF Content
  <2>5. Behind(w, Len(memory[w]) - 1)'
    <3>1. Len(memory'[w]) - 1 = Len(memory[w])
      BY <1>1, <2>3
    <3> QED
      BY <2>1, <2>2, <2>3, <3>1 DEF Behind
  <2> QED
    BY <1>2, <2>1, <2>4, <2>5 DEF Content, Contiguous
<1>5. CASE Verify(w) \/ Compare(w)
  <2>1. file' = file /\ memory' = memory /\ torn' = torn /\ cut' = cut
    BY <1>5 DEF Verify, Compare, storeVars
  <2>2. at[w] \in Carrying /\ at'[w] \in {"repair", "refused", "write"}
    BY <1>1, <1>5 DEF Verify, Compare, Go, Carrying, LockPoints, Appending
  <2>3. at'[w] = "write" => ~torn /\ Len(memory[w]) = Len(file) + 1
    <3>1. CASE Verify(w)
      BY <1>1, <3>1 DEF Verify, Go
    <3>2. CASE Compare(w)
      <4>1. at'[w] = "write" =>
              ~torn /\ Len(memory[w]) = IF file = <<>> THEN 1
                                        ELSE file[Len(file)].seq + 1
        BY <1>1, <3>2 DEF Compare, Go
      <4>2. CASE file = <<>>
        BY <1>1, <4>1, <4>2
      <4>3. CASE file # <<>>
        <5>1. file[Len(file)].seq = Len(file)
          BY <1>1, <1>2, <4>3 DEF Contiguous
        <5> QED
          BY <4>1, <4>3, <5>1
      <4> QED
        BY <4>2, <4>3
    <3> QED
      BY <1>5, <3>1, <3>2
  <2> QED
    BY <1>2, <2>1, <2>2, <2>3 DEF Content, Behind, Contiguous
<1>6. CASE Repair(w)
  <2>1. /\ file' = file /\ memory' = memory /\ at[w] = "repair"
        /\ at'[w] \in {"cut", "compare"} /\ (at'[w] = "cut" => cut'[w] = Len(file))
    BY <1>1, <1>6 DEF Repair, Go
  <2>2. at[w] \in Carrying
    BY <2>1 DEF Carrying, Appending
  <2> QED
    BY <1>2, <2>1, <2>2 DEF Content, Behind, Contiguous
<1>7. CASE Cut(w)
  <2>1. file' = file /\ memory' = memory /\ at[w] = "cut" /\ at'[w] = "compare"
    BY <1>1, <1>7, CutIs DEF Cut, Go
  <2>2. at[w] \in Carrying
    BY <2>1 DEF Carrying, Appending
  <2> QED
    BY <1>2, <2>1, <2>2 DEF Content, Behind, Contiguous
<1>8. CASE Write(w) \/ WriteFails(w)
  <2>1. /\ memory' = memory /\ at[w] = "write" /\ at'[w] \in {"open", "refused"}
        /\ at'[w] = "open" => WriteLine(w)
        /\ WriteLine(w) \/ file' = file
    BY <1>1, <1>8 DEF Write, WriteFails, FailedWrite, Go
  <2>2. at'[w] \notin Carrying /\ at[w] \in Carrying
    BY <2>1 DEF Carrying, LockPoints, Appending
  <2>3. CASE file' = file /\ at'[w] = "refused"
    BY <1>2, <2>1, <2>2, <2>3 DEF Content, Contiguous
  <2>4. CASE WriteLine(w)
    <3> DEFINE line == memory[w][Len(memory[w])]
    <3>1. /\ Len(memory[w]) = Len(file) + 1 /\ line.seq = Len(file) + 1
          /\ file' = Append(file, line) /\ line \in Record
      <4>1. Len(memory[w]) = Len(file) + 1
        BY <2>1, <2>4, LineIs
      <4>2. Len(memory[w]) \in 1..Len(memory[w])
        BY <1>1, <4>1
      <4>3. line \in Record
        BY <1>1, <4>2
      <4> QED
        BY <2>1, <2>4, <4>1, <4>3, LineIs
    <3> HIDE DEF line
    <3>2. /\ Len(file') = Len(file) + 1 /\ file'[Len(file) + 1] = line
          /\ \A i \in 1..Len(file) : file'[i] = file[i]
          /\ DOMAIN file' = 1..Len(file) + 1
      BY <1>1, <3>1
    <3>3. \A i \in 1..Len(file) + 1 : i \in 1..Len(file) \/ i = Len(file) + 1
      BY <1>1
    <3>4. Contiguous'
      BY <1>2, <3>1, <3>2, <3>3 DEF Contiguous
    <3>5. Behind(w, Len(file))
      <4>1. Len(memory[w]) - 1 = Len(file)
        BY <1>1, <3>1
      <4> QED
        BY <1>2, <2>2, <4>1 DEF Content
    <3>6. \A i \in 1..Len(file) + 1 : memory[w][i] = file'[i]
      <4>1. memory[w][Len(file) + 1] = line
        BY <3>1 DEF line
      <4> QED
        BY <3>2, <3>3, <3>5, <4>1 DEF Behind
    <3>7. Behind(w, Len(memory[w]))'
      BY <1>1, <2>1, <3>1, <3>2, <3>6 DEF Behind
    <3> QED
      BY <1>2, <2>1, <2>2, <3>4, <3>7 DEF Content
  <2> QED
    BY <2>1, <2>3, <2>4
<1>9. CASE Close(w)
  <2>1. memory'[w] = <<>> /\ file' = file /\ at'[w] \in {"closed", "release"}
    BY <1>1, <1>9 DEF Close, GiveUp, Go
  <2>2. at'[w] \notin Carrying \cup {"open", "cut", "write"}
    BY <2>1 DEF Carrying, LockPoints, Appending
  <2> QED
    BY <1>2, <2>1, <2>2 DEF Content, Contiguous
<1> QED
  BY <1>3, <1>4, <1>5, <1>6, <1>7, <1>8, <1>9 DEF StoreStep

LEMMA StoreStepFile ==
  ASSUME NEW w \in Writers, TypeInv, WriterInv, FileInv, StoreStep(w)
  PROVE  FileInv'
<1>1. ASSUME NEW v \in Writers, v # w PROVE Content(v)'
  <2>1. at'[v] = at[v] /\ memory'[v] = memory[v] /\ cut'[v] = cut[v]
    BY <1>1, OthersKept
  <2>2. Content(v) /\ (at[w] \in Appending => at[v] \notin Appending)
    BY <1>1 DEF FileInv, WriterInv
  <2>3. CASE file' = file /\ (torn' = torn \/ at[w] \in Appending)
    BY <2>1, <2>2, <2>3, ContentKept
  <2>4. CASE at[w] = "write" /\ WriteLine(w)
    <3>1. /\ at[w] \in Appending /\ at[w] \in Carrying
      BY <2>4 DEF Appending, Carrying
    <3>2. memory[w] # <<>> /\ StoreTypeOK
      BY <3>1, TypesAre DEF TypeInv, CarryInv
    <3>3. \E x \in Record : file' = Append(file, x)
      BY <2>4, <3>2, LineIs, LastIs
    <3> QED
      BY <2>1, <2>2, <3>1, <3>3, ContentKept
  <2> QED
    BY <2>3, <2>4, FileChanges
<1> QED
  BY <1>1, StoreStepContent DEF FileInv

LEMMA LockStepFile ==
  ASSUME NEW w \in Writers, TypeInv, FileInv, LockStep(w), UNCHANGED storeVars
  PROVE  FileInv'
<1>1. PICK point \in Points :
        /\ Go(w, point) /\ point \notin Appending \cup {"open"}
        /\ point \in Carrying => at[w] \in Carrying
  BY LockPoint
<1>2. at'[w] = point /\ \A v \in Writers \ {w} : at'[v] = at[v]
  BY <1>1, GoIs, TypesAre DEF TypeInv
<1>3. point \notin {"open", "cut", "write"}
  BY <1>1 DEF Appending
<1>4. file' = file /\ memory' = memory /\ torn' = torn /\ cut' = cut
  BY DEF storeVars
<1>5. ASSUME NEW v \in Writers PROVE Content(v)'
  <2>1. Content(v)
    BY DEF FileInv
  <2>2. CASE v = w
    BY <1>1, <1>2, <1>3, <1>4, <2>1, <2>2 DEF Content, Behind
  <2>3. CASE v # w
    BY <1>2, <1>4, <2>1, <2>3 DEF Content, Behind
  <2> QED
    BY <2>2, <2>3
<1> QED
  BY <1>4, <1>5 DEF FileInv, Contiguous

\* A process that is killed inside a write leaves a torn line to nobody who
\* writes.
LEMMA KillFile ==
  ASSUME NEW p \in {Pid[w] : w \in Writers}, TypeInv, WriterInv, FileInv, Kill(p)
  PROVE  FileInv'
<1>1. file' = file
  BY KillIs
<1>2. ASSUME NEW v \in Writers, Pid[v] = p PROVE Content(v)'
  <2>1. at'[v] = "closed" /\ memory'[v] = <<>>
    BY <1>2, KillIs
  <2>2. "closed" \notin Carrying
    BY DEF Carrying, LockPoints, Appending
  <2> QED
    BY <2>1, <2>2 DEF Content
<1>3. ASSUME NEW v \in Writers, Pid[v] # p PROVE Content(v)'
  <2>1. at'[v] = at[v] /\ memory'[v] = memory[v] /\ cut'[v] = cut[v] /\ Content(v)
    BY <1>3, KillIs DEF Same, FileInv
  <2>2. torn' = torn \/ at[v] \notin Appending
    <3>1. ASSUME NEW u \in Writers, Pid[u] = p, at[u] = "write", at[v] \in Appending
          PROVE  FALSE
      BY <1>3, <3>1 DEF WriterInv, Appending
    <3> QED
      BY <3>1, KillIs
  <2> QED
    BY <1>1, <2>1, <2>2, ContentKept
<1> QED
  BY <1>1, <1>2, <1>3 DEF FileInv, Contiguous

(***************************************************************************)
(* The theorems.                                                           *)
(***************************************************************************)

LEMMA InitInv == Init => IInv
<1> SUFFICES ASSUME Init PROVE IInv
  OBVIOUS
<1>1. \A w \in Writers : at[w] = "closed" /\ memory[w] = <<>>
  BY DEF Init
<1>2. "closed" \notin Carrying \cup Appending
  BY DEF Carrying, LockPoints, Appending
<1>3. TypeInv
  BY <1>1, <1>2, InitLock DEF TypeInv, CarryInv
<1>4. WriterInv
  BY <1>1, <1>2 DEF WriterInv
<1>5. FileInv
  BY <1>1, <1>2 DEF Init, FileInv, Content, Contiguous
<1> QED
  BY <1>3, <1>4, <1>5 DEF IInv

LEMMA NextInv ==
  ASSUME TwoPids, ~DieAside
  PROVE  IInv /\ [Next]_vars => IInv'
<1> SUFFICES ASSUME IInv, [Next]_vars PROVE IInv'
  OBVIOUS
<1>1. TypeInv /\ WriterInv /\ FileInv /\ TypeInv'
  BY NextTypes DEF IInv
<1>2. ASSUME NEW w \in Writers, Turn(w), LockStep(w), UNCHANGED storeVars
      PROVE  IInv'
  BY <1>1, <1>2, LockStepWriter, LockStepFile DEF IInv
<1>3. ASSUME NEW w \in Writers, Turn(w), StoreStep(w) PROVE IInv'
  BY <1>1, <1>3, StoreStepWriter, StoreStepFile DEF IInv
<1>4. ASSUME NEW p \in {Pid[w] : w \in Writers}, Kill(p) PROVE IInv'
  BY <1>1, <1>4, KillWriter, KillFile DEF IInv
<1>5. CASE (\E p \in {Pid[w] : w \in Writers} : Restart(p)) \/ UNCHANGED vars
  <2>1. /\ at' = at /\ path' = path /\ aside' = aside /\ token' = token
        /\ file' = file /\ torn' = torn /\ memory' = memory /\ cut' = cut
    BY <1>5 DEF Restart, vars, lockVars, storeVars
  <2>2. WriterInv'
    BY <1>1, <2>1 DEF WriterInv, Displaced
  <2>3. FileInv'
    BY <1>1, <2>1 DEF FileInv, Content, Behind, Contiguous
  <2> QED
    BY <1>1, <2>2, <2>3 DEF IInv
<1> QED
  BY <1>2, <1>3, <1>4, <1>5 DEF Next, Done

\* The lock file, the writers and the log hold what they are declared to hold,
\* with any number of processes and whatever dies or fails.
THEOREM StoreTypes == Spec => []TypeOK
<1>1. Init => TypeInv
  BY InitInv DEF IInv
<1>2. TypeInv => TypeOK
  BY DEF TypeInv, LockInv
<1> QED
  BY <1>1, <1>2, NextTypes, PTL DEF Spec

\* With the writers of two processes, neither of which is killed while it has the
\* other's living lock aside, the invariant holds in every behaviour.
THEOREM StoreInvariance ==
  ASSUME TwoPids, ~DieAside
  PROVE  Spec => []IInv
<1>1. IInv /\ [Next]_vars => IInv'
  BY NextInv
<1> QED
  BY <1>1, InitInv, PTL DEF Spec

\* Two processes and any number of stores in them: at most one is inside an
\* append (store.ts), because a lock that was moved away by mistake is put back
\* before anybody can link another.
THEOREM WritersTakeTurns ==
  ASSUME TwoPids, ~DieAside
  PROVE  Spec => []OneWriter
<1>1. ASSUME IInv PROVE OneWriter
  <2> DEFINE inside == {w \in Writers : at[w] \in Appending}
  <2>1. \A v, w \in inside : v = w
    BY <1>1 DEF IInv, WriterInv
  <2>2. CASE inside = {}
    BY <2>2, FS_EmptySet DEF OneWriter
  <2>3. CASE inside # {}
    <3>1. PICK w : inside = {w}
      BY <2>1, <2>3
    <3> QED
      BY <3>1, FS_Singleton DEF OneWriter
  <2> QED
    BY <2>2, <2>3
<1>2. IInv => OneWriter
  BY <1>1
<1> QED
  BY <1>2, StoreInvariance, PTL

\* Every load succeeds: the committed lines carry the seqs 1, 2, ... whoever wrote
\* them and whatever was torn in between (store.ts).
THEOREM LoadsSucceed ==
  ASSUME TwoPids, ~DieAside
  PROVE  Spec => []LogIsContiguous
<1>1. IInv => LogIsContiguous
  BY DEF IInv, FileInv, LogIsContiguous
<1> QED
  BY <1>1, StoreInvariance, PTL

\* What a session that may go on remembers is on disk, event for event: nobody
\* wrote behind its back (session.ts).
THEOREM MemoryIsWritten ==
  ASSUME TwoPids, ~DieAside
  PROVE  Spec => []MemoryIsOnDisk
<1>1. ASSUME IInv PROVE MemoryIsOnDisk
  <2>1. \A w \in Writers : memory[w] \in Seq(Record)
    BY <1>1, TypesAre DEF IInv, TypeInv, StoreTypeOK
  <2>2. \A w \in Writers : DOMAIN memory[w] = 1..Len(memory[w])
    BY <2>1
  <2> QED
    BY <1>1, <2>2 DEF IInv, FileInv, Content, Behind, MemoryIsOnDisk
<1>2. IInv => MemoryIsOnDisk
  BY <1>1
<1> QED
  BY <1>2, StoreInvariance, PTL

\* No step, not even a repair, cuts or changes a committed line (store.ts).
THEOREM LinesStay ==
  ASSUME TwoPids, ~DieAside
  PROVE  Spec => CommittedStays
<1> DEFINE Stays == Len(file) <= Len(file') /\ SubSeq(file', 1, Len(file)) = file
<1>1. ASSUME IInv, [Next]_vars PROVE Stays
  <2>1. /\ TypeInv /\ FileInv /\ file \in Seq(Record)
    BY <1>1, TypesAre DEF IInv, TypeInv, StoreTypeOK
  <2>2. CASE file' = file
    BY <2>1, <2>2
  <2>3. ASSUME NEW w \in Writers, StoreStep(w), file' # file PROVE Stays
    <3>1. at[w] = "write" /\ WriteLine(w)
      BY <2>1, <2>3, FileChanges
    <3>2. PICK x : file' = Append(file, x)
      BY <2>1, <3>1, LineIs
    <3>3. x \in Record
      <4>1. at[w] \in Carrying
        BY <3>1 DEF Carrying, Appending
      <4>2. memory[w] # <<>> /\ StoreTypeOK
        BY <2>1, <4>1, TypesAre DEF TypeInv, CarryInv
      <4>3. file' \in Seq(Record)
        BY <2>1, <3>1, WriteLineTypes
      <4> QED
        BY <2>1, <3>2, <4>3
    <3> QED
      BY <2>1, <3>2, <3>3
  <2>4. file' = file \/ \E w \in Writers : StoreStep(w)
    BY <1>1, KillIs, <2>1 DEF Next, Done, Restart, vars, storeVars
  <2> QED
    BY <2>2, <2>3, <2>4
<1>2. IInv /\ [Next]_vars => [Stays]_vars
  BY <1>1
<1> QED
  BY <1>2, StoreInvariance, PTL DEF Spec, CommittedStays
=============================================================================
