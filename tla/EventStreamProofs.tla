------------------------- MODULE EventStreamProofs -------------------------
(***************************************************************************)
(* Theorems about EventStream: whatever drops and dies, a client gets each *)
(* event once and in order, and misses nothing but what the properties     *)
(* name.                                                                   *)
(***************************************************************************)
EXTENDS EventStream, SequenceTheorems, WellFoundedInduction, TLAPS

(***************************************************************************)
(* The inductive invariant.                                                *)
(***************************************************************************)

\* The log's seqs are its positions.
Logged == \A n \in DOMAIN log : log[n].seq = n /\ Ordinary(log[n])

\* What the store does not hold yet is an answer nobody heard, or the event the
\* pump is about to deliver.
Pending(n) == pump = "writing" /\ n = Len(log)
Told(n) == n \in DOMAIN log /\ log[n].kind # "aside" /\ ~Pending(n)
PumpInv ==
  /\ pump = "writing" => log # <<>> /\ log[Len(log)].kind # "aside"
  /\ \A n \in DOMAIN log : Told(n) => n <= written

\* The order of what is on its way to a client behind what it has.
Rising(s) ==
  \A i, j \in DOMAIN s :
    i < j /\ Ordinary(s[i]) /\ Ordinary(s[j]) => s[i].seq < s[j].seq
Within(s, low, high) ==
  \A i \in DOMAIN s : Ordinary(s[i]) => low < s[i].seq /\ s[i].seq <= high
Before(s, t) ==
  \A i \in DOMAIN s, j \in DOMAIN t : Ordinary(s[i]) => s[i].seq < t[j].seq
InOrder(conn, last) ==
  /\ Rising(conn.wire) /\ Rising(conn.chain) /\ Before(conn.wire, conn.chain)
  /\ Within(conn.wire, last, conn.sent) /\ Within(conn.chain, last, conn.sent)
  /\ last <= conn.sent

\* What is on its way is in the log, where its seq says.
Of(s, l) ==
  \A i \in DOMAIN s : Ordinary(s[i]) => s[i].seq \in DOMAIN l /\ l[s[i].seq] = s[i]
OfLog(conn, l) ==
  /\ Of(conn.wire, l) /\ Of(conn.chain, l) /\ Of(conn.buffer, l)
  /\ \A i \in DOMAIN conn.wire : OnWire(conn.wire[i])
  /\ \A i \in DOMAIN conn.chain : Ordinary(conn.chain[i])
  /\ \A i \in DOMAIN conn.buffer : Ordinary(conn.buffer[i])
  /\ \A i \in DOMAIN conn.replay :
       conn.sent + i \in DOMAIN l /\ conn.replay[i] = l[conn.sent + i]

\* A connection at rest holds nothing.
Empty(conn) ==
  conn.replay = <<>> /\ conn.buffer = <<>> /\ conn.chain = <<>> /\ conn.wire = <<>>
AtRest(conn, last) ==
  /\ conn.at \in {"asked", "left", "orphan"} => Empty(conn)
  /\ conn.at = "asked" => conn.sent = last
  /\ conn.at # "replaying" => conn.replay = <<>> /\ conn.buffer = <<>>
  /\ conn.at = "ended" => conn.chain = <<>>

\* What is still to come to a listener is replayed, kept, or about to be
\* delivered; only an answer nobody heard never comes.
Coming(conn) ==
  conn.at \in {"replaying", "live"} =>
    \A n \in DOMAIN log :
      n > conn.sent + Len(conn.replay) =>
        \/ log[n].kind = "aside" \/ Pending(n)
        \/ \E i \in DOMAIN conn.buffer : conn.buffer[i] = log[n]
Kept(conn) ==
  Rising(conn.buffer) /\ \A i \in DOMAIN conn.buffer : Told(conn.buffer[i].seq)

Has(c) == connections[c] # <<>>
Alive(c) == Has(c) /\ Current(c).at \notin {"left", "orphan"}
Reach(c) == IF Alive(c) THEN Current(c).sent ELSE lastSeq[c]

\* An event up to the newest that was sent is with the client or on its way,
\* or one of those that a client misses.
In(s, e) == \E i \in DOMAIN s : s[i] = e
Piped(c, e) ==
  \/ In(got[c], e)
  \/ Has(c) /\ (In(Current(c).wire, e) \/ In(Current(c).chain, e))
Replaced(c, n) == \E old \in cut : In(got[c], old) /\ old.seq = n /\ Ordinary(old)
Reached(c, n) ==
  \/ Piped(c, log[n]) \/ Replaced(c, n)
  \/ log[n].kind = "aside" /\ n <= written
  \/ ~OnWire(log[n]) /\ (n <= written \/ lastSeq[c] < n)
ReachInv(c) ==
  /\ \A n \in DOMAIN log : n <= Reach(c) => Reached(c, n)
  /\ \A n \in Len(log) + 1..Reach(c) : Replaced(c, n)

GotInv(c) ==
  /\ Rising(got[c])
  /\ \A i \in DOMAIN got[c] : Ordinary(got[c][i]) => got[c][i].seq <= lastSeq[c]

ClientInv(c) ==
  /\ GotInv(c) /\ ReachInv(c)
  /\ ~Has(c) => lastSeq[c] = 0 /\ got[c] = <<>>
  /\ Has(c) => /\ AtRest(Current(c), lastSeq[c]) /\ InOrder(Current(c), lastSeq[c])
               /\ OfLog(Current(c), log) /\ Coming(Current(c)) /\ Kept(Current(c))

\* The response to one turn: its run is under way or over, its answers to
\* nobody lie before or behind it, and what it was given is the log.
EndsAt(l, from, t) == t \in DOMAIN l /\ from < t /\ Ends(l[t])
FirstEnd(l, from, t) ==
  EndsAt(l, from, t) /\ \A u \in DOMAIN l : EndsAt(l, from, u) => t <= u
TurnOf(c) ==
  LET conn == Current(c) IN
  /\ conn.from <= Len(log)
  /\ pump = "idle" => \E t \in DOMAIN log : EndsAt(log, conn.from, t)
  /\ pump = "writing" => conn.from < Len(log)
  /\ \A n \in DOMAIN log : n > conn.from /\ log[n].kind = "aside" =>
       \E t \in DOMAIN log : EndsAt(log, conn.from, t) /\ t < n
  /\ Of(got[c], log)
  /\ conn.at = "replaying" => conn.from <= conn.sent + Len(conn.replay)
  /\ conn.at = "live" => conn.from <= conn.sent
  /\ conn.at = "ended" =>
       \E t \in DOMAIN log : FirstEnd(log, conn.from, t) /\ t <= conn.sent
  /\ \A n \in DOMAIN log : n <= conn.from /\ n <= conn.sent /\ OnWire(log[n]) =>
       Piped(c, log[n])
CallerInv(c) == Alive(c) => TurnOf(c)

IInv ==
  /\ TypeOK /\ Logged /\ PumpInv
  /\ \A c \in Clients : ClientInv(c)
  /\ \A c \in Callers : CallerInv(c)

(***************************************************************************)
(* Sequences and responses.                                                *)
(***************************************************************************)

\* A sequence keeps all but its last element, or all but its first.
LEMMA Ends1 ==
  ASSUME NEW S, NEW s \in Seq(S), s # <<>>
  PROVE  /\ Len(s) \in Nat \ {0} /\ DOMAIN s = 1..Len(s)
         /\ Last(s) = s[Len(s)] /\ Last(s) \in S /\ Front(s) \in Seq(S)
         /\ Len(Front(s)) = Len(s) - 1
         /\ \A i \in DOMAIN Front(s) : Front(s)[i] = s[i]
         /\ Head(s) = s[1] /\ Head(s) \in S /\ Tail(s) \in Seq(S)
         /\ Len(Tail(s)) = Len(s) - 1
         /\ \A i \in DOMAIN Tail(s) : Tail(s)[i] = s[i + 1]
<1>1. Len(s) \in Nat \ {0} /\ DOMAIN s = 1..Len(s)
  OBVIOUS
<1>2. Last(s) = s[Len(s)] /\ Last(s) \in S
  BY <1>1 DEF Last
<1>3. /\ Front(s) \in Seq(S) /\ Len(Front(s)) = Len(s) - 1
      /\ \A i \in DOMAIN Front(s) : Front(s)[i] = s[i]
  BY <1>1 DEF Front
<1> QED
  BY <1>1, <1>2, <1>3

\* The last element is replaced.
LEMMA Replacing ==
  ASSUME NEW S, NEW s \in Seq(S), s # <<>>, NEW x \in S
  PROVE  /\ Append(Front(s), x) \in Seq(S) /\ Append(Front(s), x) # <<>>
         /\ Last(Append(Front(s), x)) = x
         /\ Len(Append(Front(s), x)) = Len(s)
<1>1. Front(s) \in Seq(S) /\ Len(Front(s)) = Len(s) - 1 /\ Len(s) \in Nat \ {0}
  BY Ends1
<1> DEFINE t == Front(s)
<1> HIDE DEF t
<1>2. Append(t, x) \in Seq(S) /\ Append(t, x) # <<>> /\ Len(Append(t, x)) = Len(t) + 1
  BY <1>1 DEF t
<1>3. Append(t, x)[Len(t) + 1] = x
  BY <1>1 DEF t
<1>4. Last(Append(t, x)) = x
  BY <1>2, <1>3 DEF Last
<1> QED
  BY <1>1, <1>2, <1>4 DEF t

\* The parts of a response.
LEMMA Parts ==
  ASSUME NEW conn \in Response
  PROVE  /\ conn.from \in 0..MaxLog /\ conn.sent \in 0..MaxLog
         /\ conn.from \in Nat /\ conn.sent \in Nat
         /\ conn.replay \in Seq(Event) /\ conn.buffer \in Seq(Event)
         /\ conn.chain \in Seq(Event) /\ conn.wire \in Seq(Event)
<1>1. MaxLog \in Nat
  BY StreamAssumption
<1> QED
  BY <1>1 DEF Response

LEMMA Seqs ==
  ASSUME NEW e \in Event
  PROVE  e.seq \in 1..MaxLog /\ e.seq \in Nat /\ MaxLog \in Nat
<1>1. MaxLog \in Nat
  BY StreamAssumption
<1> QED
  BY <1>1 DEF Event

\* What Send does to a response.
LEMMA Sends ==
  ASSUME NEW conn \in Response, NEW e \in Event
  PROVE  /\ Send(conn, e) \in Response
         /\ Send(conn, e).at = conn.at /\ Send(conn, e).from = conn.from
         /\ Send(conn, e).replay = conn.replay /\ Send(conn, e).buffer = conn.buffer
         /\ Send(conn, e).wire = conn.wire
         /\ e.seq <= conn.sent => Send(conn, e) = conn
         /\ e.seq > conn.sent => /\ Send(conn, e).sent = e.seq
                                 /\ Send(conn, e).chain = Append(conn.chain, e)
<1>1. e.seq \in 1..MaxLog /\ e.seq \in Nat /\ MaxLog \in Nat
  BY Seqs
<1>2. conn.chain \in Seq(Event) /\ conn.sent \in Nat
  BY Parts
<1>3. Append(conn.chain, e) \in Seq(Event)
  BY <1>2
<1>4. CASE e.seq <= conn.sent
  BY <1>1, <1>2, <1>4 DEF Send
<1>5. CASE e.seq > conn.sent
  <2> DEFINE new == [conn EXCEPT !.sent = e.seq, !.chain = Append(conn.chain, e)]
  <2>1. Send(conn, e) = new
    BY <1>1, <1>2, <1>5 DEF Send
  <2>2. e.seq \in 0..MaxLog
    BY <1>1
  <2>3. new \in Response
    BY <1>3, <2>2 DEF Response
  <2>4. /\ new.at = conn.at /\ new.from = conn.from /\ new.replay = conn.replay
        /\ new.buffer = conn.buffer /\ new.wire = conn.wire
        /\ new.sent = e.seq /\ new.chain = Append(conn.chain, e)
    BY DEF Response
  <2> QED
    BY <1>1, <1>2, <1>5, <2>1, <2>3, <2>4
<1> QED
  BY <1>1, <1>2, <1>4, <1>5

\* A response whose client left, and a new one.
LEMMA GoneIs ==
  ASSUME NEW conn \in Response, NEW at \in {"left", "orphan"}
  PROVE  /\ Gone(conn, at) \in Response /\ Empty(Gone(conn, at))
         /\ Gone(conn, at).at = at /\ Gone(conn, at).sent = conn.sent
<1>1. <<>> \in Seq(Event)
  OBVIOUS
<1>2. Gone(conn, at) \in Response
  BY <1>1 DEF Gone, Response
<1>3. Empty(Gone(conn, at)) /\ Gone(conn, at).at = at /\ Gone(conn, at).sent = conn.sent
  BY DEF Gone, Response, Empty
<1> QED
  BY <1>2, <1>3

LEMMA ConnectionIs ==
  ASSUME NEW after \in 0..MaxLog, NEW from \in 0..MaxLog
  PROVE  /\ Connection(after, from) \in Response /\ Empty(Connection(after, from))
         /\ Connection(after, from).at = "asked"
         /\ Connection(after, from).sent = after /\ Connection(after, from).from = from
  BY DEF Connection, Response, Empty

\* A set of numbers that is not empty has a smallest element.
LEMMA SmallestOf ==
  ASSUME NEW S \in SUBSET Nat, S # {}
  PROVE  \E m \in S : \A x \in S : m <= x
<1> DEFINE R == OpToRel(<, Nat)
<1>1. \A j \in S, i \in S : i < j => <<i, j>> \in R
  BY DEF OpToRel
<1>2. IsWellFoundedOn(R, Nat)
  BY NatLessThanWellFounded
<1> HIDE DEF R
<1>3. PICK m \in S : \A x \in S : ~(<<x, m>> \in R)
  BY <1>2, WFMin
<1>4. ASSUME NEW x \in S PROVE m <= x
  <2>1. ~(x < m)
    BY <1>1, <1>3
  <2> QED
    BY <2>1
<1> QED
  BY <1>4

(***************************************************************************)
(* The flush of what came during a replay.                                 *)
(***************************************************************************)

\* The buffer's events are sent one by one.
SendsAll(conn, f, k) ==
  f[0] = conn /\ \A n \in 1..k : f[n] = Send(f[n - 1], conn.buffer[n])

LEMMA SomeSendsAll ==
  ASSUME NEW conn \in Response
  PROVE  \E g \in [0..Len(conn.buffer) -> Response] :
           SendsAll(conn, g, Len(conn.buffer))
<1> DEFINE N == Len(conn.buffer)
           To(k) == {g \in [0..k -> Response] : SendsAll(conn, g, k)}
           S == {k \in 0..N : To(k) = {}}
<1>1. conn.buffer \in Seq(Event)
  BY Parts
<1>2. N \in Nat /\ \A n \in 1..N : conn.buffer[n] \in Event
  BY <1>1
<1>3. S = {}
  <2> SUFFICES ASSUME S # {} PROVE FALSE
    OBVIOUS
  <2>1. PICK k \in S : \A x \in S : k <= x
    <3>1. S \in SUBSET Nat
      BY <1>2
    <3> HIDE DEF S
    <3> QED
      BY <3>1, SmallestOf
  <2>2. k \in 0..N /\ To(k) = {}
    BY <2>1
  <2>3. k # 0
    <3>1. [i \in 0..0 |-> conn] \in To(0)
      BY DEF SendsAll
    <3> QED
      BY <2>2, <3>1
  <2>4. k - 1 \in 0..N /\ k \in 1..N /\ k - 1 \notin S
    <3>1. k - 1 \in 0..N /\ k \in 1..N /\ ~(k <= k - 1)
      BY <1>2, <2>2, <2>3
    <3> QED
      BY <2>1, <3>1
  <2>5. PICK g \in [0..k - 1 -> Response] : SendsAll(conn, g, k - 1)
    BY <2>4
  <2> DEFINE h == [i \in 0..k |-> IF i < k THEN g[i]
                                  ELSE Send(g[k - 1], conn.buffer[k])]
  <2>6. Send(g[k - 1], conn.buffer[k]) \in Response
    BY <1>2, <2>4, <2>5, Sends
  <2>7. h \in [0..k -> Response]
    BY <2>4, <2>6
  <2>8. h[0] = conn
    BY <2>4, <2>5 DEF SendsAll
  <2>9. ASSUME NEW n \in 1..k PROVE h[n] = Send(h[n - 1], conn.buffer[n])
    <3>1. CASE n = k
      BY <2>4, <3>1
    <3>2. CASE n < k
      <4>1. n \in 1..k - 1 /\ n - 1 \in 0..k /\ n - 1 < k /\ n \in 0..k
        BY <2>4, <3>2
      <4> QED
        BY <2>5, <3>2, <4>1 DEF SendsAll
    <3> QED
      BY <2>4, <3>1, <3>2
  <2>10. h \in To(k)
    BY <2>7, <2>8, <2>9 DEF SendsAll
  <2> QED
    BY <2>2, <2>10
<1>4. N \in 0..N /\ N \notin S
  BY <1>2, <1>3
<1> QED
  BY <1>4

\* The result of the flush is the end of such a chain.
LEMMA FlushedIs ==
  ASSUME NEW conn \in Response
  PROVE  \E g \in [0..Len(conn.buffer) -> Response] :
           SendsAll(conn, g, Len(conn.buffer)) /\ Flushed(conn) = g[Len(conn.buffer)]
<1> DEFINE N == Len(conn.buffer)
           Step(f) == [n \in 0..N |-> IF n = 0 THEN conn
                                      ELSE Send(f[n - 1], conn.buffer[n])]
           sends == CHOOSE f : f = Step(f)
<1>1. N \in Nat
  BY Parts
<1>2. PICK g \in [0..N -> Response] : SendsAll(conn, g, N)
  BY SomeSendsAll
<1>3. g = Step(g)
  <2>1. \A n \in 0..N : g[n] = Step(g)[n]
    BY <1>1, <1>2 DEF SendsAll
  <2> QED
    BY <1>2, <2>1
<1>4. sends = Step(sends)
  BY <1>3
<1>5. Flushed(conn) = sends[N]
  BY DEF Flushed
<1>6. {n \in 0..N : sends[n] # g[n]} = {}
  <2> DEFINE S == {n \in 0..N : sends[n] # g[n]}
  <2> SUFFICES ASSUME S # {} PROVE FALSE
    OBVIOUS
  <2>1. PICK k \in S : \A x \in S : k <= x
    <3>1. S \in SUBSET Nat
      BY <1>1
    <3> HIDE DEF S
    <3> QED
      BY <3>1, SmallestOf
  <2> HIDE DEF sends
  <2>2. k \in 0..N /\ sends[k] # g[k]
    BY <2>1
  <2>3. k # 0
    BY <1>2, <1>4, <2>2 DEF SendsAll
  <2>4. k - 1 \in 0..N /\ k - 1 \notin S
    BY <1>1, <2>1, <2>2, <2>3
  <2>5. sends[k - 1] = g[k - 1]
    BY <2>4
  <2>6. sends[k] = Send(sends[k - 1], conn.buffer[k])
    BY <1>4, <2>2, <2>3
  <2> QED
    BY <1>2, <2>2, <2>3, <2>5, <2>6 DEF SendsAll
<1>7. sends[N] = g[N]
  <2> HIDE DEF sends
  <2>1. N \in 0..N
    BY <1>1
  <2> QED
    BY <1>6, <2>1
<1> QED
  BY <1>2, <1>5, <1>7

\* What is in a sequence that grew, shrank or was joined to another.
LEMMA InAppend ==
  ASSUME NEW S, NEW s \in Seq(S), NEW x \in S
  PROVE  \A y : In(Append(s, x), y) <=> In(s, y) \/ y = x
<1>1. /\ DOMAIN Append(s, x) = 1..Len(s) + 1 /\ DOMAIN s = 1..Len(s) /\ Len(s) \in Nat
      /\ \A i \in 1..Len(s) : Append(s, x)[i] = s[i]
      /\ Append(s, x)[Len(s) + 1] = x
  OBVIOUS
<1> QED
  BY <1>1 DEF In

LEMMA InTail ==
  ASSUME NEW S, NEW s \in Seq(S), s # <<>>
  PROVE  \A y : In(s, y) <=> y = Head(s) \/ In(Tail(s), y)
<1>1. /\ Len(s) \in Nat \ {0} /\ DOMAIN s = 1..Len(s) /\ Tail(s) \in Seq(S)
      /\ Head(s) = s[1] /\ Len(Tail(s)) = Len(s) - 1
      /\ \A i \in DOMAIN Tail(s) : Tail(s)[i] = s[i + 1]
  BY Ends1
<1>2. DOMAIN Tail(s) = 1..Len(s) - 1
  BY <1>1
<1>3. \A i \in DOMAIN s : i = 1 \/ (i - 1 \in DOMAIN Tail(s) /\ s[i] = Tail(s)[i - 1])
  BY <1>1, <1>2
<1>4. 1 \in DOMAIN s /\ \A i \in DOMAIN Tail(s) : i + 1 \in DOMAIN s
  BY <1>1, <1>2
<1> QED
  BY <1>1, <1>3, <1>4 DEF In

LEMMA InJoined ==
  ASSUME NEW S, NEW s \in Seq(S), NEW t \in Seq(S)
  PROVE  \A y : In(s \o t, y) <=> In(s, y) \/ In(t, y)
<1>1. /\ Len(s) \in Nat /\ Len(t) \in Nat
      /\ DOMAIN s = 1..Len(s) /\ DOMAIN t = 1..Len(t)
      /\ DOMAIN (s \o t) = 1..Len(s) + Len(t)
      /\ \A i \in 1..Len(s) : (s \o t)[i] = s[i]
      /\ \A i \in Len(s) + 1..Len(s) + Len(t) : (s \o t)[i] = t[i - Len(s)]
  OBVIOUS
<1>2. \A i \in DOMAIN t : Len(s) + i \in DOMAIN (s \o t) /\ (s \o t)[Len(s) + i] = t[i]
  BY <1>1
<1>3. \A i \in DOMAIN (s \o t) : i \in DOMAIN s \/ i - Len(s) \in DOMAIN t
  BY <1>1
<1>4. \A i \in DOMAIN s : i \in DOMAIN (s \o t) /\ (s \o t)[i] = s[i]
  BY <1>1
<1>5. \A i \in DOMAIN (s \o t) : i \in DOMAIN s \/
        (i - Len(s) \in DOMAIN t /\ (s \o t)[i] = t[i - Len(s)])
  BY <1>1, <1>3
<1> DEFINE u == s \o t
<1> HIDE DEF u
<1>6. ASSUME NEW y PROVE In(u, y) => In(s, y) \/ In(t, y)
  BY <1>4, <1>5 DEF In, u
<1>7. ASSUME NEW y PROVE In(s, y) \/ In(t, y) => In(u, y)
  BY <1>2, <1>4 DEF In, u
<1> QED
  BY <1>6, <1>7 DEF u

LEMMA InNothing == \A y : ~In(<<>>, y)
  BY DEF In

\* Sending keeps the order: only what is newer than anything sent is appended.
LEMMA SendKeepsOrder ==
  ASSUME NEW conn \in Response, NEW e \in Event, NEW last \in Nat, InOrder(conn, last)
  PROVE  InOrder(Send(conn, e), last)
<1> DEFINE new == Send(conn, e)
<1> HIDE DEF new
<1>1. CASE e.seq <= conn.sent
  BY <1>1, Sends
<1>2. CASE e.seq > conn.sent
  <2>1. /\ conn.chain \in Seq(Event) /\ conn.wire \in Seq(Event)
        /\ conn.sent \in Nat /\ e.seq \in Nat
    BY Parts, Seqs
  <2>2. new.wire = conn.wire /\ new.sent = e.seq /\ new.chain = Append(conn.chain, e)
    BY <1>2, Sends DEF new
  <2>3. /\ DOMAIN new.chain = 1..Len(conn.chain) + 1 /\ Len(conn.chain) \in Nat
        /\ DOMAIN conn.chain = 1..Len(conn.chain)
        /\ \A i \in DOMAIN conn.chain : new.chain[i] = conn.chain[i]
        /\ new.chain[Len(conn.chain) + 1] = e
    BY <2>1, <2>2
  <2>4. \A i \in DOMAIN conn.chain : conn.chain[i].seq \in Nat
    BY <2>1, Seqs
  <2>5. \A i \in DOMAIN conn.wire : conn.wire[i].seq \in Nat
    BY <2>1, Seqs
  <2>6. Rising(new.chain)
    <3> SUFFICES ASSUME NEW i \in DOMAIN new.chain, NEW j \in DOMAIN new.chain, i < j,
                        Ordinary(new.chain[i]), Ordinary(new.chain[j])
                 PROVE  new.chain[i].seq < new.chain[j].seq
      BY DEF Rising
    <3>1. i \in DOMAIN conn.chain /\ new.chain[i] = conn.chain[i]
      BY <2>3
    <3>2. CASE j \in DOMAIN conn.chain
      BY <2>3, <3>1, <3>2 DEF InOrder, Rising
    <3>3. CASE j = Len(conn.chain) + 1
      BY <1>2, <2>1, <2>3, <2>4, <3>1, <3>3 DEF InOrder, Within
    <3> QED
      BY <2>3, <3>2, <3>3
  <2>7. Before(new.wire, new.chain)
    BY <1>2, <2>1, <2>2, <2>3, <2>5 DEF InOrder, Before, Within
  <2>8. Within(new.wire, last, new.sent)
    BY <1>2, <2>1, <2>2, <2>5 DEF InOrder, Within
  <2>9. Within(new.chain, last, new.sent)
    BY <1>2, <2>1, <2>2, <2>3, <2>4 DEF InOrder, Within
  <2>10. Rising(new.wire) /\ last <= new.sent
    BY <1>2, <2>1, <2>2 DEF InOrder
  <2> QED
    BY <2>6, <2>7, <2>8, <2>9, <2>10 DEF InOrder, new
<1> QED
  <2>1. conn.sent \in Nat /\ e.seq \in Nat
    BY Parts, Seqs
  <2> QED
    BY <1>1, <1>2, <2>1

\* The flush of the first n events of a buffer that rises.
Rest(r, conn) ==
  /\ r.at = conn.at /\ r.from = conn.from /\ r.replay = conn.replay
  /\ r.buffer = conn.buffer /\ r.wire = conn.wire
Flushes(conn, r, n) ==
  /\ Rest(r, conn) /\ conn.sent <= r.sent
  /\ r.sent = conn.sent \/ \E i \in 1..n : r.sent = conn.buffer[i].seq
  /\ \A i \in 1..n : conn.buffer[i].seq <= r.sent
  /\ \A x : In(r.chain, x) <=> \/ In(conn.chain, x)
                               \/ \E i \in 1..n :
                                    x = conn.buffer[i] /\ x.seq > conn.sent

LEMMA FlushesOneMore ==
  ASSUME NEW conn \in Response, NEW r \in Response, NEW n \in Nat \ {0},
         n \in DOMAIN conn.buffer, Rising(conn.buffer),
         \A i \in DOMAIN conn.buffer : Ordinary(conn.buffer[i]),
         Flushes(conn, r, n - 1)
  PROVE  Flushes(conn, Send(r, conn.buffer[n]), n)
<1> DEFINE e == conn.buffer[n]
           new == Send(r, e)
<1>1. conn.buffer \in Seq(Event) /\ e \in Event /\ r.chain \in Seq(Event)
  BY Parts
<1>2. \A i \in DOMAIN conn.buffer :
        conn.buffer[i] \in Event /\ conn.buffer[i].seq \in Nat
  BY <1>1, Seqs
<1>3. r.sent \in Nat /\ conn.sent \in Nat /\ e.seq \in Nat
  BY <1>1, Parts, Seqs
<1>4. \A i \in 1..n - 1 : i \in DOMAIN conn.buffer /\ conn.buffer[i].seq < e.seq
  <2>1. \A i \in 1..n - 1 : i \in DOMAIN conn.buffer /\ i < n
    BY <1>1
  <2> QED
    BY <2>1 DEF Rising
<1>5. \A i : i \in 1..n <=> i \in 1..n - 1 \/ i = n
  OBVIOUS
<1> HIDE DEF e
<1>6. CASE e.seq <= r.sent
  <2>1. new = r
    BY <1>1, <1>6, Sends
  <2>2. r.sent = conn.sent
    BY <1>2, <1>3, <1>4, <1>6 DEF Flushes
  <2>3. ~(e.seq > conn.sent)
    BY <1>3, <1>6, <2>2
  <2>4. \A i \in 1..n : conn.buffer[i].seq <= r.sent
    BY <1>5, <1>6 DEF Flushes, e
  <2>5. \A x : (\E i \in 1..n : x = conn.buffer[i] /\ x.seq > conn.sent)
               <=> (\E i \in 1..n - 1 : x = conn.buffer[i] /\ x.seq > conn.sent)
    BY <1>5, <2>3 DEF e
  <2> QED
    BY <2>1, <2>2, <2>4, <2>5 DEF Flushes, e
<1>7. CASE e.seq > r.sent
  <2>1. new.sent = e.seq /\ new.chain = Append(r.chain, e) /\ Rest(new, conn)
    BY <1>1, <1>7, Sends DEF Flushes, Rest
  <2>2. conn.sent <= new.sent /\ e.seq > conn.sent
    BY <1>3, <1>7, <2>1 DEF Flushes
  <2>3. \E i \in 1..n : new.sent = conn.buffer[i].seq
    BY <1>5, <2>1 DEF e
  <2>4. \A i \in 1..n : conn.buffer[i].seq <= new.sent
    BY <1>2, <1>3, <1>4, <1>5, <2>1 DEF e
  <2>5. \A x : In(new.chain, x) <=> In(r.chain, x) \/ x = e
    BY <1>1, <2>1, InAppend
  <2>6. \A x : (\E i \in 1..n : x = conn.buffer[i] /\ x.seq > conn.sent)
               <=> \/ \E i \in 1..n - 1 : x = conn.buffer[i] /\ x.seq > conn.sent
                   \/ x = e
    BY <1>5, <2>2 DEF e
  <2>7. \A x : In(r.chain, x) <=>
                 \/ In(conn.chain, x)
                 \/ \E i \in 1..n - 1 : x = conn.buffer[i] /\ x.seq > conn.sent
    BY DEF Flushes
  <2>8. \A x : In(new.chain, x) <=>
                 \/ In(conn.chain, x)
                 \/ \E i \in 1..n : x = conn.buffer[i] /\ x.seq > conn.sent
    BY <2>5, <2>6, <2>7
  <2> QED
    BY <2>1, <2>2, <2>3, <2>4, <2>8 DEF Flushes, e
<1> QED
  BY <1>3, <1>6, <1>7

\* The whole flush.
LEMMA FlushedFacts ==
  ASSUME NEW conn \in Response, NEW last \in Nat, InOrder(conn, last),
         Rising(conn.buffer), \A i \in DOMAIN conn.buffer : Ordinary(conn.buffer[i])
  PROVE  /\ Flushed(conn) \in Response /\ InOrder(Flushed(conn), last)
         /\ Flushes(conn, Flushed(conn), Len(conn.buffer))
<1> DEFINE N == Len(conn.buffer)
<1>1. N \in Nat /\ DOMAIN conn.buffer = 1..N /\ \A n \in 1..N : conn.buffer[n] \in Event
  BY Parts
<1>2. PICK g \in [0..N -> Response] : SendsAll(conn, g, N) /\ Flushed(conn) = g[N]
  BY FlushedIs
<1> DEFINE Good(n) == InOrder(g[n], last) /\ Flushes(conn, g[n], n)
           S == {n \in 0..N : ~Good(n)}
<1>3. S = {}
  <2> SUFFICES ASSUME S # {} PROVE FALSE
    OBVIOUS
  <2>1. PICK k \in S : \A x \in S : k <= x
    <3>1. S \in SUBSET Nat
      BY <1>1
    <3> HIDE DEF S
    <3> QED
      BY <3>1, SmallestOf
  <2>2. k \in 0..N /\ ~Good(k)
    BY <2>1
  <2>3. k # 0
    <3>1. g[0] = conn
      BY <1>2 DEF SendsAll
    <3>2. 1..0 = {} /\ conn.sent \in Nat
      BY Parts
    <3>3. Good(0)
      BY <3>1, <3>2 DEF Flushes, Rest
    <3> HIDE DEF Good
    <3> QED
      BY <2>2, <3>3
  <2>4. /\ k \in Nat \ {0} /\ k \in 1..N /\ k - 1 \in 0..N /\ k - 1 \notin S
    <3>1. k \in Nat \ {0} /\ k \in 1..N /\ k - 1 \in 0..N /\ ~(k <= k - 1)
      BY <1>1, <2>2, <2>3
    <3> HIDE DEF S
    <3> QED
      BY <2>1, <3>1
  <2>5. Good(k - 1)
    BY <2>4
  <2>6. g[k] = Send(g[k - 1], conn.buffer[k]) /\ g[k - 1] \in Response
    BY <1>2, <2>4 DEF SendsAll
  <2>7. InOrder(g[k], last)
    BY <1>1, <2>4, <2>5, <2>6, SendKeepsOrder
  <2>8. Flushes(conn, g[k], k)
    BY <1>1, <2>4, <2>5, <2>6, FlushesOneMore
  <2> QED
    BY <2>2, <2>7, <2>8
<1>4. Good(N) /\ g[N] \in Response
  BY <1>1, <1>3
<1> QED
  BY <1>2, <1>4

(***************************************************************************)
(* A frame is written, a frame is read.                                    *)
(***************************************************************************)

\* The frames of an event: its own first, if it has one, and a note behind it.
LEMMA FramesFacts ==
  ASSUME NEW e \in Event, Ordinary(e)
  PROVE  /\ FramesOf(e) \in Seq(Event)
         /\ \A i \in DOMAIN FramesOf(e) :
              Ordinary(FramesOf(e)[i]) => i = 1 /\ FramesOf(e)[i] = e /\ OnWire(e)
         /\ OnWire(e) => In(FramesOf(e), e)
<1> DEFINE note == [e EXCEPT !.kind = "unadmitted"]
<1>1. note \in Event /\ ~Ordinary(note)
  BY DEF Event, Ordinary
<1> HIDE DEF note
<1>2. /\ <<e>> \in Seq(Event) /\ <<note>> \in Seq(Event) /\ <<e, note>> \in Seq(Event)
      /\ <<>> \in Seq(Event)
  BY <1>1
<1>3. /\ <<e>> \o <<>> = <<e>> /\ <<>> \o <<note>> = <<note>> /\ <<>> \o <<>> = <<>>
      /\ <<e>> \o <<note>> = <<e, note>>
  <2>1. <<e>> \o <<>> = <<e>> /\ <<>> \o <<note>> = <<note>> /\ <<>> \o <<>> = <<>>
    BY <1>2, ConcatEmptySeq
  <2>2. <<e>> \o <<note>> = Append(<<e>>, note)
    BY <1>1, <1>2, AppendIsConcat
  <2>3. Append(<<e>>, note) = <<e, note>>
    <3> DEFINE s == Append(<<e>>, note)
    <3>1. s \in Seq(Event) /\ Len(s) = 2 /\ s[1] = e /\ s[2] = note
      BY <1>1, <1>2
    <3> DEFINE t == <<e, note>>
    <3>2. t \in Seq(Event) /\ Len(t) = 2 /\ t[1] = e /\ t[2] = note
      BY <1>2
    <3> HIDE DEF s, t
    <3>3. \A i \in 1..Len(s) : i = 1 \/ i = 2
      BY <3>1
    <3>4. s = t
      BY <3>1, <3>2, <3>3, SeqEqual
    <3> QED
      BY <3>4 DEF s, t
  <2> QED
    BY <2>1, <2>2, <2>3
<1>4. OnWire(e) => FramesOf(e) \in {<<e>>, <<e, note>>}
  BY <1>3 DEF FramesOf, note
<1>5. ~OnWire(e) => FramesOf(e) \in {<<>>, <<note>>}
  BY <1>3 DEF FramesOf, note
<1>6. \A i \in DOMAIN <<e, note>> : i = 1 \/ i = 2
  OBVIOUS
<1>7. \A i \in DOMAIN <<e>> : i = 1
  OBVIOUS
<1>8. \A i \in DOMAIN <<note>> : i = 1
  OBVIOUS
<1>9. \A i \in DOMAIN FramesOf(e) :
        Ordinary(FramesOf(e)[i]) => i = 1 /\ FramesOf(e)[i] = e /\ OnWire(e)
  <2>1. CASE FramesOf(e) = <<>>
    BY <2>1
  <2>2. CASE FramesOf(e) = <<note>>
    <3>1. \A i \in DOMAIN FramesOf(e) : FramesOf(e)[i] = note
      BY <2>2, <1>8
    <3> QED
      BY <1>1, <3>1
  <2>3. CASE OnWire(e) /\ FramesOf(e) = <<e>>
    BY <2>3, <1>7
  <2>4. CASE OnWire(e) /\ FramesOf(e) = <<e, note>>
    <3>1. FramesOf(e)[1] = e /\ FramesOf(e)[2] = note
      BY <2>4
    <3> QED
      BY <1>1, <1>6, <2>4, <3>1
  <2> QED
    BY <1>4, <1>5, <2>1, <2>2, <2>3, <2>4
<1>10. OnWire(e) => In(FramesOf(e), e)
  BY <1>4 DEF In
<1> QED
  BY <1>2, <1>4, <1>5, <1>9, <1>10

Framed(conn) == [conn EXCEPT !.chain = Tail(conn.chain),
                             !.wire = conn.wire \o FramesOf(Head(conn.chain))]

LEMMA FramedIs ==
  ASSUME NEW conn \in Response, conn.chain # <<>>, Ordinary(Head(conn.chain))
  PROVE  /\ Framed(conn) \in Response
         /\ Framed(conn).chain = Tail(conn.chain)
         /\ Framed(conn).wire = conn.wire \o FramesOf(Head(conn.chain))
         /\ Framed(conn).at = conn.at /\ Framed(conn).from = conn.from
         /\ Framed(conn).sent = conn.sent
         /\ Framed(conn).replay = conn.replay /\ Framed(conn).buffer = conn.buffer
<1>1. conn.chain \in Seq(Event) /\ conn.wire \in Seq(Event)
  BY Parts
<1>2. Head(conn.chain) \in Event /\ Tail(conn.chain) \in Seq(Event)
  BY <1>1, Ends1
<1> DEFINE w == conn.wire \o FramesOf(Head(conn.chain))
           t == Tail(conn.chain)
<1>3. w \in Seq(Event) /\ t \in Seq(Event)
  BY <1>1, <1>2, FramesFacts
<1>4. Framed(conn) = [conn EXCEPT !.chain = t, !.wire = w]
  BY DEF Framed
<1> HIDE DEF w, t
<1>5. /\ Framed(conn) \in Response
      /\ Framed(conn).chain = t /\ Framed(conn).wire = w
      /\ Framed(conn).at = conn.at /\ Framed(conn).from = conn.from
      /\ Framed(conn).sent = conn.sent
      /\ Framed(conn).replay = conn.replay /\ Framed(conn).buffer = conn.buffer
  BY <1>3, <1>4 DEF Response
<1> QED
  BY <1>5 DEF w, t

\* The wire grows by the first of what waits for its frame.
LEMMA FramedFacts ==
  ASSUME NEW conn \in Response, conn.chain # <<>>,
         \A i \in DOMAIN conn.chain : Ordinary(conn.chain[i]),
         NEW last \in Nat, InOrder(conn, last)
  PROVE  /\ InOrder(Framed(conn), last)
         /\ \A x : In(conn.wire, x) \/ (x = Head(conn.chain) /\ OnWire(x)) =>
                     In(Framed(conn).wire, x)
         /\ \A i \in DOMAIN Framed(conn).wire :
              \/ In(conn.wire, Framed(conn).wire[i])
              \/ ~Ordinary(Framed(conn).wire[i])
              \/ Framed(conn).wire[i] = Head(conn.chain) /\ OnWire(Head(conn.chain))
<1> DEFINE new == Framed(conn)
           e == Head(conn.chain)
           F == FramesOf(e)
           k == Len(conn.wire)
<1>1. conn.chain \in Seq(Event) /\ conn.wire \in Seq(Event) /\ conn.sent \in Nat
  BY Parts
<1>2. /\ e = conn.chain[1] /\ e \in Event /\ 1 \in DOMAIN conn.chain
      /\ DOMAIN conn.chain = 1..Len(conn.chain) /\ Len(conn.chain) \in Nat \ {0}
      /\ Tail(conn.chain) \in Seq(Event) /\ Len(Tail(conn.chain)) = Len(conn.chain) - 1
      /\ \A i \in DOMAIN Tail(conn.chain) : Tail(conn.chain)[i] = conn.chain[i + 1]
  <2> HIDE DEF e
  <2>1. /\ e = conn.chain[1] /\ e \in Event
        /\ DOMAIN conn.chain = 1..Len(conn.chain) /\ Len(conn.chain) \in Nat \ {0}
        /\ Tail(conn.chain) \in Seq(Event)
        /\ Len(Tail(conn.chain)) = Len(conn.chain) - 1
        /\ \A i \in DOMAIN Tail(conn.chain) : Tail(conn.chain)[i] = conn.chain[i + 1]
    BY <1>1, Ends1 DEF e
  <2> QED
    BY <2>1
<1>3. Ordinary(e)
  BY <1>2
<1>4. /\ F \in Seq(Event)
      /\ \A i \in DOMAIN F : Ordinary(F[i]) => i = 1 /\ F[i] = e /\ OnWire(e)
      /\ OnWire(e) => In(F, e)
  BY <1>2, <1>3, FramesFacts
<1> HIDE DEF e, F
<1>5. /\ new.chain = Tail(conn.chain) /\ new.wire = conn.wire \o F
      /\ new.sent = conn.sent
  BY <1>3, FramedIs DEF F, e
<1> HIDE DEF new
<1>6. /\ k \in Nat /\ Len(F) \in Nat /\ DOMAIN conn.wire = 1..k /\ DOMAIN F = 1..Len(F)
      /\ DOMAIN new.wire = 1..k + Len(F)
      /\ \A i \in 1..k : new.wire[i] = conn.wire[i]
      /\ \A i \in k + 1..k + Len(F) : new.wire[i] = F[i - k]
  BY <1>1, <1>4, <1>5
<1> HIDE DEF k
\* What is ordinary beyond the old wire is the event, at the next place.
<1>7. \A i \in DOMAIN new.wire :
        i \in DOMAIN conn.wire \/ ~Ordinary(new.wire[i])
          \/ (i = k + 1 /\ new.wire[i] = e /\ OnWire(e))
  <2> SUFFICES ASSUME NEW i \in DOMAIN new.wire, i \notin DOMAIN conn.wire,
                      Ordinary(new.wire[i])
               PROVE  i = k + 1 /\ new.wire[i] = e /\ OnWire(e)
    OBVIOUS
  <2>1. i \in k + 1..k + Len(F) /\ i - k \in DOMAIN F
    BY <1>6
  <2> QED
    BY <1>4, <1>6, <2>1
<1>8. \A i \in DOMAIN Tail(conn.chain) : i + 1 \in DOMAIN conn.chain /\ 1 < i + 1
                                         /\ new.chain[i] = conn.chain[i + 1]
  BY <1>2, <1>5
<1>9. \A i \in DOMAIN conn.chain : conn.chain[i].seq \in Nat /\ Ordinary(conn.chain[i])
  BY <1>1, Seqs
<1>10. \A i \in DOMAIN conn.wire : conn.wire[i].seq \in Nat
  BY <1>1, Seqs
<1>11. \A i \in DOMAIN conn.wire : Ordinary(conn.wire[i]) => conn.wire[i].seq < e.seq
  BY <1>2 DEF InOrder, Before
<1>12. Rising(new.wire)
  <2> SUFFICES ASSUME NEW i \in DOMAIN new.wire, NEW j \in DOMAIN new.wire, i < j,
                      Ordinary(new.wire[i]), Ordinary(new.wire[j])
               PROVE  new.wire[i].seq < new.wire[j].seq
    BY DEF Rising
  <2>1. CASE j \in DOMAIN conn.wire
    <3>1. i \in DOMAIN conn.wire
      BY <1>6, <2>1
    <3> QED
      BY <1>6, <2>1, <3>1 DEF InOrder, Rising
  <2>2. CASE j = k + 1 /\ new.wire[j] = e
    <3>1. i \in DOMAIN conn.wire
      BY <1>6, <2>2
    <3> QED
      BY <1>6, <1>11, <2>2, <3>1
  <2> QED
    BY <1>7, <2>1, <2>2
<1>13. Rising(new.chain)
  <2> SUFFICES ASSUME NEW i \in DOMAIN new.chain, NEW j \in DOMAIN new.chain, i < j
               PROVE  new.chain[i].seq < new.chain[j].seq
    BY DEF Rising
  <2>1. /\ i + 1 \in DOMAIN conn.chain /\ new.chain[i] = conn.chain[i + 1]
        /\ j + 1 \in DOMAIN conn.chain /\ new.chain[j] = conn.chain[j + 1]
    BY <1>5, <1>8
  <2>2. i + 1 < j + 1
    BY <1>2, <1>5
  <2> QED
    BY <1>9, <2>1, <2>2 DEF InOrder, Rising
<1>14. Before(new.wire, new.chain)
  <2> SUFFICES ASSUME NEW i \in DOMAIN new.wire, NEW j \in DOMAIN new.chain,
                      Ordinary(new.wire[i])
               PROVE  new.wire[i].seq < new.chain[j].seq
    BY DEF Before
  <2>1. j + 1 \in DOMAIN conn.chain /\ 1 < j + 1 /\ new.chain[j] = conn.chain[j + 1]
    BY <1>5, <1>8
  <2>2. CASE i \in DOMAIN conn.wire
    BY <1>6, <2>1, <2>2 DEF InOrder, Before
  <2>3. CASE new.wire[i] = e
    BY <1>2, <1>9, <2>1, <2>3 DEF InOrder, Rising
  <2> QED
    BY <1>7, <2>2, <2>3
<1>15. Within(new.wire, last, new.sent)
  <2>1. last < e.seq /\ e.seq <= conn.sent
    BY <1>2, <1>3 DEF InOrder, Within
  <2> QED
    BY <1>5, <1>6, <1>7, <2>1 DEF InOrder, Within
<1>16. Within(new.chain, last, new.sent)
  BY <1>5, <1>8 DEF InOrder, Within
<1>17. InOrder(new, last)
  BY <1>5, <1>12, <1>13, <1>14, <1>15, <1>16 DEF InOrder
<1>18. \A x : In(new.wire, x) <=> In(conn.wire, x) \/ In(F, x)
  BY <1>1, <1>4, <1>5, InJoined
<1>19. \A i \in DOMAIN new.wire :
         In(conn.wire, new.wire[i]) \/ ~Ordinary(new.wire[i])
           \/ (new.wire[i] = e /\ OnWire(e))
  BY <1>6, <1>7 DEF In
<1> QED
  BY <1>4, <1>17, <1>18, <1>19 DEF new, e

Taken(conn) == [conn EXCEPT !.wire = Tail(conn.wire)]
Newest(e, last) == IF Ordinary(e) THEN e.seq ELSE last

LEMMA TakenIs ==
  ASSUME NEW conn \in Response, conn.wire # <<>>
  PROVE  /\ Taken(conn) \in Response /\ Taken(conn).wire = Tail(conn.wire)
         /\ Taken(conn).at = conn.at /\ Taken(conn).from = conn.from
         /\ Taken(conn).sent = conn.sent /\ Taken(conn).chain = conn.chain
         /\ Taken(conn).replay = conn.replay /\ Taken(conn).buffer = conn.buffer
<1> DEFINE t == Tail(conn.wire)
<1>1. t \in Seq(Event)
  BY Parts, Ends1
<1>2. Taken(conn) = [conn EXCEPT !.wire = t]
  BY DEF Taken
<1> HIDE DEF t
<1>3. /\ Taken(conn) \in Response /\ Taken(conn).wire = t
      /\ Taken(conn).at = conn.at /\ Taken(conn).from = conn.from
      /\ Taken(conn).sent = conn.sent /\ Taken(conn).chain = conn.chain
      /\ Taken(conn).replay = conn.replay /\ Taken(conn).buffer = conn.buffer
  BY <1>1, <1>2 DEF Response
<1> QED
  BY <1>3 DEF t

\* What is read is newer than what the client has, and the rest is newer still:
\* the check that skips an event the client has never skips one.
LEMMA TakenFacts ==
  ASSUME NEW conn \in Response, conn.wire # <<>>, NEW last \in Nat, InOrder(conn, last)
  PROVE  /\ Head(conn.wire) \in Event
         /\ Ordinary(Head(conn.wire)) => last < Head(conn.wire).seq
         /\ InOrder(Taken(conn), Newest(Head(conn.wire), last))
         /\ \A i \in DOMAIN Taken(conn).wire : In(conn.wire, Taken(conn).wire[i])
<1> DEFINE new == Taken(conn)
           e == Head(conn.wire)
           w == conn.wire
           next == Newest(e, last)
<1>1. conn.chain \in Seq(Event) /\ w \in Seq(Event) /\ conn.sent \in Nat
  BY Parts
<1>2. /\ e = w[1] /\ e \in Event /\ 1 \in DOMAIN w
      /\ DOMAIN w = 1..Len(w) /\ Len(w) \in Nat \ {0}
      /\ \A i \in DOMAIN Tail(w) : Tail(w)[i] = w[i + 1]
      /\ DOMAIN Tail(w) = 1..Len(w) - 1
  <2> HIDE DEF e, w
  <2>1. /\ e = w[1] /\ e \in Event
        /\ DOMAIN w = 1..Len(w) /\ Len(w) \in Nat \ {0}
        /\ Tail(w) \in Seq(Event) /\ Len(Tail(w)) = Len(w) - 1
        /\ \A i \in DOMAIN Tail(w) : Tail(w)[i] = w[i + 1]
    BY <1>1, Ends1 DEF e, w
  <2> QED
    BY <2>1
<1>3. new.wire = Tail(w) /\ new.chain = conn.chain /\ new.sent = conn.sent
  BY TakenIs
<1> HIDE DEF e, new
<1>4. \A i \in DOMAIN new.wire :
        i + 1 \in DOMAIN w /\ 1 < i + 1 /\ new.wire[i] = w[i + 1]
  BY <1>2, <1>3
<1>5. \A i \in DOMAIN w : w[i].seq \in Nat
  BY <1>1, Seqs
<1>6. \A i \in DOMAIN conn.chain : conn.chain[i].seq \in Nat
  BY <1>1, Seqs
<1>7. Ordinary(e) => last < e.seq /\ e.seq <= conn.sent
  BY <1>2 DEF InOrder, Within
<1>8. next \in Nat /\ next <= conn.sent /\ (~Ordinary(e) => next = last)
      /\ (Ordinary(e) => next = e.seq)
  BY <1>2, <1>5, <1>7 DEF Newest, InOrder
<1> HIDE DEF next
<1>9. Rising(new.wire)
  <2> SUFFICES ASSUME NEW i \in DOMAIN new.wire, NEW j \in DOMAIN new.wire, i < j,
                      Ordinary(new.wire[i]), Ordinary(new.wire[j])
               PROVE  new.wire[i].seq < new.wire[j].seq
    BY DEF Rising
  <2>1. i + 1 < j + 1
    BY <1>2, <1>3
  <2> QED
    BY <1>4, <2>1 DEF InOrder, Rising
<1>10. Before(new.wire, new.chain)
  BY <1>3, <1>4 DEF InOrder, Before
<1>11. Within(new.wire, next, new.sent)
  <2> SUFFICES ASSUME NEW i \in DOMAIN new.wire, Ordinary(new.wire[i])
               PROVE  next < new.wire[i].seq /\ new.wire[i].seq <= conn.sent
    BY <1>3 DEF Within
  <2>1. last < new.wire[i].seq /\ new.wire[i].seq <= conn.sent
    BY <1>4 DEF InOrder, Within
  <2>2. Ordinary(e) => e.seq < new.wire[i].seq
    BY <1>2, <1>4 DEF InOrder, Rising
  <2> QED
    BY <1>8, <2>1, <2>2
<1>12. Within(new.chain, next, new.sent)
  <2> SUFFICES ASSUME NEW i \in DOMAIN conn.chain, Ordinary(conn.chain[i])
               PROVE  next < conn.chain[i].seq /\ conn.chain[i].seq <= conn.sent
    BY <1>3 DEF Within
  <2>1. last < conn.chain[i].seq /\ conn.chain[i].seq <= conn.sent
    BY DEF InOrder, Within
  <2>2. Ordinary(e) => e.seq < conn.chain[i].seq
    BY <1>2 DEF InOrder, Before
  <2> QED
    BY <1>8, <2>1, <2>2
<1>13. InOrder(new, next)
  BY <1>3, <1>8, <1>9, <1>10, <1>11, <1>12 DEF InOrder
<1>14. \A i \in DOMAIN new.wire : In(w, new.wire[i])
  BY <1>4 DEF In
<1> QED
  BY <1>2, <1>7, <1>13, <1>14 DEF e, new, next

(***************************************************************************)
(* The connections of the clients.                                         *)
(***************************************************************************)

LEMMA CurrentIs ==
  ASSUME TypeOK, NEW c \in Clients, Has(c)
  PROVE  connections[c] \in Seq(Response) /\ Current(c) \in Response
<1>1. connections[c] \in Seq(Response)
  BY DEF TypeOK
<1> QED
  BY <1>1, Ends1 DEF Has, Current

LEMMA BecomesIs ==
  ASSUME TypeOK, NEW c \in Clients, Has(c), NEW new \in Response, Becomes(c, new)
  PROVE  /\ connections' \in [Clients -> Seq(Response)]
         /\ Has(c)' /\ Current(c)' = new
         /\ \A d \in Clients : d # c => connections'[d] = connections[d]
<1> DEFINE s == Append(Front(connections[c]), new)
<1>1. s \in Seq(Response) /\ s # <<>> /\ Last(s) = new
  BY CurrentIs, Replacing DEF Has
<1>2. connections' = [connections EXCEPT ![c] = s]
  BY DEF Becomes
<1>3. connections \in [Clients -> Seq(Response)]
  BY DEF TypeOK
<1> HIDE DEF s
<1>4. connections'[c] = s /\ connections' \in [Clients -> Seq(Response)]
      /\ \A d \in Clients : d # c => connections'[d] = connections[d]
  BY <1>1, <1>2, <1>3
<1> QED
  BY <1>1, <1>4 DEF Has, Current

\* A new connection is the current one.
LEMMA ConnectsIs ==
  ASSUME TypeOK, NEW c \in Clients, NEW new \in Response, NEW old \in Seq(Response),
         connections' = [connections EXCEPT ![c] = Append(old, new)]
  PROVE  /\ connections' \in [Clients -> Seq(Response)]
         /\ Has(c)' /\ Current(c)' = new
         /\ \A d \in Clients : d # c => connections'[d] = connections[d]
<1> DEFINE s == Append(old, new)
<1>1. s \in Seq(Response) /\ s # <<>> /\ Last(s) = new
  <2>1. s \in Seq(Response) /\ Len(s) = Len(old) + 1 /\ s[Len(old) + 1] = new
        /\ Len(old) \in Nat
    OBVIOUS
  <2> QED
    BY <2>1 DEF Last
<1>2. connections \in [Clients -> Seq(Response)]
  BY DEF TypeOK
<1> HIDE DEF s
<1>3. connections'[c] = s /\ connections' \in [Clients -> Seq(Response)]
      /\ \A d \in Clients : d # c => connections'[d] = connections[d]
  BY <1>1, <1>2 DEF s
<1> QED
  BY <1>1, <1>3 DEF Has, Current

\* Every connection is changed in its place.
LEMMA MappedIs ==
  ASSUME TypeOK, NEW f \in [Response -> Response],
         connections' = [c \in Clients |->
           [k \in DOMAIN connections[c] |-> f[connections[c][k]]]]
  PROVE  /\ connections' \in [Clients -> Seq(Response)]
         /\ \A c \in Clients : /\ Has(c)' <=> Has(c)
                               /\ Has(c) => Current(c)' = f[Current(c)]
<1>1. ASSUME NEW c \in Clients
      PROVE  /\ connections'[c] \in Seq(Response)
             /\ Has(c)' <=> Has(c)
             /\ Has(c) => Current(c)' = f[Current(c)]
  <2> DEFINE s == connections[c]
             t == [k \in DOMAIN s |-> f[s[k]]]
  <2>1. s \in Seq(Response) /\ connections'[c] = t
    BY DEF TypeOK
  <2> HIDE DEF s
  <2>2. DOMAIN s = 1..Len(s) /\ Len(s) \in Nat /\ \A k \in DOMAIN s : s[k] \in Response
    BY <2>1
  <2>3. t \in Seq(Response) /\ Len(t) = Len(s) /\ \A k \in DOMAIN s : t[k] = f[s[k]]
    BY <2>2
  <2> HIDE DEF t
  <2>4. t # <<>> <=> s # <<>>
    BY <2>1, <2>3
  <2>5. s # <<>> => t[Len(t)] = f[s[Len(s)]]
    BY <2>1, <2>2, <2>3
  <2> QED
    BY <2>1, <2>3, <2>4, <2>5 DEF Has, Current, Last, s
<1>2. DOMAIN connections' = Clients
  OBVIOUS
<1>3. connections' = [c \in Clients |-> connections'[c]]
  BY <1>2
<1> QED
  BY <1>1, <1>3

(***************************************************************************)
(* Types.                                                                  *)
(***************************************************************************)

LEMMA MaxLogIs == MaxLog \in Nat
  BY StreamAssumption

LEMMA Bounds ==
  /\ MaxDeaths \in Nat
  /\ Kinds \subseteq {"text", "hidden", "terminal", "unfinished"}
  /\ Followers \cap Callers = {}
<1>1. MaxDeaths \in Nat
  BY StreamAssumption
<1>2. Kinds \subseteq {"text", "hidden", "terminal", "unfinished"}
  BY StreamAssumption
<1>3. Followers \cap Callers = {}
  BY StreamAssumption
<1> QED
  BY <1>1, <1>2, <1>3

LEMMA LogIs ==
  ASSUME TypeOK
  PROVE  /\ log \in Seq(Event) /\ Len(log) \in Nat /\ DOMAIN log = 1..Len(log)
         /\ written \in Nat /\ written <= Len(log)
         /\ \A n \in DOMAIN log : log[n] \in Event
<1>1. log \in Seq(Event) /\ written \in 0..Len(log)
  BY DEF TypeOK
<1> QED
  BY <1>1

\* A new line of the log.
LEMMA EntryIs ==
  ASSUME TypeOK, Len(log) < MaxLog, NEW kind \in Kinds \cup {"aside"}
  PROVE  /\ Entry(kind) \in Event /\ Entry(kind).seq = Len(log) + 1
         /\ Entry(kind).kind = kind /\ Ordinary(Entry(kind))
<1>1. Len(log) \in Nat /\ MaxLog \in Nat
  BY MaxLogIs, LogIs
<1>2. Len(log) + 1 \in 1..MaxLog
  BY <1>1
<1>3. kind # "unadmitted"
  BY Bounds
<1> QED
  BY <1>2, <1>3 DEF Entry, Event, Ordinary, TypeOK

LEMMA AppendIs ==
  ASSUME TypeOK, NEW e \in Event, log' = Append(log, e)
  PROVE  /\ log' \in Seq(Event) /\ Len(log') = Len(log) + 1
         /\ DOMAIN log' = 1..Len(log) + 1
         /\ \A n \in DOMAIN log : log'[n] = log[n]
         /\ log'[Len(log) + 1] = e
<1>1. log \in Seq(Event) /\ Len(log) \in Nat /\ DOMAIN log = 1..Len(log)
  BY LogIs
<1> QED
  BY <1>1

\* The steps of the log and the pump keep the types.
LEMMA ServerTypes ==
  ASSUME TypeOK, RunStarts \/ Aside \/ Write \/ \E kind \in Kinds : Emit(kind)
  PROVE  TypeOK'
<1>1. log \in Seq(Event) /\ Len(log) \in Nat /\ written \in Nat /\ written <= Len(log)
  BY LogIs
<1>2. CASE RunStarts
  BY <1>2 DEF RunStarts, TypeOK, Pump, clientVars
<1>3. CASE Aside
  <2>1. Len(log) < MaxLog
    BY <1>1, <1>3, MaxLogIs DEF Aside
  <2>2. log' = Append(log, Entry("aside")) /\ Entry("aside") \in Event
    BY <1>3, <2>1, EntryIs DEF Aside
  <2>3. log' \in Seq(Event) /\ written' \in 0..Len(log')
    BY <1>1, <1>3, <2>2, AppendIs DEF Aside
  <2> QED
    BY <1>3, <2>3 DEF Aside, TypeOK, clientVars
<1>4. CASE Write
  <2>1. written' \in 0..Len(log')
    BY <1>1, <1>4 DEF Write
  <2> QED
    BY <1>4, <2>1 DEF Write, TypeOK, clientVars
<1>5. ASSUME NEW kind \in Kinds, Emit(kind) PROVE TypeOK'
  <2>1. log' = Append(log, Entry(kind)) /\ Entry(kind) \in Event
    BY <1>5, EntryIs DEF Emit
  <2>2. log' \in Seq(Event) /\ written' \in 0..Len(log')
    BY <1>1, <1>5, <2>1, AppendIs DEF Emit
  <2> QED
    BY <1>5, <2>2 DEF Emit, TypeOK, Pump, clientVars
<1> QED
  BY <1>2, <1>3, <1>4, <1>5

\* What a delivery does to each connection.
LEMMA HearIs ==
  ASSUME NEW conn \in Response, NEW e \in Event
  PROVE  /\ Hear(conn, e) \in Response
         /\ Hear(conn, e).at = conn.at /\ Hear(conn, e).from = conn.from
         /\ Hear(conn, e).wire = conn.wire /\ Hear(conn, e).replay = conn.replay
         /\ conn.at = "replaying" =>
              /\ Hear(conn, e).buffer = Append(conn.buffer, e)
              /\ Hear(conn, e).chain = conn.chain /\ Hear(conn, e).sent = conn.sent
         /\ conn.at = "live" => Hear(conn, e) = Send(conn, e)
         /\ conn.at \notin {"replaying", "live"} => Hear(conn, e) = conn
<1>1. CASE conn.at = "replaying"
  <2> DEFINE b == Append(conn.buffer, e)
  <2>1. b \in Seq(Event)
    BY Parts
  <2>2. Hear(conn, e) = [conn EXCEPT !.buffer = b]
    BY <1>1 DEF Hear
  <2> HIDE DEF b
  <2>3. /\ Hear(conn, e) \in Response
        /\ Hear(conn, e).at = conn.at /\ Hear(conn, e).from = conn.from
        /\ Hear(conn, e).wire = conn.wire /\ Hear(conn, e).replay = conn.replay
        /\ Hear(conn, e).buffer = b
        /\ Hear(conn, e).chain = conn.chain /\ Hear(conn, e).sent = conn.sent
    BY <2>1, <2>2 DEF Response
  <2> QED
    BY <1>1, <2>3 DEF b
<1>2. CASE conn.at = "live"
  <2>1. Hear(conn, e) = Send(conn, e)
    BY <1>2 DEF Hear
  <2> QED
    BY <1>2, <2>1, Sends
<1>3. CASE conn.at \notin {"replaying", "live"}
  BY <1>3 DEF Hear
<1> QED
  BY <1>1, <1>2, <1>3

LEMMA DeliverFacts ==
  ASSUME TypeOK, Deliver, log # <<>>
  PROVE  /\ log[Len(log)] \in Event
         /\ connections' \in [Clients -> Seq(Response)]
         /\ \A c \in Clients :
              /\ Has(c)' <=> Has(c)
              /\ Has(c) => Current(c)' = Hear(Current(c), log[Len(log)])
<1>1. log \in Seq(Event) /\ Len(log) \in Nat /\ \A n \in DOMAIN log : log[n] \in Event
  BY LogIs
<1> DEFINE e == Last(log)
           f == [r \in Response |-> Hear(r, e)]
<1>2. e = log[Len(log)] /\ e \in Event
  BY <1>1 DEF Last
<1> HIDE DEF e
<1>3. f \in [Response -> Response]
  BY <1>2, HearIs
<1>4. connections' = [c \in Clients |->
        [k \in DOMAIN connections[c] |-> Hear(connections[c][k], e)]]
  BY DEF Deliver, e
<1>5. \A c \in Clients : \A k \in DOMAIN connections[c] : connections[c][k] \in Response
  BY DEF TypeOK
<1>6. connections' = [c \in Clients |->
        [k \in DOMAIN connections[c] |-> f[connections[c][k]]]]
  BY <1>4, <1>5
<1> HIDE DEF f
<1>7. /\ connections' \in [Clients -> Seq(Response)]
      /\ \A c \in Clients : /\ Has(c)' <=> Has(c)
                            /\ Has(c) => Current(c)' = f[Current(c)]
  BY <1>3, <1>6, MappedIs
<1>8. \A c \in Clients : Has(c) => f[Current(c)] = Hear(Current(c), e)
  BY CurrentIs DEF f
<1> QED
  BY <1>2, <1>7, <1>8

LEMMA DieFacts ==
  ASSUME TypeOK, Die
  PROVE  /\ connections' \in [Clients -> Seq(Response)]
         /\ \A c \in Clients :
              /\ Has(c)' <=> Has(c)
              /\ Has(c) => Current(c)' = Gone(Current(c), "left")
         /\ log' \in Seq(Event) /\ Len(log') = written
         /\ \A n \in DOMAIN log' : n \in DOMAIN log /\ n <= written /\ log'[n] = log[n]
         /\ cut' \subseteq Event
         /\ \A old \in cut : old \in cut'
         /\ \A n \in DOMAIN log : n > written => log[n] \in cut'
<1>1. /\ log \in Seq(Event) /\ Len(log) \in Nat /\ DOMAIN log = 1..Len(log)
      /\ written \in Nat /\ written <= Len(log)
      /\ \A n \in DOMAIN log : log[n] \in Event
  BY LogIs
<1>2. /\ log' \in Seq(Event) /\ Len(log') = written
      /\ \A n \in DOMAIN log' : n \in DOMAIN log /\ n <= written /\ log'[n] = log[n]
  <2>1. log' = SubSeq(log, 1, written)
    BY DEF Die
  <2> QED
    BY <1>1, <2>1
<1>3. cut' = cut \cup {log[n] : n \in written + 1..Len(log)} /\ cut \subseteq Event
  BY DEF Die, TypeOK
<1>4. \A n \in written + 1..Len(log) : n \in DOMAIN log /\ log[n] \in Event
  BY <1>1
<1>5. \A n \in DOMAIN log : n > written => n \in written + 1..Len(log)
  BY <1>1
<1> DEFINE f == [r \in Response |-> Gone(r, "left")]
<1>6. f \in [Response -> Response]
  BY GoneIs
<1>7. connections' = [c \in Clients |->
        [k \in DOMAIN connections[c] |-> Gone(connections[c][k], "left")]]
  BY DEF Die
<1>8. \A c \in Clients : \A k \in DOMAIN connections[c] : connections[c][k] \in Response
  BY DEF TypeOK
<1>9. connections' = [c \in Clients |->
        [k \in DOMAIN connections[c] |-> f[connections[c][k]]]]
  BY <1>7, <1>8
<1> HIDE DEF f
<1>10. /\ connections' \in [Clients -> Seq(Response)]
       /\ \A c \in Clients : /\ Has(c)' <=> Has(c)
                             /\ Has(c) => Current(c)' = f[Current(c)]
  BY <1>6, <1>9, MappedIs
<1>11. \A c \in Clients : Has(c) => f[Current(c)] = Gone(Current(c), "left")
  BY CurrentIs DEF f
<1> QED
  BY <1>2, <1>3, <1>4, <1>5, <1>10, <1>11

\* A step at one connection leaves the others as they are.
Others(c) == \A d \in Clients : d # c => connections'[d] = connections[d]
At(c) == /\ connections' \in [Clients -> Seq(Response)]
         /\ Has(c) /\ Has(c)' /\ Others(c)

LEMMA SubscribeFacts ==
  ASSUME TypeOK, NEW c \in Clients, Subscribe(c)
  PROVE  /\ At(c) /\ Current(c).at = "asked" /\ Current(c)'.at = "replaying"
         /\ Current(c)'.from = Current(c).from /\ Current(c)'.sent = Current(c).sent
         /\ Current(c)'.buffer = Current(c).buffer
         /\ Current(c)'.chain = Current(c).chain /\ Current(c)'.wire = Current(c).wire
         /\ Current(c)'.replay = SubSeq(log, Current(c).sent + 1, Len(log))
<1> DEFINE conn == Current(c)
           r == SubSeq(log, conn.sent + 1, Len(log))
           new == [conn EXCEPT !.at = "replaying", !.replay = r]
<1>1. Has(c) /\ conn.at = "asked" /\ Becomes(c, new)
  BY DEF Subscribe, On, Has
<1>2. conn \in Response
  BY <1>1, CurrentIs
<1>3. r \in Seq(Event)
  <2>1. conn.sent \in Nat /\ Len(log) \in Nat /\ log \in Seq(Event)
    BY <1>2, Parts, LogIs
  <2> QED
    BY <2>1
<1> HIDE DEF conn, r
<1>4. /\ new \in Response /\ new.at = "replaying" /\ new.replay = r
      /\ new.from = conn.from /\ new.sent = conn.sent
      /\ new.buffer = conn.buffer /\ new.chain = conn.chain /\ new.wire = conn.wire
  BY <1>2, <1>3 DEF Response
<1> HIDE DEF new
<1>5. /\ connections' \in [Clients -> Seq(Response)]
      /\ Has(c)' /\ Current(c)' = new
      /\ \A d \in Clients : d # c => connections'[d] = connections[d]
  BY <1>1, <1>4, BecomesIs
<1> QED
  BY <1>1, <1>4, <1>5 DEF At, Others, conn, r

\* Replayed is sent as if it were new; it is, which the invariant says.
LEMMA ReplayFacts ==
  ASSUME TypeOK, NEW c \in Clients, Replay(c)
  PROVE  /\ At(c) /\ Current(c).at = "replaying" /\ Current(c).replay # <<>>
         /\ Head(Current(c).replay) \in Event
         /\ Current(c)'.replay = Tail(Current(c).replay)
         /\ LET sent == Send(Current(c), Head(Current(c).replay)) IN
            /\ Current(c)'.at = "replaying" /\ Current(c)'.from = Current(c).from
            /\ Current(c)'.buffer = Current(c).buffer
            /\ Current(c)'.wire = Current(c).wire
            /\ Current(c)'.sent = sent.sent /\ Current(c)'.chain = sent.chain
<1> DEFINE conn == Current(c)
           e == Head(conn.replay)
           s == Send(conn, e)
           t == Tail(conn.replay)
           new == [s EXCEPT !.replay = t]
<1>1. Has(c) /\ conn.at = "replaying" /\ conn.replay # <<>>
  BY DEF Replay, On, Has
<1>2. conn \in Response
  BY <1>1, CurrentIs
<1>3. conn.replay \in Seq(Event)
  BY <1>2, Parts
<1>4. e \in Event /\ t \in Seq(Event)
  BY <1>1, <1>3, Ends1
<1> HIDE DEF conn, e
<1>5. /\ s \in Response /\ s.at = conn.at /\ s.from = conn.from
      /\ s.replay = conn.replay /\ s.buffer = conn.buffer /\ s.wire = conn.wire
  BY <1>2, <1>4, Sends
<1>6. Becomes(c, new)
  BY <1>5 DEF Replay, conn, e
<1> HIDE DEF s, t
<1>7. /\ new \in Response /\ new.at = s.at /\ new.replay = t
      /\ new.from = s.from /\ new.sent = s.sent
      /\ new.buffer = s.buffer /\ new.chain = s.chain /\ new.wire = s.wire
  BY <1>4, <1>5 DEF Response
<1> HIDE DEF new
<1>8. /\ connections' \in [Clients -> Seq(Response)]
      /\ Has(c)' /\ Current(c)' = new
      /\ \A d \in Clients : d # c => connections'[d] = connections[d]
  BY <1>1, <1>6, <1>7, BecomesIs
<1> QED
  BY <1>1, <1>4, <1>5, <1>7, <1>8 DEF At, Others, conn, e, s, t

\* The flush of a connection whose buffer is as the invariant says.
LEMMA ReplayEndsFacts ==
  ASSUME TypeOK, NEW c \in Clients, ReplayEnds(c),
         InOrder(Current(c), lastSeq[c]), Rising(Current(c).buffer),
         \A i \in DOMAIN Current(c).buffer : Ordinary(Current(c).buffer[i])
  PROVE  /\ At(c) /\ Current(c).at = "replaying" /\ Current(c).replay = <<>>
         /\ Current(c)'.at = "live" /\ Current(c)'.from = Current(c).from
         /\ Current(c)'.replay = <<>> /\ Current(c)'.buffer = <<>>
         /\ Current(c)'.wire = Current(c).wire
         /\ InOrder(Current(c)', lastSeq[c])
         /\ \E r \in Response :
              /\ Flushes(Current(c), r, Len(Current(c).buffer))
              /\ Current(c)'.sent = r.sent /\ Current(c)'.chain = r.chain
<1> DEFINE conn == Current(c)
           r == Flushed(conn)
           new == [r EXCEPT !.at = "live", !.buffer = <<>>]
<1>1. Has(c) /\ conn.at = "replaying" /\ conn.replay = <<>> /\ Becomes(c, new)
  BY DEF ReplayEnds, On, Has
<1>2. conn \in Response /\ lastSeq[c] \in Nat
  BY <1>1, CurrentIs, MaxLogIs DEF TypeOK
<1> HIDE DEF conn
<1>3. /\ r \in Response /\ InOrder(r, lastSeq[c])
      /\ Flushes(conn, r, Len(conn.buffer))
  BY <1>2, FlushedFacts DEF conn
<1>4. /\ r.at = conn.at /\ r.from = conn.from /\ r.replay = conn.replay
      /\ r.wire = conn.wire
  BY <1>3 DEF Flushes, Rest
<1> HIDE DEF r
<1>5. <<>> \in Seq(Event)
  OBVIOUS
<1>6. /\ new \in Response /\ new.at = "live" /\ new.buffer = <<>>
      /\ new.from = r.from /\ new.sent = r.sent
      /\ new.replay = r.replay /\ new.chain = r.chain /\ new.wire = r.wire
  BY <1>3, <1>5 DEF Response
<1> HIDE DEF new
<1>7. InOrder(new, lastSeq[c])
  BY <1>3, <1>6 DEF InOrder
<1>8. /\ connections' \in [Clients -> Seq(Response)]
      /\ Has(c)' /\ Current(c)' = new
      /\ \A d \in Clients : d # c => connections'[d] = connections[d]
  BY <1>1, <1>6, BecomesIs
<1> QED
  BY <1>1, <1>3, <1>4, <1>6, <1>7, <1>8 DEF At, Others, conn

LEMMA FrameStepFacts ==
  ASSUME TypeOK, NEW c \in Clients, Frame(c),
         \A i \in DOMAIN Current(c).chain : Ordinary(Current(c).chain[i])
  PROVE  /\ At(c) /\ Current(c).chain # <<>> /\ Current(c)' = Framed(Current(c))
         /\ Ordinary(Head(Current(c).chain)) /\ Framed(Current(c)) \in Response
<1> DEFINE conn == Current(c)
<1>1. Has(c) /\ conn.chain # <<>> /\ Becomes(c, Framed(conn))
  BY DEF Frame, Has, Framed
<1>2. conn \in Response
  BY <1>1, CurrentIs
<1>3. Ordinary(Head(conn.chain))
  <2>1. conn.chain \in Seq(Event)
    BY <1>2, Parts
  <2>2. Head(conn.chain) = conn.chain[1] /\ 1 \in DOMAIN conn.chain
    BY <1>1, <2>1
  <2> QED
    BY <2>2
<1>4. Framed(conn) \in Response
  BY <1>1, <1>2, <1>3, FramedIs
<1>5. /\ connections' \in [Clients -> Seq(Response)]
      /\ Has(c)' /\ Current(c)' = Framed(conn)
      /\ \A d \in Clients : d # c => connections'[d] = connections[d]
  BY <1>1, <1>4, BecomesIs
<1> QED
  BY <1>1, <1>3, <1>4, <1>5 DEF At, Others

LEMMA EndResponseFacts ==
  ASSUME TypeOK, NEW c \in Clients, EndResponse(c)
  PROVE  /\ At(c) /\ Current(c).at = "live" /\ Current(c).chain = <<>>
         /\ Current(c)'.at = "ended"
         /\ Current(c)'.from = Current(c).from /\ Current(c)'.sent = Current(c).sent
         /\ Current(c)'.buffer = Current(c).buffer
         /\ Current(c)'.replay = Current(c).replay
         /\ Current(c)'.chain = Current(c).chain /\ Current(c)'.wire = Current(c).wire
<1> DEFINE conn == Current(c)
           new == [conn EXCEPT !.at = "ended"]
<1>1. Has(c) /\ conn.at = "live" /\ conn.chain = <<>> /\ Becomes(c, new)
  BY DEF EndResponse, On, Has
<1>2. conn \in Response
  BY <1>1, CurrentIs
<1> HIDE DEF conn
<1>3. /\ new \in Response /\ new.at = "ended" /\ new.replay = conn.replay
      /\ new.from = conn.from /\ new.sent = conn.sent
      /\ new.buffer = conn.buffer /\ new.chain = conn.chain /\ new.wire = conn.wire
  BY <1>2 DEF Response
<1> HIDE DEF new
<1>4. /\ connections' \in [Clients -> Seq(Response)]
      /\ Has(c)' /\ Current(c)' = new
      /\ \A d \in Clients : d # c => connections'[d] = connections[d]
  BY <1>1, <1>3, BecomesIs
<1> QED
  BY <1>1, <1>3, <1>4 DEF At, Others, conn

\* A read gives the client what is newer than what it has.
LEMMA ReadFacts ==
  ASSUME TypeOK, NEW c \in Clients, Read(c), InOrder(Current(c), lastSeq[c])
  PROVE  /\ At(c) /\ Current(c).wire # <<>> /\ Current(c)' = Taken(Current(c))
         /\ Head(Current(c).wire) \in Event
         /\ got' = [got EXCEPT ![c] = Append(got[c], Head(Current(c).wire))]
         /\ lastSeq' = [lastSeq EXCEPT ![c] = Newest(Head(Current(c).wire), lastSeq[c])]
<1> DEFINE conn == Current(c)
           e == Head(conn.wire)
<1>1. Has(c) /\ conn.wire # <<>> /\ Becomes(c, Taken(conn))
  BY DEF Read, Has, Taken
<1>2. conn \in Response /\ lastSeq[c] \in Nat
  BY <1>1, CurrentIs, MaxLogIs DEF TypeOK
<1>3. Taken(conn) \in Response
  BY <1>1, <1>2, TakenIs
<1>4. e \in Event /\ (Ordinary(e) => lastSeq[c] < e.seq) /\ e.seq \in Nat
  BY <1>1, <1>2, TakenFacts, Seqs
<1>5. /\ connections' \in [Clients -> Seq(Response)]
      /\ Has(c)' /\ Current(c)' = Taken(conn)
      /\ \A d \in Clients : d # c => connections'[d] = connections[d]
  BY <1>1, <1>3, BecomesIs
<1>6. ~(c \in Followers /\ e.kind # "unadmitted" /\ e.seq <= lastSeq[c])
  BY <1>2, <1>4 DEF Ordinary
<1>7. got' = [got EXCEPT ![c] = Append(got[c], e)]
  BY <1>6 DEF Read
<1>8. lastSeq' = [lastSeq EXCEPT ![c] = Newest(e, lastSeq[c])]
  <2>1. CASE Ordinary(e)
    BY <1>6, <2>1 DEF Read, Newest, Ordinary
  <2>2. CASE ~Ordinary(e)
    <3>1. lastSeq' = lastSeq
      BY <2>2 DEF Read, Ordinary
    <3>2. lastSeq = [lastSeq EXCEPT ![c] = lastSeq[c]]
      BY DEF TypeOK
    <3> QED
      BY <2>2, <3>1, <3>2 DEF Newest
  <2> QED
    BY <2>1, <2>2
<1> QED
  BY <1>1, <1>4, <1>5, <1>7, <1>8 DEF At, Others

LEMMA DropFacts ==
  ASSUME TypeOK, NEW c \in Clients, Drop(c)
  PROVE  At(c) /\ \E at \in {"left", "orphan"} : Current(c)' = Gone(Current(c), at)
<1> DEFINE conn == Current(c)
<1>1. Has(c)
  BY DEF Drop, Has
<1>2. PICK at \in {"left", "orphan"} : Becomes(c, Gone(conn, at))
  BY DEF Drop
<1>3. conn \in Response
  BY <1>1, CurrentIs
<1>4. Gone(conn, at) \in Response
  BY <1>3, GoneIs
<1>5. /\ connections' \in [Clients -> Seq(Response)]
      /\ Has(c)' /\ Current(c)' = Gone(conn, at)
      /\ \A d \in Clients : d # c => connections'[d] = connections[d]
  BY <1>1, <1>2, <1>4, BecomesIs
<1> QED
  BY <1>1, <1>5 DEF At, Others

\* A new connection asks for what is newer than what the client has.
Connects(c, from) ==
  /\ connections' \in [Clients -> Seq(Response)] /\ Has(c)' /\ Others(c)
  /\ Current(c)' \in Response /\ Empty(Current(c)')
  /\ Current(c)'.at = "asked" /\ Current(c)'.sent = lastSeq[c]
  /\ Current(c)'.from = from

LEMMA FollowFacts ==
  ASSUME TypeOK, NEW c \in Followers, Follow(c)
  PROVE  Connects(c, MaxLog)
<1> DEFINE new == Connection(lastSeq[c], MaxLog)
<1>1. c \in Clients
  BY DEF Clients
<1>2. lastSeq[c] \in 0..MaxLog /\ MaxLog \in 0..MaxLog
  BY <1>1, MaxLogIs DEF TypeOK
<1>3. /\ new \in Response /\ Empty(new) /\ new.at = "asked" /\ new.sent = lastSeq[c]
      /\ new.from = MaxLog
  BY <1>2, ConnectionIs
<1>4. connections[c] \in Seq(Response)
  BY <1>1 DEF TypeOK
<1>5. connections' = [connections EXCEPT ![c] = Append(connections[c], new)]
  BY DEF Follow
<1> HIDE DEF new
<1>6. /\ connections' \in [Clients -> Seq(Response)]
      /\ Has(c)' /\ Current(c)' = new
      /\ \A d \in Clients : d # c => connections'[d] = connections[d]
  BY <1>1, <1>3, <1>4, <1>5, ConnectsIs
<1> QED
  BY <1>3, <1>6 DEF Connects, Others

LEMMA CallFacts ==
  ASSUME TypeOK, NEW c \in Callers, Call(c), lastSeq[c] = 0
  PROVE  ~Has(c) /\ Connects(c, Len(log))
<1> DEFINE new == Connection(0, Len(log))
<1>1. c \in Clients
  BY DEF Clients
<1>2. 0 \in 0..MaxLog /\ Len(log) \in 0..MaxLog
  BY MaxLogIs, LogIs DEF Call
<1>3. /\ new \in Response /\ Empty(new) /\ new.at = "asked" /\ new.sent = lastSeq[c]
      /\ new.from = Len(log)
  BY <1>2, ConnectionIs
<1>4. connections' = [connections EXCEPT ![c] = <<new>>]
  BY DEF Call
<1> HIDE DEF new
<1>5. connections' = [connections EXCEPT ![c] = Append(<<>>, new)]
  <2>1. Append(<<>>, new) = <<new>>
    OBVIOUS
  <2> QED
    BY <1>4, <2>1
<1>6. <<>> \in Seq(Response)
  OBVIOUS
<1>7. /\ connections' \in [Clients -> Seq(Response)]
      /\ Has(c)' /\ Current(c)' = new
      /\ \A d \in Clients : d # c => connections'[d] = connections[d]
  BY <1>1, <1>3, <1>5, <1>6, ConnectsIs
<1> QED
  BY <1>3, <1>7 DEF Connects, Others, Call, Has

(***************************************************************************)
(* A client that a step leaves alone, while the log grows.                 *)
(***************************************************************************)

Same(d) ==
  /\ connections'[d] = connections[d]
  /\ lastSeq'[d] = lastSeq[d] /\ got'[d] = got[d]

\* The log keeps what it has.  What is new is about to be delivered, or an answer
\* that came while no run was there.
Grown ==
  /\ log' \in Seq(Event) /\ Len(log) <= Len(log')
  /\ \A n \in DOMAIN log : log'[n] = log[n]
  /\ cut' = cut /\ written <= written' /\ written' \in Nat
  /\ \A n \in DOMAIN log : Pending(n)' <=> Pending(n)
  /\ \A n \in DOMAIN log' : n > Len(log) /\ log'[n].kind # "aside" => Pending(n)'
  /\ \A n \in DOMAIN log' : n > Len(log) /\ log'[n].kind = "aside" => pump = "idle"
  /\ pump' = "idle" => pump = "idle"
  /\ pump' = "writing" => pump = "writing" \/ Len(log) < Len(log')

LEMMA GrownLog ==
  ASSUME TypeOK, Grown
  PROVE  /\ Len(log') \in Nat /\ DOMAIN log' = 1..Len(log')
         /\ DOMAIN log = 1..Len(log) /\ Len(log) \in Nat
         /\ \A n \in DOMAIN log : n \in DOMAIN log' /\ log'[n] = log[n]
         /\ \A n \in DOMAIN log' : n \in DOMAIN log \/ n > Len(log)
         /\ Len(log) <= Len(log')
         /\ written \in Nat /\ written' \in Nat /\ written <= written'
<1>1. DOMAIN log = 1..Len(log) /\ Len(log) \in Nat /\ written \in Nat
  BY LogIs
<1>2. log' \in Seq(Event) /\ Len(log) <= Len(log')
  BY DEF Grown
<1>3. written' \in Nat /\ written <= written'
  BY DEF Grown
<1>4. \A n \in DOMAIN log : log'[n] = log[n]
  BY DEF Grown
<1>5. Len(log') \in Nat /\ DOMAIN log' = 1..Len(log')
  BY <1>2
<1>6. \A n \in DOMAIN log : n \in DOMAIN log'
  BY <1>1, <1>2, <1>5
<1>7. \A n \in DOMAIN log' : n \in DOMAIN log \/ n > Len(log)
  BY <1>1, <1>5
<1> QED
  BY <1>1, <1>2, <1>3, <1>4, <1>5, <1>6, <1>7

LEMMA OfGrows ==
  ASSUME TypeOK, Grown, NEW s, Of(s, log)
  PROVE  Of(s, log')
  BY GrownLog DEF Of

LEMMA GrownOfLog ==
  ASSUME TypeOK, Grown, NEW conn, OfLog(conn, log)
  PROVE  OfLog(conn, log')
<1>1. Of(conn.wire, log') /\ Of(conn.chain, log') /\ Of(conn.buffer, log')
  BY OfGrows DEF OfLog
<1>2. \A i \in DOMAIN conn.replay :
        conn.sent + i \in DOMAIN log' /\ conn.replay[i] = log'[conn.sent + i]
  BY GrownLog DEF OfLog
<1> QED
  BY <1>1, <1>2 DEF OfLog

\* What is still to come, as a fact about a connection that stays what it is.
LEMMA GrownComing ==
  ASSUME TypeOK, Grown, NEW conn, Coming(conn)
  PROVE  conn.at \in {"replaying", "live"} =>
           \A n \in DOMAIN log' :
             n > conn.sent + Len(conn.replay) =>
               \/ log'[n].kind = "aside" \/ Pending(n)'
               \/ \E i \in DOMAIN conn.buffer : conn.buffer[i] = log'[n]
<1> SUFFICES ASSUME conn.at \in {"replaying", "live"},
                    NEW n \in DOMAIN log', n > conn.sent + Len(conn.replay)
             PROVE  \/ log'[n].kind = "aside" \/ Pending(n)'
                    \/ \E i \in DOMAIN conn.buffer : conn.buffer[i] = log'[n]
  OBVIOUS
<1>1. CASE n \in DOMAIN log
  <2>1. log'[n] = log[n] /\ (Pending(n)' <=> Pending(n))
    BY <1>1 DEF Grown
  <2>2. \/ log[n].kind = "aside" \/ Pending(n)
        \/ \E i \in DOMAIN conn.buffer : conn.buffer[i] = log[n]
    BY <1>1 DEF Coming
  <2> QED
    BY <2>1, <2>2
<1>2. CASE n > Len(log)
  BY <1>2 DEF Grown
<1> QED
  BY <1>1, <1>2, GrownLog

ToldNext(n) ==
  n \in DOMAIN log' /\ log'[n].kind # "aside" /\ ~(pump' = "writing" /\ n = Len(log'))

LEMMA GrownTold ==
  ASSUME TypeOK, Grown, NEW n, Told(n)
  PROVE  ToldNext(n)
<1>1. n \in DOMAIN log /\ log[n].kind # "aside" /\ ~Pending(n)
  BY DEF Told
<1>2. n \in DOMAIN log' /\ log'[n] = log[n]
  BY <1>1, GrownLog
<1>3. ~Pending(n)'
  BY <1>1 DEF Grown
<1> QED
  BY <1>1, <1>2, <1>3 DEF ToldNext, Pending

LEMMA SameCurrent ==
  ASSUME NEW d \in Clients, Same(d)
  PROVE  /\ Has(d)' <=> Has(d)
         /\ Current(d)' = Current(d)
         /\ Alive(d)' <=> Alive(d)
         /\ Reach(d)' = Reach(d)
         /\ \A e : Piped(d, e)' <=> Piped(d, e)
  BY DEF Same, Has, Current, Last, Alive, Reach, Piped

\* The part of the reach that a step which adds to the log and the store keeps.
LEMMA GrownReach ==
  ASSUME TypeOK, Grown, NEW d \in Clients, Same(d), ReachInv(d)
  PROVE  ReachInv(d)'
<1>1. Reach(d)' = Reach(d) /\ \A e : Piped(d, e)' <=> Piped(d, e)
  BY SameCurrent
<1>2. \A n : Replaced(d, n)' <=> Replaced(d, n)
  BY DEF Replaced, Same, Grown
<1>3. Reach(d) \in Nat
  <2>1. lastSeq[d] \in Nat
    BY MaxLogIs DEF TypeOK
  <2>2. Has(d) => Current(d).sent \in Nat
    BY CurrentIs, Parts
  <2> QED
    BY <2>1, <2>2 DEF Reach, Alive
<1>4. ASSUME NEW n \in DOMAIN log', n <= Reach(d) PROVE Reached(d, n)'
  <2>1. CASE n \in DOMAIN log
    <3>1. Reached(d, n) /\ log'[n] = log[n] /\ lastSeq'[d] = lastSeq[d]
      BY <1>4, <2>1 DEF ReachInv, Grown, Same
    <3>2. CASE Piped(d, log[n])
      <4>1. Piped(d, log[n])'
        <5> DEFINE e == log'[n]
        <5>1. Piped(d, e)
          BY <3>1, <3>2
        <5>2. e = log'[n]
          OBVIOUS
        <5> QED
          BY <5>1, <5>2, <3>1, SameCurrent DEF Piped, Same, Has, Current, Last
      <4> QED
        BY <4>1 DEF Reached
    <3>3. CASE Replaced(d, n)
      BY <1>2, <3>3 DEF Reached
    <3>4. n <= written => n <= written'
      BY <2>1, GrownLog
    <3>5. CASE log[n].kind = "aside" /\ n <= written
      BY <3>1, <3>4, <3>5 DEF Reached
    <3>6. CASE ~OnWire(log[n]) /\ (n <= written \/ lastSeq[d] < n)
      BY <3>1, <3>4, <3>6 DEF Reached
    <3> QED
      BY <3>1, <3>2, <3>3, <3>5, <3>6 DEF Reached
  <2>2. CASE n > Len(log)
    <3>1. n \in Len(log) + 1..Reach(d)
      BY <1>3, <1>4, <2>2, GrownLog
    <3> QED
      BY <1>2, <3>1 DEF ReachInv, Reached
  <2> QED
    BY <2>1, <2>2, GrownLog
<1>5. \A n \in Len(log') + 1..Reach(d) : n \in Len(log) + 1..Reach(d)
  BY <1>3, GrownLog
<1> QED
  BY <1>1, <1>2, <1>4, <1>5 DEF ReachInv

LEMMA GrownClient ==
  ASSUME TypeOK, Grown, NEW d \in Clients, Same(d), ClientInv(d)
  PROVE  ClientInv(d)'
<1>1. GotInv(d)'
  BY DEF ClientInv, GotInv, Same
<1>2. ReachInv(d)'
  BY GrownReach DEF ClientInv
<1>3. /\ Has(d)' <=> Has(d)
      /\ Current(d)' = Current(d) /\ lastSeq'[d] = lastSeq[d]
  BY SameCurrent DEF Same
<1>4. ~Has(d)' => lastSeq'[d] = 0 /\ got'[d] = <<>>
  BY <1>3 DEF ClientInv, Same
<1>5. ASSUME Has(d)
      PROVE  /\ AtRest(Current(d), lastSeq[d])' /\ InOrder(Current(d), lastSeq[d])'
             /\ OfLog(Current(d), log)' /\ Coming(Current(d))' /\ Kept(Current(d))'
  <2> DEFINE conn == Current(d)
  <2>1. /\ AtRest(conn, lastSeq[d]) /\ InOrder(conn, lastSeq[d])
        /\ OfLog(conn, log) /\ Coming(conn) /\ Kept(conn)
    BY <1>5 DEF ClientInv
  <2>2. AtRest(conn, lastSeq[d])' /\ InOrder(conn, lastSeq[d])'
    BY <1>3, <2>1
  <2>3. OfLog(conn, log)'
    <3>1. OfLog(conn, log')
      BY <2>1, GrownOfLog
    <3> QED
      BY <1>3, <3>1
  <2>4. Coming(conn)'
    BY <1>3, <2>1, GrownComing DEF Coming
  <2>5. Kept(conn)'
    <3>1. \A i \in DOMAIN conn.buffer : ToldNext(conn.buffer[i].seq)
      BY <2>1, GrownTold DEF Kept
    <3>2. Rising(conn'.buffer)
      BY <1>3, <2>1 DEF Kept
    <3>3. \A i \in DOMAIN conn'.buffer : ToldNext(conn'.buffer[i].seq)
      BY <1>3, <3>1
    <3> HIDE DEF conn
    <3> QED
      BY <3>2, <3>3 DEF Kept, Told, Pending, ToldNext
  <2> QED
    BY <2>2, <2>3, <2>4, <2>5
<1> QED
  BY <1>1, <1>2, <1>3, <1>4, <1>5 DEF ClientInv

LEMMA RunEndIs ==
  ASSUME TypeOK, NEW c \in Clients, Has(c)
  PROVE  \A t : t \in RunEnd(c) <=> FirstEnd(log, Current(c).from, t)
<1> DEFINE from == Current(c).from
           ends == {t \in from + 1..Len(log) : Ends(log[t])}
<1>1. from \in Nat /\ Len(log) \in Nat /\ DOMAIN log = 1..Len(log)
  BY CurrentIs, Parts, LogIs
<1>2. RunEnd(c) = {t \in ends : \A u \in ends : t <= u}
  BY DEF RunEnd
<1> HIDE DEF from
<1>3. \A t : t \in ends <=> EndsAt(log, from, t)
  BY <1>1 DEF EndsAt
<1> HIDE DEF ends
<1>4. \A u : EndsAt(log, from, u) => u \in DOMAIN log
  BY DEF EndsAt
<1> QED
  BY <1>2, <1>3, <1>4 DEF FirstEnd, from

LEMMA GrownEnds ==
  ASSUME TypeOK, Grown, NEW from \in Nat
  PROVE  /\ \A t : EndsAt(log, from, t) => EndsAt(log', from, t)
         /\ \A t : FirstEnd(log, from, t) => FirstEnd(log', from, t)
<1>1. \A t : EndsAt(log, from, t) => EndsAt(log', from, t)
  BY GrownLog DEF EndsAt
<1>2. \A u \in DOMAIN log' :
        EndsAt(log', from, u) /\ u \in DOMAIN log => EndsAt(log, from, u)
  BY GrownLog DEF EndsAt
<1>3. ASSUME NEW t, FirstEnd(log, from, t) PROVE FirstEnd(log', from, t)
  <2>1. EndsAt(log, from, t) /\ t \in DOMAIN log /\ EndsAt(log', from, t)
    BY <1>1, <1>3 DEF FirstEnd, EndsAt
  <2>2. ASSUME NEW u \in DOMAIN log', EndsAt(log', from, u) PROVE t <= u
    <3>1. CASE u \in DOMAIN log
      BY <1>2, <1>3, <2>2, <3>1 DEF FirstEnd
    <3>2. CASE u > Len(log)
      BY <2>1, <2>2, <3>2, GrownLog
    <3> QED
      BY <3>1, <3>2, GrownLog
  <2> QED
    BY <2>1, <2>2 DEF FirstEnd
<1> QED
  BY <1>1, <1>3

LEMMA GrownCaller ==
  ASSUME TypeOK, Grown, NEW c \in Callers, Same(c), CallerInv(c)
  PROVE  CallerInv(c)'
<1>1. c \in Clients
  BY DEF Clients
<1>2. /\ Has(c)' <=> Has(c)
      /\ Alive(c)' <=> Alive(c)
      /\ Current(c)' = Current(c) /\ got'[c] = got[c]
      /\ \A e : Piped(c, e)' <=> Piped(c, e)
  BY <1>1, SameCurrent DEF Same
<1> SUFFICES ASSUME Alive(c) PROVE TurnOf(c)'
  BY <1>2 DEF CallerInv
<1> DEFINE conn == Current(c)
<1>3. TurnOf(c) /\ Has(c)
  BY DEF CallerInv, Alive
<1>4. conn.from \in Nat /\ conn.sent \in Nat
  BY <1>1, <1>3, CurrentIs, Parts
<1> DEFINE from == conn.from
<1>5. from <= Len(log) /\ from <= Len(log')
  <2>1. from <= Len(log)
    BY <1>3 DEF TurnOf
  <2> HIDE DEF from
  <2>2. from \in Nat
    BY <1>4 DEF from
  <2> QED
    BY <2>1, <2>2, GrownLog
<1>6. pump' = "idle" => \E t \in DOMAIN log' : EndsAt(log', from, t)
  <2>1. pump' = "idle" => \E t \in DOMAIN log : EndsAt(log, from, t)
    BY <1>3 DEF TurnOf, Grown
  <2> QED
    BY <1>4, <2>1, GrownEnds, GrownLog
<1>7. ASSUME NEW n \in DOMAIN log', n > from, log'[n].kind = "aside"
      PROVE  \E t \in DOMAIN log' : EndsAt(log', from, t) /\ t < n
  <2>1. CASE n \in DOMAIN log
    <3>1. PICK t \in DOMAIN log : EndsAt(log, from, t) /\ t < n
      BY <1>3, <1>7, <2>1, GrownLog DEF TurnOf
    <3> QED
      BY <1>4, <3>1, GrownEnds, GrownLog
  <2>2. CASE n > Len(log)
    <3>1. pump = "idle"
      BY <1>7, <2>2 DEF Grown
    <3>2. PICK t \in DOMAIN log : EndsAt(log, from, t)
      BY <1>3, <3>1 DEF TurnOf
    <3>3. t < n
      BY <2>2, <3>2, GrownLog
    <3> QED
      BY <1>4, <3>2, <3>3, GrownEnds, GrownLog
  <2> QED
    BY <2>1, <2>2, GrownLog
<1>8. Of(got[c], log')
  BY <1>3, OfGrows DEF TurnOf
<1>9. /\ conn.at = "replaying" => from <= conn.sent + Len(conn.replay)
      /\ conn.at = "live" => from <= conn.sent
  BY <1>3 DEF TurnOf
<1>10. conn.at = "ended" =>
         \E t \in DOMAIN log' : FirstEnd(log', from, t) /\ t <= conn.sent
  <2>1. conn.at = "ended" =>
          \E t \in DOMAIN log : FirstEnd(log, from, t) /\ t <= conn.sent
    BY <1>3 DEF TurnOf
  <2> QED
    BY <1>4, <2>1, GrownEnds, GrownLog
<1>11. \A n \in DOMAIN log' : n <= from => n \in DOMAIN log /\ log'[n] = log[n]
  <2> HIDE DEF from
  <2>1. from \in Nat
    BY <1>4 DEF from
  <2>2. \A n \in DOMAIN log' : n <= from => n \in DOMAIN log
    BY <1>5, <2>1, GrownLog
  <2> QED
    BY <2>2, GrownLog
<1>12. \A n \in DOMAIN log' : n <= from /\ n <= conn.sent /\ OnWire(log'[n]) =>
         Piped(c, log[n]) /\ log'[n] = log[n]
  BY <1>3, <1>11 DEF TurnOf
<1>13. \A n \in DOMAIN log' : n <= from /\ n <= conn.sent /\ OnWire(log'[n]) =>
         Piped(c, log[n])'
  <2> SUFFICES ASSUME NEW n \in DOMAIN log', n <= from, n <= conn.sent, OnWire(log'[n])
               PROVE  Piped(c, log[n])'
    OBVIOUS
  <2>1. Piped(c, log[n]) /\ log'[n] = log[n]
    BY <1>12
  <2> QED
    BY <1>2, <2>1 DEF Piped, Same
<1>14. pump' = "writing" => from < Len(log')
  <2>1. pump' = "writing" => from < Len(log) \/ Len(log) < Len(log')
    BY <1>3 DEF TurnOf, Grown
  <2>2. from <= Len(log) /\ from \in Nat
    BY <1>4, <1>5
  <2> HIDE DEF from
  <2> QED
    BY <2>1, <2>2, GrownLog
<1> QED
  BY <1>2, <1>5, <1>6, <1>7, <1>8, <1>9, <1>10, <1>13, <1>14 DEF TurnOf

\* Steps that leave the log, and steps that add to it, keep what it says.
LEMMA QuietGrown ==
  ASSUME TypeOK, log' = log, cut' = cut, written' = written,
         pump' = pump \/ (pump = "idle" /\ pump' = "between")
  PROVE  /\ Grown
         /\ Logged => Logged'
         /\ PumpInv => PumpInv'
<1>1. /\ log \in Seq(Event) /\ Len(log) \in Nat /\ DOMAIN log = 1..Len(log)
      /\ written \in Nat
  BY LogIs
<1>2. \A n : Pending(n)' <=> Pending(n)
  BY DEF Pending
<1>3. \A n : Told(n)' <=> Told(n)
  BY <1>2 DEF Told
<1>4. Grown
  <2>1. \A n \in DOMAIN log : n <= Len(log) /\ ~(n > Len(log))
    BY <1>1
  <2>2. Len(log) <= Len(log') /\ \A n \in DOMAIN log' : ~(n > Len(log))
    BY <1>1, <2>1
  <2>3. written <= written' /\ written' \in Nat
    BY <1>1
  <2>4. pump' = "idle" => pump = "idle"
    OBVIOUS
  <2>5. log' \in Seq(Event) /\ \A n \in DOMAIN log : log'[n] = log[n]
    BY <1>1
  <2>6. pump' = "writing" => pump = "writing"
    OBVIOUS
  <2> QED
    BY <1>2, <2>2, <2>3, <2>4, <2>5, <2>6 DEF Grown
<1>5. Logged => Logged'
  BY DEF Logged
<1>6. PumpInv => PumpInv'
  BY <1>3 DEF PumpInv
<1> QED
  BY <1>4, <1>5, <1>6

LEMMA EmitGrown ==
  ASSUME TypeOK, NEW kind \in Kinds, Emit(kind), Logged, PumpInv
  PROVE  Grown /\ Logged' /\ PumpInv'
<1>1. /\ log \in Seq(Event) /\ Len(log) \in Nat /\ DOMAIN log = 1..Len(log)
      /\ written \in Nat
  BY LogIs
<1> DEFINE e == Entry(kind)
<1>2. /\ e \in Event /\ e.seq = Len(log) + 1 /\ e.kind = kind /\ Ordinary(e)
      /\ kind # "aside"
  BY EntryIs, Bounds DEF Emit
<1>3. log' = Append(log, e) /\ pump = "between" /\ pump' = "writing"
      /\ written' = written /\ cut' = cut
  BY DEF Emit
<1> HIDE DEF e
<1>4. /\ log' \in Seq(Event) /\ Len(log') = Len(log) + 1
      /\ DOMAIN log' = 1..Len(log) + 1
      /\ \A n \in DOMAIN log : log'[n] = log[n]
      /\ log'[Len(log) + 1] = e
  BY <1>2, <1>3, AppendIs
<1>5. \A n \in DOMAIN log' : n \in DOMAIN log \/ n = Len(log')
  BY <1>1, <1>4
<1>6. \A n \in DOMAIN log : n # Len(log') /\ n <= Len(log)
  BY <1>1, <1>4
<1>7. \A n : Pending(n)' <=> n = Len(log')
  BY <1>3 DEF Pending
<1>8. \A n : ~Pending(n)
  BY <1>3 DEF Pending
<1>9. Len(log) <= Len(log') /\ log' # <<>>
  BY <1>1, <1>4
<1>10. Grown
  <2>1. \A n \in DOMAIN log : Pending(n)' <=> Pending(n)
    BY <1>6, <1>7, <1>8
  <2>2. \A n \in DOMAIN log' : n > Len(log) => n = Len(log')
    BY <1>1, <1>4
  <2>3. log'[Len(log')].kind # "aside"
    BY <1>2, <1>4
  <2>4. written <= written'
    BY <1>1, <1>3
  <2>5. Len(log) < Len(log')
    BY <1>1, <1>4
  <2> QED
    BY <1>1, <1>3, <1>4, <1>7, <1>9, <2>1, <2>2, <2>3, <2>4, <2>5 DEF Grown
<1>11. Logged'
  BY <1>2, <1>4, <1>5 DEF Logged
<1>12. PumpInv'
  <2>1. \A n \in DOMAIN log' : Told(n)' => Told(n)
    BY <1>4, <1>5, <1>7, <1>8 DEF Told
  <2>2. \A n \in DOMAIN log' : Told(n)' => n <= written'
    <3> SUFFICES ASSUME NEW n \in DOMAIN log', Told(n)' PROVE n <= written'
      OBVIOUS
    <3>1. Told(n) /\ n \in DOMAIN log
      BY <2>1 DEF Told
    <3> QED
      BY <1>3, <3>1 DEF PumpInv
  <2> QED
    BY <1>2, <1>4, <1>9, <2>2 DEF PumpInv
<1> QED
  BY <1>10, <1>11, <1>12

LEMMA AsideGrown ==
  ASSUME TypeOK, Aside, Logged, PumpInv
  PROVE  Grown /\ Logged' /\ PumpInv'
<1>1. /\ log \in Seq(Event) /\ Len(log) \in Nat /\ DOMAIN log = 1..Len(log)
      /\ written \in Nat
  BY LogIs
<1> DEFINE e == Entry("aside")
<1>2. e \in Event /\ e.seq = Len(log) + 1 /\ e.kind = "aside" /\ Ordinary(e)
  <2>1. Len(log) < MaxLog
    BY <1>1, MaxLogIs DEF Aside
  <2> QED
    BY <2>1, EntryIs
<1>3. log' = Append(log, e) /\ pump = "idle" /\ pump' = "idle"
      /\ written' = written /\ cut' = cut
  BY DEF Aside, live
<1> HIDE DEF e
<1>4. /\ log' \in Seq(Event) /\ Len(log') = Len(log) + 1
      /\ DOMAIN log' = 1..Len(log) + 1
      /\ \A n \in DOMAIN log : log'[n] = log[n]
      /\ log'[Len(log) + 1] = e
  BY <1>2, <1>3, AppendIs
<1>5. \A n \in DOMAIN log' : n \in DOMAIN log \/ n = Len(log) + 1
  BY <1>1, <1>4
<1>6. \A n : ~Pending(n) /\ ~Pending(n)'
  BY <1>3 DEF Pending
<1>7. Len(log) <= Len(log') /\ written <= written'
  <2>1. Len(log) <= Len(log')
    BY <1>1, <1>4
  <2>2. written <= written'
    BY <1>1, <1>3
  <2> QED
    BY <2>1, <2>2
<1>8. \A n \in DOMAIN log' : n > Len(log) => n = Len(log) + 1
  BY <1>1, <1>4
<1>9. Grown
  BY <1>1, <1>2, <1>3, <1>4, <1>6, <1>7, <1>8 DEF Grown
<1>10. Logged'
  BY <1>2, <1>4, <1>5 DEF Logged
<1>11. PumpInv'
  <2>1. \A n \in DOMAIN log' : Told(n)' => Told(n)
    BY <1>2, <1>4, <1>5, <1>6 DEF Told
  <2>2. \A n \in DOMAIN log' : Told(n)' => n <= written'
    <3> SUFFICES ASSUME NEW n \in DOMAIN log', Told(n)' PROVE n <= written'
      OBVIOUS
    <3>1. Told(n) /\ n \in DOMAIN log
      BY <2>1 DEF Told
    <3> QED
      BY <1>3, <3>1 DEF PumpInv
  <2> QED
    BY <1>3, <2>2 DEF PumpInv
<1> QED
  BY <1>9, <1>10, <1>11

LEMMA WriteGrown ==
  ASSUME TypeOK, Write, Logged, PumpInv
  PROVE  Grown /\ Logged' /\ PumpInv'
<1>1. /\ log \in Seq(Event) /\ Len(log) \in Nat /\ DOMAIN log = 1..Len(log)
      /\ written \in Nat
  BY LogIs
<1>2. log' = log /\ pump' = pump /\ cut' = cut /\ written' = written + 1
  BY DEF Write
<1>3. /\ written <= written' /\ written' \in Nat
      /\ \A n \in DOMAIN log : n <= written => n <= written'
  BY <1>1, <1>2
<1>4. \A n : (Pending(n)' <=> Pending(n)) /\ (Told(n)' <=> Told(n))
  BY <1>2 DEF Pending, Told
<1>5. \A n \in DOMAIN log' : ~(n > Len(log))
  BY <1>1, <1>2
<1>6. Grown
  <2>1. /\ Len(log) <= Len(log') /\ log' \in Seq(Event)
        /\ \A n \in DOMAIN log : log'[n] = log[n]
    BY <1>1, <1>2
  <2>2. /\ pump' = "idle" => pump = "idle"
        /\ pump' = "writing" => pump = "writing"
    BY <1>2
  <2> QED
    BY <1>2, <1>3, <1>4, <1>5, <2>1, <2>2 DEF Grown
<1>7. Logged'
  BY <1>2 DEF Logged
<1>8. PumpInv'
  BY <1>2, <1>3, <1>4 DEF PumpInv
<1> QED
  BY <1>6, <1>7, <1>8

\* Where no client is concerned, the invariant is kept.
LEMMA ServerSteps ==
  ASSUME IInv, RunStarts \/ Aside \/ Write \/ \E kind \in Kinds : Emit(kind)
  PROVE  IInv'
<1>1. TypeOK /\ Logged /\ PumpInv
  BY DEF IInv
<1>2. TypeOK'
  BY <1>1, ServerTypes
<1>3. Grown /\ Logged' /\ PumpInv'
  <2>1. RunStarts => pump = "idle" /\ pump' = "between" /\ log' = log /\ cut' = cut
                     /\ written' = written
    BY DEF RunStarts, live
  <2> QED
    BY <1>1, <2>1, QuietGrown, AsideGrown, WriteGrown, EmitGrown
<1>4. \A d \in Clients : Same(d)
  BY DEF Same, RunStarts, Aside, Write, Emit, clientVars
<1>5. ASSUME NEW d \in Clients PROVE ClientInv(d)'
  BY <1>1, <1>3, <1>4, GrownClient DEF IInv
<1>6. ASSUME NEW c \in Callers PROVE CallerInv(c)'
  <2>1. c \in Clients
    BY DEF Clients
  <2> QED
    BY <1>1, <1>3, <1>4, <2>1, GrownCaller DEF IInv
<1> QED
  BY <1>2, <1>3, <1>5, <1>6 DEF IInv

(***************************************************************************)
(* Steps at one connection.                                                *)
(***************************************************************************)

\* What a client's invariant says of its current connection.
LEMMA ClientParts ==
  ASSUME TypeOK, NEW c \in Clients, Has(c), ClientInv(c)
  PROVE  /\ Current(c) \in Response /\ lastSeq[c] \in Nat /\ got[c] \in Seq(Event)
         /\ AtRest(Current(c), lastSeq[c]) /\ InOrder(Current(c), lastSeq[c])
         /\ OfLog(Current(c), log) /\ Coming(Current(c)) /\ Kept(Current(c))
         /\ Current(c).from \in Nat /\ Current(c).sent \in Nat
         /\ Current(c).replay \in Seq(Event) /\ Current(c).buffer \in Seq(Event)
         /\ Current(c).chain \in Seq(Event) /\ Current(c).wire \in Seq(Event)
<1>1. lastSeq[c] \in Nat /\ got[c] \in Seq(Event)
  BY MaxLogIs DEF TypeOK
<1> QED
  BY <1>1, CurrentIs, Parts DEF ClientInv

LEMMA ReachIs ==
  ASSUME TypeOK, NEW c \in Clients
  PROVE  Reach(c) \in Nat /\ lastSeq[c] \in Nat
<1>1. lastSeq[c] \in Nat
  BY MaxLogIs DEF TypeOK
<1>2. Has(c) => Current(c).sent \in Nat
  BY CurrentIs, Parts
<1> QED
  BY <1>1, <1>2 DEF Reach, Alive

PipedNext(c, e) ==
  \/ In(got'[c], e)
  \/ /\ connections'[c] # <<>>
     /\ In(Last(connections'[c]).wire, e) \/ In(Last(connections'[c]).chain, e)

\* The reach is kept where nothing on its way is lost but frames nobody writes.
LEMMA ReachKept ==
  ASSUME TypeOK, NEW c \in Clients, ReachInv(c),
         log' = log, cut' = cut, written' = written, lastSeq'[c] = lastSeq[c],
         got'[c] = got[c],
         \A n \in DOMAIN log : Piped(c, log[n]) =>
           PipedNext(c, log[n]) \/ (~OnWire(log[n]) /\ lastSeq[c] < n)
             \/ ~(n <= Reach(c)'),
         \A n \in DOMAIN log : n <= Reach(c)' =>
           \/ n <= Reach(c) \/ PipedNext(c, log[n])
           \/ log[n].kind = "aside" /\ n <= written,
         \A n \in Len(log) + 1..Reach(c)' : n \in Len(log) + 1..Reach(c)
  PROVE  ReachInv(c)'
<1>1. \A n : Replaced(c, n)' <=> Replaced(c, n)
  BY DEF Replaced
<1>2. \A n : PipedNext(c, log[n]) <=> Piped(c, log[n])'
  BY DEF PipedNext, Piped, Has, Current
<1>3. ASSUME NEW n \in DOMAIN log, n <= Reach(c)' PROVE Reached(c, n)'
  <2>1. CASE PipedNext(c, log[n])
    BY <1>2, <2>1 DEF Reached
  <2>2. CASE log[n].kind = "aside" /\ n <= written
    BY <2>2 DEF Reached
  <2>3. CASE ~OnWire(log[n]) /\ (n <= written \/ lastSeq[c] < n)
    BY <2>3 DEF Reached
  <2>4. CASE n <= Reach(c) /\ Replaced(c, n)
    BY <1>1, <2>4 DEF Reached
  <2>5. CASE n <= Reach(c) /\ Piped(c, log[n])
    BY <1>3, <2>1, <2>3, <2>5
  <2>6. n <= Reach(c) => Reached(c, n)
    BY DEF ReachInv
  <2> QED
    BY <1>3, <2>1, <2>2, <2>3, <2>4, <2>5, <2>6 DEF Reached
<1>4. \A n \in Len(log) + 1..Reach(c)' : Replaced(c, n)
  BY DEF ReachInv
<1> QED
  BY <1>1, <1>3, <1>4 DEF ReachInv

\* A step that changes the connections of one client and no one else's.
Quiet == UNCHANGED <<serverVars, clientVars>>

LEMMA QuietFacts ==
  ASSUME Quiet
  PROVE  /\ log' = log /\ cut' = cut /\ written' = written /\ pump' = pump
         /\ deaths' = deaths /\ unadmitted' = unadmitted
         /\ lastSeq' = lastSeq /\ got' = got
  BY DEF Quiet, serverVars, clientVars

LEMMA QuietStep ==
  ASSUME IInv, NEW c \in Clients, Quiet,
         connections' \in [Clients -> Seq(Response)], Others(c),
         ClientInv(c)', c \in Callers => CallerInv(c)'
  PROVE  IInv'
<1>1. TypeOK /\ Logged /\ PumpInv
  BY DEF IInv
<1>2. TypeOK'
  BY <1>1, QuietFacts DEF TypeOK
<1>3. Grown /\ Logged' /\ PumpInv'
  BY <1>1, QuietFacts, QuietGrown
<1>4. \A d \in Clients : d # c => Same(d)
  BY QuietFacts DEF Same, Others
<1>5. \A d \in Clients : ClientInv(d)'
  <2> SUFFICES ASSUME NEW d \in Clients PROVE ClientInv(d)'
    OBVIOUS
  <2>1. CASE d = c
    BY <2>1
  <2>2. CASE d # c
    BY <1>1, <1>3, <1>4, <2>2, GrownClient DEF IInv
  <2> QED
    BY <2>1, <2>2
<1>6. \A d \in Callers : CallerInv(d)'
  <2> SUFFICES ASSUME NEW d \in Callers PROVE CallerInv(d)'
    OBVIOUS
  <2>1. CASE d = c
    BY <2>1
  <2>2. CASE d # c
    <3>1. d \in Clients
      BY DEF Clients
    <3> QED
      BY <1>1, <1>3, <1>4, <2>2, <3>1, GrownCaller DEF IInv
  <2> QED
    BY <2>1, <2>2
<1> QED
  BY <1>2, <1>3, <1>5, <1>6 DEF IInv

\* The conjuncts of TurnOf that a step at a connection may disturb.
LEMMA TurnKept ==
  ASSUME TypeOK, NEW c \in Callers, TurnOf(c),
         log' = log, Of(got'[c], log),
         pump' = "idle" => pump = "idle" \/ EndsAt(log, Current(c).from, Len(log)),
         pump' = "writing" => pump = "writing",
         Current(c)'.from = Current(c).from,
         Current(c)'.at = "replaying" =>
           Current(c)'.from <= Current(c)'.sent + Len(Current(c)'.replay),
         Current(c)'.at = "live" => Current(c)'.from <= Current(c)'.sent,
         Current(c)'.at = "ended" =>
           \E t \in DOMAIN log :
             FirstEnd(log, Current(c).from, t) /\ t <= Current(c)'.sent,
         \A n \in DOMAIN log :
           n <= Current(c).from /\ n <= Current(c)'.sent /\ OnWire(log[n]) =>
             PipedNext(c, log[n])
  PROVE  TurnOf(c)'
<1>1. \A n : PipedNext(c, log[n]) <=> Piped(c, log[n])'
  BY DEF PipedNext, Piped, Has, Current
<1>2. /\ Current(c)'.from <= Len(log')
      /\ pump' = "idle" => \E t \in DOMAIN log' : EndsAt(log', Current(c)'.from, t)
      /\ pump' = "writing" => Current(c)'.from < Len(log')
      /\ \A n \in DOMAIN log' : n > Current(c)'.from /\ log'[n].kind = "aside" =>
           \E t \in DOMAIN log' : EndsAt(log', Current(c)'.from, t) /\ t < n
      /\ Of(got'[c], log')
  BY DEF TurnOf, EndsAt
<1>3. Current(c)'.at = "ended" =>
        \E t \in DOMAIN log' :
          FirstEnd(log', Current(c)'.from, t) /\ t <= Current(c)'.sent
  OBVIOUS
<1>4. \A n \in DOMAIN log' :
        n <= Current(c)'.from /\ n <= Current(c)'.sent /\ OnWire(log'[n]) =>
          Piped(c, log[n])'
  BY <1>1
<1> QED
  BY <1>2, <1>3, <1>4 DEF TurnOf

LEMMA QuietTurn ==
  ASSUME TypeOK, NEW c \in Callers, Quiet, TurnOf(c),
         Current(c)'.from = Current(c).from,
         Current(c)'.at = "replaying" =>
           Current(c)'.from <= Current(c)'.sent + Len(Current(c)'.replay),
         Current(c)'.at = "live" => Current(c)'.from <= Current(c)'.sent,
         Current(c)'.at = "ended" =>
           \E t \in DOMAIN log :
             FirstEnd(log, Current(c).from, t) /\ t <= Current(c)'.sent,
         \A n \in DOMAIN log :
           n <= Current(c).from /\ n <= Current(c)'.sent /\ OnWire(log[n]) =>
             PipedNext(c, log[n])
  PROVE  TurnOf(c)'
<1>1. log' = log /\ pump' = pump /\ Of(got'[c], log)
  BY QuietFacts DEF TurnOf
<1> QED
  BY <1>1, TurnKept

LEMMA SubscribeKeeps ==
  ASSUME IInv, NEW c \in Clients, Subscribe(c)
  PROVE  IInv'
<1>1. TypeOK /\ Logged /\ PumpInv /\ ClientInv(c)
  BY DEF IInv
<1>2. Quiet
  BY DEF Subscribe, Quiet
<1> DEFINE conn == Current(c)
           new == Current(c)'
<1>3. /\ At(c) /\ conn.at = "asked" /\ new.at = "replaying"
      /\ new.from = conn.from /\ new.sent = conn.sent /\ new.buffer = conn.buffer
      /\ new.chain = conn.chain /\ new.wire = conn.wire
      /\ new.replay = SubSeq(log, conn.sent + 1, Len(log))
  BY <1>1, SubscribeFacts
<1>4. log' = log /\ cut' = cut /\ written' = written /\ pump' = pump
      /\ lastSeq' = lastSeq /\ got' = got
  BY <1>2, QuietFacts
<1>5. Has(c) /\ Has(c)' /\ connections' \in [Clients -> Seq(Response)] /\ Others(c)
  BY <1>3 DEF At
<1>6. /\ AtRest(conn, lastSeq[c]) /\ InOrder(conn, lastSeq[c]) /\ OfLog(conn, log)
      /\ conn.sent \in Nat /\ lastSeq[c] \in Nat
  BY <1>1, <1>5, ClientParts
<1>7. conn.buffer = <<>> /\ conn.chain = <<>> /\ conn.wire = <<>>
  BY <1>3, <1>6 DEF AtRest, Empty
<1>8. log \in Seq(Event) /\ Len(log) \in Nat /\ DOMAIN log = 1..Len(log)
  BY <1>1, LogIs
<1> HIDE DEF conn, new
\* The replay is all that the log holds behind what was sent.
<1>9. /\ \A i \in DOMAIN new.replay :
           conn.sent + i \in DOMAIN log /\ new.replay[i] = log[conn.sent + i]
      /\ Len(new.replay) \in Nat /\ conn.sent + Len(new.replay) >= Len(log)
  BY <1>3, <1>6, <1>8
<1>10. Reach(c)' = Reach(c) /\ \A e : PipedNext(c, e) <=> Piped(c, e)
  <2>1. Alive(c) /\ Alive(c)'
    BY <1>3, <1>5 DEF Alive, conn, new
  <2>2. Reach(c)' = Reach(c)
    BY <1>3, <2>1 DEF Reach, conn, new
  <2>3. \A e : PipedNext(c, e) <=> Piped(c, e)
    BY <1>3, <1>4, <1>5 DEF PipedNext, Piped, Has, Current, conn, new
  <2> QED
    BY <2>2, <2>3
<1>11. ReachInv(c)'
  BY <1>1, <1>4, <1>10, ReachKept DEF ClientInv
<1>12. AtRest(Current(c), lastSeq[c])'
  BY <1>3 DEF AtRest, new
<1>13. InOrder(Current(c), lastSeq[c])'
  BY <1>3, <1>4, <1>6 DEF InOrder, new
<1>14. OfLog(Current(c), log)'
  BY <1>3, <1>4, <1>6, <1>9 DEF OfLog, new
<1>15. Coming(Current(c))'
  <2>1. \A n \in DOMAIN log : ~(n > conn.sent + Len(new.replay))
    BY <1>6, <1>8, <1>9
  <2> QED
    BY <1>3, <1>4, <2>1 DEF Coming, new
<1>16. Kept(Current(c))'
  BY <1>3, <1>7 DEF Kept, Rising, new
<1>17. GotInv(c)'
  BY <1>1, <1>4 DEF ClientInv, GotInv
<1>18. ClientInv(c)'
  BY <1>5, <1>11, <1>12, <1>13, <1>14, <1>15, <1>16, <1>17 DEF ClientInv
<1>19. c \in Callers => CallerInv(c)'
  <2> SUFFICES ASSUME c \in Callers PROVE TurnOf(c)'
    BY DEF CallerInv
  <2>1. TurnOf(c)
    BY <1>3, <1>5 DEF IInv, CallerInv, Alive, conn
  <2>2. conn.from \in Nat /\ conn.from <= Len(log)
    BY <1>1, <1>5, <2>1, ClientParts DEF TurnOf, conn
  <2>3. new.from <= new.sent + Len(new.replay)
    BY <1>3, <1>6, <1>8, <1>9, <2>2
  <2>4. \A n \in DOMAIN log : n <= conn.from /\ n <= new.sent /\ OnWire(log[n]) =>
          PipedNext(c, log[n])
    BY <1>3, <1>10, <2>1 DEF TurnOf, conn
  <2> QED
    BY <1>1, <1>2, <1>3, <2>1, <2>3, <2>4, QuietTurn DEF conn, new
<1> QED
  BY <1>2, <1>5, <1>18, <1>19, QuietStep

LEMMA ReplayKeeps ==
  ASSUME IInv, NEW c \in Clients, Replay(c)
  PROVE  IInv'
<1>1. TypeOK /\ Logged /\ PumpInv /\ ClientInv(c)
  BY DEF IInv
<1>2. Quiet
  BY DEF Replay, Quiet
<1> DEFINE conn == Current(c)
           new == Current(c)'
           e == Head(conn.replay)
           s == Send(conn, e)
<1>3. /\ At(c) /\ conn.at = "replaying" /\ conn.replay # <<>> /\ e \in Event
      /\ new.replay = Tail(conn.replay) /\ new.at = "replaying"
      /\ new.from = conn.from /\ new.buffer = conn.buffer /\ new.wire = conn.wire
      /\ new.sent = s.sent /\ new.chain = s.chain
  BY <1>1, ReplayFacts
<1>4. log' = log /\ cut' = cut /\ written' = written /\ pump' = pump
      /\ lastSeq' = lastSeq /\ got' = got
  BY <1>2, QuietFacts
<1>5. Has(c) /\ Has(c)' /\ connections' \in [Clients -> Seq(Response)] /\ Others(c)
  BY <1>3 DEF At
<1>6. /\ conn \in Response /\ InOrder(conn, lastSeq[c]) /\ OfLog(conn, log)
      /\ Coming(conn) /\ Kept(conn)
      /\ conn.sent \in Nat /\ lastSeq[c] \in Nat
      /\ conn.chain \in Seq(Event) /\ conn.replay \in Seq(Event)
  BY <1>1, <1>5, ClientParts
<1>7. log \in Seq(Event) /\ Len(log) \in Nat /\ DOMAIN log = 1..Len(log)
  BY <1>1, LogIs
<1>8. InOrder(s, lastSeq[c])
  BY <1>3, <1>6, SendKeepsOrder
<1>9. s.wire = conn.wire
  BY <1>3, <1>6, Sends
<1> HIDE DEF conn, new, e
<1>10. /\ Len(conn.replay) \in Nat \ {0} /\ DOMAIN conn.replay = 1..Len(conn.replay)
       /\ e = conn.replay[1]
       /\ Len(new.replay) = Len(conn.replay) - 1
       /\ new.replay \in Seq(Event)
       /\ \A i \in DOMAIN new.replay : new.replay[i] = conn.replay[i + 1]
  BY <1>3, <1>6, Ends1 DEF e
<1>11. conn.sent + 1 \in DOMAIN log /\ e = log[conn.sent + 1] /\ e.seq = conn.sent + 1
       /\ Ordinary(e)
  <2>1. 1 \in DOMAIN conn.replay
    BY <1>10
  <2>2. conn.sent + 1 \in DOMAIN log /\ e = log[conn.sent + 1]
    BY <1>6, <1>10, <2>1 DEF OfLog
  <2> QED
    BY <1>1, <2>2 DEF Logged
<1>12. new.sent = conn.sent + 1
  <2>1. e.seq > conn.sent
    BY <1>6, <1>11
  <2>2. s.sent = e.seq
    BY <1>3, <1>6, <2>1, Sends
  <2> QED
    BY <1>3, <1>11, <2>2
<1>13. new.chain = Append(conn.chain, e)
  <2>1. e.seq > conn.sent
    BY <1>6, <1>11
  <2>2. s.chain = Append(conn.chain, e)
    BY <1>3, <1>6, <2>1, Sends
  <2> QED
    BY <1>3, <2>2
<1>14. \A x : In(new.chain, x) <=> In(conn.chain, x) \/ x = e
  BY <1>3, <1>6, <1>13, InAppend
<1> HIDE DEF s
<1>15. \A x : PipedNext(c, x) <=> Piped(c, x) \/ x = e
  BY <1>3, <1>4, <1>5, <1>14 DEF PipedNext, Piped, Has, Current, conn, new
<1>16. Reach(c)' = conn.sent + 1 /\ Reach(c) = conn.sent
  BY <1>3, <1>5, <1>12 DEF Reach, Alive, conn, new
<1>17. ReachInv(c)'
  <2>1. \A n \in DOMAIN log : n <= conn.sent + 1 => n <= conn.sent \/ n = conn.sent + 1
    BY <1>6, <1>7
  <2>2. \A n \in DOMAIN log : n <= Reach(c)' => n <= Reach(c) \/ PipedNext(c, log[n])
    BY <1>11, <1>15, <1>16, <2>1
  <2>3. \A n \in Len(log) + 1..Reach(c)' : FALSE
    BY <1>6, <1>7, <1>11, <1>16
  <2>4. ReachInv(c)
    BY <1>1 DEF ClientInv
  <2> QED
    BY <1>1, <1>4, <1>15, <2>2, <2>3, <2>4, ReachKept
<1>18. AtRest(Current(c), lastSeq[c])'
  BY <1>3 DEF AtRest, new
<1>19. InOrder(Current(c), lastSeq[c])'
  BY <1>3, <1>4, <1>8, <1>9 DEF InOrder, new
<1>20. OfLog(Current(c), log)'
  <2>1. Of(new.chain, log) /\ \A i \in DOMAIN new.chain : Ordinary(new.chain[i])
    <3>1. \A i \in DOMAIN new.chain : In(conn.chain, new.chain[i]) \/ new.chain[i] = e
      BY <1>14 DEF In
    <3>2. e.seq \in DOMAIN log /\ log[e.seq] = e
      BY <1>11
    <3> QED
      BY <1>6, <1>11, <3>1, <3>2 DEF OfLog, Of, In
  <2>2. \A i \in DOMAIN new.replay :
          new.sent + i \in DOMAIN log /\ new.replay[i] = log[new.sent + i]
    <3> SUFFICES ASSUME NEW i \in DOMAIN new.replay
                 PROVE  new.sent + i \in DOMAIN log /\ new.replay[i] = log[new.sent + i]
      OBVIOUS
    <3>1. /\ i \in Nat /\ i + 1 \in DOMAIN conn.replay
          /\ new.replay[i] = conn.replay[i + 1]
      BY <1>10
    <3>2. conn.sent + (i + 1) \in DOMAIN log
          /\ conn.replay[i + 1] = log[conn.sent + (i + 1)]
      BY <1>6, <3>1 DEF OfLog
    <3>3. conn.sent + (i + 1) = new.sent + i
      BY <1>6, <1>12, <3>1
    <3> QED
      BY <3>1, <3>2, <3>3
  <2> QED
    BY <1>3, <1>4, <1>6, <2>1, <2>2 DEF OfLog, new
<1>21. new.sent + Len(new.replay) = conn.sent + Len(conn.replay)
  <2>1. Len(new.replay) = Len(conn.replay) - 1 /\ Len(conn.replay) \in Nat
    BY <1>10
  <2>2. conn.sent \in Nat
    BY <1>6
  <2> QED
    BY <1>12, <2>1, <2>2
<1>22. Coming(Current(c))'
  BY <1>3, <1>4, <1>6, <1>21 DEF Coming, Pending, new
<1>23. Kept(Current(c))'
  BY <1>3, <1>4, <1>6 DEF Kept, Told, Pending, new
<1>24. GotInv(c)'
  BY <1>1, <1>4 DEF ClientInv, GotInv
<1>25. ClientInv(c)'
  BY <1>5, <1>17, <1>18, <1>19, <1>20, <1>22, <1>23, <1>24 DEF ClientInv
<1>26. c \in Callers => CallerInv(c)'
  <2> SUFFICES ASSUME c \in Callers PROVE TurnOf(c)'
    BY DEF CallerInv
  <2>1. TurnOf(c)
    BY <1>3, <1>5 DEF IInv, CallerInv, Alive, conn
  <2>2. new.from <= new.sent + Len(new.replay)
    BY <1>3, <1>21, <2>1 DEF TurnOf, conn
  <2>3. \A n \in DOMAIN log : n <= conn.sent + 1 => n <= conn.sent \/ n = conn.sent + 1
    BY <1>6, <1>7
  <2>4. \A n \in DOMAIN log : n <= conn.from /\ n <= new.sent /\ OnWire(log[n]) =>
          PipedNext(c, log[n])
    BY <1>11, <1>12, <1>15, <2>1, <2>3 DEF TurnOf, conn
  <2> QED
    BY <1>1, <1>2, <1>3, <2>1, <2>2, <2>4, QuietTurn DEF conn, new
<1> QED
  BY <1>2, <1>5, <1>25, <1>26, QuietStep

LEMMA ReplayEndsKeeps ==
  ASSUME IInv, NEW c \in Clients, ReplayEnds(c)
  PROVE  IInv'
<1>1. TypeOK /\ Logged /\ PumpInv /\ ClientInv(c)
  BY DEF IInv
<1>2. Quiet
  BY DEF ReplayEnds, Quiet
<1> DEFINE conn == Current(c)
           new == Current(c)'
           N == Len(conn.buffer)
<1>3. log' = log /\ cut' = cut /\ written' = written /\ pump' = pump
      /\ lastSeq' = lastSeq /\ got' = got
  BY <1>2, QuietFacts
<1>4. Has(c)
  BY DEF ReplayEnds, On, Has
<1>5. /\ conn \in Response /\ InOrder(conn, lastSeq[c]) /\ OfLog(conn, log)
      /\ Coming(conn) /\ Kept(conn)
      /\ conn.sent \in Nat /\ lastSeq[c] \in Nat
      /\ conn.buffer \in Seq(Event)
  BY <1>1, <1>4, ClientParts
<1>6. Rising(conn.buffer) /\ \A i \in DOMAIN conn.buffer : Ordinary(conn.buffer[i])
  BY <1>5 DEF Kept, OfLog
<1>7. /\ At(c) /\ conn.at = "replaying" /\ conn.replay = <<>>
      /\ new.at = "live" /\ new.from = conn.from
      /\ new.replay = <<>> /\ new.buffer = <<>> /\ new.wire = conn.wire
      /\ InOrder(new, lastSeq[c])
      /\ \E r \in Response : /\ Flushes(conn, r, N)
                             /\ new.sent = r.sent /\ new.chain = r.chain
  BY <1>1, <1>5, <1>6, ReplayEndsFacts
<1>8. Has(c)' /\ connections' \in [Clients -> Seq(Response)] /\ Others(c)
  BY <1>7 DEF At
<1>9. /\ log \in Seq(Event) /\ Len(log) \in Nat /\ DOMAIN log = 1..Len(log)
      /\ written \in Nat
  BY <1>1, LogIs
<1> HIDE DEF conn, new
<1>10. N \in Nat /\ DOMAIN conn.buffer = 1..N
  BY <1>5
<1> HIDE DEF N
<1>11. /\ conn.sent <= new.sent
       /\ \/ new.sent = conn.sent
          \/ \E i \in DOMAIN conn.buffer : new.sent = conn.buffer[i].seq
       /\ \A i \in DOMAIN conn.buffer : conn.buffer[i].seq <= new.sent
       /\ \A x : In(new.chain, x) <=>
                   \/ In(conn.chain, x)
                   \/ \E i \in DOMAIN conn.buffer :
                        x = conn.buffer[i] /\ x.seq > conn.sent
  BY <1>7, <1>10 DEF Flushes
<1>12. \A i \in DOMAIN conn.buffer :
         /\ conn.buffer[i].seq \in DOMAIN log /\ conn.buffer[i].seq \in Nat
         /\ log[conn.buffer[i].seq] = conn.buffer[i]
         /\ Told(conn.buffer[i].seq) /\ conn.buffer[i].seq <= written
  <2>1. \A i \in DOMAIN conn.buffer :
          conn.buffer[i].seq \in DOMAIN log /\ log[conn.buffer[i].seq] = conn.buffer[i]
    BY <1>5, <1>6 DEF OfLog, Of
  <2>2. \A i \in DOMAIN conn.buffer : Told(conn.buffer[i].seq)
    BY <1>5 DEF Kept
  <2> QED
    BY <1>1, <1>9, <2>1, <2>2 DEF PumpInv
<1>13. new.sent \in Nat
  BY <1>5, <1>11, <1>12
<1>14. \A x : Piped(c, x) => PipedNext(c, x)
  BY <1>3, <1>4, <1>7, <1>8, <1>11 DEF PipedNext, Piped, Has, Current, conn, new
<1>15. \A i \in DOMAIN conn.buffer : conn.buffer[i].seq > conn.sent =>
         PipedNext(c, conn.buffer[i])
  BY <1>8, <1>11 DEF PipedNext, Has, Current, new
<1>16. Reach(c)' = new.sent /\ Reach(c) = conn.sent
  BY <1>4, <1>7, <1>8 DEF Reach, Alive, conn, new
\* Behind what was sent lie events that were kept, and answers nobody heard; the
\* newest that was kept is in the store, and so are they.
<1>17. ASSUME NEW n \in DOMAIN log, n > conn.sent, n <= new.sent
       PROVE  PipedNext(c, log[n]) \/ (log[n].kind = "aside" /\ n <= written)
  <2>1. PICK j \in DOMAIN conn.buffer : new.sent = conn.buffer[j].seq
    BY <1>5, <1>9, <1>11, <1>17
  <2>2. n <= conn.buffer[j].seq /\ conn.buffer[j].seq <= written /\ n <= written
    BY <1>9, <1>12, <1>17, <2>1
  <2>3. ~Pending(n)
    <3>1. SUFFICES ASSUME Pending(n) PROVE FALSE
      OBVIOUS
    <3>2. conn.buffer[j].seq = n
      BY <1>9, <1>12, <2>2, <3>1 DEF Pending
    <3> QED
      BY <1>12, <3>1, <3>2 DEF Told
  <2>4. \/ log[n].kind = "aside" \/ Pending(n)
        \/ \E i \in DOMAIN conn.buffer : conn.buffer[i] = log[n]
    <3>1. n > conn.sent + Len(conn.replay)
      BY <1>5, <1>7, <1>17
    <3> QED
      BY <1>5, <1>7, <3>1 DEF Coming
  <2>5. ASSUME NEW i \in DOMAIN conn.buffer, conn.buffer[i] = log[n]
        PROVE  PipedNext(c, log[n])
    <3>1. conn.buffer[i].seq = n
      BY <1>1, <2>5 DEF Logged
    <3> QED
      BY <1>15, <1>17, <2>5, <3>1
  <2> QED
    BY <2>2, <2>3, <2>4, <2>5
<1>18. ReachInv(c)'
  <2>1. \A n \in DOMAIN log : n <= conn.sent \/ n > conn.sent
    BY <1>5, <1>9
  <2>2. \A n \in DOMAIN log : n <= Reach(c)' =>
          \/ n <= Reach(c) \/ PipedNext(c, log[n])
          \/ log[n].kind = "aside" /\ n <= written
    BY <1>16, <1>17, <2>1
  <2>3. \A n \in Len(log) + 1..Reach(c)' : n \in Len(log) + 1..Reach(c)
    <3>1. CASE new.sent = conn.sent
      BY <1>16, <3>1
    <3>2. CASE \E i \in DOMAIN conn.buffer : new.sent = conn.buffer[i].seq
      <4>1. new.sent \in DOMAIN log
        BY <1>12, <3>2
      <4> QED
        BY <1>9, <1>16, <4>1
    <3> QED
      BY <1>11, <3>1, <3>2
  <2>4. ReachInv(c)
    BY <1>1 DEF ClientInv
  <2> QED
    BY <1>1, <1>3, <1>14, <2>2, <2>3, <2>4, ReachKept
<1>19. AtRest(Current(c), lastSeq[c])'
  BY <1>7 DEF AtRest, new
<1>20. InOrder(Current(c), lastSeq[c])'
  BY <1>3, <1>7 DEF new
<1>21. OfLog(Current(c), log)'
  <2>1. Of(new.chain, log) /\ \A i \in DOMAIN new.chain : Ordinary(new.chain[i])
    <3>1. \A i \in DOMAIN new.chain :
            \/ In(conn.chain, new.chain[i])
            \/ \E k \in DOMAIN conn.buffer : new.chain[i] = conn.buffer[k]
      <4>1. \A i \in DOMAIN new.chain : In(new.chain, new.chain[i])
        BY DEF In
      <4> QED
        BY <1>11, <4>1
    <3> QED
      BY <1>5, <1>6, <1>12, <3>1 DEF OfLog, Of, In
  <2>2. \A i \in DOMAIN new.replay : FALSE
    BY <1>7
  <2>3. \A i \in DOMAIN new.buffer : FALSE
    BY <1>7
  <2> QED
    BY <1>3, <1>5, <1>7, <2>1, <2>2, <2>3 DEF OfLog, Of, new
<1>22. Coming(Current(c))'
  <2> SUFFICES ASSUME NEW n \in DOMAIN log, n > new.sent
               PROVE  log[n].kind = "aside" \/ Pending(n)
    <3>1. new.sent + Len(new.replay) = new.sent
      BY <1>7, <1>13
    <3> QED
      BY <1>3, <3>1 DEF Coming, Pending, new
  <2>1. n > conn.sent + Len(conn.replay)
    BY <1>5, <1>7, <1>9, <1>11, <1>13
  <2>2. ASSUME NEW i \in DOMAIN conn.buffer, conn.buffer[i] = log[n] PROVE FALSE
    <3>1. conn.buffer[i].seq = n /\ n \in Nat
      BY <1>1, <1>9, <2>2 DEF Logged
    <3> QED
      BY <1>11, <1>13, <3>1
  <2> QED
    BY <1>5, <1>7, <2>1, <2>2 DEF Coming
<1>23. Kept(Current(c))'
  BY <1>7 DEF Kept, Rising, new
<1>24. GotInv(c)'
  BY <1>1, <1>3 DEF ClientInv, GotInv
<1>25. ClientInv(c)'
  BY <1>8, <1>18, <1>19, <1>20, <1>21, <1>22, <1>23, <1>24 DEF ClientInv
<1>26. c \in Callers => CallerInv(c)'
  <2> SUFFICES ASSUME c \in Callers PROVE TurnOf(c)'
    BY DEF CallerInv
  <2>1. TurnOf(c) /\ conn.from \in Nat
    BY <1>1, <1>4, <1>7, ClientParts DEF IInv, CallerInv, Alive, conn
  <2>2. conn.from <= conn.sent
    <3>1. conn.from <= conn.sent + Len(conn.replay)
      BY <1>7, <2>1 DEF TurnOf, conn
    <3> QED
      BY <1>5, <1>7, <2>1, <3>1
  <2>3. new.from <= new.sent
    BY <1>5, <1>7, <1>11, <1>13, <2>1, <2>2
  <2>4. \A n \in DOMAIN log : n <= conn.from => n <= conn.sent
    BY <1>5, <1>9, <2>1, <2>2
  <2>5. \A n \in DOMAIN log : n <= conn.from /\ n <= new.sent /\ OnWire(log[n]) =>
          PipedNext(c, log[n])
    BY <1>14, <2>1, <2>4 DEF TurnOf, conn
  <2> QED
    BY <1>1, <1>2, <1>7, <2>1, <2>3, <2>5, QuietTurn DEF conn, new
<1> QED
  BY <1>2, <1>8, <1>25, <1>26, QuietStep

LEMMA FrameKeeps ==
  ASSUME IInv, NEW c \in Clients, Frame(c)
  PROVE  IInv'
<1>1. TypeOK /\ Logged /\ PumpInv /\ ClientInv(c)
  BY DEF IInv
<1>2. Quiet
  BY DEF Frame, Quiet
<1> DEFINE conn == Current(c)
           new == Current(c)'
           e == Head(conn.chain)
<1>3. log' = log /\ cut' = cut /\ written' = written /\ pump' = pump
      /\ lastSeq' = lastSeq /\ got' = got
  BY <1>2, QuietFacts
<1>4. Has(c)
  BY DEF Frame, Has
<1>5. /\ conn \in Response /\ InOrder(conn, lastSeq[c]) /\ OfLog(conn, log)
      /\ AtRest(conn, lastSeq[c]) /\ Coming(conn) /\ Kept(conn)
      /\ conn.sent \in Nat /\ lastSeq[c] \in Nat
      /\ conn.chain \in Seq(Event) /\ conn.wire \in Seq(Event)
  BY <1>1, <1>4, ClientParts
<1>6. \A i \in DOMAIN conn.chain : Ordinary(conn.chain[i])
  BY <1>5 DEF OfLog
<1>7. /\ At(c) /\ conn.chain # <<>> /\ new = Framed(conn) /\ Ordinary(e)
  BY <1>1, <1>6, FrameStepFacts
<1>8. Has(c)' /\ connections' \in [Clients -> Seq(Response)] /\ Others(c)
  BY <1>7 DEF At
<1>9. /\ new.chain = Tail(conn.chain) /\ new.at = conn.at /\ new.from = conn.from
      /\ new.sent = conn.sent /\ new.replay = conn.replay /\ new.buffer = conn.buffer
  BY <1>5, <1>7, FramedIs
<1>10. /\ InOrder(new, lastSeq[c])
       /\ \A x : In(conn.wire, x) \/ (x = e /\ OnWire(x)) => In(new.wire, x)
       /\ \A i \in DOMAIN new.wire :
            \/ In(conn.wire, new.wire[i]) \/ ~Ordinary(new.wire[i])
            \/ new.wire[i] = e /\ OnWire(e)
  BY <1>5, <1>6, <1>7, FramedFacts
<1>11. \A x : In(conn.chain, x) <=> x = e \/ In(new.chain, x)
  BY <1>5, <1>7, <1>9, InTail
<1>12. /\ e \in Event /\ 1 \in DOMAIN conn.chain /\ e = conn.chain[1]
       /\ \A i \in DOMAIN new.chain : In(conn.chain, new.chain[i])
  <2>1. e \in Event /\ e = conn.chain[1] /\ 1 \in DOMAIN conn.chain
    <3>1. /\ e = conn.chain[1] /\ e \in Event /\ Len(conn.chain) \in Nat \ {0}
          /\ DOMAIN conn.chain = 1..Len(conn.chain)
      BY <1>5, <1>7, Ends1
    <3> QED
      BY <3>1
  <2>2. \A i \in DOMAIN new.chain : In(new.chain, new.chain[i])
    BY DEF In
  <2> HIDE DEF e, new, conn
  <2> QED
    BY <1>11, <2>1, <2>2
<1> HIDE DEF conn, new, e
<1>13. lastSeq[c] < e.seq /\ e.seq \in DOMAIN log /\ log[e.seq] = e
  BY <1>5, <1>7, <1>12 DEF InOrder, Within, OfLog, Of
\* An event with no frame is lost behind what the client has.
<1>14. ASSUME NEW n \in DOMAIN log, Piped(c, log[n])
       PROVE  PipedNext(c, log[n]) \/ (~OnWire(log[n]) /\ lastSeq[c] < n)
  <2>1. CASE In(got[c], log[n])
    BY <1>3, <2>1 DEF PipedNext
  <2>2. CASE In(conn.wire, log[n]) \/ In(new.chain, log[n])
               \/ (log[n] = e /\ OnWire(log[n]))
    BY <1>8, <1>10, <2>2 DEF PipedNext, Has, Current, new
  <2>3. CASE log[n] = e /\ ~OnWire(log[n])
    <3>1. e.seq = n
      BY <1>1, <2>3 DEF Logged
    <3> QED
      BY <1>13, <2>3, <3>1
  <2> QED
    BY <1>11, <1>14, <2>1, <2>2, <2>3 DEF Piped, conn
<1>15. Reach(c)' = Reach(c) /\ (Alive(c)' <=> Alive(c))
  BY <1>3, <1>4, <1>8, <1>9 DEF Reach, Alive, conn, new
<1>16. ReachInv(c)'
  <2>1. ReachInv(c)
    BY <1>1 DEF ClientInv
  <2> QED
    BY <1>1, <1>3, <1>14, <1>15, <2>1, ReachKept
<1>17. AtRest(Current(c), lastSeq[c])'
  <2>1. conn.at \notin {"asked", "left", "orphan", "ended"}
    BY <1>5, <1>7 DEF AtRest, Empty
  <2> QED
    BY <1>3, <1>5, <1>9, <2>1 DEF AtRest, new
<1>18. InOrder(Current(c), lastSeq[c])'
  BY <1>3, <1>10 DEF new
<1>19. OfLog(Current(c), log)'
  <2>1. Of(new.wire, log)
    BY <1>5, <1>10, <1>13 DEF OfLog, Of, In
  <2>3. \A i \in DOMAIN new.wire : OnWire(new.wire[i])
    BY <1>5, <1>10 DEF OfLog, In, Ordinary, OnWire
  <2>2. Of(new.chain, log) /\ \A i \in DOMAIN new.chain : Ordinary(new.chain[i])
    BY <1>5, <1>6, <1>12 DEF OfLog, Of, In
  <2> QED
    BY <1>3, <1>5, <1>9, <2>1, <2>2, <2>3 DEF OfLog, new
<1>20. Coming(Current(c))'
  BY <1>3, <1>5, <1>9 DEF Coming, Pending, new
<1>21. Kept(Current(c))'
  BY <1>3, <1>5, <1>9 DEF Kept, Told, Pending, new
<1>22. GotInv(c)'
  BY <1>1, <1>3 DEF ClientInv, GotInv
<1>23. ClientInv(c)'
  BY <1>8, <1>16, <1>17, <1>18, <1>19, <1>20, <1>21, <1>22 DEF ClientInv
<1>24. c \in Callers => CallerInv(c)'
  <2> SUFFICES ASSUME c \in Callers, Alive(c) PROVE TurnOf(c)'
    BY <1>15 DEF CallerInv
  <2>1. TurnOf(c)
    BY DEF IInv, CallerInv
  <2>2. \A n \in DOMAIN log : n <= conn.from /\ n <= new.sent /\ OnWire(log[n]) =>
          PipedNext(c, log[n])
    BY <1>9, <1>14, <2>1 DEF TurnOf, conn
  <2>3. /\ new.at = "replaying" => new.from <= new.sent + Len(new.replay)
        /\ new.at = "live" => new.from <= new.sent
        /\ new.at = "ended" =>
             \E t \in DOMAIN log : FirstEnd(log, conn.from, t) /\ t <= new.sent
    BY <1>9, <2>1 DEF TurnOf, conn
  <2> QED
    BY <1>1, <1>2, <1>9, <2>1, <2>2, <2>3, QuietTurn DEF conn, new
<1> QED
  BY <1>2, <1>8, <1>23, <1>24, QuietStep

LEMMA EndResponseKeeps ==
  ASSUME IInv, NEW c \in Clients, EndResponse(c)
  PROVE  IInv'
<1>1. TypeOK /\ Logged /\ PumpInv /\ ClientInv(c)
  BY DEF IInv
<1>2. Quiet
  BY DEF EndResponse, Quiet
<1> DEFINE conn == Current(c)
           new == Current(c)'
<1>3. log' = log /\ cut' = cut /\ written' = written /\ pump' = pump
      /\ lastSeq' = lastSeq /\ got' = got
  BY <1>2, QuietFacts
<1>4. /\ At(c) /\ conn.at = "live" /\ conn.chain = <<>> /\ new.at = "ended"
      /\ new.from = conn.from /\ new.sent = conn.sent
      /\ new.buffer = conn.buffer /\ new.replay = conn.replay
      /\ new.chain = conn.chain /\ new.wire = conn.wire
  BY <1>1, EndResponseFacts
<1>5. Has(c) /\ Has(c)' /\ connections' \in [Clients -> Seq(Response)] /\ Others(c)
  BY <1>4 DEF At
<1>6. /\ conn \in Response /\ InOrder(conn, lastSeq[c]) /\ OfLog(conn, log)
      /\ AtRest(conn, lastSeq[c]) /\ Coming(conn) /\ Kept(conn)
      /\ conn.sent \in Nat /\ lastSeq[c] \in Nat
  BY <1>1, <1>5, ClientParts
<1>7. log \in Seq(Event) /\ Len(log) \in Nat /\ DOMAIN log = 1..Len(log)
  BY <1>1, LogIs
<1> HIDE DEF conn, new
<1>8. conn.replay = <<>> /\ conn.buffer = <<>>
  BY <1>4, <1>6 DEF AtRest
\* The run's end was delivered, so it was sent.
<1>9. \E t \in DOMAIN log : FirstEnd(log, conn.from, t) /\ t <= conn.sent
  <2>1. PICK t \in RunEnd(c) : t < Len(log) \/ pump # "writing"
    BY DEF EndResponse
  <2>2. FirstEnd(log, conn.from, t)
    BY <1>1, <1>5, <2>1, RunEndIs DEF conn
  <2>3. t \in DOMAIN log /\ Ends(log[t])
    BY <2>2 DEF FirstEnd, EndsAt
  <2>4. ~Pending(t) /\ log[t].kind # "aside"
    BY <1>7, <2>1, <2>3 DEF Pending, Ends
  <2>5. ~(t > conn.sent + Len(conn.replay))
    BY <1>4, <1>6, <1>8, <2>3, <2>4 DEF Coming
  <2>6. t <= conn.sent
    BY <1>6, <1>7, <1>8, <2>3, <2>5
  <2> QED
    BY <2>2, <2>3, <2>6
<1>10. Reach(c)' = Reach(c) /\ Alive(c)
  BY <1>3, <1>4, <1>5 DEF Reach, Alive, conn, new
<1>11. \A e : PipedNext(c, e) <=> Piped(c, e)
  BY <1>3, <1>4, <1>5 DEF PipedNext, Piped, Has, Current, conn, new
<1>12. ReachInv(c)'
  BY <1>1, <1>3, <1>10, <1>11, ReachKept DEF ClientInv
<1>13. AtRest(Current(c), lastSeq[c])'
  BY <1>4, <1>8 DEF AtRest, new
<1>14. InOrder(Current(c), lastSeq[c])'
  BY <1>3, <1>4, <1>6 DEF InOrder, new
<1>15. OfLog(Current(c), log)'
  BY <1>3, <1>4, <1>6 DEF OfLog, new
<1>16. Coming(Current(c))'
  BY <1>4 DEF Coming, new
<1>17. Kept(Current(c))'
  BY <1>3, <1>4, <1>6 DEF Kept, Told, Pending, new
<1>18. GotInv(c)'
  BY <1>1, <1>3 DEF ClientInv, GotInv
<1>19. ClientInv(c)'
  BY <1>5, <1>12, <1>13, <1>14, <1>15, <1>16, <1>17, <1>18 DEF ClientInv
<1>20. c \in Callers => CallerInv(c)'
  <2> SUFFICES ASSUME c \in Callers PROVE TurnOf(c)'
    BY DEF CallerInv
  <2>1. TurnOf(c)
    BY <1>10 DEF IInv, CallerInv
  <2>2. \A n \in DOMAIN log : n <= conn.from /\ n <= new.sent /\ OnWire(log[n]) =>
          PipedNext(c, log[n])
    BY <1>4, <1>11, <2>1 DEF TurnOf, conn
  <2>3. \E t \in DOMAIN log : FirstEnd(log, conn.from, t) /\ t <= new.sent
    BY <1>4, <1>9
  <2> QED
    BY <1>1, <1>2, <1>4, <2>1, <2>2, <2>3, QuietTurn DEF conn, new
<1> QED
  BY <1>2, <1>5, <1>19, <1>20, QuietStep

\* What holds nothing is in order.
LEMMA EmptyIs ==
  ASSUME NEW conn, Empty(conn), NEW last, last <= conn.sent, NEW l
  PROVE  /\ InOrder(conn, last) /\ OfLog(conn, l)
         /\ Rising(conn.buffer) /\ \A i \in DOMAIN conn.buffer : FALSE
         /\ \A x : ~In(conn.wire, x) /\ ~In(conn.chain, x)
<1>1. /\ conn.replay = <<>> /\ conn.buffer = <<>>
      /\ conn.chain = <<>> /\ conn.wire = <<>>
  BY DEF Empty
<1>2. \A i \in DOMAIN <<>> : FALSE
  OBVIOUS
<1>3. InOrder(conn, last)
  BY <1>1, <1>2 DEF InOrder, Rising, Before, Within
<1>4. OfLog(conn, l)
  BY <1>1, <1>2 DEF OfLog, Of
<1>5. /\ Rising(conn.buffer) /\ \A i \in DOMAIN conn.buffer : FALSE
      /\ \A x : ~In(conn.wire, x) /\ ~In(conn.chain, x)
  BY <1>1, <1>2 DEF Rising, In
<1> QED
  BY <1>3, <1>4, <1>5

LEMMA DropKeeps ==
  ASSUME IInv, NEW c \in Clients, Drop(c)
  PROVE  IInv'
<1>1. TypeOK /\ Logged /\ PumpInv /\ ClientInv(c)
  BY DEF IInv
<1>2. Quiet
  BY DEF Drop, Quiet
<1> DEFINE conn == Current(c)
           new == Current(c)'
<1>3. log' = log /\ cut' = cut /\ written' = written /\ pump' = pump
      /\ lastSeq' = lastSeq /\ got' = got
  BY <1>2, QuietFacts
<1>4. At(c) /\ \E at \in {"left", "orphan"} : new = Gone(conn, at)
  BY <1>1, DropFacts
<1>5. Has(c) /\ Has(c)' /\ connections' \in [Clients -> Seq(Response)] /\ Others(c)
  BY <1>4 DEF At
<1>6. /\ conn \in Response /\ InOrder(conn, lastSeq[c])
      /\ conn.sent \in Nat /\ lastSeq[c] \in Nat
  BY <1>1, <1>5, ClientParts
<1>7. Empty(new) /\ new.at \in {"left", "orphan"} /\ new.sent = conn.sent
  BY <1>4, <1>6, GoneIs
<1>8. Alive(c)
  BY <1>5 DEF Drop, Alive
<1>9. log \in Seq(Event) /\ Len(log) \in Nat /\ DOMAIN log = 1..Len(log)
  BY <1>1, LogIs
<1> HIDE DEF conn, new
<1>10. lastSeq[c] <= conn.sent
  BY <1>6 DEF InOrder
<1>11. ~Alive(c)' /\ Reach(c)' = lastSeq[c] /\ Reach(c) = conn.sent
  BY <1>3, <1>7, <1>8 DEF Alive, Reach, conn, new
\* What is lost on its way is behind what the client has.
<1>12. ASSUME NEW n \in DOMAIN log, Piped(c, log[n])
       PROVE  PipedNext(c, log[n]) \/ ~(n <= lastSeq[c])
  <2>1. log[n].seq = n /\ Ordinary(log[n]) /\ n \in Nat
    BY <1>1, <1>9 DEF Logged
  <2>2. CASE In(got[c], log[n])
    BY <1>3, <2>2 DEF PipedNext
  <2>3. CASE In(conn.wire, log[n]) \/ In(conn.chain, log[n])
    <3>1. lastSeq[c] < n
      BY <1>6, <2>1, <2>3 DEF InOrder, Within, In
    <3> QED
      BY <1>6, <2>1, <3>1
  <2> QED
    BY <1>12, <2>2, <2>3 DEF Piped, conn
<1>13. ReachInv(c)'
  <2>1. ReachInv(c)
    BY <1>1 DEF ClientInv
  <2>2. \A n \in DOMAIN log : n <= Reach(c)' => n <= Reach(c)
    BY <1>6, <1>9, <1>10, <1>11
  <2>3. \A n \in Len(log) + 1..Reach(c)' : n \in Len(log) + 1..Reach(c)
    BY <1>6, <1>9, <1>10, <1>11
  <2> QED
    BY <1>1, <1>3, <1>11, <1>12, <2>1, <2>2, <2>3, ReachKept
<1>14. AtRest(Current(c), lastSeq[c])'
  BY <1>7 DEF AtRest, Empty, new
<1>15. /\ InOrder(new, lastSeq[c]) /\ OfLog(new, log)
       /\ Rising(new.buffer) /\ \A i \in DOMAIN new.buffer : FALSE
  BY <1>7, <1>10, EmptyIs
<1>16. InOrder(Current(c), lastSeq[c])' /\ OfLog(Current(c), log)' /\ Kept(Current(c))'
  BY <1>3, <1>15 DEF Kept, new
<1>17. Coming(Current(c))'
  BY <1>7 DEF Coming, new
<1>18. GotInv(c)'
  BY <1>1, <1>3 DEF ClientInv, GotInv
<1>19. ClientInv(c)'
  BY <1>5, <1>13, <1>14, <1>16, <1>17, <1>18 DEF ClientInv
<1>20. CallerInv(c)'
  BY <1>11 DEF CallerInv
<1> QED
  BY <1>2, <1>5, <1>19, <1>20, QuietStep

\* A client that connects, after nothing or after what it lost.
LEMMA ConnectKeepsClient ==
  ASSUME IInv, NEW c \in Clients, NEW from, Connects(c, from), ~Alive(c),
         log' = log, cut' = cut, written' = written, lastSeq' = lastSeq, got' = got
  PROVE  ClientInv(c)'
<1>1. TypeOK /\ Logged /\ PumpInv /\ ClientInv(c)
  BY DEF IInv
<1> DEFINE new == Current(c)'
<1>2. /\ Has(c)' /\ Empty(new) /\ new.at = "asked" /\ new.sent = lastSeq[c]
  BY DEF Connects
<1>3. lastSeq[c] \in Nat
  BY <1>1, ReachIs
<1> HIDE DEF new
<1>4. Reach(c) = lastSeq[c] /\ Reach(c)' = lastSeq[c]
  BY <1>2 DEF Reach, Alive, new
<1>5. \A x : Piped(c, x) => In(got[c], x)
  <2>1. ASSUME Has(c) PROVE \A x : ~In(Current(c).wire, x) /\ ~In(Current(c).chain, x)
    <3>1. Current(c).wire = <<>> /\ Current(c).chain = <<>>
      BY <1>1, <2>1, ClientParts DEF Alive, AtRest, Empty
    <3> QED
      BY <3>1, InNothing
  <2> QED
    BY <2>1 DEF Piped
<1>6. \A n \in DOMAIN log : Piped(c, log[n]) => PipedNext(c, log[n])
  BY <1>5 DEF PipedNext
<1>7. ReachInv(c)'
  BY <1>1, <1>4, <1>6, ReachKept DEF ClientInv
<1>8. AtRest(Current(c), lastSeq[c])'
  BY <1>2 DEF AtRest, Empty, new
<1>9. /\ InOrder(new, lastSeq[c]) /\ OfLog(new, log)
      /\ Rising(new.buffer) /\ \A i \in DOMAIN new.buffer : FALSE
  <2>1. lastSeq[c] <= new.sent
    BY <1>2, <1>3
  <2> QED
    BY <1>2, <2>1, EmptyIs
<1>10. InOrder(Current(c), lastSeq[c])' /\ OfLog(Current(c), log)' /\ Kept(Current(c))'
  BY <1>9 DEF Kept, new
<1>11. Coming(Current(c))'
  BY <1>2 DEF Coming, new
<1>12. GotInv(c)'
  BY <1>1 DEF ClientInv, GotInv
<1> QED
  BY <1>2, <1>7, <1>8, <1>10, <1>11, <1>12 DEF ClientInv

LEMMA FollowKeeps ==
  ASSUME IInv, NEW c \in Followers, Follow(c)
  PROVE  IInv'
<1>1. c \in Clients /\ c \notin Callers /\ TypeOK
  BY Bounds DEF Clients, IInv
<1>2. Quiet
  BY DEF Follow, Quiet
<1>3. log' = log /\ cut' = cut /\ written' = written
      /\ lastSeq' = lastSeq /\ got' = got
  BY <1>2, QuietFacts
<1>4. Connects(c, MaxLog)
  BY <1>1, FollowFacts
<1>5. ~Alive(c)
  BY DEF Follow, Alive, Has, On
<1>6. ClientInv(c)'
  BY <1>1, <1>3, <1>4, <1>5, ConnectKeepsClient
<1>7. connections' \in [Clients -> Seq(Response)] /\ Others(c)
  BY <1>4 DEF Connects
<1> QED
  BY <1>1, <1>2, <1>6, <1>7, QuietStep

LEMMA CallKeeps ==
  ASSUME IInv, NEW c \in Callers, Call(c)
  PROVE  IInv'
<1>1. c \in Clients /\ TypeOK /\ Logged /\ PumpInv /\ ClientInv(c)
  BY DEF Clients, IInv
<1>2. /\ log' = log /\ cut' = cut /\ written' = written /\ deaths' = deaths
      /\ unadmitted' = unadmitted /\ lastSeq' = lastSeq /\ got' = got
      /\ pump = "idle" /\ pump' = "between" /\ ~Has(c)
  BY DEF Call, clientVars, live, Has
<1>3. lastSeq[c] = 0 /\ got[c] = <<>>
  BY <1>1, <1>2 DEF ClientInv
<1>4. Connects(c, Len(log))
  BY <1>1, <1>3, CallFacts
<1>5. /\ connections' \in [Clients -> Seq(Response)] /\ Others(c)
      /\ Current(c)'.at = "asked" /\ Current(c)'.sent = 0 /\ Current(c)'.from = Len(log)
  BY <1>3, <1>4 DEF Connects
<1>6. ClientInv(c)'
  BY <1>1, <1>2, <1>4, ConnectKeepsClient DEF Alive
<1>7. TypeOK'
  BY <1>1, <1>2, <1>5 DEF TypeOK, Pump
<1>8. Grown /\ Logged' /\ PumpInv'
  BY <1>1, <1>2, QuietGrown
<1>9. \A d \in Clients : d # c => Same(d)
  BY <1>2, <1>5 DEF Same, Others
<1>10. log \in Seq(Event) /\ Len(log) \in Nat /\ DOMAIN log = 1..Len(log)
  BY <1>1, LogIs
<1>11. TurnOf(c)'
  <2>1. \A n \in DOMAIN log : ~(n > Len(log)) /\ ~(n <= 0)
    BY <1>10
  <2>2. Len(log) <= Len(log)
    BY <1>10
  <2>3. Of(<<>>, log)
    BY DEF Of
  <2> QED
    BY <1>2, <1>3, <1>5, <2>1, <2>2, <2>3 DEF TurnOf
<1>12. \A d \in Clients : ClientInv(d)'
  <2> SUFFICES ASSUME NEW d \in Clients PROVE ClientInv(d)'
    OBVIOUS
  <2>1. CASE d = c
    BY <1>6, <2>1
  <2>2. CASE d # c
    BY <1>1, <1>8, <1>9, <2>2, GrownClient DEF IInv
  <2> QED
    BY <2>1, <2>2
<1>13. \A d \in Callers : CallerInv(d)'
  <2> SUFFICES ASSUME NEW d \in Callers PROVE CallerInv(d)'
    OBVIOUS
  <2>1. CASE d = c
    BY <1>11, <2>1 DEF CallerInv
  <2>2. CASE d # c
    <3>1. d \in Clients
      BY DEF Clients
    <3> QED
      BY <1>1, <1>8, <1>9, <2>2, <3>1, GrownCaller DEF IInv
  <2> QED
    BY <2>1, <2>2
<1> QED
  BY <1>7, <1>8, <1>12, <1>13 DEF IInv

\* A frame that is read is with the client, where it was on its way.
LEMMA ReadMoves ==
  ASSUME IInv, NEW c \in Clients, Read(c)
  PROVE  LET conn == Current(c)
             e == Head(conn.wire)
         IN /\ \A x : In(got'[c], x) <=> In(got[c], x) \/ x = e
            /\ \A x : Piped(c, x) => PipedNext(c, x)
            /\ Ordinary(e) =>
                 e.seq \in DOMAIN log /\ log[e.seq] = e /\ lastSeq[c] < e.seq
            /\ OnWire(e)
<1> DEFINE conn == Current(c)
           e == Head(conn.wire)
           new == Current(c)'
<1>1. TypeOK /\ ClientInv(c) /\ Has(c)
  BY DEF IInv, Read, Has
<1>2. /\ conn \in Response /\ lastSeq[c] \in Nat /\ got[c] \in Seq(Event)
      /\ InOrder(conn, lastSeq[c]) /\ OfLog(conn, log) /\ conn.wire \in Seq(Event)
  BY <1>1, ClientParts
<1>3. /\ At(c) /\ conn.wire # <<>> /\ new = Taken(conn) /\ e \in Event
      /\ got' = [got EXCEPT ![c] = Append(got[c], e)]
  BY <1>1, <1>2, ReadFacts
<1>4. new.wire = Tail(conn.wire) /\ new.chain = conn.chain
  BY <1>2, <1>3, TakenIs
<1>5. Ordinary(e) => lastSeq[c] < e.seq
  BY <1>2, <1>3, TakenFacts
<1>6. \A x : In(conn.wire, x) <=> x = e \/ In(new.wire, x)
  BY <1>2, <1>3, <1>4, InTail
<1>7. got'[c] = Append(got[c], e)
  <2>1. DOMAIN got = Clients
    BY <1>1 DEF TypeOK
  <2> HIDE DEF e
  <2> QED
    BY <1>3, <2>1
<1> HIDE DEF conn, e, new
<1>8. \A x : In(got'[c], x) <=> In(got[c], x) \/ x = e
  BY <1>2, <1>3, <1>7, InAppend
<1>9. \A x : Piped(c, x) => PipedNext(c, x)
  <2>1. connections'[c] # <<>> /\ Last(connections'[c]) = new
    BY <1>3 DEF At, Has, Current, new
  <2> QED
    BY <1>4, <1>6, <1>8, <2>1 DEF Piped, PipedNext, conn
<1>10. OnWire(e) /\ (Ordinary(e) => e.seq \in DOMAIN log /\ log[e.seq] = e)
  <2>1. In(conn.wire, e)
    BY <1>6
  <2> QED
    BY <1>2, <2>1 DEF OfLog, Of, In
<1> QED
  BY <1>5, <1>8, <1>9, <1>10 DEF conn, e

LEMMA ReadKeepsClient ==
  ASSUME IInv, NEW c \in Clients, Read(c)
  PROVE  ClientInv(c)'
<1>1. TypeOK /\ Logged /\ PumpInv /\ ClientInv(c)
  BY DEF IInv
<1> DEFINE conn == Current(c)
           new == Current(c)'
           e == Head(conn.wire)
           last == lastSeq[c]
           next == Newest(e, last)
<1>2. log' = log /\ cut' = cut /\ written' = written /\ pump' = pump
  BY DEF Read, serverVars
<1>3. Has(c)
  BY DEF Read, Has
<1>4. /\ conn \in Response /\ InOrder(conn, last) /\ OfLog(conn, log)
      /\ AtRest(conn, last) /\ Coming(conn) /\ Kept(conn)
      /\ conn.sent \in Nat /\ last \in Nat /\ got[c] \in Seq(Event)
      /\ conn.wire \in Seq(Event)
  BY <1>1, <1>3, ClientParts
<1>5. /\ At(c) /\ conn.wire # <<>> /\ new = Taken(conn) /\ e \in Event
      /\ got' = [got EXCEPT ![c] = Append(got[c], e)]
      /\ lastSeq' = [lastSeq EXCEPT ![c] = next]
  BY <1>1, <1>4, ReadFacts
<1>6. /\ new.wire = Tail(conn.wire) /\ new.at = conn.at /\ new.from = conn.from
      /\ new.sent = conn.sent /\ new.chain = conn.chain
      /\ new.replay = conn.replay /\ new.buffer = conn.buffer
  BY <1>4, <1>5, TakenIs
<1>7. /\ InOrder(new, next)
      /\ \A i \in DOMAIN new.wire : In(conn.wire, new.wire[i])
  BY <1>4, <1>5, TakenFacts
<1>8. /\ \A x : In(got'[c], x) <=> In(got[c], x) \/ x = e
      /\ \A x : Piped(c, x) => PipedNext(c, x)
      /\ Ordinary(e) => e.seq \in DOMAIN log /\ log[e.seq] = e /\ last < e.seq
      /\ OnWire(e)
  BY ReadMoves
<1>9. log \in Seq(Event) /\ Len(log) \in Nat /\ DOMAIN log = 1..Len(log)
      /\ written \in Nat
  BY <1>1, LogIs
<1>10. got'[c] = Append(got[c], e) /\ lastSeq'[c] = next
  <2>1. DOMAIN got = Clients /\ DOMAIN lastSeq = Clients
    BY <1>1 DEF TypeOK
  <2> HIDE DEF e, next
  <2> QED
    BY <1>5, <2>1
<1>11. Has(c)' /\ Alive(c)
  <2>1. conn.at \notin {"left", "orphan"}
    BY <1>4, <1>5 DEF AtRest, Empty
  <2> QED
    BY <1>3, <1>5, <2>1 DEF At, Alive
<1>12. e.seq \in Nat
  BY <1>5, Seqs
<1>13. /\ Ordinary(e) => next = e.seq
       /\ ~Ordinary(e) => next = last
       /\ next \in Nat /\ last <= next
  BY <1>4, <1>8, <1>12 DEF Newest
<1> HIDE DEF conn, new, e, next, last
<1>14. GotInv(c)'
  <2> DEFINE g == got[c]
             h == got'[c]
  <2>1. /\ Len(g) \in Nat /\ DOMAIN g = 1..Len(g) /\ DOMAIN h = 1..Len(g) + 1
        /\ \A i \in DOMAIN g : h[i] = g[i]
        /\ h[Len(g) + 1] = e
    BY <1>4, <1>5, <1>10
  <2>2. Rising(g) /\ \A i \in DOMAIN g : Ordinary(g[i]) => g[i].seq <= last
    BY <1>1 DEF ClientInv, GotInv, last
  <2>3. \A i \in DOMAIN g : g[i].seq \in Nat
    BY <1>4, Seqs
  <2> HIDE DEF g, h
  <2>4. \A i \in DOMAIN h : i \in DOMAIN g \/ i = Len(g) + 1
    BY <2>1
  <2>5. Rising(h)
    <3> SUFFICES ASSUME NEW i \in DOMAIN h, NEW j \in DOMAIN h, i < j,
                        Ordinary(h[i]), Ordinary(h[j])
                 PROVE  h[i].seq < h[j].seq
      BY DEF Rising
    <3>1. i \in DOMAIN g
      BY <2>1
    <3>2. CASE j \in DOMAIN g
      BY <2>1, <2>2, <3>1, <3>2 DEF Rising
    <3>3. CASE j = Len(g) + 1
      <4>1. g[i].seq <= last /\ h[i] = g[i] /\ g[i].seq \in Nat
        BY <2>1, <2>2, <2>3, <3>1
      <4>2. h[j] = e /\ last < e.seq
        BY <1>8, <2>1, <3>3
      <4> QED
        BY <1>4, <1>12, <4>1, <4>2
    <3> QED
      BY <2>4, <3>2, <3>3
  <2>6. ASSUME NEW i \in DOMAIN h, Ordinary(h[i]) PROVE h[i].seq <= next
    <3>1. CASE i \in DOMAIN g
      <4>1. g[i].seq <= last /\ h[i] = g[i] /\ g[i].seq \in Nat
        BY <2>1, <2>2, <2>3, <2>6, <3>1
      <4> QED
        BY <1>4, <1>13, <4>1
    <3>2. CASE i = Len(g) + 1
      BY <1>12, <1>13, <2>1, <2>6, <3>2
    <3> QED
      BY <2>4, <3>1, <3>2
  <2> QED
    BY <1>10, <2>5, <2>6 DEF GotInv, h
<1>15. Reach(c)' = conn.sent /\ Reach(c) = conn.sent
  BY <1>3, <1>6, <1>11 DEF Reach, Alive, conn, new
<1>16. \A n : Replaced(c, n) => Replaced(c, n)'
  BY <1>2, <1>8 DEF Replaced
<1>17. \A n : PipedNext(c, log[n]) <=> Piped(c, log[n])'
  BY <1>2 DEF PipedNext, Piped, Has, Current
\* A hidden event that the store lacks is the last there is: nothing that is
\* read is behind it.
<1>18. ASSUME NEW n \in DOMAIN log, ~OnWire(log[n]), last < n
       PROVE  n <= written \/ next < n
  <2> SUFFICES ASSUME ~(n <= written), Ordinary(e) PROVE e.seq < n
    BY <1>13, <1>18
  <2>1. log[n].kind # "aside"
    BY <1>18 DEF OnWire
  <2>2. Pending(n)
    BY <1>1, <2>1 DEF PumpInv, Told
  <2>3. n = Len(log) /\ e.seq \in DOMAIN log /\ log[e.seq] = e
    BY <1>8, <2>2 DEF Pending
  <2>4. e.seq # n
    BY <1>8, <1>18, <2>3
  <2> QED
    BY <1>9, <2>3, <2>4
<1>19. ReachInv(c)'
  <2>1. ASSUME NEW n \in DOMAIN log, n <= conn.sent PROVE Reached(c, n)'
    <3>1. Reached(c, n)
      BY <1>1, <1>15, <2>1 DEF ClientInv, ReachInv
    <3>2. CASE Piped(c, log[n])
      BY <1>8, <1>17, <3>2 DEF Reached
    <3>3. CASE Replaced(c, n)
      BY <1>16, <3>3 DEF Reached
    <3>4. CASE log[n].kind = "aside" /\ n <= written
      BY <1>2, <3>4 DEF Reached
    <3>5. CASE ~OnWire(log[n]) /\ (n <= written \/ last < n)
      <4>1. n <= written \/ next < n
        BY <1>18, <3>5
      <4> QED
        BY <1>2, <1>10, <3>5, <4>1 DEF Reached
    <3> QED
      BY <3>1, <3>2, <3>3, <3>4, <3>5 DEF Reached, last
  <2>2. \A n \in Len(log) + 1..conn.sent : Replaced(c, n)'
    BY <1>1, <1>15, <1>16 DEF ClientInv, ReachInv
  <2> QED
    BY <1>2, <1>15, <2>1, <2>2 DEF ReachInv
<1>20. AtRest(Current(c), lastSeq[c])'
  <2>1. conn.at \notin {"asked", "left", "orphan"}
    BY <1>4, <1>5 DEF AtRest, Empty
  <2> QED
    BY <1>4, <1>6, <2>1 DEF AtRest, new
<1>21. InOrder(Current(c), lastSeq[c])'
  BY <1>7, <1>10 DEF new
<1>22. OfLog(Current(c), log)'
  <2>1. Of(new.wire, log) /\ \A i \in DOMAIN new.wire : OnWire(new.wire[i])
    BY <1>4, <1>7 DEF OfLog, Of, In
  <2> QED
    BY <1>2, <1>4, <1>6, <2>1 DEF OfLog, new
<1>23. Coming(Current(c))'
  BY <1>2, <1>4, <1>6 DEF Coming, Pending, new
<1>24. Kept(Current(c))'
  BY <1>2, <1>4, <1>6 DEF Kept, Told, Pending, new
<1> QED
  BY <1>11, <1>14, <1>19, <1>20, <1>21, <1>22, <1>23, <1>24 DEF ClientInv

LEMMA ReadKeeps ==
  ASSUME IInv, NEW c \in Clients, Read(c)
  PROVE  IInv'
<1>1. TypeOK /\ Logged /\ PumpInv /\ ClientInv(c) /\ Has(c)
  BY DEF IInv, Read, Has
<1> DEFINE conn == Current(c)
           new == Current(c)'
           e == Head(conn.wire)
           next == Newest(e, lastSeq[c])
<1>2. /\ log' = log /\ cut' = cut /\ written' = written /\ pump' = pump
      /\ deaths' = deaths /\ unadmitted' = unadmitted
  BY DEF Read, serverVars
<1>3. /\ conn \in Response /\ InOrder(conn, lastSeq[c]) /\ lastSeq[c] \in Nat
      /\ got[c] \in Seq(Event)
  BY <1>1, ClientParts
<1>4. /\ At(c) /\ conn.wire # <<>> /\ new = Taken(conn) /\ e \in Event
      /\ got' = [got EXCEPT ![c] = Append(got[c], e)]
      /\ lastSeq' = [lastSeq EXCEPT ![c] = next]
  BY <1>1, <1>3, ReadFacts
<1>5. /\ new.at = conn.at /\ new.from = conn.from /\ new.sent = conn.sent
      /\ new.replay = conn.replay
  BY <1>3, <1>4, TakenIs
<1>6. /\ \A x : In(got'[c], x) <=> In(got[c], x) \/ x = e
      /\ \A x : Piped(c, x) => PipedNext(c, x)
      /\ Ordinary(e) => e.seq \in DOMAIN log /\ log[e.seq] = e
  BY ReadMoves
<1>7. connections' \in [Clients -> Seq(Response)] /\ Others(c) /\ Has(c)'
  BY <1>4 DEF At
<1>8. next \in 0..MaxLog
  BY <1>1, <1>4, Seqs DEF Newest, TypeOK
<1> HIDE DEF conn, new, e, next
<1>9. TypeOK'
  <2>1. Append(got[c], e) \in Seq(Event)
    BY <1>3, <1>4
  <2>2. got' \in [Clients -> Seq(Event)] /\ lastSeq' \in [Clients -> 0..MaxLog]
    BY <1>1, <1>4, <1>8, <2>1 DEF TypeOK
  <2> QED
    BY <1>1, <1>2, <1>7, <2>2 DEF TypeOK
<1>10. Grown /\ Logged' /\ PumpInv'
  BY <1>1, <1>2, QuietGrown
<1>11. \A d \in Clients : d # c => Same(d)
  BY <1>1, <1>4, <1>7 DEF Same, Others, TypeOK
<1>12. \A d \in Clients : ClientInv(d)'
  <2> SUFFICES ASSUME NEW d \in Clients PROVE ClientInv(d)'
    OBVIOUS
  <2>1. CASE d = c
    BY <2>1, ReadKeepsClient
  <2>2. CASE d # c
    BY <1>1, <1>10, <1>11, <2>2, GrownClient DEF IInv
  <2> QED
    BY <2>1, <2>2
<1>13. c \in Callers => CallerInv(c)'
  <2> SUFFICES ASSUME c \in Callers, Alive(c) PROVE TurnOf(c)'
    BY <1>1, <1>5, <1>7 DEF CallerInv, Alive, conn, new
  <2>1. TurnOf(c)
    BY DEF IInv, CallerInv
  <2>2. Of(got'[c], log)
    <3>1. \A i \in DOMAIN got'[c] : In(got'[c], got'[c][i])
      BY DEF In
    <3>2. \A i \in DOMAIN got'[c] : In(got[c], got'[c][i]) \/ got'[c][i] = e
      BY <1>6, <3>1
    <3> QED
      BY <1>6, <2>1, <3>2 DEF TurnOf, Of, In
  <2>3. \A n \in DOMAIN log : n <= conn.from /\ n <= new.sent /\ OnWire(log[n]) =>
          PipedNext(c, log[n])
    BY <1>5, <1>6, <2>1 DEF TurnOf, conn
  <2>4. /\ new.at = "replaying" => new.from <= new.sent + Len(new.replay)
        /\ new.at = "live" => new.from <= new.sent
        /\ new.at = "ended" =>
             \E t \in DOMAIN log : FirstEnd(log, conn.from, t) /\ t <= new.sent
    BY <1>5, <2>1 DEF TurnOf, conn
  <2> QED
    BY <1>1, <1>2, <1>5, <2>1, <2>2, <2>3, <2>4, TurnKept DEF conn, new
<1>14. \A d \in Callers : CallerInv(d)'
  <2> SUFFICES ASSUME NEW d \in Callers PROVE CallerInv(d)'
    OBVIOUS
  <2>1. CASE d = c
    BY <1>13, <2>1
  <2>2. CASE d # c
    <3>1. d \in Clients
      BY DEF Clients
    <3> QED
      BY <1>1, <1>10, <1>11, <2>2, <3>1, GrownCaller DEF IInv
  <2> QED
    BY <2>1, <2>2
<1> QED
  BY <1>9, <1>10, <1>12, <1>14 DEF IInv

(***************************************************************************)
(* The process dies.                                                       *)
(***************************************************************************)

\* Behind the newest event a client has nothing is on its way.
LEMMA BehindIsWithClient ==
  ASSUME TypeOK, Logged, NEW c \in Clients, ClientInv(c)
  PROVE  /\ lastSeq[c] <= Reach(c)
         /\ \A n \in DOMAIN log : n <= lastSeq[c] /\ Piped(c, log[n]) =>
              In(got[c], log[n])
<1>1. lastSeq[c] \in Nat /\ Reach(c) \in Nat
  BY ReachIs
<1>2. Has(c) => InOrder(Current(c), lastSeq[c]) /\ Current(c).sent \in Nat
  BY ClientParts
<1>3. lastSeq[c] <= Reach(c)
  BY <1>1, <1>2 DEF Reach, Alive, InOrder
<1>4. ASSUME NEW n \in DOMAIN log, n <= lastSeq[c], Has(c)
      PROVE  ~In(Current(c).wire, log[n]) /\ ~In(Current(c).chain, log[n])
  <2>1. log[n].seq = n /\ Ordinary(log[n]) /\ n \in Nat
    BY LogIs DEF Logged
  <2>2. ~(lastSeq[c] < n)
    BY <1>1, <1>4, <2>1
  <2> QED
    BY <1>2, <1>4, <2>1, <2>2 DEF InOrder, Within, In
<1> QED
  BY <1>3, <1>4 DEF Piped

LEMMA DieKeepsReach ==
  ASSUME IInv, Die, NEW c \in Clients
  PROVE  ReachInv(c)'
<1>1. TypeOK /\ Logged /\ ClientInv(c)
  BY DEF IInv
<1>2. /\ Has(c)' <=> Has(c)
      /\ Has(c) => Current(c)' = Gone(Current(c), "left")
      /\ log' \in Seq(Event) /\ Len(log') = written
      /\ \A n \in DOMAIN log' : n \in DOMAIN log /\ n <= written /\ log'[n] = log[n]
      /\ \A old \in cut : old \in cut'
      /\ \A n \in DOMAIN log : n > written => log[n] \in cut'
  BY <1>1, DieFacts
<1>3. /\ lastSeq' = lastSeq /\ got' = got /\ written' = written
  BY DEF Die, clientVars
<1>4. /\ lastSeq[c] \in Nat /\ Reach(c) \in Nat /\ lastSeq[c] <= Reach(c)
      /\ \A n \in DOMAIN log : n <= lastSeq[c] /\ Piped(c, log[n]) =>
           In(got[c], log[n])
  BY <1>1, ReachIs, BehindIsWithClient
<1>5. Len(log) \in Nat /\ DOMAIN log = 1..Len(log) /\ written \in Nat
      /\ written <= Len(log)
  BY <1>1, LogIs
<1>6. Reach(c)' = lastSeq[c]
  <2>1. Has(c) => Current(c)'.at = "left"
    BY <1>1, <1>2, CurrentIs, GoneIs
  <2> QED
    BY <1>2, <1>3, <2>1 DEF Reach, Alive
<1>7. \A n : Replaced(c, n) => Replaced(c, n)'
  BY <1>2, <1>3 DEF Replaced
<1>8. ReachInv(c)
  BY <1>1 DEF ClientInv
<1>9. \A n \in DOMAIN log : n <= lastSeq[c] => Reached(c, n)
  BY <1>4, <1>5, <1>8 DEF ReachInv
<1>10. ASSUME NEW n \in DOMAIN log', n <= lastSeq[c] PROVE Reached(c, n)'
  <2>1. n \in DOMAIN log /\ n <= written /\ log'[n] = log[n] /\ Reached(c, n)
    BY <1>2, <1>9, <1>10
  <2>2. CASE Piped(c, log[n])
    BY <1>3, <1>4, <1>10, <2>1, <2>2 DEF Reached, Piped
  <2>3. CASE Replaced(c, n)
    BY <1>7, <2>3 DEF Reached
  <2>4. CASE log[n].kind = "aside" \/ ~OnWire(log[n])
    BY <1>3, <2>1, <2>4 DEF Reached
  <2> QED
    BY <2>1, <2>2, <2>3, <2>4 DEF Reached
\* An event that is cut from the log, and that the client has, is replaced.
<1>11. ASSUME NEW n \in written + 1..lastSeq[c] PROVE Replaced(c, n)'
  <2>1. /\ n \in Nat /\ n > written /\ n <= lastSeq[c]
        /\ ~(n <= written) /\ ~(lastSeq[c] < n)
    BY <1>4, <1>5
  <2>2. CASE n \in DOMAIN log
    <3>1. CASE Piped(c, log[n])
      <4>1. In(got[c], log[n]) /\ log[n] \in cut' /\ log[n].seq = n /\ Ordinary(log[n])
        BY <1>1, <1>2, <1>4, <2>1, <2>2, <3>1 DEF Logged
      <4> QED
        BY <1>3, <4>1 DEF Replaced
    <3> QED
      BY <1>7, <1>9, <2>1, <2>2, <3>1 DEF Reached
  <2>3. CASE n \in Len(log) + 1..Reach(c)
    BY <1>7, <1>8, <2>3 DEF ReachInv
  <2> QED
    BY <1>4, <1>5, <2>1, <2>2, <2>3
<1> QED
  BY <1>2, <1>6, <1>10, <1>11 DEF ReachInv

LEMMA DieKeeps ==
  ASSUME IInv, Die
  PROVE  IInv'
<1>1. TypeOK /\ Logged /\ PumpInv
  BY DEF IInv
<1>2. /\ connections' \in [Clients -> Seq(Response)]
      /\ log' \in Seq(Event) /\ Len(log') = written
      /\ \A n \in DOMAIN log' : n \in DOMAIN log /\ n <= written /\ log'[n] = log[n]
      /\ cut' \subseteq Event
  BY <1>1, DieFacts
<1>3. /\ lastSeq' = lastSeq /\ got' = got /\ written' = written
      /\ pump' = "idle" /\ unadmitted' = 0 /\ deaths' = deaths + 1 /\ deaths < MaxDeaths
  BY DEF Die, clientVars
<1>4. TypeOK'
  <2>1. deaths' \in 0..MaxDeaths
    BY <1>1, <1>3, Bounds DEF TypeOK
  <2>2. unadmitted' \in 0..MaxLog /\ written' \in 0..Len(log')
    BY <1>1, <1>2, <1>3, MaxLogIs, LogIs
  <2> QED
    BY <1>1, <1>2, <1>3, <2>1, <2>2 DEF TypeOK, Pump
<1>5. Logged'
  BY <1>1, <1>2 DEF Logged
<1>6. PumpInv'
  BY <1>2, <1>3 DEF PumpInv
<1>7. ASSUME NEW d \in Clients PROVE ClientInv(d)' /\ ~Alive(d)'
  <2> DEFINE new == Current(d)'
  <2>1. ClientInv(d) /\ lastSeq[d] \in Nat
    BY <1>1, ReachIs DEF IInv
  <2>2. Has(d)' <=> Has(d)
    BY <1>1, DieFacts
  <2>3. ASSUME Has(d)
        PROVE  Empty(new) /\ new.at = "left" /\ lastSeq[d] <= new.sent
    <3>1. new = Gone(Current(d), "left")
      BY <1>1, <2>3, DieFacts
    <3>2. Current(d) \in Response /\ lastSeq[d] <= Current(d).sent
      BY <1>1, <2>1, <2>3, ClientParts DEF InOrder
    <3> QED
      BY <3>1, <3>2, GoneIs
  <2>4. GotInv(d)' /\ (~Has(d)' => lastSeq'[d] = 0 /\ got'[d] = <<>>)
    BY <1>3, <2>1, <2>2 DEF ClientInv, GotInv
  <2>5. ReachInv(d)'
    BY DieKeepsReach
  <2> HIDE DEF new
  <2>6. ASSUME Has(d)
        PROVE  /\ InOrder(new, lastSeq[d]) /\ OfLog(new, log')
               /\ Rising(new.buffer) /\ \A i \in DOMAIN new.buffer : FALSE
    BY <2>3, <2>6, EmptyIs
  <2>7. ASSUME Has(d)'
        PROVE  /\ AtRest(Current(d), lastSeq[d])' /\ InOrder(Current(d), lastSeq[d])'
               /\ OfLog(Current(d), log)' /\ Coming(Current(d))' /\ Kept(Current(d))'
    <3>1. AtRest(Current(d), lastSeq[d])'
      BY <2>2, <2>3, <2>7 DEF AtRest, Empty, new
    <3>2. /\ InOrder(Current(d), lastSeq[d])' /\ OfLog(Current(d), log)'
          /\ Kept(Current(d))'
      BY <1>3, <2>2, <2>6, <2>7 DEF Kept, new
    <3>3. Coming(Current(d))'
      BY <2>2, <2>3, <2>7 DEF Coming, new
    <3> QED
      BY <3>1, <3>2, <3>3
  <2>8. ~Alive(d)'
    BY <2>2, <2>3 DEF Alive, new
  <2> QED
    BY <2>4, <2>5, <2>7, <2>8 DEF ClientInv
<1>8. \A c \in Callers : CallerInv(c)'
  <2>1. Callers \subseteq Clients
    BY DEF Clients
  <2> QED
    BY <1>7, <2>1 DEF CallerInv
<1> QED
  BY <1>4, <1>5, <1>6, <1>7, <1>8 DEF IInv

(***************************************************************************)
(* An event is delivered.                                                  *)
(***************************************************************************)

\* What is delivered is the last of the log, and the store holds all of it.
LEMMA DeliveredIs ==
  ASSUME IInv, Deliver
  PROVE  LET L == Len(log)
             e == log[L]
         IN /\ L \in Nat /\ L \in DOMAIN log /\ DOMAIN log = 1..L /\ written = L
            /\ e \in Event /\ e.seq = L /\ Ordinary(e) /\ e.kind # "aside"
            /\ log' = log /\ written' = written /\ cut' = cut /\ deaths' = deaths
            /\ lastSeq' = lastSeq /\ got' = got
            /\ pump = "writing" /\ pump' \in {"idle", "between"}
            /\ pump' = "idle" => Ends(e)
            /\ \A n : Told(n)' <=> n \in DOMAIN log /\ log[n].kind # "aside"
<1>1. TypeOK /\ Logged /\ PumpInv
  BY DEF IInv
<1>2. /\ log' = log /\ written' = written /\ cut' = cut /\ deaths' = deaths
      /\ lastSeq' = lastSeq /\ got' = got
      /\ pump = "writing" /\ written = Len(log) /\ pump' \in {"idle", "between"}
  BY DEF Deliver, clientVars
<1>3. log # <<>> /\ log[Len(log)].kind # "aside"
  BY <1>1, <1>2 DEF PumpInv
<1>4. /\ log \in Seq(Event) /\ Len(log) \in Nat /\ DOMAIN log = 1..Len(log)
      /\ \A n \in DOMAIN log : log[n] \in Event
  BY <1>1, LogIs
<1>5. Len(log) \in DOMAIN log
  <2>1. Len(log) # 0
    BY <1>3, <1>4
  <2> QED
    BY <1>4, <2>1
<1>6. /\ log[Len(log)] \in Event /\ log[Len(log)].seq = Len(log)
      /\ Ordinary(log[Len(log)])
  BY <1>1, <1>4, <1>5 DEF Logged
<1>7. pump' = "idle" => Ends(log[Len(log)])
  <2>1. Last(log) = log[Len(log)]
    BY DEF Last
  <2> QED
    BY <2>1 DEF Deliver
<1>8. \A n : Told(n)' <=> n \in DOMAIN log /\ log[n].kind # "aside"
  BY <1>2 DEF Told, Pending
<1> QED
  BY <1>2, <1>3, <1>4, <1>5, <1>6, <1>7, <1>8

\* A listener whose connection the delivery leaves as it was.
LEMMA DeliverPasses ==
  ASSUME IInv, Deliver, NEW c \in Clients, Has(c), Current(c)' = Current(c),
         Current(c).at = "live" => Len(log) <= Current(c).sent,
         Current(c).at # "replaying"
  PROVE  /\ ReachInv(c)'
         /\ AtRest(Current(c), lastSeq[c])' /\ InOrder(Current(c), lastSeq[c])'
         /\ OfLog(Current(c), log)' /\ Coming(Current(c))' /\ Kept(Current(c))'
<1>1. TypeOK /\ ClientInv(c) /\ (Has(c)' <=> Has(c))
  <2>1. TypeOK /\ ClientInv(c) /\ log # <<>>
    BY DEF IInv, PumpInv, Deliver
  <2> QED
    BY <2>1, DeliverFacts
<1>2. /\ Len(log) \in Nat /\ DOMAIN log = 1..Len(log)
      /\ log' = log /\ written' = written /\ cut' = cut
      /\ lastSeq' = lastSeq /\ got' = got
  BY DeliveredIs
<1> DEFINE conn == Current(c)
<1>3. /\ AtRest(conn, lastSeq[c]) /\ InOrder(conn, lastSeq[c]) /\ OfLog(conn, log)
      /\ Coming(conn) /\ Kept(conn) /\ conn.sent \in Nat
  BY <1>1, ClientParts
<1>4. Reach(c)' = Reach(c)
  BY <1>1, <1>2 DEF Reach, Alive
<1>5. \A x : Piped(c, x) => PipedNext(c, x)
  BY <1>1, <1>2 DEF Piped, PipedNext, Has, Current
<1>6. ReachInv(c)'
  BY <1>1, <1>2, <1>4, <1>5, ReachKept DEF ClientInv
<1>7. conn.replay = <<>> /\ conn.buffer = <<>>
  BY <1>3 DEF AtRest
<1>8. Coming(conn)'
  <2>1. conn.at = "live" =>
          \A n \in DOMAIN log : ~(n > conn.sent + Len(conn.replay))
    BY <1>2, <1>3, <1>7
  <2> QED
    BY <1>2, <2>1 DEF Coming
<1>9. Kept(conn)'
  <2>1. Rising(conn.buffer) /\ \A i \in DOMAIN conn.buffer : FALSE
    BY <1>3, <1>7 DEF Kept
  <2> QED
    BY <2>1 DEF Kept
<1> QED
  BY <1>2, <1>3, <1>6, <1>8, <1>9

\* A listener that is still replaying keeps what is delivered.
LEMMA DeliverKept ==
  ASSUME IInv, Deliver, NEW c \in Clients, Has(c), Current(c).at = "replaying"
  PROVE  /\ ReachInv(c)'
         /\ AtRest(Current(c), lastSeq[c])' /\ InOrder(Current(c), lastSeq[c])'
         /\ OfLog(Current(c), log)' /\ Coming(Current(c))' /\ Kept(Current(c))'
<1> DEFINE conn == Current(c)
           new == Current(c)'
           L == Len(log)
           e == log[L]
<1>1. TypeOK /\ Logged /\ PumpInv /\ ClientInv(c) /\ log # <<>>
  BY DEF IInv, PumpInv, Deliver
<1>2. Has(c)' /\ new = Hear(conn, e)
  BY <1>1, DeliverFacts
<1>3. /\ L \in Nat /\ L \in DOMAIN log /\ DOMAIN log = 1..L
      /\ e \in Event /\ e.seq = L /\ Ordinary(e) /\ e.kind # "aside"
      /\ log' = log /\ written' = written /\ cut' = cut
      /\ lastSeq' = lastSeq /\ got' = got /\ pump = "writing"
      /\ \A n : Told(n)' <=> n \in DOMAIN log /\ log[n].kind # "aside"
  BY DeliveredIs
<1>4. /\ conn \in Response /\ InOrder(conn, lastSeq[c]) /\ OfLog(conn, log)
      /\ Coming(conn) /\ Kept(conn) /\ conn.sent \in Nat
      /\ conn.buffer \in Seq(Event)
  BY <1>1, ClientParts
<1>5. /\ new.at = "replaying" /\ new.from = conn.from /\ new.wire = conn.wire
      /\ new.replay = conn.replay /\ new.chain = conn.chain /\ new.sent = conn.sent
      /\ new.buffer = Append(conn.buffer, e)
  BY <1>2, <1>3, <1>4, HearIs
<1> HIDE DEF conn, new, L, e
<1>6. /\ Len(conn.buffer) \in Nat /\ DOMAIN conn.buffer = 1..Len(conn.buffer)
      /\ DOMAIN new.buffer = 1..Len(conn.buffer) + 1
      /\ \A i \in DOMAIN conn.buffer : i \in DOMAIN new.buffer
                                       /\ new.buffer[i] = conn.buffer[i]
      /\ new.buffer[Len(conn.buffer) + 1] = e
      /\ Len(conn.buffer) + 1 \in DOMAIN new.buffer
  BY <1>3, <1>4, <1>5
<1>7. \A i \in DOMAIN new.buffer : i \in DOMAIN conn.buffer \/ i = Len(conn.buffer) + 1
  BY <1>6
<1>8. Reach(c)' = Reach(c)
  BY <1>2, <1>5 DEF Reach, Alive, conn, new
<1>9. \A x : Piped(c, x) => PipedNext(c, x)
  BY <1>2, <1>3, <1>5 DEF Piped, PipedNext, Has, Current, conn, new
<1>10. ReachInv(c)'
  BY <1>1, <1>3, <1>8, <1>9, ReachKept DEF ClientInv
<1>11. AtRest(Current(c), lastSeq[c])'
  BY <1>5 DEF AtRest, new
<1>12. InOrder(Current(c), lastSeq[c])'
  BY <1>3, <1>4, <1>5 DEF InOrder, new
<1>13. OfLog(Current(c), log)'
  <2>1. Of(new.buffer, log) /\ \A i \in DOMAIN new.buffer : Ordinary(new.buffer[i])
    <3>1. log[e.seq] = e /\ e.seq \in DOMAIN log
      BY <1>3 DEF e
    <3> QED
      BY <1>3, <1>4, <1>6, <1>7, <3>1 DEF OfLog, Of
  <2> QED
    BY <1>3, <1>4, <1>5, <2>1 DEF OfLog, new
<1>14. Coming(Current(c))'
  <2> SUFFICES ASSUME NEW n \in DOMAIN log, n > conn.sent + Len(conn.replay)
               PROVE  \/ log[n].kind = "aside"
                      \/ \E i \in DOMAIN new.buffer : new.buffer[i] = log[n]
    BY <1>3, <1>5 DEF Coming, new
  <2>1. CASE Pending(n)
    <3>1. log[n] = e
      BY <2>1 DEF Pending, e, L
    <3> QED
      BY <1>6, <3>1
  <2>2. CASE ~Pending(n)
    BY <1>4, <1>6, <2>2 DEF Coming, conn
  <2> QED
    BY <2>1, <2>2
<1>15. Kept(Current(c))'
  <2>1. \A i \in DOMAIN conn.buffer :
          /\ conn.buffer[i].seq \in DOMAIN log /\ conn.buffer[i].seq < L
          /\ log[conn.buffer[i].seq].kind # "aside"
    <3>1. \A i \in DOMAIN conn.buffer : Told(conn.buffer[i].seq)
      BY <1>4 DEF Kept
    <3>2. \A n : Told(n) => n \in DOMAIN log /\ n # L /\ log[n].kind # "aside"
      BY <1>3 DEF Told, Pending, L
    <3>3. \A n \in DOMAIN log : n # L => n < L
      BY <1>3
    <3> QED
      BY <3>1, <3>2, <3>3
  <2>2. \A i \in DOMAIN new.buffer :
          new.buffer[i].seq \in DOMAIN log /\ log[new.buffer[i].seq].kind # "aside"
    BY <1>3, <1>6, <1>7, <2>1 DEF e
  <2>3. Rising(new.buffer)
    <3> SUFFICES ASSUME NEW i \in DOMAIN new.buffer, NEW j \in DOMAIN new.buffer, i < j,
                        Ordinary(new.buffer[i]), Ordinary(new.buffer[j])
                 PROVE  new.buffer[i].seq < new.buffer[j].seq
      BY DEF Rising
    <3>1. i \in DOMAIN conn.buffer
      BY <1>6
    <3>2. CASE j \in DOMAIN conn.buffer
      BY <1>4, <1>6, <3>1, <3>2 DEF Kept, Rising
    <3>3. CASE j = Len(conn.buffer) + 1
      BY <1>3, <1>6, <2>1, <3>1, <3>3
    <3> QED
      BY <1>7, <3>2, <3>3
  <2> QED
    BY <1>3, <2>2, <2>3 DEF Kept, new
<1> QED
  BY <1>10, <1>11, <1>12, <1>13, <1>14, <1>15

\* A listener that replayed everything sends what is delivered.
LEMMA DeliverSent ==
  ASSUME IInv, Deliver, NEW c \in Clients, Has(c), Current(c).at = "live",
         Current(c).sent < Len(log)
  PROVE  /\ ReachInv(c)'
         /\ AtRest(Current(c), lastSeq[c])' /\ InOrder(Current(c), lastSeq[c])'
         /\ OfLog(Current(c), log)' /\ Coming(Current(c))' /\ Kept(Current(c))'
<1> DEFINE conn == Current(c)
           new == Current(c)'
           L == Len(log)
           e == log[L]
<1>1. TypeOK /\ Logged /\ PumpInv /\ ClientInv(c) /\ log # <<>>
  BY DEF IInv, PumpInv, Deliver
<1>2. Has(c)' /\ new = Hear(conn, e)
  BY <1>1, DeliverFacts
<1>3. /\ L \in Nat /\ L \in DOMAIN log /\ DOMAIN log = 1..L /\ written = L
      /\ e \in Event /\ e.seq = L /\ Ordinary(e) /\ e.kind # "aside"
      /\ log' = log /\ written' = written /\ cut' = cut
      /\ lastSeq' = lastSeq /\ got' = got
  BY DeliveredIs
<1>4. /\ conn \in Response /\ InOrder(conn, lastSeq[c]) /\ OfLog(conn, log)
      /\ AtRest(conn, lastSeq[c]) /\ Coming(conn) /\ Kept(conn) /\ conn.sent \in Nat
      /\ conn.chain \in Seq(Event) /\ lastSeq[c] \in Nat
  BY <1>1, ClientParts
<1>5. new = Send(conn, e)
  BY <1>2, <1>3, <1>4, HearIs
<1>6. InOrder(new, lastSeq[c])
  BY <1>3, <1>4, <1>5, SendKeepsOrder
<1>7. e.seq > conn.sent
  BY <1>3, <1>4
<1>8. /\ new.at = "live" /\ new.from = conn.from /\ new.wire = conn.wire
      /\ new.replay = conn.replay /\ new.buffer = conn.buffer
      /\ new.sent = e.seq /\ new.chain = Append(conn.chain, e)
  <2>1. conn \in Response /\ e \in Event /\ conn.at = "live"
    BY <1>3, <1>4
  <2> HIDE DEF conn, new, L, e
  <2> QED
    BY <1>5, <1>7, <2>1, Sends
<1>9. conn.replay = <<>> /\ conn.buffer = <<>>
  BY <1>4 DEF AtRest
<1>10. Reach(c)' = new.sent /\ Reach(c) = conn.sent
  BY <1>2, <1>8 DEF Reach, Alive
<1> HIDE DEF conn, new, L, e
<1>11. \A x : In(new.chain, x) <=> In(conn.chain, x) \/ x = e
  BY <1>3, <1>4, <1>8, InAppend
<1>12. \A x : Piped(c, x) \/ x = e => PipedNext(c, x)
  BY <1>2, <1>3, <1>8, <1>11 DEF Piped, PipedNext, Has, Current, conn, new
\* Between what was sent and what is delivered lie answers nobody heard.
<1>13. ASSUME NEW n \in DOMAIN log, ~(n <= conn.sent)
       PROVE  PipedNext(c, log[n]) \/ (log[n].kind = "aside" /\ n <= written)
  <2>1. n > conn.sent + Len(conn.replay) /\ n <= written
    BY <1>3, <1>4, <1>9, <1>13
  <2>2. log[n].kind = "aside" \/ Pending(n)
    BY <1>4, <1>9, <2>1 DEF Coming, conn
  <2>3. Pending(n) => log[n] = e
    BY DEF Pending, e, L
  <2> QED
    BY <1>12, <2>1, <2>2, <2>3
<1>14. ReachInv(c)'
  <2>1. \A n \in DOMAIN log : n <= Reach(c)' =>
          \/ n <= Reach(c) \/ PipedNext(c, log[n])
          \/ log[n].kind = "aside" /\ n <= written
    BY <1>10, <1>13
  <2>2. \A n \in Len(log) + 1..Reach(c)' : FALSE
    BY <1>3, <1>8, <1>10 DEF L
  <2>3. ReachInv(c)
    BY <1>1 DEF ClientInv
  <2> QED
    BY <1>1, <1>3, <1>12, <2>1, <2>2, <2>3, ReachKept
<1>15. AtRest(Current(c), lastSeq[c])'
  BY <1>8, <1>9 DEF AtRest, new
<1>16. InOrder(Current(c), lastSeq[c])'
  BY <1>3, <1>6 DEF new
<1>17. OfLog(Current(c), log)'
  <2>1. \A i \in DOMAIN new.chain : In(conn.chain, new.chain[i]) \/ new.chain[i] = e
    BY <1>11 DEF In
  <2>2. log[e.seq] = e /\ e.seq \in DOMAIN log
    BY <1>3 DEF e
  <2>3. Of(new.chain, log) /\ \A i \in DOMAIN new.chain : Ordinary(new.chain[i])
    BY <1>3, <1>4, <2>1, <2>2 DEF OfLog, Of, In
  <2>4. \A i \in DOMAIN new.replay : FALSE
    BY <1>8, <1>9
  <2>5. OfLog(new, log)
    BY <1>4, <1>8, <2>3, <2>4 DEF OfLog
  <2> QED
    BY <1>3, <2>5 DEF new
<1>18. Coming(Current(c))'
  <2>1. \A n \in DOMAIN log : ~(n > new.sent + Len(new.replay))
    BY <1>3, <1>8, <1>9
  <2> QED
    BY <1>3, <2>1 DEF Coming, new
<1>19. Kept(Current(c))'
  <2>1. Rising(new.buffer) /\ \A i \in DOMAIN new.buffer : FALSE
    BY <1>4, <1>8, <1>9 DEF Kept
  <2> QED
    BY <2>1 DEF Kept, new
<1> QED
  BY <1>14, <1>15, <1>16, <1>17, <1>18, <1>19

LEMMA DeliverClient ==
  ASSUME IInv, Deliver, NEW c \in Clients
  PROVE  ClientInv(c)'
<1> DEFINE conn == Current(c)
           L == Len(log)
           e == log[L]
<1>1. TypeOK /\ ClientInv(c) /\ log # <<>>
  BY DEF IInv, PumpInv, Deliver
<1>2. /\ Has(c)' <=> Has(c)
      /\ Has(c) => Current(c)' = Hear(conn, e)
  BY <1>1, DeliverFacts
<1>3. /\ L \in Nat /\ e \in Event /\ e.seq = L
      /\ log' = log /\ written' = written /\ cut' = cut
      /\ lastSeq' = lastSeq /\ got' = got
  BY DeliveredIs
<1>4. GotInv(c)' /\ (~Has(c)' => lastSeq'[c] = 0 /\ got'[c] = <<>>)
  BY <1>1, <1>2, <1>3 DEF ClientInv, GotInv
<1>5. CASE ~Has(c)
  <2>1. ~Has(c)' /\ Reach(c)' = Reach(c)
    BY <1>2, <1>3, <1>5 DEF Reach, Alive
  <2>2. \A x : Piped(c, x) => PipedNext(c, x)
    BY <1>3, <1>5 DEF Piped, PipedNext
  <2>3. ReachInv(c)'
    BY <1>1, <1>3, <2>1, <2>2, ReachKept DEF ClientInv
  <2> QED
    BY <1>4, <2>1, <2>3 DEF ClientInv
<1>6. CASE Has(c)
  <2> SUFFICES /\ ReachInv(c)'
               /\ AtRest(Current(c), lastSeq[c])' /\ InOrder(Current(c), lastSeq[c])'
               /\ OfLog(Current(c), log)' /\ Coming(Current(c))' /\ Kept(Current(c))'
    BY <1>2, <1>4, <1>6 DEF ClientInv
  <2>1. conn \in Response /\ conn.sent \in Nat
    BY <1>1, <1>6, ClientParts
  <2>2. CASE conn.at = "replaying"
    BY <1>6, <2>2, DeliverKept
  <2>3. CASE conn.at = "live" /\ conn.sent < L
    BY <1>6, <2>3, DeliverSent
  <2>4. CASE conn.at = "live" /\ ~(conn.sent < L)
    <3>1. L <= conn.sent
      BY <1>3, <2>1, <2>4
    <3>2. Hear(conn, e) = conn
      <4>1. e.seq <= conn.sent
        BY <1>3, <3>1
      <4> QED
        BY <1>3, <2>1, <2>4, <4>1, HearIs, Sends
    <3> QED
      BY <1>2, <1>6, <2>4, <3>1, <3>2, DeliverPasses
  <2>5. CASE conn.at \notin {"replaying", "live"}
    <3>1. Hear(conn, e) = conn
      BY <1>3, <2>1, <2>5, HearIs
    <3> QED
      BY <1>2, <1>6, <2>5, <3>1, DeliverPasses
  <2> QED
    BY <2>2, <2>3, <2>4, <2>5
<1> QED
  BY <1>5, <1>6

LEMMA DeliverCaller ==
  ASSUME IInv, Deliver, NEW c \in Callers
  PROVE  CallerInv(c)'
<1> DEFINE conn == Current(c)
           new == Current(c)'
           L == Len(log)
           e == log[L]
<1>1. c \in Clients /\ TypeOK /\ ClientInv(c) /\ log # <<>>
  <2>1. c \in Clients
    BY DEF Clients
  <2> QED
    BY <2>1 DEF IInv, PumpInv, Deliver
<1>2. /\ Has(c)' <=> Has(c)
      /\ Has(c) => new = Hear(conn, e)
  BY <1>1, DeliverFacts
<1>3. /\ L \in Nat /\ L \in DOMAIN log /\ DOMAIN log = 1..L
      /\ e \in Event /\ e.seq = L
      /\ log' = log /\ written' = written /\ cut' = cut
      /\ lastSeq' = lastSeq /\ got' = got
      /\ pump = "writing" /\ pump' \in {"idle", "between"}
      /\ pump' = "idle" => Ends(e)
  BY DeliveredIs
<1>4. ASSUME Has(c)
      PROVE  /\ conn \in Response /\ conn.sent \in Nat /\ conn.from \in Nat
             /\ AtRest(conn, lastSeq[c])
             /\ new.at = conn.at /\ new.from = conn.from /\ new.wire = conn.wire
             /\ new.replay = conn.replay
             /\ conn.at # "live" => new.sent = conn.sent /\ new.chain = conn.chain
             /\ conn.at = "live" => new = Send(conn, e)
  <2>1. /\ conn \in Response /\ conn.sent \in Nat /\ conn.from \in Nat
        /\ AtRest(conn, lastSeq[c])
    BY <1>1, <1>4, ClientParts
  <2>2. new = Hear(conn, e)
    BY <1>2, <1>4
  <2> HIDE DEF conn, new, e
  <2>3. e \in Event
    BY <1>3
  <2> QED
    BY <2>1, <2>2, <2>3, HearIs
<1> SUFFICES ASSUME Alive(c)' PROVE TurnOf(c)'
  BY DEF CallerInv
<1>5. Has(c) /\ Alive(c)
  BY <1>2, <1>4 DEF Alive
<1>6. TurnOf(c)
  BY <1>5 DEF IInv, CallerInv
\* Nothing is taken from what was sent.
<1>7. conn.at = "live" => /\ conn.sent <= new.sent
                          /\ \A x : In(conn.chain, x) => In(new.chain, x)
  <2> SUFFICES ASSUME conn.at = "live"
               PROVE  /\ conn.sent <= new.sent
                      /\ \A x : In(conn.chain, x) => In(new.chain, x)
    OBVIOUS
  <2>1. new = Send(conn, e) /\ conn \in Response /\ conn.sent \in Nat
        /\ conn.chain \in Seq(Event)
    BY <1>4, <1>5, Parts
  <2>2. e \in Event /\ e.seq \in Nat
    BY <1>3
  <2> HIDE DEF conn, new, e
  <2>3. CASE e.seq <= conn.sent
    BY <2>1, <2>2, <2>3, Sends
  <2>4. CASE e.seq > conn.sent
    <3>1. new.sent = e.seq /\ new.chain = Append(conn.chain, e)
      BY <2>1, <2>2, <2>4, Sends
    <3>2. conn.sent <= new.sent
      BY <2>1, <2>2, <2>4, <3>1
    <3>3. \A x : In(conn.chain, x) => In(new.chain, x)
      BY <2>1, <2>2, <3>1, InAppend
    <3> QED
      BY <3>2, <3>3
  <2> QED
    BY <2>1, <2>2, <2>3, <2>4
<1>8. \A x : Piped(c, x) => PipedNext(c, x)
  <2>1. \A x : In(conn.chain, x) => In(new.chain, x)
    BY <1>4, <1>5, <1>7
  <2>2. connections'[c] # <<>> /\ Last(connections'[c]) = new /\ new.wire = conn.wire
    BY <1>2, <1>4, <1>5 DEF Has, Current
  <2> HIDE DEF conn, new
  <2> QED
    BY <1>3, <2>1, <2>2 DEF Piped, PipedNext, conn
<1> HIDE DEF conn, new, L, e
<1>9. conn.from < L
  BY <1>3, <1>6 DEF TurnOf, conn, L
<1>10. pump' = "idle" => EndsAt(log, conn.from, L)
  BY <1>3, <1>9 DEF EndsAt, e
<1>11. conn.sent \in Nat /\ conn.from \in Nat
  BY <1>4, <1>5
<1>12. new.at = "live" => conn.from <= conn.sent /\ new.from <= new.sent
  <2> SUFFICES ASSUME new.at = "live"
               PROVE  conn.from <= conn.sent /\ new.from <= new.sent
    OBVIOUS
  <2>1. conn.at = "live" /\ new.from = conn.from
    BY <1>4, <1>5
  <2>2. conn.from <= conn.sent /\ conn.sent <= new.sent
    BY <1>6, <1>7, <2>1 DEF TurnOf, conn
  <2>3. new.sent \in Nat
    <3>1. new = Hear(conn, e) /\ e \in Event /\ conn \in Response
      BY <1>2, <1>3, <1>4, <1>5
    <3>2. Hear(conn, e) \in Response
      BY <3>1, HearIs
    <3> QED
      BY <3>1, <3>2, Parts
  <2> QED
    BY <1>11, <2>1, <2>2, <2>3
<1>13. \A n \in DOMAIN log : n <= conn.from /\ n <= new.sent /\ OnWire(log[n]) =>
         PipedNext(c, log[n])
  <2> SUFFICES ASSUME NEW n \in DOMAIN log, n <= conn.from, n <= new.sent,
                      OnWire(log[n])
               PROVE  PipedNext(c, log[n])
    OBVIOUS
  <2>1. n <= conn.sent
    <3>1. CASE conn.at = "live"
      <4>1. conn.from <= conn.sent
        BY <1>4, <1>5, <1>12, <3>1
      <4> QED
        BY <1>3, <1>11, <4>1
    <3>2. CASE conn.at # "live"
      BY <1>4, <1>5, <3>2
    <3> QED
      BY <3>1, <3>2
  <2> QED
    BY <1>6, <1>8, <2>1 DEF TurnOf, conn
<1>14. /\ new.from = conn.from
       /\ new.at = "replaying" => new.from <= new.sent + Len(new.replay)
       /\ new.at = "ended" =>
            \E t \in DOMAIN log : FirstEnd(log, conn.from, t) /\ t <= new.sent
  BY <1>4, <1>5, <1>6 DEF TurnOf, conn
<1>15. Of(got'[c], log) /\ log' = log /\ pump' # "writing"
  BY <1>3, <1>6 DEF TurnOf
<1> QED
  BY <1>1, <1>6, <1>10, <1>12, <1>13, <1>14, <1>15, TurnKept DEF conn, new, L

LEMMA DeliverKeeps ==
  ASSUME IInv, Deliver
  PROVE  IInv'
<1>1. TypeOK /\ Logged /\ log # <<>>
  BY DEF IInv, PumpInv, Deliver
<1> DEFINE L == Len(log)
           e == log[L]
<1>2. connections' \in [Clients -> Seq(Response)]
  BY <1>1, DeliverFacts
<1>3. /\ L \in Nat /\ DOMAIN log = 1..L /\ written = L
      /\ e \in Event /\ e.seq = L
      /\ log' = log /\ written' = written /\ cut' = cut /\ deaths' = deaths
      /\ lastSeq' = lastSeq /\ got' = got
      /\ pump' \in {"idle", "between"}
  BY DeliveredIs
<1>4. TypeOK'
  <2>1. unadmitted' \in 0..MaxLog
    <3>1. Last(log) = e
      BY DEF Last
    <3>2. e.seq \in 1..MaxLog /\ MaxLog \in Nat /\ unadmitted \in 0..MaxLog
      BY <1>1, <1>3, Seqs DEF TypeOK
    <3>3. unadmitted' \in {unadmitted, e.seq, 0}
      BY <3>1 DEF Deliver
    <3> HIDE DEF e
    <3> QED
      BY <3>2, <3>3
  <2>2. pump' \in Pump
    BY <1>3 DEF Pump
  <2> QED
    BY <1>1, <1>2, <1>3, <2>1, <2>2 DEF TypeOK
<1>5. Logged'
  BY <1>1, <1>3 DEF Logged
<1>6. PumpInv'
  <2>1. \A n \in DOMAIN log : n <= written
    BY <1>3
  <2> QED
    BY <1>3, <2>1 DEF PumpInv
<1> QED
  BY <1>4, <1>5, <1>6, DeliverClient, DeliverCaller DEF IInv

(***************************************************************************)
(* The theorems.                                                           *)
(***************************************************************************)

LEMMA InitInv == Init => IInv
<1> SUFFICES ASSUME Init PROVE IInv
  OBVIOUS
<1>1. /\ log = <<>> /\ written = 0 /\ pump = "idle" /\ deaths = 0 /\ cut = {}
      /\ unadmitted = 0
      /\ connections = [c \in Clients |-> <<>>]
      /\ lastSeq = [c \in Clients |-> 0] /\ got = [c \in Clients |-> <<>>]
  BY DEF Init
<1>2. /\ <<>> \in Seq(Event) /\ Len(<<>>) = 0 /\ DOMAIN <<>> = {}
      /\ <<>> \in Seq(Response)
  OBVIOUS
<1>3. TypeOK
  <2>1. 0 \in 0..MaxLog /\ 0 \in 0..MaxDeaths /\ 0 \in 0..0
    BY MaxLogIs, Bounds
  <2> QED
    BY <1>1, <1>2, <2>1 DEF TypeOK, Pump
<1>4. Logged /\ PumpInv
  BY <1>1, <1>2 DEF Logged, PumpInv
<1>5. ASSUME NEW c \in Clients PROVE ClientInv(c) /\ ~Alive(c)
  <2>1. ~Has(c) /\ lastSeq[c] = 0 /\ got[c] = <<>> /\ Reach(c) = 0
    BY <1>1 DEF Has, Reach, Alive
  <2>2. \A n \in Len(log) + 1..Reach(c) : FALSE
    BY <1>1, <1>2, <2>1
  <2>3. ReachInv(c) /\ GotInv(c)
    BY <1>1, <1>2, <2>1, <2>2 DEF ReachInv, GotInv, Rising
  <2> QED
    BY <2>1, <2>3 DEF ClientInv, Alive
<1>6. \A c \in Callers : CallerInv(c)
  <2>1. Callers \subseteq Clients
    BY DEF Clients
  <2> QED
    BY <1>5, <2>1 DEF CallerInv
<1> QED
  BY <1>3, <1>4, <1>5, <1>6 DEF IInv

LEMMA NextInv == IInv /\ [Next]_vars => IInv'
<1> SUFFICES ASSUME IInv, [Next]_vars PROVE IInv'
  OBVIOUS
<1>1. CASE RunStarts \/ Aside \/ Write \/ \E kind \in Kinds : Emit(kind)
  BY <1>1, ServerSteps
<1>2. CASE Deliver
  BY <1>2, DeliverKeeps
<1>3. CASE Die
  BY <1>3, DieKeeps
<1>4. ASSUME NEW c \in Clients, Subscribe(c) PROVE IInv'
  BY <1>4, SubscribeKeeps
<1>5. ASSUME NEW c \in Clients, Replay(c) PROVE IInv'
  BY <1>5, ReplayKeeps
<1>6. ASSUME NEW c \in Clients, ReplayEnds(c) PROVE IInv'
  BY <1>6, ReplayEndsKeeps
<1>7. ASSUME NEW c \in Clients, Frame(c) PROVE IInv'
  BY <1>7, FrameKeeps
<1>8. ASSUME NEW c \in Clients, EndResponse(c) PROVE IInv'
  BY <1>8, EndResponseKeeps
<1>9. ASSUME NEW c \in Clients, Read(c) PROVE IInv'
  BY <1>9, ReadKeeps
<1>10. ASSUME NEW c \in Clients, Drop(c) PROVE IInv'
  BY <1>10, DropKeeps
<1>11. ASSUME NEW c \in Followers, Follow(c) PROVE IInv'
  BY <1>11, FollowKeeps
<1>12. ASSUME NEW c \in Callers, Call(c) PROVE IInv'
  BY <1>12, CallKeeps
<1>13. CASE UNCHANGED vars
  <2>1. /\ log' = log /\ cut' = cut /\ written' = written /\ pump' = pump
        /\ deaths' = deaths /\ unadmitted' = unadmitted
        /\ connections' = connections /\ lastSeq' = lastSeq /\ got' = got
    BY <1>13 DEF vars, serverVars, clientVars
  <2>2. TypeOK /\ Logged /\ PumpInv
    BY DEF IInv
  <2>3. TypeOK'
    BY <2>1, <2>2 DEF TypeOK
  <2>4. Grown /\ Logged' /\ PumpInv'
    BY <2>1, <2>2, QuietGrown
  <2>5. \A d \in Clients : Same(d)
    BY <2>1 DEF Same
  <2>6. \A d \in Clients : ClientInv(d)'
    BY <2>2, <2>4, <2>5, GrownClient DEF IInv
  <2>7. \A d \in Callers : CallerInv(d)'
    <3>1. Callers \subseteq Clients
      BY DEF Clients
    <3> QED
      BY <2>2, <2>4, <2>5, <3>1, GrownCaller DEF IInv
  <2> QED
    BY <2>3, <2>4, <2>6, <2>7 DEF IInv
<1> QED
  BY <1>1, <1>2, <1>3, <1>4, <1>5, <1>6, <1>7, <1>8, <1>9, <1>10, <1>11, <1>12, <1>13
  DEF Next

\* In every behaviour of the stream the invariant holds.
THEOREM StreamInv == Spec => []IInv
  BY InitInv, NextInv, PTL DEF Spec

\* The session's log, its responses and its clients hold what they are declared
\* to hold.
THEOREM StreamTypes == Spec => []TypeOK
<1>1. IInv => TypeOK
  BY DEF IInv
<1> QED
  BY <1>1, StreamInv, PTL

\* Whatever drops, dies and is replayed, no client is given an event twice or
\* behind a later one: what the listener sends is newer than all it sent before
\* (tail.ts), and a client asks for what is newer than what it has (client.ts).
THEOREM EventsOnceInOrder == Spec => []SeenOnceInOrder
<1>1. IInv => SeenOnceInOrder
  BY DEF IInv, ClientInv, GotInv, Rising, SeenOnceInOrder
<1> QED
  BY <1>1, StreamInv, PTL

\* A client misses nothing that is older than the newest event it has, but the
\* answers that no listener is given and an event that took the seq of one that a
\* death cut from the log behind the client's back.
THEOREM NothingMissed == Spec => []MissesNothing
<1>1. ASSUME IInv, NEW c \in Clients, NEW e \in Missed(c)
      PROVE  e.kind = "aside" \/ \E old \in cut \cap ToSet(got[c]) : old.seq = e.seq
  <2>1. TypeOK /\ Logged /\ ClientInv(c)
    BY <1>1 DEF IInv
  <2>2. PICK n \in DOMAIN log : e = log[n]
    BY DEF Missed, ToSet
  <2>3. e.seq = n /\ n <= lastSeq[c] /\ OnWire(e) /\ ~In(got[c], e)
    BY <2>1, <2>2 DEF Missed, ToSet, In, Logged
  <2>4. n \in Nat /\ lastSeq[c] \in Nat /\ Reach(c) \in Nat /\ lastSeq[c] <= Reach(c)
    BY <2>1, LogIs, ReachIs, BehindIsWithClient
  <2>5. Reached(c, n)
    BY <2>1, <2>3, <2>4 DEF ClientInv, ReachInv
  <2>6. ~Piped(c, log[n])
    BY <2>1, <2>2, <2>3, BehindIsWithClient
  <2>7. CASE Replaced(c, n)
    BY <2>3, <2>7 DEF Replaced, In, ToSet
  <2> QED
    BY <2>2, <2>3, <2>5, <2>6, <2>7 DEF Reached
<1>2. IInv => MissesNothing
  BY <1>1 DEF MissesNothing
<1> QED
  BY <1>2, StreamInv, PTL

\* The response to one turn that was not dropped has carried everything up to
\* its run's terminal when it ends (http.ts): the listener was told of the
\* terminal only after all that is before it, and the response waits for the
\* frames.
THEOREM TurnsAreWhole == Spec => []RunStreamIsWhole
<1>1. ASSUME IInv, NEW c \in Callers, On(c, "ended"), Current(c).wire = <<>>,
             NEW t \in RunEnd(c), NEW n \in 1..t, OnWire(log[n])
      PROVE  log[n] \in ToSet(got[c])
  <2> DEFINE conn == Current(c)
  <2>1. c \in Clients /\ TypeOK /\ ClientInv(c) /\ Has(c) /\ conn.at = "ended"
    BY <1>1 DEF IInv, Clients, On, Has
  <2>2. Alive(c) /\ TurnOf(c)
    BY <1>1, <2>1 DEF IInv, CallerInv, Alive
  <2>3. /\ DOMAIN log = 1..Len(log) /\ Len(log) \in Nat
        /\ conn.sent \in Nat /\ conn.from \in Nat
        /\ AtRest(conn, lastSeq[c])
    BY <2>1, LogIs, ClientParts
  <2>4. conn.chain = <<>> /\ conn.wire = <<>>
    BY <1>1, <2>1, <2>3 DEF AtRest
  <2>5. FirstEnd(log, conn.from, t)
    BY <2>1, RunEndIs
  <2>6. t \in DOMAIN log /\ t <= conn.sent
    <3>1. PICK u \in DOMAIN log : FirstEnd(log, conn.from, u) /\ u <= conn.sent
      BY <2>1, <2>2 DEF TurnOf
    <3>2. t \in DOMAIN log /\ t <= u
      BY <2>5, <3>1 DEF FirstEnd, EndsAt
    <3> QED
      BY <2>3, <3>1, <3>2
  <2>7. n \in DOMAIN log /\ n <= t /\ n <= conn.sent /\ n \in Nat
    BY <2>3, <2>6
  <2>8. Reach(c) = conn.sent
    BY <2>2 DEF Reach
  <2>9. Reached(c, n)
    BY <2>1, <2>7, <2>8 DEF ClientInv, ReachInv
  <2>10. Piped(c, log[n]) => In(got[c], log[n])
    BY <2>4, InNothing DEF Piped
  <2>11. In(got[c], log[n])
    <3>1. CASE n <= conn.from
      BY <1>1, <2>2, <2>7, <2>10, <3>1 DEF TurnOf
    <3>2. CASE n > conn.from
      <4>1. CASE Replaced(c, n)
        <5>1. PICK old \in cut : In(got[c], old) /\ old.seq = n /\ Ordinary(old)
          BY <4>1 DEF Replaced
        <5>2. log[n] = old
          BY <2>2, <5>1 DEF TurnOf, Of, In
        <5> QED
          BY <5>1, <5>2
      <4>2. ASSUME log[n].kind = "aside" PROVE FALSE
        <5>1. PICK u \in DOMAIN log : EndsAt(log, conn.from, u) /\ u < n
          BY <2>2, <2>7, <3>2, <4>2 DEF TurnOf
        <5>2. t <= u
          BY <2>5, <5>1 DEF FirstEnd
        <5> QED
          BY <2>3, <2>6, <2>7, <5>1, <5>2
      <4> QED
        BY <1>1, <2>9, <2>10, <4>1, <4>2 DEF Reached
    <3> QED
      BY <2>3, <2>7, <3>1, <3>2
  <2> QED
    BY <2>11 DEF In, ToSet
<1>2. IInv => RunStreamIsWhole
  BY <1>1 DEF RunStreamIsWhole
<1> QED
  BY <1>2, StreamInv, PTL
=============================================================================
