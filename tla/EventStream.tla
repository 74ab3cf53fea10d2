---------------------------- MODULE EventStream ----------------------------
(***************************************************************************)
(* How the events of one hosted session reach a client: the session's log  *)
(* and the pump of packages/server/src/service.ts, the replay-then-live    *)
(* listener of tail.ts, the response of http.ts and the reader of          *)
(* packages/client/src/client.ts.                                          *)
(*                                                                         *)
(* An event is appended to the log in memory, written, and then delivered  *)
(* to the listeners; an answer to a question nobody waits for is appended  *)
(* and written but delivered to nobody.  A replay reads the log in memory, *)
(* one event at a time.  A process may die between any two steps, and a    *)
(* connection may drop with whatever it holds.                             *)
(***************************************************************************)
EXTENDS Integers, Sequences, FiniteSets, SequencesExt

CONSTANTS
  Followers,    \* the clients that follow the session (SessionClient.events)
  Callers,      \* the clients that ask for one turn (SessionClient.runStream)
  Kinds,        \* the kinds of event a run emits
  MaxLog,       \* bound on the log's length
  MaxClients,   \* bound on the clients that connect at all
  MaxConnections, \* bound on the connections of one client
  MaxDeaths,    \* bound on the deaths of the process
  MayAnswerAside  \* may a person answer while no run is there to hear it?

ASSUME StreamAssumption ==
  /\ {"text", "terminal"} \subseteq Kinds
  /\ Kinds \subseteq {"text", "hidden", "terminal", "unfinished"}
  /\ Followers \cap Callers = {} /\ MayAnswerAside \in BOOLEAN
  /\ MaxLog \in Nat /\ MaxClients \in Nat
  /\ MaxConnections \in Nat \ {0} /\ MaxDeaths \in Nat

VARIABLES
  log,          \* session.log: the events in memory; seq is the position
  written,      \* how many of them the store holds
  pump,         \* the run's iterator: between events, or with one of its own
  deaths,       \* processes that died
  cut,          \* events a death took out of the log
  unadmitted,   \* held.unadmitted: the terminal that names it, or 0
  connections,  \* for each client its connections, the last is the one it reads
  lastSeq,      \* the newest seq a client has
  got           \* what a client has been given, in order

serverVars == <<log, written, pump, deaths, cut, unadmitted>>
clientVars == <<lastSeq, got>>
vars == <<serverVars, connections, clientVars>>

Clients == Followers \cup Callers
Event == [seq : 1..MaxLog, kind : Kinds \cup {"aside", "unadmitted"},
          life : 0..MaxDeaths]
Pump == {"idle", "between", "writing"}
Ends(e) == e.kind \in {"terminal", "unfinished"}
\* toWireEvent: some events have no wire type.
OnWire(e) == e.kind # "hidden"

\* A connection: the log's length at the request, the newest seq sent, what is
\* still to be replayed, what came during the replay, the events whose frames
\* wait, and the frames on their way.
Response ==
  [at : {"asked", "replaying", "live", "ended", "left", "orphan"},
   from : 0..MaxLog, sent : 0..MaxLog,
   replay : Seq(Event), buffer : Seq(Event), chain : Seq(Event), wire : Seq(Event)]

TypeOK ==
  /\ log \in Seq(Event) /\ written \in 0..Len(log) /\ pump \in Pump
  /\ deaths \in 0..MaxDeaths /\ cut \subseteq Event
  /\ unadmitted \in 0..MaxLog
  /\ connections \in [Clients -> Seq(Response)]
  /\ lastSeq \in [Clients -> 0..MaxLog] /\ got \in [Clients -> Seq(Event)]

Init ==
  /\ log = <<>> /\ written = 0 /\ pump = "idle"
  /\ deaths = 0 /\ cut = {} /\ unadmitted = 0
  /\ connections = [c \in Clients |-> <<>>]
  /\ lastSeq = [c \in Clients |-> 0] /\ got = [c \in Clients |-> <<>>]

(***************************************************************************)
(* The session's events                                                    *)
(***************************************************************************)
Entry(kind) == [seq |-> Len(log) + 1, kind |-> kind, life |-> deaths]
live == pump # "idle"

RunStarts ==
  /\ ~live /\ Len(log) < MaxLog
  /\ pump' = "between"
  /\ UNCHANGED <<log, written, deaths, cut, unadmitted, connections, clientVars>>

Emit(kind) ==
  /\ pump = "between" /\ Len(log) < MaxLog /\ kind \in Kinds
  /\ Ends([kind |-> kind]) \/ Len(log) < MaxLog - 1
  /\ log' = Append(log, Entry(kind)) /\ pump' = "writing"
  /\ UNCHANGED <<written, deaths, cut, unadmitted, connections, clientVars>>

\* approve or resolveUncertain with no run to hear it.
Aside ==
  /\ MayAnswerAside /\ ~live /\ Len(log) < MaxLog - 1
  /\ log' = Append(log, Entry("aside"))
  /\ UNCHANGED <<written, pump, deaths, cut, unadmitted, connections,
                 clientVars>>

Write ==
  /\ written < Len(log) /\ written' = written + 1
  /\ UNCHANGED <<log, pump, deaths, cut, unadmitted, connections,
                 clientVars>>

(***************************************************************************)
(* The listeners                                                           *)
(***************************************************************************)
\* Mutant: an event is sent whatever was sent before.
Send_Always(conn, e) == [conn EXCEPT !.sent = e.seq, !.chain = Append(@, e)]

Send(conn, e) ==
  IF e.seq <= conn.sent THEN conn
  ELSE [conn EXCEPT !.sent = e.seq, !.chain = Append(@, e)]

\* Mutant: an event that comes during the replay is left to the replay.
Hear_Deaf(conn, e) == IF conn.at = "live" THEN Send(conn, e) ELSE conn

\* tail's listener: during the replay an event is kept, later it is sent.
Hear(conn, e) ==
  CASE conn.at = "replaying" -> [conn EXCEPT !.buffer = Append(@, e)]
    [] conn.at = "live" -> Send(conn, e)
    [] OTHER -> conn

\* The pump delivers an event it has been given: written, so the last one.
Deliver ==
  LET e == Last(log) IN
  /\ pump = "writing" /\ written = Len(log)
  /\ pump' = IF Ends(e) THEN "idle" ELSE "between"
  /\ unadmitted' = IF ~Ends(e) THEN unadmitted
                   ELSE IF e.kind = "unfinished" THEN e.seq ELSE 0
  /\ connections' = [c \in Clients |->
       [k \in DOMAIN connections[c] |-> Hear(connections[c][k], e)]]
  /\ UNCHANGED <<log, written, deaths, cut, clientVars>>

(***************************************************************************)
(* The response of one connection                                          *)
(***************************************************************************)
Current(c) == Last(connections[c])
On(c, at) == connections[c] # <<>> /\ Current(c).at = at
Becomes(c, conn) ==
  connections' = [connections EXCEPT ![c] = Append(Front(@), conn)]

\* subscribe: the session is held, and what the log holds after the client's
\* seq is replayed.
Subscribe(c) ==
  /\ On(c, "asked")
  /\ LET sent == Current(c).sent IN
     Becomes(c, [Current(c) EXCEPT
       !.at = "replaying", !.replay = SubSeq(log, sent + 1, Len(log))])
  /\ UNCHANGED <<serverVars, clientVars>>

Replay(c) ==
  /\ On(c, "replaying") /\ Current(c).replay # <<>>
  /\ LET conn == Current(c) IN
     Becomes(c, [Send(conn, Head(conn.replay)) EXCEPT !.replay = Tail(@)])
  /\ UNCHANGED <<serverVars, clientVars>>

\* What came during the replay is sent in the order it came.
Flushed(conn) ==
  LET sends[n \in 0..Len(conn.buffer)] ==
        IF n = 0 THEN conn ELSE Send(sends[n - 1], conn.buffer[n])
  IN sends[Len(conn.buffer)]

ReplayEnds(c) ==
  /\ On(c, "replaying") /\ Current(c).replay = <<>>
  /\ Becomes(c, [Flushed(Current(c)) EXCEPT !.at = "live", !.buffer = <<>>])
  /\ UNCHANGED <<serverVars, clientVars>>

\* The event's frame, and after the terminal that is still the service's newest
\* what its run did not admit.
FramesOf(e) ==
  (IF OnWire(e) THEN <<e>> ELSE <<>>)
    \o (IF Ends(e) /\ unadmitted = e.seq
        THEN <<[e EXCEPT !.kind = "unadmitted"]>> ELSE <<>>)

\* The frames are written in the order of the events.
Frame(c) ==
  /\ connections[c] # <<>> /\ Current(c).chain # <<>>
  /\ Becomes(c, [Current(c) EXCEPT
       !.chain = Tail(@), !.wire = @ \o FramesOf(Head(Current(c).chain))])
  /\ UNCHANGED <<serverVars, clientVars>>

\* The terminal of the run that the response carries (a follower's carries none).
RunEnd(c) ==
  LET ends == {t \in Current(c).from + 1..Len(log) : Ends(log[t])}
  IN {t \in ends : \A u \in ends : t <= u}

\* Mutant: the response ends with the run, whatever waits for its frame.
EndResponse_Early(c) ==
  /\ On(c, "live") /\ \E t \in RunEnd(c) : t < Len(log) \/ pump # "writing"
  /\ Becomes(c, [Current(c) EXCEPT !.at = "ended", !.chain = <<>>])
  /\ UNCHANGED <<serverVars, clientVars>>

\* A response that carries one run ends when the run has and every frame is out.
EndResponse(c) ==
  /\ On(c, "live") /\ Current(c).chain = <<>>
  /\ \E t \in RunEnd(c) : t < Len(log) \/ pump # "writing"
  /\ Becomes(c, [Current(c) EXCEPT !.at = "ended"])
  /\ UNCHANGED <<serverVars, clientVars>>

(***************************************************************************)
(* The client                                                              *)
(***************************************************************************)
Connection(after, from) ==
  [at |-> "asked", from |-> from, sent |-> after,
   replay |-> <<>>, buffer |-> <<>>, chain |-> <<>>, wire |-> <<>>]

Room(c) ==
  connections[c] # <<>>
    \/ Cardinality({d \in Clients : connections[d] # <<>>}) < MaxClients

\* Mutant: a follower that comes back asks for what is new now.
Follow_FromNow(c) ==
  /\ connections[c] = <<>> \/ On(c, "left") \/ On(c, "orphan")
  /\ Len(connections[c]) < MaxConnections /\ Room(c)
  /\ connections' = [connections EXCEPT ![c] = Append(@, Connection(Len(log), MaxLog))]
  /\ UNCHANGED <<serverVars, clientVars>>

\* events(): from the newest seq the client has, after whatever became of the
\* connection before.
Follow(c) ==
  /\ connections[c] = <<>> \/ On(c, "left") \/ On(c, "orphan")
  /\ Len(connections[c]) < MaxConnections /\ Room(c)
  /\ connections' =
       [connections EXCEPT ![c] = Append(@, Connection(lastSeq[c], MaxLog))]
  /\ UNCHANGED <<serverVars, clientVars>>

\* runStream(): the request starts the run, and is answered by its events.
Call(c) ==
  /\ connections[c] = <<>> /\ Room(c) /\ ~live /\ Len(log) < MaxLog
  /\ pump' = "between"
  /\ connections' = [connections EXCEPT ![c] = <<Connection(0, Len(log))>>]
  /\ UNCHANGED <<log, written, deaths, cut, unadmitted, clientVars>>

\* A frame is read; a follower skips an event it has already.
Read(c) ==
  /\ connections[c] # <<>> /\ Current(c).wire # <<>>
  /\ LET e == Head(Current(c).wire)
         skips == c \in Followers /\ e.kind # "unadmitted" /\ e.seq <= lastSeq[c]
     IN /\ got' = IF skips THEN got ELSE [got EXCEPT ![c] = Append(@, e)]
        /\ lastSeq' = IF skips \/ e.kind = "unadmitted" THEN lastSeq
                      ELSE [lastSeq EXCEPT ![c] = e.seq]
  /\ Becomes(c, [Current(c) EXCEPT !.wire = Tail(@)])
  /\ UNCHANGED serverVars

\* The connection is gone with what it carried.  The response listens for that
\* only once it has subscribed: a client that left before leaves an orphan, a
\* listener nobody takes off.
Gone(conn, at) ==
  [conn EXCEPT !.at = at, !.replay = <<>>, !.buffer = <<>>, !.chain = <<>>,
               !.wire = <<>>]

Drop(c) ==
  /\ connections[c] # <<>> /\ Current(c).at \notin {"left", "orphan"}
  /\ c \in Callers \/ Len(connections[c]) < MaxConnections
  /\ \/ Becomes(c, Gone(Current(c), "left"))
     \/ Current(c).at = "asked" /\ Becomes(c, Gone(Current(c), "orphan"))
  /\ UNCHANGED <<serverVars, clientVars>>

\* The process dies, and another one takes the session up from the store.
Die ==
  /\ deaths < MaxDeaths
  /\ \A c \in Followers : Len(connections[c]) < MaxConnections
  /\ deaths' = deaths + 1 /\ pump' = "idle" /\ unadmitted' = 0
  /\ log' = SubSeq(log, 1, written)
  /\ cut' = cut \cup {log[n] : n \in written + 1..Len(log)}
  /\ connections' = [c \in Clients |->
       [k \in DOMAIN connections[c] |-> Gone(connections[c][k], "left")]]
  /\ UNCHANGED <<written, clientVars>>

Next ==
  \/ RunStarts \/ Aside \/ Write \/ Deliver \/ Die
  \/ \E kind \in Kinds : Emit(kind)
  \/ \E c \in Clients :
       Subscribe(c) \/ Replay(c) \/ ReplayEnds(c) \/ Frame(c) \/ EndResponse(c)
         \/ Read(c) \/ Drop(c)
  \/ \E c \in Followers : Follow(c)
  \/ \E c \in Callers : Call(c)

\* The server's and the client's own steps are taken; a run need not go on.
Serves(c) == Subscribe(c) \/ Replay(c) \/ ReplayEnds(c) \/ Frame(c)
             \/ EndResponse(c) \/ Read(c)
Spec ==
  /\ Init /\ [][Next]_vars
  /\ WF_vars(Write) /\ WF_vars(Deliver)
  /\ \A c \in Clients : WF_vars(Serves(c))
  /\ \A c \in Followers : WF_vars(Follow(c))

(***************************************************************************)
(* Properties                                                              *)
(***************************************************************************)
\* The rest are told of what a terminal left behind, under the terminal's seq.
Ordinary(e) == e.kind # "unadmitted"

\* A client never gets an event twice or out of order, whatever dropped.
SeenOnceInOrder ==
  \A c \in Clients : \A i, j \in DOMAIN got[c] :
    i < j /\ Ordinary(got[c][i]) /\ Ordinary(got[c][j]) =>
      got[c][i].seq < got[c][j].seq

\* Of what is before the newest event a client has, it misses nothing but the
\* answers that no listener was given and an event that took the seq of one
\* the client saw before it was written.
Missed(c) == {e \in ToSet(log) : e.seq <= lastSeq[c] /\ OnWire(e)
                                 /\ e \notin ToSet(got[c])}
MissesNothing ==
  \A c \in Clients : \A e \in Missed(c) :
    e.kind = "aside" \/ \E old \in cut \cap ToSet(got[c]) : old.seq = e.seq

\* The same without the exceptions (tail.ts:7, "exactly once").
MissesNothingAtAll == \A c \in Clients : Missed(c) = {}

\* What a client has been given stays in the log (tail.ts:8, "already on disk").
SeenIsKept == \A c \in Clients : cut \cap ToSet(got[c]) = {}

\* A turn's response that was not dropped ends with everything up to the run's
\* terminal ("every frame of the run has been written").
RunStreamIsWhole ==
  \A c \in Callers :
    On(c, "ended") /\ Current(c).wire = <<>> =>
      \A t \in RunEnd(c) : \A n \in 1..t :
        OnWire(log[n]) => log[n] \in ToSet(got[c])

\* A terminal that left input unadmitted says so to whoever reads it
\* (http.ts:154, "always has a visible fate").
VisibleFate ==
  \A c \in Clients : \A i \in DOMAIN got[c] :
    got[c][i].kind = "unfinished" /\ i < Len(got[c]) =>
      got[c][i + 1].kind = "unadmitted"

\* A listener goes when its client does (http.ts:167, "until the client leaves").
ListenersLeave ==
  \A c \in Clients : \A k \in DOMAIN connections[c] :
    connections[c][k].at # "orphan"

\* A client that follows gets every event a run emits, if the network lets it at last.
Due(c, n) ==
  /\ connections[c] # <<>>
  /\ n <= Len(log) /\ OnWire(log[n]) /\ log[n].kind # "aside"
CatchesUp ==
  \A c \in Followers : \A n \in 1..MaxLog :
    Due(c, n) ~> n > Len(log) \/ lastSeq[c] >= n
=============================================================================
