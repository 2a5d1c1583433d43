--------------------------- MODULE SocketIOProofs ---------------------------
(***************************************************************************)
(* For every number of events and connections, and whatever the packets    *)
(* hold: there is one connection at most, a Socket that listens is         *)
(* connecting, connected or about to try again, and one that the server    *)
(* has disconnected makes no other connection; and what the page emits is  *)
(* given to the connections once and in order, what the server emits is    *)
(* heard once and in order, and each callback is called for its own event. *)
(*                                                                         *)
(* The file has three parts.  The first is about the phases of the client  *)
(* (Good).  The second computes what the parser makes of each packet the   *)
(* two sides write: its frames, and what the decoder reads in them.  The   *)
(* third keeps count of every event (Known) through each action.           *)
(***************************************************************************)
EXTENDS SocketIO, FiniteSetTheorems, SequenceTheorems, WellFoundedInduction, TLAPS

IoFields == {"readyState", "reconnecting", "skipReconnect", "attempts", "timers", "fn",
             "reconstructor", "misread", "subscribed", "connected", "ids", "acks", "acked",
             "sendBuffer", "receiveBuffer", "heard", "throwing", "threw", "aborted"}
EngineFields == {"state", "hears", "log", "at", "down", "srv"}

IsSequence(s) == \E n \in Nat : DOMAIN s = 1 .. n

(* A state of the client has its fields, and what it keeps in lists is one.*)
Shape(c) ==
  /\ DOMAIN c = {"io", "engines"} /\ DOMAIN c.io = IoFields
  /\ IsSequence(c.io.sendBuffer) /\ IsSequence(c.io.receiveBuffer)
  /\ IsSequence(c.engines)
  /\ \A e \in DOMAIN c.engines : DOMAIN c.engines[e] = EngineFields

(* What decides about connections is the same in c and in d.               *)
Quiet(c, d) ==
  /\ Shape(d)
  /\ d.io.readyState = c.io.readyState /\ d.io.timers = c.io.timers
  /\ d.io.reconnecting = c.io.reconnecting /\ d.io.skipReconnect = c.io.skipReconnect
  /\ d.io.attempts = c.io.attempts /\ d.io.fn = c.io.fn
  /\ d.io.subscribed = c.io.subscribed
  /\ DOMAIN d.engines = DOMAIN c.engines
  /\ \A e \in DOMAIN c.engines : /\ d.engines[e].state = c.engines[e].state
                                 /\ d.engines[e].hears = c.engines[e].hears

-----------------------------------------------------------------------------
(* Folds: the loops over lists of any length.                              *)

(* A set with 0 and the successor of each of its numbers below n.          *)
LEMMA Induction ==
  ASSUME NEW n \in Nat, NEW T, 0 \in T, \A k \in 0 .. n - 1 : k \in T => k + 1 \in T
  PROVE  0 .. n \subseteq T
<1> DEFINE bad == {k \in 0 .. n : k \notin T}
<1>1. SUFFICES ASSUME bad # {} PROVE FALSE
  OBVIOUS
<1>2. \E x \in bad : \A y \in bad : ~(<<y, x>> \in OpToRel(<, Nat))
  <2>1. bad \subseteq Nat
    OBVIOUS
  <2> HIDE DEF bad
  <2> QED
    BY <1>1, <2>1, NatLessThanWellFounded, WFMin
<1>3. \A x, y \in Nat : y < x => <<y, x>> \in OpToRel(<, Nat)
  BY DEF OpToRel
<1>4. PICK x \in bad : \A y \in bad : ~(y < x)
  <2>1. bad \subseteq Nat
    OBVIOUS
  <2> HIDE DEF bad
  <2> QED
    BY <1>2, <1>3, <2>1, Zenon
<1>5. x - 1 \in 0 .. n - 1 /\ x = (x - 1) + 1 /\ x - 1 < x /\ x \in Nat
  OBVIOUS
<1>6. x - 1 \notin bad
  BY <1>4, <1>5
<1> QED
  BY <1>5, <1>6

(* The greatest place of the first k + 1, where that is one of them.       *)
LEMMA MaxOfInterval ==
  ASSUME NEW k \in Nat, NEW S \in SUBSET (1 .. k + 1), k + 1 \in S
  PROVE  Max(S) = k + 1
<1>1. \A y \in S : k + 1 >= y
  OBVIOUS
<1>2. \A x \in S : (\A y \in S : x >= y) => x = k + 1
  OBVIOUS
<1> QED
  BY <1>1, <1>2 DEF Max

(* What the loop of a kind does with one thing it finds in a list.         *)
Handle(kind, c, x) ==
  CASE kind[1] = "event"  -> EmitEvent(c, x)
    [] kind[1] = "packet" -> Packet(c, x)
    [] kind[1] = "buffer" -> IF x.kind = "buffer" THEN Append(c, x) ELSE c
    [] kind[1] = "click"  -> IF IsClick(x) THEN Append(c, x.data) ELSE c
    [] kind[1] = "frame"  -> IF kind[2][x].binary THEN c ELSE Append(c, PacketAt(kind[2], x))

Emitted == <<"event">>
Written == <<"packet">>

(* it tells what the loop has made of c after the things of the list s at  *)
(* the places of a set of the first k.                                     *)
Iterates(it, kind, c, s, k) ==
  it = [S \in SUBSET (1 .. k) |->
          IF S = {} THEN c ELSE Handle(kind, it[S \ {Max(S)}], s[Max(S)])]

(* Such a function exists, however long the list.                          *)
LEMMA IteratesExist ==
  ASSUME NEW kind, NEW c, NEW s, NEW n \in Nat
  PROVE  \E it : Iterates(it, kind, c, s, n)
<1> DEFINE T == {k \in 0 .. n : \E it : Iterates(it, kind, c, s, k)}
<1>1. 0 \in T
  <2> DEFINE it == [S \in SUBSET (1 .. 0) |-> c]
  <2>1. \A S \in SUBSET (1 .. 0) : S = {}
    OBVIOUS
  <2>2. Iterates(it, kind, c, s, 0)
    BY <2>1 DEF Iterates
  <2> HIDE DEF it
  <2>3. \E f : Iterates(f, kind, c, s, 0)
    BY <2>2
  <2>4. 0 \in 0 .. n
    OBVIOUS
  <2> QED
    BY <2>3, <2>4
<1>2. ASSUME NEW k \in 0 .. n - 1, k \in T
      PROVE  k + 1 \in T
  <2>1. PICK f : Iterates(f, kind, c, s, k)
    BY <1>2
  <2>2. k \in Nat /\ k + 1 \in 0 .. n
    OBVIOUS
  <2> DEFINE it == [S \in SUBSET (1 .. k + 1) |->
                      IF k + 1 \in S THEN Handle(kind, f[S \ {k + 1}], s[k + 1]) ELSE f[S]]
  <2>3. \A S \in SUBSET (1 .. k) : it[S] = f[S]
    BY <2>2
  <2>4. ASSUME NEW S \in SUBSET (1 .. k + 1)
        PROVE  it[S] = IF S = {} THEN c ELSE Handle(kind, it[S \ {Max(S)}], s[Max(S)])
    <3>1. CASE k + 1 \in S
      <4>1. Max(S) = k + 1
        BY <2>2, <3>1, MaxOfInterval
      <4>2. S \ {k + 1} \in SUBSET (1 .. k)
        BY <2>2
      <4>3. it[S \ {k + 1}] = f[S \ {k + 1}]
        BY <2>3, <4>2
      <4>4. it[S] = Handle(kind, f[S \ {k + 1}], s[k + 1])
        BY <3>1
      <4> QED
        BY <3>1, <4>1, <4>3, <4>4
    <3>2. CASE k + 1 \notin S
      <4>1. S \in SUBSET (1 .. k) /\ S \ {Max(S)} \in SUBSET (1 .. k)
        <5>1. \A x \in S : x \in 1 .. k
          BY <2>2, <3>2
        <5> QED
          BY <5>1
      <4>2. f[S] = IF S = {} THEN c ELSE Handle(kind, f[S \ {Max(S)}], s[Max(S)])
        BY <2>1, <4>1 DEF Iterates
      <4> QED
        BY <2>3, <4>1, <4>2
    <3> QED
      BY <3>1, <3>2
  <2>5. Iterates(it, kind, c, s, k + 1)
    <3>1. it = [S \in SUBSET (1 .. k + 1) |-> it[S]]
      OBVIOUS
    <3> HIDE DEF it
    <3> QED
      BY <2>4, <3>1 DEF Iterates
  <2> HIDE DEF it
  <2>6. \E g : Iterates(g, kind, c, s, k + 1)
    BY <2>5
  <2> QED
    BY <2>2, <2>6
<1> HIDE DEF T
<1>3. 0 .. n \subseteq T
  BY <1>1, <1>2, Induction
<1> QED
  BY <1>3 DEF T

(* r[k] is what the loop has made of c after the first k things of s.      *)
Loop(r, kind, c, s, n) ==
  r[0] = c /\ \A k \in 1 .. n : r[k] = Handle(kind, r[k - 1], s[k])

(* The sets of the first places give such a chain.                         *)
LEMMA IteratesLoop ==
  ASSUME NEW kind, NEW c, NEW s, NEW n \in Nat, NEW it, Iterates(it, kind, c, s, n)
  PROVE  \E r : Loop(r, kind, c, s, n) /\ r[n] = it[1 .. n]
<1>1. \A S \in SUBSET (1 .. n) :
        it[S] = IF S = {} THEN c ELSE Handle(kind, it[S \ {Max(S)}], s[Max(S)])
  BY DEF Iterates
<1> DEFINE r == [k \in 0 .. n |-> it[1 .. k]]
<1>2. r[0] = c
  <2>1. 1 .. 0 = {} /\ {} \in SUBSET (1 .. n) /\ 0 \in 0 .. n
    OBVIOUS
  <2> QED
    BY <1>1, <2>1
<1>3. ASSUME NEW k \in 1 .. n
      PROVE  r[k] = Handle(kind, r[k - 1], s[k])
  <2>1. k \in Nat /\ 1 <= k /\ k <= n
    OBVIOUS
  <2>2. 1 .. k \in SUBSET (1 .. n)
    BY <2>1
  <2>3. (1 .. k) \ {k} = 1 .. k - 1
    BY <2>1
  <2>4. 1 .. k # {} /\ k \in 1 .. k
    BY <2>1
  <2>5. k - 1 \in Nat /\ k - 1 \in 0 .. n /\ k \in 0 .. n /\ (k - 1) + 1 = k
    BY <2>1
  <2>6. Max(1 .. k) = k
    BY <2>4, <2>5, MaxOfInterval
  <2>7. it[1 .. k] = Handle(kind, it[1 .. k - 1], s[k])
    BY <1>1, <2>2, <2>3, <2>4, <2>6
  <2> QED
    BY <2>5, <2>7
<1>4. r[n] = it[1 .. n]
  OBVIOUS
<1> HIDE DEF r
<1>5. Loop(r, kind, c, s, n)
  BY <1>2, <1>3 DEF Loop
<1> QED
  BY <1>4, <1>5

(* To write a packet, or to leave it, changes nothing about connections.   *)
LEMMA PacketQuiet ==
  ASSUME NEW c, Shape(c), NEW x
  PROVE  Quiet(c, Packet(c, x))
  BY DEF Packet, Shape, Quiet, IoFields, EngineFields, IsSequence

(* Nor does it that the listeners are called.                              *)
LEMMA EmitEventQuiet ==
  ASSUME NEW c, Shape(c), NEW x
  PROVE  Quiet(c, EmitEvent(c, x))
  BY DEF EmitEvent, Shape, Quiet, IoFields, IsSequence

(* What comes of a list is as quiet as what comes of each thing in it.     *)
LEMMA LoopQuiet ==
  ASSUME NEW kind, NEW c, Shape(c), NEW s, NEW n \in Nat, NEW r,
         Loop(r, kind, c, s, n),
         \A a, x : Shape(a) => Quiet(a, Handle(kind, a, x))
  PROVE  Quiet(c, r[n])
<1> DEFINE T == {k \in 0 .. n : Quiet(c, r[k])}
<1>1. 0 \in T
  BY DEF Loop, Quiet
<1>2. ASSUME NEW k \in 0 .. n - 1, k \in T
      PROVE  k + 1 \in T
  <2>1. k + 1 \in 1 .. n /\ k + 1 \in 0 .. n /\ (k + 1) - 1 = k
    OBVIOUS
  <2>2. r[k + 1] = Handle(kind, r[k], s[k + 1])
    BY <2>1 DEF Loop
  <2>3. Quiet(c, r[k])
    BY <1>2
  <2>4. Quiet(r[k], r[k + 1])
    BY <2>2, <2>3 DEF Quiet
  <2>5. Quiet(c, r[k + 1])
    BY <2>3, <2>4 DEF Quiet
  <2> QED
    BY <2>1, <2>5
<1>3. 0 .. n \subseteq T
  <2> HIDE DEF T
  <2> QED
    BY <1>1, <1>2, Induction
<1> QED
  BY <1>3

(* The fold over the received events is such a loop.                       *)
LEMMA EmitEventLoop ==
  ASSUME NEW c, NEW s, NEW n \in Nat, DOMAIN s = 1 .. n
  PROVE  \E r : Loop(r, Emitted, c, s, n) /\ FoldLeft(EmitEvent, c, s) = r[n]
<1>1. \E it : it = [S \in SUBSET (1 .. n) |->
                IF S = {} THEN c ELSE EmitEvent(it[S \ {Max(S)}], s[Max(S)])]
  <2>1. PICK it : Iterates(it, Emitted, c, s, n)
    BY IteratesExist
  <2>2. \A a, x : Handle(Emitted, a, x) = EmitEvent(a, x)
    BY DEF Handle, Emitted
  <2>3. it = [S \in SUBSET (1 .. n) |->
                IF S = {} THEN c ELSE EmitEvent(it[S \ {Max(S)}], s[Max(S)])]
    BY <2>1, <2>2 DEF Iterates
  <2> QED
    BY <2>3
<1>2. PICK it : /\ it = [S \in SUBSET (1 .. n) |->
                    IF S = {} THEN c ELSE EmitEvent(it[S \ {Max(S)}], s[Max(S)])]
                /\ FoldLeft(EmitEvent, c, s) = it[1 .. n]
  BY <1>1 DEF FoldLeft, MapThenFoldSet
<1>3. Iterates(it, Emitted, c, s, n)
  BY <1>2 DEF Iterates, Handle, Emitted
<1> QED
  BY <1>2, <1>3, IteratesLoop, SMTT(30)

(* And so is that over the packets that wait to be written.                *)
LEMMA PacketLoop ==
  ASSUME NEW c, NEW s, NEW n \in Nat, DOMAIN s = 1 .. n
  PROVE  \E r : Loop(r, Written, c, s, n) /\ FoldLeft(Packet, c, s) = r[n]
<1>1. \E it : it = [S \in SUBSET (1 .. n) |->
                IF S = {} THEN c ELSE Packet(it[S \ {Max(S)}], s[Max(S)])]
  <2>1. PICK it : Iterates(it, Written, c, s, n)
    BY IteratesExist
  <2>2. \A a, x : Handle(Written, a, x) = Packet(a, x)
    BY DEF Handle, Written
  <2>3. it = [S \in SUBSET (1 .. n) |->
                IF S = {} THEN c ELSE Packet(it[S \ {Max(S)}], s[Max(S)])]
    BY <2>1, <2>2 DEF Iterates
  <2> QED
    BY <2>3
<1>2. PICK it : /\ it = [S \in SUBSET (1 .. n) |->
                    IF S = {} THEN c ELSE Packet(it[S \ {Max(S)}], s[Max(S)])]
                /\ FoldLeft(Packet, c, s) = it[1 .. n]
  BY <1>1 DEF FoldLeft, MapThenFoldSet
<1>3. Iterates(it, Written, c, s, n)
  BY <1>2 DEF Iterates, Handle, Written
<1>4. PICK r : Loop(r, Written, c, s, n) /\ r[n] = it[1 .. n]
  BY <1>3, IteratesLoop, SMTT(30)
<1> QED
  BY <1>2, <1>4, Zenon

(* The two loops of Socket.emitBuffered.                                   *)
LEMMA FoldQuiet ==
  ASSUME NEW c, Shape(c), NEW s, IsSequence(s)
  PROVE  /\ Quiet(c, FoldLeft(EmitEvent, c, s))
         /\ Quiet(c, FoldLeft(Packet, c, s))
<1>1. PICK n \in Nat : DOMAIN s = 1 .. n
  BY DEF IsSequence
<1>2. \A a, x : Shape(a) => Quiet(a, Handle(Emitted, a, x)) /\ Quiet(a, Handle(Written, a, x))
  BY EmitEventQuiet, PacketQuiet DEF Handle, Emitted, Written
<1>3. Quiet(c, FoldLeft(EmitEvent, c, s))
  BY <1>1, <1>2, EmitEventLoop, LoopQuiet
<1>4. Quiet(c, FoldLeft(Packet, c, s))
  BY <1>1, <1>2, PacketLoop, LoopQuiet
<1> QED
  BY <1>3, <1>4

-----------------------------------------------------------------------------
(* What a packet does to the Socket says nothing about connections.        *)
LEMMA QuietTrans ==
  ASSUME NEW c, NEW d, NEW f, Quiet(c, d), Quiet(d, f)
  PROVE  Quiet(c, f)
  BY DEF Quiet

(* A list with one more thing is a list.                                   *)
LEMMA SequenceAppend ==
  ASSUME NEW s, IsSequence(s), NEW x
  PROVE  /\ IsSequence(Append(s, x))
         /\ DOMAIN s = 1 .. Len(s) /\ Len(s) \in Nat
         /\ DOMAIN Append(s, x) = 1 .. Len(s) + 1 /\ Len(Append(s, x)) = Len(s) + 1
         /\ \A i \in 1 .. Len(s) : Append(s, x)[i] = s[i]
         /\ Append(s, x)[Len(s) + 1] = x
  BY DEF IsSequence

(* Socket.emit writes or keeps a packet.                                   *)
LEMMA EmitQuiet ==
  ASSUME NEW c, Shape(c), NEW n
  PROVE  Quiet(c, Emit(c, n))
<1> DEFINE a == [c EXCEPT !.io.acks = @ \cup {[id |-> c.io.ids, n |-> n]}, !.io.ids = @ + 1]
<1>1. Quiet(c, a)
  BY DEF Shape, Quiet, IoFields
<1>2. Shape(a)
  BY <1>1 DEF Quiet
<1>3. Emit(c, n) = IF c.io.connected THEN Packet(a, Event(n, c.io.ids))
                   ELSE [a EXCEPT !.io.sendBuffer = Append(@, Event(n, c.io.ids))]
  BY DEF Emit
<1> HIDE DEF a
<1>4. Quiet(a, Packet(a, Event(n, c.io.ids)))
  BY <1>2, PacketQuiet
<1>5. Quiet(a, [a EXCEPT !.io.sendBuffer = Append(@, Event(n, c.io.ids))])
  <2>1. IsSequence(Append(a.io.sendBuffer, Event(n, c.io.ids)))
    BY <1>2, SequenceAppend DEF Shape
  <2> QED
    BY <1>2, <2>1 DEF Shape, Quiet, IoFields
<1> QED
  BY <1>1, <1>3, <1>4, <1>5, QuietTrans

(* Socket.emitBuffered, the two loops in turn; an exception ends it after  *)
(* the first.                                                              *)
LEMMA EmitBufferedQuiet ==
  ASSUME NEW c, Shape(c)
  PROVE  Quiet(c, EmitBuffered(c))
<1> DEFINE r == FoldLeft(EmitEvent, c, c.io.receiveBuffer)
<1>1. Quiet(c, r)
  BY FoldQuiet DEF Shape
<1>2. Shape(r)
  BY <1>1 DEF Quiet
<1>3. EmitBuffered(c) =
        IF r.io.threw THEN [r EXCEPT !.io.aborted = TRUE]
        ELSE [FoldLeft(Packet, [r EXCEPT !.io.receiveBuffer = <<>>], r.io.sendBuffer)
                EXCEPT !.io.sendBuffer = <<>>]
  BY DEF EmitBuffered
<1> HIDE DEF r
<1>4. CASE r.io.threw
  <2>1. Quiet(r, [r EXCEPT !.io.aborted = TRUE])
    BY <1>2 DEF Shape, Quiet, IoFields
  <2> QED
    BY <1>1, <1>3, <1>4, <2>1, QuietTrans
<1>5. CASE ~r.io.threw
  <2> DEFINE a == [r EXCEPT !.io.receiveBuffer = <<>>]
             b == FoldLeft(Packet, a, r.io.sendBuffer)
  <2>1. Quiet(r, a)
    <3>1. IsSequence(<<>>)
      BY DEF IsSequence
    <3> QED
      BY <1>2, <3>1 DEF Shape, Quiet, IoFields
  <2>2. Shape(a) /\ IsSequence(r.io.sendBuffer)
    BY <2>1, <1>2 DEF Quiet, Shape
  <2>3. EmitBuffered(c) = [b EXCEPT !.io.sendBuffer = <<>>]
    BY <1>3, <1>5
  <2> HIDE DEF a
  <2>4. Quiet(a, b)
    BY <2>2, FoldQuiet
  <2> HIDE DEF b
  <2>5. Quiet(b, [b EXCEPT !.io.sendBuffer = <<>>])
    <3>1. IsSequence(<<>>)
      BY DEF IsSequence
    <3> QED
      BY <2>4, <3>1 DEF Shape, Quiet, IoFields
  <2>6. Quiet(c, a) /\ Quiet(c, b)
    BY <1>1, <2>1, <2>4, QuietTrans
  <2> QED
    BY <2>3, <2>5, <2>6, QuietTrans
<1> QED
  BY <1>4, <1>5

(* Socket.onpacket makes, ends and times no connection, whatever the       *)
(* packet.                                                                 *)
LEMMA OnPacketQuiet ==
  ASSUME NEW c, Shape(c), NEW packet
  PROVE  Quiet(c, OnPacket(c, packet))
<1>1. Quiet(c, OnConnect(c))
  <2> DEFINE a == [c EXCEPT !.io.connected = TRUE]
  <2>1. Quiet(c, a)
    BY DEF Shape, Quiet, IoFields
  <2>2. Shape(a) /\ OnConnect(c) = EmitBuffered(Emit(a, 0))
    BY <2>1 DEF Quiet, OnConnect
  <2> HIDE DEF a
  <2>3. Quiet(a, Emit(a, 0))
    BY <2>2, EmitQuiet
  <2>4. Quiet(Emit(a, 0), EmitBuffered(Emit(a, 0)))
    BY <2>3, EmitBufferedQuiet DEF Quiet
  <2>5. Quiet(c, Emit(a, 0))
    BY <2>1, <2>3, QuietTrans
  <2> QED
    BY <2>2, <2>4, <2>5, QuietTrans
<1>2. Quiet(c, OnEvent(c, packet.data))
  BY EmitEventQuiet, SMTT(30) DEF OnEvent, Shape, Quiet, IoFields, IsSequence
<1>3. Quiet(c, OnAck(c, packet))
  BY DEF OnAck, Shape, Quiet, IoFields
<1>4. Quiet(c, c)
  BY DEF Quiet
<1> QED
  BY <1>1, <1>2, <1>3, <1>4 DEF OnPacket

-----------------------------------------------------------------------------
(* What decides about connections.                                         *)
Newest(c) == c.engines[Len(c.engines)]

(* The newest connection opens, with the timeout of Manager.open armed.    *)
Opening(c) ==
  /\ c.io.readyState = "opening" /\ c.io.timers = {"timeout"}
  /\ Newest(c).state = "opening" /\ Newest(c).hears = "open"
  /\ ~c.io.skipReconnect /\ c.io.subscribed
  /\ (c.io.reconnecting <=> c.io.fn) /\ (~c.io.fn => c.io.attempts = 0)

(* It is open, and no timer is armed.                                      *)
Running(c) ==
  /\ c.io.readyState = "open" /\ c.io.timers = {}
  /\ Newest(c).state = "open" /\ Newest(c).hears = "data"
  /\ ~c.io.skipReconnect /\ c.io.subscribed /\ ~c.io.reconnecting

(* It has ended, and the timer of Manager.reconnect is armed.              *)
Waiting(c) ==
  /\ c.io.readyState = "closed" /\ c.io.timers = {"reconnect"}
  /\ Newest(c).state = "closed"
  /\ ~c.io.skipReconnect /\ c.io.subscribed /\ c.io.reconnecting

(* The server has disconnected the Socket: no timer is armed, and the      *)
(* connection drains or has ended.                                         *)
Finished(c) ==
  /\ c.io.readyState = "closed" /\ c.io.timers = {}
  /\ Newest(c).state \in {"closing", "closed"}
  /\ c.io.skipReconnect /\ ~c.io.subscribed /\ ~c.io.reconnecting

Good(c) ==
  /\ Shape(c)
  /\ Len(c.engines) \in 1 .. MaxEngines /\ c.io.fn \in BOOLEAN
  /\ \A e \in 1 .. Len(c.engines) : e < Len(c.engines) => c.engines[e].state = "closed"
  /\ Opening(c) \/ Running(c) \/ Waiting(c) \/ Finished(c)

(* A socket that listens is never forgotten: it is connected, or it opens a*)
(* connection under a timeout, or it waits for its next attempt.           *)
NeverForgotten ==
  io.subscribed => Opening(c0) \/ Running(c0) \/ Waiting(c0)

(* An effect on both that keeps to this and, when the Socket does not      *)
(* listen, makes no connection.                                            *)
Keeps(c, d) == Good(d) /\ (~c.io.subscribed => Len(d.engines) = Len(c.engines))

(* The places of the connections are those up to their number.             *)
LEMMA Lengths ==
  ASSUME NEW c, Shape(c)
  PROVE  DOMAIN c.engines = 1 .. Len(c.engines) /\ Len(c.engines) \in Nat
  BY DEF Shape, IsSequence

(* Where nothing about connections changes, the client stays in its phase. *)
LEMMA QuietKeeps ==
  ASSUME NEW c, Good(c), NEW d, Quiet(c, d)
  PROVE  Keeps(c, d)
<1>1. Shape(c) /\ Shape(d) /\ DOMAIN d.engines = DOMAIN c.engines
  BY DEF Good, Quiet
<1>2. Len(d.engines) = Len(c.engines) /\ DOMAIN c.engines = 1 .. Len(c.engines)
      /\ Len(c.engines) \in 1 .. MaxEngines
  BY <1>1, Lengths DEF Good
<1>3. Len(c.engines) \in DOMAIN c.engines
  BY <1>2, SocketIOAssumption
<1> QED
  BY <1>1, <1>2, <1>3 DEF Keeps, Good, Quiet, Opening, Running, Waiting, Finished, Newest

(* The end of a connection changes that connection alone.                  *)
LEMMA EndedFacts ==
  ASSUME NEW c, Shape(c), NEW e \in DOMAIN c.engines
  PROVE  LET d == Ended(c, e) IN
         /\ Shape(d) /\ d.io = c.io /\ DOMAIN d.engines = DOMAIN c.engines
         /\ d.engines[e].state = "closed"
         /\ \A f \in DOMAIN c.engines : f # e => d.engines[f] = c.engines[f]
  BY DEF Ended, Shape, IsSequence, EngineFields

(* Manager.cleanup stops listening to all connections and ends the timers; *)
(* no connection ends by it.                                               *)
LEMMA CleanupFacts ==
  ASSUME NEW c, Shape(c)
  PROVE  LET d == Cleanup(c) IN
         /\ Shape(d) /\ DOMAIN d.engines = DOMAIN c.engines
         /\ d.io = [c.io EXCEPT !.timers = {}, !.reconstructor = <<>>]
         /\ \A e \in DOMAIN c.engines : d.engines[e].state = c.engines[e].state
  BY DEF Cleanup, Shape, IsSequence, EngineFields, IoFields

(* All connections have ended.                                             *)
AllEnded(c) ==
  /\ Shape(c) /\ Len(c.engines) \in 1 .. MaxEngines /\ c.io.fn \in BOOLEAN
  /\ \A e \in 1 .. Len(c.engines) : c.engines[e].state = "closed"

(* After the error of an open all connections have ended and the timer of  *)
(* the next attempt is armed, once.                                        *)
LEMMA OnErrorWaits ==
  ASSUME NEW c, AllEnded(c), ~c.io.skipReconnect, c.io.subscribed,
         c.io.reconnecting <=> c.io.fn, ~c.io.fn => c.io.attempts = 0
  PROVE  Good(OnError(c))
<1> DEFINE u == Cleanup(c)
           f == [u EXCEPT !.io.readyState = "closed"]
           g == [f EXCEPT !.io.reconnecting = FALSE]
<1>1. /\ Shape(u) /\ DOMAIN u.engines = DOMAIN c.engines
      /\ u.io = [c.io EXCEPT !.timers = {}, !.reconstructor = <<>>]
      /\ \A e \in DOMAIN c.engines : u.engines[e].state = c.engines[e].state
  BY CleanupFacts DEF AllEnded
<1>2. OnError(c) = IF c.io.fn THEN Reconnect(g) ELSE MaybeReconnectOnOpen(f)
  BY DEF OnError
<1> HIDE DEF u
<1>3. /\ Shape(f) /\ f.engines = u.engines /\ f.io.timers = {}
      /\ f.io.readyState = "closed" /\ f.io.reconnecting = c.io.reconnecting
      /\ ~f.io.skipReconnect /\ f.io.subscribed /\ f.io.fn = c.io.fn
      /\ f.io.attempts = c.io.attempts
  <2>1. f.engines = u.engines /\ f.io = [u.io EXCEPT !.readyState = "closed"]
        /\ DOMAIN f = {"io", "engines"} /\ DOMAIN f.io = DOMAIN u.io
    BY <1>1 DEF Shape, IoFields
  <2> HIDE DEF f
  <2>2. Shape(f)
    BY <1>1, <2>1 DEF Shape, IoFields
  <2>3. DOMAIN c.io = IoFields
    BY DEF AllEnded, Shape
  <2> QED
    BY <1>1, <2>1, <2>2, <2>3 DEF IoFields
<1> HIDE DEF f
<1>4. /\ Shape(g) /\ g.engines = u.engines /\ g.io.timers = {}
      /\ g.io.readyState = "closed" /\ ~g.io.reconnecting
      /\ ~g.io.skipReconnect /\ g.io.subscribed /\ g.io.fn = c.io.fn
  BY <1>3 DEF Shape, IoFields
<1> HIDE DEF g
<1>5. ASSUME NEW h, Shape(h), h.engines = u.engines, h.io.timers = {},
             h.io.readyState = "closed", ~h.io.reconnecting,
             ~h.io.skipReconnect, h.io.subscribed, h.io.fn = c.io.fn
      PROVE  Good(Reconnect(h))
  <2> DEFINE r == Reconnect(h)
  <2>1. /\ Shape(r) /\ r.engines = u.engines /\ r.io.timers = {"reconnect"}
        /\ r.io.readyState = "closed" /\ r.io.reconnecting
        /\ ~r.io.skipReconnect /\ r.io.subscribed /\ r.io.fn = c.io.fn
    BY <1>5 DEF Reconnect, BackoffDuration, Shape, IoFields
  <2> HIDE DEF r
  <2>2. /\ DOMAIN u.engines = 1 .. Len(u.engines) /\ Len(u.engines) \in Nat
        /\ DOMAIN c.engines = 1 .. Len(c.engines) /\ Len(c.engines) \in Nat
    BY <1>1, Lengths DEF AllEnded
  <2>3. Len(u.engines) = Len(c.engines) /\ Len(c.engines) \in 1 .. MaxEngines
    BY <2>2, <1>1 DEF AllEnded
  <2>4. \A e \in 1 .. Len(r.engines) : r.engines[e].state = "closed"
    BY <1>1, <2>1, <2>2, <2>3 DEF AllEnded
  <2>5. Len(r.engines) \in 1 .. Len(r.engines)
    BY <2>1, <2>2, <2>3
  <2>6. Waiting(r)
    BY <2>1, <2>4, <2>5 DEF Waiting, Newest
  <2> QED
    BY <2>1, <2>3, <2>4, <2>6 DEF Good, AllEnded, r
<1>6. CASE c.io.fn
  BY <1>2, <1>4, <1>5, <1>6
<1>7. CASE ~c.io.fn
  BY <1>2, <1>3, <1>5, <1>7 DEF MaybeReconnectOnOpen
<1> QED
  BY <1>6, <1>7 DEF AllEnded

(* After a close as well, unless the Socket was disconnected by the        *)
(* server.                                                                 *)
LEMMA OnCloseKeeps ==
  ASSUME NEW c, AllEnded(c), ~c.io.reconnecting,
         c.io.skipReconnect <=> ~c.io.subscribed
  PROVE  Good(OnClose(c)) /\ Len(OnClose(c).engines) = Len(c.engines)
<1> DEFINE u == Cleanup(c)
           f == [BackoffReset(u) EXCEPT !.io.readyState = "closed"]
           g == SocketOnClose(f)
           r == IF ~g.io.skipReconnect THEN Reconnect(g) ELSE g
<1>1. /\ Shape(u) /\ DOMAIN u.engines = DOMAIN c.engines
      /\ u.io = [c.io EXCEPT !.timers = {}, !.reconstructor = <<>>]
      /\ \A e \in DOMAIN c.engines : u.engines[e].state = c.engines[e].state
  BY CleanupFacts DEF AllEnded
<1>2. OnClose(c) = r
  BY DEF OnClose
<1> HIDE DEF u
<1>3. /\ Shape(f) /\ f.engines = u.engines
      /\ f.io = [u.io EXCEPT !.attempts = 0, !.readyState = "closed"]
  BY <1>1 DEF BackoffReset, Shape, IoFields
<1> HIDE DEF f
<1>4. DOMAIN c.io = IoFields
  BY DEF AllEnded, Shape
<1>5. /\ f.io.timers = {} /\ f.io.readyState = "closed"
      /\ f.io.reconnecting = c.io.reconnecting /\ f.io.fn = c.io.fn
      /\ f.io.skipReconnect = c.io.skipReconnect /\ f.io.subscribed = c.io.subscribed
  BY <1>1, <1>3, <1>4 DEF IoFields
<1>6. /\ Shape(g) /\ g.engines = u.engines /\ g.io.timers = {}
      /\ g.io.readyState = "closed"
      /\ g.io.reconnecting = c.io.reconnecting /\ g.io.fn = c.io.fn
      /\ g.io.skipReconnect = c.io.skipReconnect /\ g.io.subscribed = c.io.subscribed
  BY <1>3, <1>5 DEF SocketOnClose, Shape, IoFields
<1> HIDE DEF g
<1>7. /\ Shape(r) /\ r.engines = u.engines /\ r.io.readyState = "closed"
      /\ r.io.skipReconnect = c.io.skipReconnect /\ r.io.subscribed = c.io.subscribed
      /\ r.io.fn = c.io.fn
      /\ c.io.skipReconnect => r.io.timers = {} /\ ~r.io.reconnecting
      /\ ~c.io.skipReconnect => r.io.timers = {"reconnect"} /\ r.io.reconnecting
  <2>1. CASE c.io.skipReconnect
    BY <2>1, <1>6
  <2>2. CASE ~c.io.skipReconnect
    BY <2>2, <1>6 DEF Reconnect, BackoffDuration, Shape, IoFields
  <2> QED
    BY <2>1, <2>2
<1> HIDE DEF r
<1>8. Len(u.engines) = Len(c.engines) /\ Len(c.engines) \in 1 .. MaxEngines
      /\ DOMAIN c.engines = 1 .. Len(c.engines) /\ Len(c.engines) \in Nat
  BY <1>1, Lengths DEF AllEnded
<1>9. \A e \in 1 .. Len(r.engines) : r.engines[e].state = "closed"
  BY <1>1, <1>7, <1>8 DEF AllEnded
<1>10. Newest(r).state = "closed"
  BY <1>7, <1>8, <1>9 DEF Newest
<1>11. Waiting(r) \/ Finished(r)
  BY <1>7, <1>10 DEF Waiting, Finished
<1> QED
  BY <1>2, <1>7, <1>8, <1>9, <1>11 DEF Good, AllEnded

(* What the invariant says, read in the variables.                         *)
LEMMA GoodHere ==
  ASSUME Good(c0)
  PROVE  /\ Shape(c0) /\ c0.io = io /\ c0.engines = engines
         /\ DOMAIN engines = 1 .. Current /\ Current \in Nat /\ Current \in 1 .. MaxEngines
         /\ DOMAIN io = IoFields /\ io.fn \in BOOLEAN
         /\ \A e \in 1 .. Current : DOMAIN engines[e] = EngineFields
         /\ \A e \in 1 .. Current : e < Current => engines[e].state = "closed"
         /\ Newest(c0) = engines[Current]
<1>1. Shape(c0) /\ c0.io = io /\ c0.engines = engines
  BY DEF c0, Good
<1>2. DOMAIN engines = 1 .. Current /\ Current \in Nat
  BY <1>1, Lengths DEF Current
<1>3. DOMAIN io = IoFields /\ \A e \in 1 .. Current : DOMAIN engines[e] = EngineFields
  BY <1>1, <1>2 DEF Shape
<1>4. /\ Current \in 1 .. MaxEngines /\ io.fn \in BOOLEAN
      /\ \A e \in 1 .. Current : e < Current => engines[e].state = "closed"
  BY <1>1 DEF Good, Current
<1>5. Newest(c0) = engines[Current]
  BY <1>1 DEF Newest, Current
<1> QED
  BY <1>1, <1>2, <1>3, <1>4, <1>5

(* When the only connection that was not closed has ended, all have.       *)
LEMMA LastEnds ==
  ASSUME Good(c0), NEW e \in 1 .. Current, Alive(e)
  PROVE  /\ e = Current /\ AllEnded(Ended(c0, e)) /\ Ended(c0, e).io = io
         /\ Len(Ended(c0, e).engines) = Current
<1>1. e = Current
  BY GoodHere DEF Alive
<1> DEFINE d == Ended(c0, e)
<1>2. /\ Shape(d) /\ d.io = io /\ DOMAIN d.engines = DOMAIN engines
      /\ d.engines[e].state = "closed"
      /\ \A f \in DOMAIN engines : f # e => d.engines[f] = engines[f]
  BY GoodHere, EndedFacts
<1> HIDE DEF d
<1>3. DOMAIN d.engines = 1 .. Len(d.engines) /\ Len(d.engines) \in Nat
  BY <1>2, Lengths
<1>4. Len(d.engines) = Current
  BY <1>2, <1>3, GoodHere
<1>5. AllEnded(d)
  BY <1>1, <1>2, <1>4, GoodHere DEF AllEnded
<1> QED
  BY <1>1, <1>2, <1>4, <1>5 DEF d

-----------------------------------------------------------------------------
(* The actions.                                                            *)
LEMMA StepKeeps ==
  ASSUME NEW d, Step(d), Keeps(c0, d)
  PROVE  /\ Good([io |-> io', engines |-> engines'])
         /\ ~io.subscribed => Len(engines') = Len(engines)
<1>1. io' = d.io /\ engines' = d.engines
  BY DEF Step
<1>2. c0.engines = engines /\ c0.io = io
  BY DEF c0
<1>3. Good([io |-> d.io, engines |-> d.engines])
  BY DEF Keeps, Good, Shape, Opening, Running, Waiting, Finished, Newest
<1> QED
  BY <1>1, <1>2, <1>3 DEF Keeps

(* The page emits: nothing about connections changes.                      *)
LEMMA PageEmitsKeeps ==
  ASSUME Good(c0), PageEmits
  PROVE  \E d : Step(d) /\ Keeps(c0, d)
  BY EmitQuiet, QuietKeeps DEF PageEmits, Good

(* An engine opens: it is the one that Manager.open made, and the timeout  *)
(* is ended.                                                               *)
LEMMA EngineOpensKeeps ==
  ASSUME Good(c0), EngineOpens
  PROVE  \E d : Step(d) /\ Keeps(c0, d)
<1>1. c0.engines = engines /\ c0.io = io
  BY GoodHere
<1>2. PICK e \in 1 .. Current :
        /\ engines[e].state = "opening"
        /\ LET o == [c0 EXCEPT !.engines[e].state = "open"] IN
           Step(IF engines[e].hears = "open" THEN OnOpen(o, e) ELSE o)
  BY DEF EngineOpens
<1>3. /\ DOMAIN engines = 1 .. Current /\ Current \in Nat /\ Current \in 1 .. MaxEngines
      /\ DOMAIN io = IoFields /\ DOMAIN engines[e] = EngineFields
  BY GoodHere
<1>4. e = Current
  BY <1>2, GoodHere
<1>5. Opening(c0) /\ engines[e].hears = "open"
  BY <1>2, <1>4, GoodHere DEF Good, Opening, Running, Waiting, Finished
<1> DEFINE o == [c0 EXCEPT !.engines[e].state = "open"]
           u == Cleanup(o)
           v == [u EXCEPT !.io.readyState = "open"]
           p == Packet(v, Connect)
           d == [p EXCEPT !.engines[e].hears = "data"]
<1>6. /\ Shape(o) /\ o.io = io /\ DOMAIN o.engines = 1 .. Current
      /\ o.engines[e].state = "open"
      /\ \A f \in 1 .. Current : f # e => o.engines[f] = engines[f]
  BY <1>1, <1>2, <1>3, SMTT(30) DEF Good, Shape, EngineFields, IsSequence
<1>7. OnOpen(o, e) = IF io.fn THEN OnReconnect(d) ELSE d
  BY <1>6 DEF OnOpen
<1> HIDE DEF o
<1>8. /\ Shape(u) /\ DOMAIN u.engines = 1 .. Current
      /\ u.io = [io EXCEPT !.timers = {}, !.reconstructor = <<>>]
      /\ \A f \in 1 .. Current : u.engines[f].state = o.engines[f].state
  BY <1>6, CleanupFacts
<1> HIDE DEF u
<1>9. /\ Shape(v) /\ v.engines = u.engines
      /\ v.io = [io EXCEPT !.timers = {}, !.reconstructor = <<>>, !.readyState = "open"]
  BY <1>3, <1>8 DEF Shape, IoFields
<1> HIDE DEF v
<1>10. Quiet(v, p)
  BY <1>9, PacketQuiet
<1> HIDE DEF p
<1>11. /\ Shape(d) /\ d.io = p.io /\ DOMAIN d.engines = 1 .. Current
       /\ d.engines[e].hears = "data" /\ d.engines[e].state = "open"
       /\ \A f \in 1 .. Current : f # e => d.engines[f].state = engines[f].state
  <2>1. Shape(p) /\ DOMAIN p.engines = 1 .. Current
        /\ \A f \in 1 .. Current : p.engines[f].state = o.engines[f].state
    <3>1. /\ Shape(p) /\ DOMAIN p.engines = DOMAIN v.engines
          /\ \A f \in DOMAIN v.engines : p.engines[f].state = v.engines[f].state
      BY <1>10 DEF Quiet
    <3>2. DOMAIN v.engines = 1 .. Current /\ v.engines = u.engines
      BY <1>8, <1>9
    <3>3. \A f \in 1 .. Current : v.engines[f].state = o.engines[f].state
      BY <1>8, <3>2
    <3> QED
      BY <3>1, <3>2, <3>3
  <2>2. \A f \in 1 .. Current : f # e => o.engines[f].state = engines[f].state
    BY <1>6
  <2> HIDE DEF p
  <2>3. /\ Shape(d) /\ d.io = p.io /\ DOMAIN d.engines = 1 .. Current
        /\ d.engines[e].hears = "data"
        /\ \A f \in 1 .. Current : d.engines[f].state = p.engines[f].state
    BY <2>1 DEF Shape, EngineFields, IsSequence
  <2> QED
    BY <1>6, <2>1, <2>2, <2>3
<1>12. /\ d.io.readyState = "open" /\ d.io.timers = {} /\ d.io.fn = io.fn
       /\ d.io.skipReconnect = io.skipReconnect /\ d.io.subscribed = io.subscribed
       /\ d.io.reconnecting = io.reconnecting
  BY <1>3, <1>9, <1>10, <1>11 DEF Quiet, IoFields
<1> HIDE DEF d
<1> DEFINE r == IF io.fn THEN OnReconnect(d) ELSE d
<1>13. /\ Shape(r) /\ r.engines = d.engines
       /\ r.io.readyState = "open" /\ r.io.timers = {} /\ r.io.fn = io.fn
       /\ r.io.skipReconnect = io.skipReconnect /\ r.io.subscribed = io.subscribed
       /\ ~r.io.reconnecting
  <2>1. CASE io.fn
    BY <1>11, <1>12, <2>1 DEF OnReconnect, BackoffReset, Shape, IoFields
  <2>2. CASE ~io.fn
    BY <1>1, <1>5, <1>11, <1>12, <2>2 DEF Opening
  <2> QED
    BY <2>1, <2>2
<1> HIDE DEF r
<1>14. Len(r.engines) = Current /\ DOMAIN r.engines = 1 .. Current
  <2>1. DOMAIN r.engines = 1 .. Len(r.engines) /\ Len(r.engines) \in Nat
    BY <1>13, Lengths
  <2> QED
    BY <1>3, <1>11, <1>13, <2>1
<1>15. Running(r)
  BY <1>1, <1>4, <1>5, <1>11, <1>13, <1>14 DEF Running, Newest, Opening
<1>16. Good(r)
  <2>1. \A f \in 1 .. Len(r.engines) : f < Len(r.engines) => r.engines[f].state = "closed"
    BY <1>4, <1>11, <1>13, <1>14, GoodHere
  <2>2. r.io.fn \in BOOLEAN /\ Len(r.engines) \in 1 .. MaxEngines
    BY <1>3, <1>13, <1>14, GoodHere
  <2> QED
    BY <1>13, <1>15, <2>1, <2>2 DEF Good
<1> QED
  BY <1>1, <1>2, <1>5, <1>7, <1>14, <1>16 DEF Keeps, Current, o, r

(* An engine that was opening has ended, by itself or by the timeout.      *)
LEMMA OnErrorKeeps ==
  ASSUME Good(c0), NEW e \in 1 .. Current, engines[e].state = "opening",
         NEW f, f.engines = Ended(c0, e).engines, Shape(f),
         f.io = io \/ f.io = [io EXCEPT !.timers = io.timers \ {"timeout"}]
  PROVE  Keeps(c0, OnError(f)) /\ engines[e].hears = "open"
<1>1. e = Current
  BY LastEnds DEF Alive
<1>2. Opening(c0) /\ engines[e].hears = "open"
  BY <1>1, GoodHere DEF Good, Opening, Running, Waiting, Finished
<1>3. /\ f.io.fn = io.fn /\ f.io.attempts = io.attempts
      /\ f.io.skipReconnect = io.skipReconnect /\ f.io.subscribed = io.subscribed
      /\ f.io.reconnecting = io.reconnecting
  BY GoodHere DEF IoFields
<1>4. AllEnded(f)
  BY <1>3, LastEnds, GoodHere DEF Alive, AllEnded
<1>5. Good(OnError(f))
  BY <1>2, <1>3, <1>4, OnErrorWaits, GoodHere DEF Opening
<1> QED
  BY <1>2, <1>5, GoodHere DEF Keeps, Opening

(* An engine fails while it opens.                                         *)
LEMMA EngineFailsKeeps ==
  ASSUME Good(c0), EngineFails
  PROVE  \E d : Step(d) /\ Keeps(c0, d)
<1>1. PICK e \in 1 .. Current :
        /\ engines[e].state = "opening"
        /\ Step(IF engines[e].hears = "open" THEN OnError(Ended(c0, e)) ELSE Ended(c0, e))
  BY DEF EngineFails
<1>2. Shape(Ended(c0, e)) /\ Ended(c0, e).io = io
  BY <1>1, LastEnds DEF Alive, AllEnded
<1>3. Keeps(c0, OnError(Ended(c0, e))) /\ engines[e].hears = "open"
  BY <1>1, <1>2, OnErrorKeeps
<1> QED
  BY <1>1, <1>3

(* An engine that was open closes, or one that was draining.               *)
LEMMA EngineClosesKeeps ==
  ASSUME Good(c0), EngineCloses
  PROVE  \E d : Step(d) /\ Keeps(c0, d)
<1>1. PICK e \in 1 .. Current :
        /\ engines[e].state \in {"open", "closing"}
        /\ Step(IF engines[e].hears = "data" THEN OnClose(Ended(c0, e)) ELSE Ended(c0, e))
  BY DEF EngineCloses
<1> DEFINE f == Ended(c0, e)
<1>2. e = Current /\ AllEnded(f) /\ f.io = io /\ Len(f.engines) = Current
  BY <1>1, LastEnds DEF Alive
<1> HIDE DEF f
<1>3. (Running(c0) /\ engines[e].hears = "data") \/ Finished(c0)
  BY <1>1, <1>2, GoodHere DEF Good, Opening, Running, Waiting, Finished
<1>4. ~io.reconnecting /\ (io.skipReconnect <=> ~io.subscribed)
  BY <1>3, GoodHere DEF Running, Finished
<1>5. Keeps(c0, OnClose(f))
  BY <1>2, <1>4, OnCloseKeeps, GoodHere DEF Keeps
<1>6. CASE engines[e].hears = "data"
  BY <1>1, <1>5, <1>6 DEF f
<1>7. CASE Finished(c0) /\ engines[e].hears # "data"
  <2>1. DOMAIN f.engines = 1 .. Current /\ f.engines[Current].state = "closed"
    BY <1>2, Lengths, GoodHere DEF AllEnded
  <2>2. Finished(f)
    BY <1>2, <1>7, <2>1, GoodHere DEF Finished, Newest
  <2>3. Good(f)
    BY <1>2, <2>2 DEF Good, AllEnded
  <2> QED
    BY <1>1, <1>2, <1>7, <2>3, GoodHere DEF Keeps, f
<1> QED
  BY <1>3, <1>6, <1>7

(* The timeout finds its engine still opening: it is ended with the        *)
(* opening.                                                                *)
LEMMA ConnectTimeoutKeeps ==
  ASSUME Good(c0), ConnectTimeout
  PROVE  \E d : Step(d) /\ Keeps(c0, d)
<1> DEFINE e == Current
           g == Ended(c0, e)
           f == [g EXCEPT !.io.timers = @ \ {"timeout"}]
<1>1. /\ "timeout" \in io.timers
      /\ Step(CASE engines[e].hears = "open" -> OnError(f)
              [] engines[e].hears = "data" -> OnClose(f)
              [] OTHER -> f)
  BY DEF ConnectTimeout
<1>2. e \in 1 .. Current
  BY GoodHere
<1>3. engines[e].state = "opening" /\ engines[e].hears = "open"
  BY <1>1, GoodHere DEF Good, Opening, Running, Waiting, Finished
<1>4. AllEnded(g) /\ g.io = io
  BY <1>2, <1>3, LastEnds DEF Alive
<1> HIDE DEF g
<1>5. f.engines = g.engines /\ f.io = [io EXCEPT !.timers = io.timers \ {"timeout"}] /\ Shape(f)
  BY <1>4 DEF AllEnded, Shape, IoFields
<1> HIDE DEF f
<1>6. Keeps(c0, OnError(f))
  BY <1>2, <1>3, <1>5, OnErrorKeeps DEF g
<1> QED
  BY <1>1, <1>3, <1>6

(* The timer of an attempt finds all connections ended, and makes one.     *)
LEMMA ReconnectTimerKeeps ==
  ASSUME Good(c0), ReconnectTimer
  PROVE  \E d : Step(d) /\ Keeps(c0, d)
<1> DEFINE f == [c0 EXCEPT !.io.timers = @ \ {"reconnect"}]
           d == Open(f, TRUE)
<1>1. /\ "reconnect" \in io.timers /\ Current < MaxEngines
      /\ Step(IF io.skipReconnect THEN f ELSE d)
  BY DEF ReconnectTimer
<1>2. Waiting(c0)
  BY <1>1, GoodHere DEF Good, Opening, Running, Finished
<1>3. /\ Shape(f) /\ f.engines = engines /\ f.io = [io EXCEPT !.timers = {}]
  BY <1>2, GoodHere DEF Waiting, Shape, IoFields
<1> HIDE DEF f
<1>4. f.io.readyState = "closed" /\ f.io.timers = {} /\ f.io.reconnecting /\ f.io.subscribed
  BY <1>2, <1>3, GoodHere DEF Waiting, IoFields
<1>5. d = [f EXCEPT !.engines = Append(@, NewEngine),
                    !.io.readyState = "opening", !.io.skipReconnect = FALSE,
                    !.io.fn = TRUE, !.io.timers = @ \cup {"timeout"}]
  BY <1>4 DEF Open
<1>6. /\ IsSequence(Append(engines, NewEngine))
      /\ DOMAIN Append(engines, NewEngine) = 1 .. Current + 1
      /\ Len(Append(engines, NewEngine)) = Current + 1
      /\ \A e \in 1 .. Current : Append(engines, NewEngine)[e] = engines[e]
      /\ Append(engines, NewEngine)[Current + 1] = NewEngine
  BY GoodHere, SequenceAppend DEF Shape, Current
<1>7. DOMAIN NewEngine = EngineFields /\ NewEngine.state = "opening" /\ NewEngine.hears = "open"
  BY DEF NewEngine, EngineFields
<1>8. /\ d.engines = Append(engines, NewEngine) /\ DOMAIN d = {"io", "engines"}
      /\ DOMAIN d.io = IoFields /\ d.io.sendBuffer = f.io.sendBuffer
      /\ d.io.receiveBuffer = f.io.receiveBuffer
      /\ d.io.readyState = "opening" /\ ~d.io.skipReconnect
      /\ d.io.fn = TRUE /\ d.io.timers = {"timeout"}
      /\ d.io.reconnecting = f.io.reconnecting /\ d.io.subscribed = f.io.subscribed
  <2>1. /\ d.engines = Append(engines, NewEngine) /\ DOMAIN d = {"io", "engines"}
        /\ d.io = [f.io EXCEPT !.readyState = "opening", !.skipReconnect = FALSE,
                               !.fn = TRUE, !.timers = {"timeout"}]
    <3>1. DOMAIN f = {"io", "engines"} /\ DOMAIN f.io = IoFields
      BY <1>3 DEF Shape
    <3>2. DOMAIN d = {"io", "engines"} /\ d.engines = Append(engines, NewEngine)
      BY <1>3, <1>5, <3>1
    <3>3. f.io.timers \cup {"timeout"} = {"timeout"}
      BY <1>4
    <3>4. d.io = [f.io EXCEPT !.readyState = "opening", !.skipReconnect = FALSE,
                              !.fn = TRUE, !.timers = f.io.timers \cup {"timeout"}]
      BY <1>5, <3>1 DEF IoFields
    <3> QED
      BY <3>2, <3>3, <3>4
  <2> HIDE DEF d
  <2>2. DOMAIN f.io = IoFields
    BY <1>3 DEF Shape
  <2> QED
    BY <2>1, <2>2 DEF IoFields
<1> HIDE DEF d
<1>9. \A e \in DOMAIN d.engines : DOMAIN d.engines[e] = EngineFields
  <2>1. \A e \in 1 .. Current + 1 : e \in 1 .. Current \/ e = Current + 1
    BY GoodHere
  <2> QED
    BY <1>6, <1>7, <1>8, <2>1, GoodHere
<1>10. Shape(d)
  BY <1>3, <1>6, <1>8, <1>9 DEF Shape
<1>11. \A e \in 1 .. Len(d.engines) : e < Len(d.engines) => d.engines[e].state = "closed"
  <2>1. \A e \in 1 .. Current : engines[e].state = "closed"
    BY <1>2, GoodHere DEF Waiting
  <2>2. \A e \in 1 .. Current + 1 : e < Current + 1 => e \in 1 .. Current
    BY GoodHere
  <2> QED
    BY <1>6, <1>8, <2>1, <2>2
<1>12. Len(d.engines) \in 1 .. MaxEngines
  BY <1>1, <1>6, <1>8, GoodHere, SocketIOAssumption
<1>13. Newest(d) = NewEngine
  BY <1>6, <1>8 DEF Newest
<1>14. Opening(d)
  BY <1>4, <1>7, <1>8, <1>13 DEF Opening
<1>15. Good(d)
  BY <1>8, <1>10, <1>11, <1>12, <1>14 DEF Good
<1>16. ~io.skipReconnect /\ io.subscribed
  BY <1>2, GoodHere DEF Waiting
<1> QED
  BY <1>1, <1>15, <1>16, GoodHere DEF Keeps, d

(* ondisconnect: the Socket gives up, and the engine is closed at once or  *)
(* drains.                                                                 *)
LEMMA OnDisconnectKeeps ==
  ASSUME NEW c, Good(c), Running(c), NEW state \in {"closing", "closed"}
  PROVE  Good(OnDisconnect(c, state))
<1> DEFINE b == [[c EXCEPT !.io.connected = FALSE] EXCEPT !.io.subscribed = FALSE]
           m == [BackoffReset(b) EXCEPT !.io.skipReconnect = TRUE, !.io.reconnecting = FALSE,
                                        !.io.readyState = "closed"]
           e == Len(c.engines)
<1>1. /\ Shape(c) /\ DOMAIN c.engines = 1 .. e /\ e \in Nat /\ e \in 1 .. MaxEngines
      /\ DOMAIN c.io = IoFields
  BY Lengths DEF Good, Shape
<1>2. Shape(b) /\ b.engines = c.engines
      /\ b.io = [c.io EXCEPT !.connected = FALSE, !.subscribed = FALSE]
  BY <1>1 DEF Shape, IoFields
<1>3. OnDisconnect(c, state) = Close(b, state)
  BY DEF OnDisconnect, Destroy
<1> HIDE DEF b
<1>4. Shape(m) /\ m.engines = c.engines
      /\ m.io = [b.io EXCEPT !.attempts = 0, !.skipReconnect = TRUE, !.reconnecting = FALSE,
                             !.readyState = "closed"]
  BY <1>2 DEF BackoffReset, Shape, IoFields
<1>10. Close(b, state) = IF state = "closed" THEN OnClose(Ended(m, Len(b.engines)))
                         ELSE [m EXCEPT !.engines[Len(b.engines)].state = state]
  BY DEF Close
<1> HIDE DEF m
<1>5. /\ m.io.skipReconnect /\ ~m.io.subscribed /\ ~m.io.reconnecting
      /\ m.io.readyState = "closed" /\ m.io.timers = {} /\ m.io.fn \in BOOLEAN
  BY <1>1, <1>2, <1>4 DEF IoFields, Good, Running
<1>6. \A f \in 1 .. e : f < e => m.engines[f].state = "closed"
  BY <1>4 DEF Good
<1>7. CASE state = "closed"
  <2> DEFINE d == Ended(m, e)
  <2>1. /\ Shape(d) /\ d.io = m.io /\ DOMAIN d.engines = DOMAIN m.engines
        /\ d.engines[e].state = "closed"
        /\ \A f \in DOMAIN m.engines : f # e => d.engines[f] = m.engines[f]
    BY <1>1, <1>4, EndedFacts
  <2> HIDE DEF d
  <2>2. Len(d.engines) = e
    <3>1. DOMAIN d.engines = 1 .. Len(d.engines) /\ Len(d.engines) \in Nat
      BY <2>1, Lengths
    <3> QED
      BY <3>1, <2>1, <1>1, <1>4
  <2>3. AllEnded(d)
    BY <2>1, <2>2, <1>1, <1>4, <1>5, <1>6 DEF AllEnded
  <2>4. Good(OnClose(d))
    BY <2>1, <2>3, <1>5, OnCloseKeeps
  <2> QED
    BY <2>4, <1>2, <1>3, <1>10, <1>7 DEF d
<1>8. CASE state = "closing"
  <2> DEFINE d == [m EXCEPT !.engines[e].state = "closing"]
  <2>1. /\ Shape(d) /\ d.io = m.io /\ DOMAIN d.engines = 1 .. e
        /\ d.engines[e].state = "closing"
        /\ \A f \in 1 .. e : f # e => d.engines[f] = m.engines[f]
    <3>1. /\ DOMAIN m = {"io", "engines"} /\ DOMAIN m.engines = 1 .. e /\ e \in Nat
          /\ e \in 1 .. e /\ \A f \in 1 .. e : DOMAIN m.engines[f] = EngineFields
      BY <1>1, <1>4 DEF Shape
    <3>2. /\ DOMAIN d = {"io", "engines"} /\ d.io = m.io
          /\ d.engines = [m.engines EXCEPT ![e].state = "closing"]
      BY <3>1
    <3> HIDE DEF d
    <3>3. /\ DOMAIN d.engines = 1 .. e /\ d.engines[e].state = "closing"
          /\ \A f \in 1 .. e : f # e => d.engines[f] = m.engines[f]
          /\ \A f \in 1 .. e : DOMAIN d.engines[f] = EngineFields
      BY <3>1, <3>2 DEF EngineFields
    <3>4. Shape(d)
      BY <1>4, <3>1, <3>2, <3>3 DEF Shape, IsSequence
    <3> QED
      BY <3>2, <3>3, <3>4
  <2> HIDE DEF d
  <2>2. Len(d.engines) = e
    <3>1. DOMAIN d.engines = 1 .. Len(d.engines) /\ Len(d.engines) \in Nat
      BY <2>1, Lengths
    <3> QED
      BY <3>1, <2>1, <1>1
  <2>3. Finished(d)
    BY <2>1, <2>2, <1>5 DEF Finished, Newest
  <2>4. Good(d)
    BY <2>1, <2>2, <2>3, <1>1, <1>5, <1>6 DEF Good
  <2> QED
    BY <2>4, <1>2, <1>3, <1>10, <1>8 DEF d
<1> QED
  BY <1>7, <1>8

(* What arrives changes nothing about connections, except that the server  *)
(* disconnects the Socket.                                                 *)
LEMMA EngineDataKeeps ==
  ASSUME Good(c0), EngineData
  PROVE  \E d : Step(d) /\ Keeps(c0, d)
<1>1. PICK e \in 1 .. Current :
        /\ Alive(e)
        /\ \E r \in {DecoderAdd(io.reconstructor, Head(engines[e].down))},
             n \in {[c0 EXCEPT !.engines[e].down = Tail(@)]} :
           \E d \in {[n EXCEPT !.io.threw = FALSE, !.io.reconstructor = r.reconstructor,
                               !.io.misread = @ \/ r.threw]} :
             CASE engines[e].hears # "data" -> Step(n)
               [] engines[e].hears = "data" /\ r.packets = <<>> -> Step(d)
               [] engines[e].hears = "data" /\ r.packets # <<>> ->
                     IF r.packets[1].type = "disconnect" /\ io.subscribed
                     THEN \E state \in {"closing", "closed"} : Step(OnDisconnect(d, state))
                     ELSE Step(OnPacket(d, r.packets[1]))
  BY ZenonT(60) DEF EngineData
<1>2. PICK r \in {DecoderAdd(io.reconstructor, Head(engines[e].down))},
           n \in {[c0 EXCEPT !.engines[e].down = Tail(@)]} :
           \E d \in {[n EXCEPT !.io.threw = FALSE, !.io.reconstructor = r.reconstructor,
                               !.io.misread = @ \/ r.threw]} :
             CASE engines[e].hears # "data" -> Step(n)
               [] engines[e].hears = "data" /\ r.packets = <<>> -> Step(d)
               [] engines[e].hears = "data" /\ r.packets # <<>> ->
                     IF r.packets[1].type = "disconnect" /\ io.subscribed
                     THEN \E state \in {"closing", "closed"} : Step(OnDisconnect(d, state))
                     ELSE Step(OnPacket(d, r.packets[1]))
  BY <1>1
<1>3. PICK d \in {[n EXCEPT !.io.threw = FALSE, !.io.reconstructor = r.reconstructor,
                            !.io.misread = @ \/ r.threw]} :
         CASE engines[e].hears # "data" -> Step(n)
           [] engines[e].hears = "data" /\ r.packets = <<>> -> Step(d)
           [] engines[e].hears = "data" /\ r.packets # <<>> ->
                 IF r.packets[1].type = "disconnect" /\ io.subscribed
                 THEN \E state \in {"closing", "closed"} : Step(OnDisconnect(d, state))
                 ELSE Step(OnPacket(d, r.packets[1]))
  BY <1>2
<1>4. \/ Step(n) \/ Step(d)
      \/ /\ engines[e].hears = "data" /\ io.subscribed
         /\ \E state \in {"closing", "closed"} : Step(OnDisconnect(d, state))
      \/ Step(OnPacket(d, r.packets[1]))
  <2>1. CASE engines[e].hears # "data"
    BY <1>3, <2>1
  <2>2. CASE engines[e].hears = "data" /\ r.packets = <<>>
    BY <1>3, <2>2
  <2>3. CASE engines[e].hears = "data" /\ r.packets # <<>>
    BY <1>3, <2>3
  <2> QED
    BY <2>1, <2>2, <2>3
<1>5. Quiet(c0, n)
  <2>1. n = [c0 EXCEPT !.engines[e].down = Tail(@)]
    BY <1>2
  <2> QED
    BY <2>1, GoodHere, SMTT(30) DEF Quiet, Shape, IsSequence, EngineFields, IoFields
<1>6. Quiet(c0, d)
  <2>1. Quiet(n, d)
    <3>1. Shape(n)
      BY <1>5 DEF Quiet
    <3>2. d = [n EXCEPT !.io.threw = FALSE, !.io.reconstructor = r.reconstructor,
                        !.io.misread = @ \/ r.threw]
      BY <1>3, Zenon
    <3> QED
      BY <3>1, <3>2 DEF Quiet, Shape, IoFields
  <2> QED
    BY <1>5, <2>1, QuietTrans, ZenonT(60)
<1>7. Quiet(c0, OnPacket(d, r.packets[1]))
  <2>1. Shape(d)
    BY <1>6, ZenonT(60) DEF Quiet
  <2>2. Quiet(d, OnPacket(d, r.packets[1]))
    BY <2>1, OnPacketQuiet
  <2> QED
    BY <1>6, <2>2, QuietTrans, Zenon
<1>8. ASSUME engines[e].hears = "data", io.subscribed, NEW state \in {"closing", "closed"}
      PROVE  Keeps(c0, OnDisconnect(d, state))
  <2>1. e = Current
    BY <1>1, LastEnds, ZenonT(60)
  <2>2. Running(c0)
    BY <1>1, <1>8, <2>1, GoodHere DEF Good, Opening, Waiting, Finished, Alive
  <2>3. Good(d)
    BY <1>6, QuietKeeps, Zenon DEF Keeps
  <2>4. Running(d)
    <3>1. d.io.readyState = "open"
      BY <1>6, <2>2, ZenonT(60) DEF Quiet, Running
    <3> QED
      BY <2>3, <3>1, Zenon DEF Good, Opening, Waiting, Finished
  <2>5. Good(OnDisconnect(d, state))
    BY <2>3, <2>4, OnDisconnectKeeps
  <2> QED
    BY <1>8, <2>5, GoodHere, Zenon DEF Keeps
<1> QED
  BY <1>4, <1>5, <1>6, <1>7, <1>8, QuietKeeps, Zenon

(* What the server does with a connection, the client does not see until   *)
(* it is given it.                                                         *)
LEMMA ServerKeeps ==
  ASSUME Good(c0), UNCHANGED io, DOMAIN engines' = DOMAIN engines,
         \A e \in DOMAIN engines : /\ DOMAIN engines'[e] = EngineFields
                                   /\ engines'[e].state = engines[e].state
                                   /\ engines'[e].hears = engines[e].hears
  PROVE  Keeps(c0, [io |-> io', engines |-> engines'])
<1> DEFINE d == [io |-> io', engines |-> engines']
<1>1. DOMAIN d = {"io", "engines"} /\ d.io = io /\ d.engines = engines'
  OBVIOUS
<1> HIDE DEF d
<1>2. Shape(d)
  BY <1>1, GoodHere DEF Shape, IsSequence
<1>3. Quiet(c0, d)
  BY <1>1, <1>2, GoodHere DEF Quiet
<1>4. Keeps(c0, d)
  BY <1>3, QuietKeeps, SMTT(30)
<1> QED
  BY <1>4 DEF d

(* The server reads a frame.                                               *)
LEMMA ServerReadsKeeps ==
  ASSUME Good(c0), ServerReads
  PROVE  Keeps(c0, [io |-> io', engines |-> engines'])
<1>1. /\ DOMAIN engines = 1 .. Current
      /\ \A e \in 1 .. Current : DOMAIN engines[e] = EngineFields
  BY GoodHere
<1>2. PICK e \in 1 .. Current :
        LET at == engines[e].at + 1
            start == {k \in 1 .. at : EndsAt(engines[e].log, k, at)}
        IN  \/ engines' = [engines EXCEPT ![e].at = at]
            \/ \E packet \in {PacketAt(engines[e].log, k) : k \in start} :
                  engines' = IF packet.type = "connect"
                             THEN [engines EXCEPT ![e].at = at, ![e].srv = "joined"]
                             ELSE [engines EXCEPT ![e].at = at,
                                     ![e].down = @ \o Encode(Ack(Number(packet.data), packet.id[1]))]
  BY DEF ServerReads
<1>3. io' = io
  BY DEF ServerReads
<1>4. CASE engines' = [engines EXCEPT ![e].at = engines[e].at + 1]
  BY <1>1, <1>3, <1>4, ServerKeeps DEF EngineFields
<1>5. ASSUME engines' = [engines EXCEPT ![e].at = engines[e].at + 1, ![e].srv = "joined"]
      PROVE  Keeps(c0, [io |-> io', engines |-> engines'])
  BY <1>1, <1>3, <1>5, ServerKeeps DEF EngineFields
<1>6. ASSUME NEW packet,
             engines' = [engines EXCEPT ![e].at = engines[e].at + 1,
                           ![e].down = @ \o Encode(Ack(Number(packet.data), packet.id[1]))]
      PROVE  Keeps(c0, [io |-> io', engines |-> engines'])
  BY <1>1, <1>3, <1>6, ServerKeeps DEF EngineFields
<1> QED
  BY <1>2, <1>4, <1>5, <1>6

(* The server connects or disconnects the Socket.                          *)
LEMMA ServerConnectsKeeps ==
  ASSUME Good(c0), ServerConnects \/ ServerDisconnects
  PROVE  Keeps(c0, [io |-> io', engines |-> engines'])
<1>1. /\ DOMAIN engines = 1 .. Current
      /\ \A e \in 1 .. Current : DOMAIN engines[e] = EngineFields
  BY GoodHere
<1>2. CASE ServerConnects
  <2>1. PICK e \in 1 .. Current :
          engines' = [engines EXCEPT ![e].srv = "connected",
                                     ![e].down = @ \o Encode(Connected)]
    BY <1>2 DEF ServerConnects
  <2>2. io' = io
    BY <1>2 DEF ServerConnects
  <2> QED
    BY <1>1, <2>1, <2>2, ServerKeeps DEF EngineFields
<1>3. CASE ServerDisconnects
  <2>1. PICK e \in 1 .. Current :
          engines' = [engines EXCEPT ![e].srv = "none", ![e].down = @ \o Encode(Disconnect)]
    BY <1>3 DEF ServerDisconnects
  <2>2. io' = io
    BY <1>3 DEF ServerDisconnects
  <2> QED
    BY <1>1, <2>1, <2>2, ServerKeeps DEF EngineFields
<1> QED
  BY <1>2, <1>3

(* The server emits to all.                                                *)
LEMMA ServerBroadcastsKeeps ==
  ASSUME Good(c0), ServerBroadcasts
  PROVE  Keeps(c0, [io |-> io', engines |-> engines'])
<1>1. \A e \in DOMAIN engines : DOMAIN engines[e] = EngineFields
  BY GoodHere
<1>2. /\ engines' = [e \in DOMAIN engines |->
                       IF engines[e].srv = "none" THEN engines[e]
                       ELSE [engines[e] EXCEPT !.down = @ \o Encode(Broadcast(downs'))]]
      /\ io' = io
  BY DEF ServerBroadcasts
<1> QED
  BY <1>1, <1>2, ServerKeeps DEF EngineFields

-----------------------------------------------------------------------------
(* The page's Manager and Socket, as they are made.                        *)
LEMMA InitFacts ==
  ASSUME Init
  PROVE  /\ Shape(c0) /\ c0.io = io /\ c0.engines = engines
         /\ Len(engines) = 1 /\ DOMAIN engines = 1 .. 1 /\ engines[1] = NewEngine
         /\ Len(c0.engines) = 1 /\ Newest(c0) = NewEngine
         /\ io.readyState = "opening" /\ io.timers = {"timeout"} /\ ~io.skipReconnect
         /\ io.subscribed /\ ~io.reconnecting /\ ~io.fn /\ io.attempts = 0
         /\ io.fn \in BOOLEAN /\ io.reconnecting \in BOOLEAN /\ io.connected \in BOOLEAN
         /\ ~io.connected /\ ~io.misread /\ io.misread = FALSE
         /\ io.ids = 0 /\ io.acks = {} /\ io.acked = <<>> /\ io.heard = <<>>
         /\ io.sendBuffer = <<>> /\ io.receiveBuffer = <<>> /\ io.reconstructor = <<>>
         /\ emitted = 0 /\ downs = 0
<1>1. PICK throwing \in SUBSET (1 .. MaxDown) :
        LET m == Open([io |-> Both(NewManager, NewSocket(throwing)), engines |-> <<>>], FALSE)
        IN  /\ io = SocketConnect(m).io /\ engines = SocketConnect(m).engines
            /\ emitted = 0 /\ downs = 0
  BY DEF Init
<1> DEFINE b == Both(NewManager, NewSocket(throwing))
           m == Open([io |-> b, engines |-> <<>>], FALSE)
<1>2. /\ DOMAIN b = IoFields
      /\ b.readyState = "closed" /\ ~b.reconnecting /\ ~b.skipReconnect
      /\ b.attempts = 0 /\ b.timers = {} /\ ~b.connected
      /\ b.sendBuffer = <<>> /\ b.receiveBuffer = <<>>
      /\ b.connected = FALSE /\ b.reconnecting = FALSE /\ b.misread = FALSE
      /\ b.ids = 0 /\ b.acks = {} /\ b.acked = <<>> /\ b.heard = <<>> /\ b.reconstructor = <<>>
  BY DEF Both, NewManager, NewSocket, IoFields
<1> HIDE DEF b
<1>3. /\ Append(<<>>, NewEngine) = <<NewEngine>> /\ Len(<<NewEngine>>) = 1
      /\ DOMAIN <<NewEngine>> = 1 .. 1 /\ <<NewEngine>>[1] = NewEngine
  OBVIOUS
<1>4. /\ DOMAIN m = {"io", "engines"} /\ m.engines = <<NewEngine>>
      /\ m.io = [b EXCEPT !.readyState = "opening", !.skipReconnect = FALSE,
                          !.fn = FALSE, !.timers = {"timeout"}]
  BY <1>2, <1>3 DEF Open, IoFields
<1> HIDE DEF m
<1> DEFINE s == [m EXCEPT !.io.subscribed = TRUE]
<1>5. /\ m.io.readyState = "opening" /\ ~m.io.reconnecting /\ ~m.io.connected
      /\ DOMAIN m.io = IoFields
  BY <1>2, <1>4 DEF IoFields
<1>6. SocketConnect(m) = s
  <2>1. s.io.readyState = "opening"
    BY <1>4, <1>5 DEF IoFields
  <2> QED
    <3>1. Open(s, FALSE) = s
      BY <2>1 DEF Open
    <3> QED
      BY <1>5, <2>1, <3>1 DEF SocketConnect
<1>7. /\ s.engines = <<NewEngine>> /\ DOMAIN s = {"io", "engines"}
      /\ s.io = [m.io EXCEPT !.subscribed = TRUE]
  BY <1>4
<1> HIDE DEF s
<1>8. io = s.io /\ engines = s.engines
  BY <1>1, <1>6 DEF b, m
<1>9. /\ DOMAIN io = IoFields
      /\ io.readyState = "opening" /\ io.timers = {"timeout"} /\ ~io.skipReconnect
      /\ io.subscribed /\ ~io.reconnecting /\ ~io.fn /\ io.fn \in BOOLEAN /\ io.attempts = 0
      /\ io.sendBuffer = <<>> /\ io.receiveBuffer = <<>>
      /\ io.connected = FALSE /\ io.reconnecting = FALSE /\ io.misread = FALSE
      /\ io.ids = 0 /\ io.acks = {} /\ io.acked = <<>> /\ io.heard = <<>>
      /\ io.reconstructor = <<>>
  BY <1>2, <1>4, <1>7, <1>8 DEF IoFields
<1>10. c0.io = io /\ c0.engines = <<NewEngine>> /\ DOMAIN c0 = {"io", "engines"}
  BY <1>7, <1>8 DEF c0
<1>11. DOMAIN NewEngine = EngineFields /\ NewEngine.state = "opening" /\ NewEngine.hears = "open"
  BY DEF NewEngine, EngineFields
<1>12. Shape(c0)
  <2>1. IsSequence(<<>>) /\ IsSequence(<<NewEngine>>)
    <3>1. DOMAIN <<>> = 1 .. 0 /\ 0 \in Nat /\ 1 \in Nat
      OBVIOUS
    <3> QED
      BY <1>3, <3>1 DEF IsSequence
  <2>2. \A e \in DOMAIN <<NewEngine>> : DOMAIN <<NewEngine>>[e] = EngineFields
    BY <1>3, <1>11
  <2> QED
    BY <1>9, <1>10, <2>1, <2>2 DEF Shape
<1>13. /\ c0.engines = engines /\ Len(engines) = 1 /\ DOMAIN engines = 1 .. 1
       /\ engines[1] = NewEngine
  BY <1>3, <1>7, <1>8, <1>10
<1>14. Newest(c0) = NewEngine
  BY <1>13 DEF Newest
<1> QED
  BY <1>1, <1>9, <1>10, <1>12, <1>13, <1>14

(* It opens its first connection.                                          *)
LEMMA InitGood ==
  ASSUME Init
  PROVE  Good(c0)
<1>1. NewEngine.state = "opening" /\ NewEngine.hears = "open"
  BY DEF NewEngine
<1>2. Opening(c0)
  BY <1>1, InitFacts DEF Opening
<1>3. 1 \in 1 .. MaxEngines /\ \A e \in 1 .. 1 : ~(e < 1)
  BY SocketIOAssumption
<1> QED
  BY <1>2, <1>3, InitFacts DEF Good

(* Each step keeps to it, and makes no connection for a Socket that does   *)
(* not listen.                                                             *)
LEMMA NextKeeps ==
  ASSUME Good(c0), [Next]_vars
  PROVE  /\ Good([io |-> io', engines |-> engines'])
         /\ ~io.subscribed => Len(engines') = Len(engines)
<1> DEFINE After == [io |-> io', engines |-> engines']
<1>1. CASE \E d : Step(d) /\ Keeps(c0, d)
  BY <1>1, StepKeeps
<1>2. ASSUME Keeps(c0, After)
      PROVE  Good(After) /\ (~io.subscribed => Len(engines') = Len(engines))
  <2>1. c0.io = io /\ c0.engines = engines /\ After.engines = engines'
    BY DEF c0
  <2> HIDE DEF After
  <2> QED
    BY <1>2, <2>1 DEF Keeps
<1>3. CASE UNCHANGED vars
  BY <1>3, GoodHere DEF vars, c0
<1>4. CASE PageEmits
  BY <1>1, <1>4, PageEmitsKeeps
<1>5. CASE EngineOpens
  BY <1>1, <1>5, EngineOpensKeeps
<1>6. CASE EngineFails
  BY <1>1, <1>6, EngineFailsKeeps
<1>7. CASE EngineCloses
  BY <1>1, <1>7, EngineClosesKeeps
<1>8. CASE EngineData
  BY <1>1, <1>8, EngineDataKeeps
<1>9. CASE ConnectTimeout
  BY <1>1, <1>9, ConnectTimeoutKeeps
<1>10. CASE ReconnectTimer
  BY <1>1, <1>10, ReconnectTimerKeeps
<1>11. CASE ServerReads
  BY <1>2, <1>11, ServerReadsKeeps
<1>12. CASE ServerConnects \/ ServerDisconnects
  BY <1>2, <1>12, ServerConnectsKeeps
<1>13. CASE ServerBroadcasts
  BY <1>2, <1>13, ServerBroadcastsKeeps
<1> QED
  BY <1>3, <1>4, <1>5, <1>6, <1>7, <1>8, <1>9, <1>10, <1>11, <1>12, <1>13 DEF Next

(* The inductive invariant.                                                *)
IInv == Good(c0)

(* The client is always in one of its four phases.                         *)
LEMMA AlwaysGood == Spec => []IInv
<1>1. Init => IInv
  BY InitGood DEF IInv
<1>2. IInv /\ [Next]_vars => IInv'
  <2>1. Good(c0)' <=> Good([io |-> io', engines |-> engines'])
    BY DEF c0, Good, Shape, IsSequence, Opening, Running, Waiting, Finished, Newest
  <2> QED
    BY <2>1, NextKeeps DEF IInv
<1> QED
  BY <1>1, <1>2, PTL DEF Spec

-----------------------------------------------------------------------------
(* The theorems.                                                           *)

(* There is one connection at most, and none while the client waits to     *)
(* reconnect (Manager.open, onclose, reconnect and the errors of an open). *)
THEOREM OneConnectionAtMost == Spec => []OneConnection
<1>1. IInv => OneConnection
  <2> SUFFICES ASSUME IInv PROVE OneConnection
    OBVIOUS
  <2>1. Good(c0)
    BY DEF IInv
  <2>2. "reconnect" \in io.timers => \A e \in 1 .. Current : ~Alive(e)
    BY <2>1, GoodHere DEF Good, Opening, Running, Waiting, Finished, Alive
  <2>3. {e \in 1 .. Current : Alive(e)} \subseteq {Current}
    BY <2>1, GoodHere DEF Alive
  <2>4. /\ IsFiniteSet({Current}) /\ Cardinality({Current}) = 1
        /\ Cardinality({e \in 1 .. Current : Alive(e)}) <= Cardinality({Current})
    BY <2>3, FS_Singleton, FS_Subset
  <2> QED
    BY <2>2, <2>4 DEF OneConnection
<1> QED
  BY <1>1, AlwaysGood, PTL

(* Once the server has disconnected the Socket no connection is made, no   *)
(* matter which timers were pending (Socket.ondisconnect, Manager._close). *)
THEOREM StaysDisconnectedAlways == Spec => StaysDisconnected
<1>1. IInv /\ [Next]_vars => [~io.subscribed => Len(engines') = Len(engines)]_vars
  BY NextKeeps DEF IInv
<1> QED
  BY <1>1, AlwaysGood, PTL DEF Spec, StaysDisconnected

(* A Socket that listens is never forgotten: at every moment it is         *)
(* connected, or opens a connection under a timeout, or waits for the      *)
(* timer of Manager.reconnect.                                             *)
THEOREM NeverForgottenAlways == Spec => []NeverForgotten
<1>1. IInv => NeverForgotten
  BY DEF IInv, NeverForgotten, Good, Finished, c0
<1> QED
  BY <1>1, AlwaysGood, PTL

(* The fold of deconstructPacket, of Clicks and of the other side's        *)
(* decoder as loops.                                                       *)
-----------------------------------------------------------------------------
(* The second part: the parser. First the loops over its lists.            *)

Taken == <<"buffer">>
Clicked == <<"click">>
Read(frames) == <<"frame", frames>>

(* Buffers is a loop: a chain like r exists, and the fold ends as it does. *)
LEMMA BuffersLoop ==
  ASSUME NEW s, NEW n \in Nat, DOMAIN s = 1 .. n, NEW z, z = <<>>
  PROVE  \E r : Loop(r, Taken, z, s, n) /\ Buffers(s) = r[n]
<1>1. \E it : it = [S \in SUBSET (1 .. n) |->
                IF S = {} THEN z
                ELSE IF s[Max(S)].kind = "buffer" THEN Append(it[S \ {Max(S)}], s[Max(S)])
                ELSE it[S \ {Max(S)}]]
  <2>1. PICK it : Iterates(it, Taken, z, s, n)
    BY IteratesExist
  <2>2. \A a, x : Handle(Taken, a, x) = IF x.kind = "buffer" THEN Append(a, x) ELSE a
    BY DEF Handle, Taken
  <2>3. it = [S \in SUBSET (1 .. n) |->
                IF S = {} THEN z
                ELSE IF s[Max(S)].kind = "buffer" THEN Append(it[S \ {Max(S)}], s[Max(S)])
                ELSE it[S \ {Max(S)}]]
    BY <2>1, <2>2, ZenonT(60) DEF Iterates
  <2> QED
    BY <2>3
<1>2. PICK it : /\ it = [S \in SUBSET (1 .. n) |->
                    IF S = {} THEN z
                    ELSE IF s[Max(S)].kind = "buffer" THEN Append(it[S \ {Max(S)}], s[Max(S)])
                    ELSE it[S \ {Max(S)}]]
                /\ Buffers(s) = it[1 .. n]
  BY <1>1, ZenonT(60) DEF Buffers, FoldLeft, MapThenFoldSet
<1>3. Iterates(it, Taken, z, s, n)
  BY <1>2 DEF Iterates, Handle, Taken
<1>4. PICK r : Loop(r, Taken, z, s, n) /\ r[n] = it[1 .. n]
  BY <1>3, IteratesLoop
<1> QED
  BY <1>2, <1>4, Zenon

(* Clicks is one.                                                          *)
LEMMA ClicksLoop ==
  ASSUME NEW s, NEW n \in Nat, DOMAIN s = 1 .. n, NEW z, z = <<>>
  PROVE  \E r : Loop(r, Clicked, z, s, n) /\ Clicks(s) = r[n]
<1>1. \E it : it = [S \in SUBSET (1 .. n) |->
                IF S = {} THEN z
                ELSE IF IsClick(s[Max(S)]) THEN Append(it[S \ {Max(S)}], s[Max(S)].data)
                ELSE it[S \ {Max(S)}]]
  <2>1. PICK it : Iterates(it, Clicked, z, s, n)
    BY IteratesExist
  <2>2. \A a, x : Handle(Clicked, a, x) = IF IsClick(x) THEN Append(a, x.data) ELSE a
    BY DEF Handle, Clicked
  <2>3. it = [S \in SUBSET (1 .. n) |->
                IF S = {} THEN z
                ELSE IF IsClick(s[Max(S)]) THEN Append(it[S \ {Max(S)}], s[Max(S)].data)
                ELSE it[S \ {Max(S)}]]
    BY <2>1, <2>2 DEF Iterates
  <2> QED
    BY <2>3
<1>2. PICK it : /\ it = [S \in SUBSET (1 .. n) |->
                    IF S = {} THEN z
                    ELSE IF IsClick(s[Max(S)]) THEN Append(it[S \ {Max(S)}], s[Max(S)].data)
                    ELSE it[S \ {Max(S)}]]
                /\ Clicks(s) = it[1 .. n]
  BY <1>1, ZenonT(60) DEF Clicks, FoldLeft, MapThenFoldSet
<1>3. Iterates(it, Clicked, z, s, n)
  BY <1>2 DEF Iterates, Handle, Clicked
<1>4. PICK r : Loop(r, Clicked, z, s, n) /\ r[n] = it[1 .. n]
  BY <1>3, IteratesLoop
<1> QED
  BY <1>2, <1>4, Zenon

(* PacketsOf is one, over the places of the frames.                        *)
LEMMA PacketsLoop ==
  ASSUME NEW frames, NEW n \in Nat, DOMAIN frames = 1 .. n, NEW z, z = <<>>
  PROVE  \E r : Loop(r, Read(frames), z, [k \in 1 .. n |-> k], n) /\ PacketsOf(frames) = r[n]
<1> DEFINE s == [k \in 1 .. n |-> k]
<1>0. DOMAIN s = 1 .. n
  OBVIOUS
<1> HIDE DEF s
<1>1. \E it : it = [S \in SUBSET (1 .. n) |->
                IF S = {} THEN z
                ELSE IF frames[s[Max(S)]].binary THEN it[S \ {Max(S)}]
                ELSE Append(it[S \ {Max(S)}], PacketAt(frames, s[Max(S)]))]
  <2>1. PICK it : Iterates(it, Read(frames), z, s, n)
    BY IteratesExist
  <2>2. \A a, x : Handle(Read(frames), a, x) =
                    IF frames[x].binary THEN a ELSE Append(a, PacketAt(frames, x))
    BY DEF Handle, Read
  <2>3. it = [S \in SUBSET (1 .. n) |->
                IF S = {} THEN z
                ELSE IF frames[s[Max(S)]].binary THEN it[S \ {Max(S)}]
                ELSE Append(it[S \ {Max(S)}], PacketAt(frames, s[Max(S)]))]
    BY <2>1, <2>2 DEF Iterates
  <2> QED
    BY <2>3
<1>2. PICK it : /\ it = [S \in SUBSET (1 .. n) |->
                    IF S = {} THEN z
                    ELSE IF frames[s[Max(S)]].binary THEN it[S \ {Max(S)}]
                    ELSE Append(it[S \ {Max(S)}], PacketAt(frames, s[Max(S)]))]
                /\ PacketsOf(frames) = it[1 .. n]
  <2>1. PacketsOf(frames) =
          FoldLeft(LAMBDA found, k : IF frames[k].binary THEN found
                                     ELSE Append(found, PacketAt(frames, k)), <<>>, s)
    BY DEF PacketsOf, FoldLeftDomain, s
  <2> QED
    BY <1>0, <1>1, <2>1, ZenonT(60) DEF FoldLeft, MapThenFoldSet
<1>3. Iterates(it, Read(frames), z, s, n)
  BY <1>2 DEF Iterates, Handle, Read
<1>4. PICK r : Loop(r, Read(frames), z, s, n) /\ r[n] = it[1 .. n]
  BY <1>3, IteratesLoop
<1>5. s = [k \in 1 .. n |-> k]
  BY DEF s
<1> QED
  BY <1>2, <1>4, <1>5, Zenon

(* The frames of the packets that the two sides write.                     *)
-----------------------------------------------------------------------------
(* The frames of the packets that the two sides write.                     *)

Holed(n) == Json("array", <<Plain(n), Placeholder(0)>>)
ConnectFrame == Text(<<Field("type", "connect")>>)
ConnectedFrame == Text(<<Field("type", "connect"), Field("json", Connected.data)>>)
DisconnectFrame == Text(<<Field("type", "disconnect")>>)
EventFrame(n, id) ==
  Text(<<Field("type", "event"), Field("id", id), Field("json", EventData(n))>>)
HeadFrame(n, id) ==
  Text(<<Field("type", "binary_event"), Field("attachments", 1), Field("id", id),
         Field("json", Holed(n))>>)
AckFrame(n, id) ==
  Text(<<Field("type", "ack"), Field("id", id), Field("json", Ack(n, id).data)>>)
NewsFrame(n) == Text(<<Field("type", "event"), Field("json", EventData(n))>>)
NewsHead(n) ==
  Text(<<Field("type", "binary_event"), Field("attachments", 1), Field("json", Holed(n))>>)
BufferFrame(n) == Binary(Buffer(n))

(* Small lists put together.                                               *)
LEMMA SmallLists ==
  ASSUME NEW a, NEW b, NEW x, NEW y
  PROVE  /\ <<a>> \o <<>> = <<a>> /\ <<a>> \o <<b>> = <<a, b>>
         /\ <<a, b>> \o <<>> = <<a, b>> /\ <<a, b>> \o <<x>> = <<a, b, x>>
         /\ <<a, b, x>> \o <<y>> = <<a, b, x, y>>
<1> DEFINE S == {a, b, x, y}
<1>1. /\ <<a>> \in Seq(S) /\ <<b>> \in Seq(S) /\ <<x>> \in Seq(S) /\ <<y>> \in Seq(S)
      /\ <<a, b>> \in Seq(S) /\ <<a, b, x>> \in Seq(S) /\ <<a, b, x, y>> \in Seq(S)
  OBVIOUS
<1>2. \A s \in Seq(S) : s \o <<>> = s
  BY ConcatEmptySeq, Zenon
<1>3. ASSUME NEW s \in Seq(S), NEW u, <<u>> \in Seq(S), NEW t \in Seq(S),
             Len(t) = Len(s) + 1, \A i \in 1 .. Len(s) : t[i] = s[i], t[Len(s) + 1] = u
      PROVE  s \o <<u>> = t
  <2>1. Len(<<u>>) = 1 /\ <<u>>[1] = u
    OBVIOUS
  <2> DEFINE v == <<u>>
  <2>2. /\ s \o v \in Seq(S) /\ Len(s \o v) = Len(s) + Len(v)
        /\ \A i \in 1 .. Len(s) + Len(v) : (s \o v)[i] = IF i <= Len(s) THEN s[i] ELSE v[i - Len(s)]
    <3> HIDE DEF S
    <3> QED
      BY <1>3, ConcatProperties, ZenonT(60)
  <2> HIDE DEF v, S
  <2>3. Len(s) \in Nat /\ Len(v) = 1 /\ v[1] = u
    BY <2>1, LenProperties DEF v
  <2>4. Len(s \o v) = Len(t) /\ \A i \in 1 .. Len(s \o v) : (s \o v)[i] = t[i]
    BY <1>3, <2>2, <2>3
  <2>5. s \o v = t
    BY <2>2, <2>4, SeqEqual, Zenon
  <2> QED
    BY <2>5 DEF v
<1> HIDE DEF S
<1>4. <<a>> \o <<b>> = <<a, b>>
  <2> DEFINE s == <<a>>
             t == <<a, b>>
  <2>1. s \in Seq(S) /\ t \in Seq(S) /\ <<b>> \in Seq(S)
    BY <1>1
  <2>2. Len(s) = 1 /\ Len(t) = 2 /\ t[1] = s[1] /\ t[2] = b
    OBVIOUS
  <2> HIDE DEF s, t
  <2>3. \A i \in 1 .. Len(s) : t[i] = s[i]
    BY <2>2
  <2>4. Len(t) = Len(s) + 1 /\ t[Len(s) + 1] = b
    BY <2>2
  <2>5. s \o <<b>> = t
    BY <1>3, <2>1, <2>3, <2>4
  <2> QED
    BY <2>5 DEF s, t
<1>5. <<a, b>> \o <<x>> = <<a, b, x>>
  <2> DEFINE s == <<a, b>>
             t == <<a, b, x>>
  <2>1. s \in Seq(S) /\ t \in Seq(S) /\ <<x>> \in Seq(S)
    BY <1>1
  <2>2. Len(s) = 2 /\ Len(t) = 3 /\ t[1] = s[1] /\ t[2] = s[2] /\ t[3] = x
    OBVIOUS
  <2> HIDE DEF s, t
  <2>3. \A i \in 1 .. Len(s) : t[i] = s[i]
    BY <2>2
  <2>4. Len(t) = Len(s) + 1 /\ t[Len(s) + 1] = x
    BY <2>2
  <2>5. s \o <<x>> = t
    BY <1>3, <2>1, <2>3, <2>4
  <2> QED
    BY <2>5 DEF s, t
<1>6. <<a, b, x>> \o <<y>> = <<a, b, x, y>>
  <2> DEFINE s == <<a, b, x>>
             t == <<a, b, x, y>>
  <2>1. s \in Seq(S) /\ t \in Seq(S) /\ <<y>> \in Seq(S)
    BY <1>1
  <2>2. Len(s) = 3 /\ Len(t) = 4 /\ t[1] = s[1] /\ t[2] = s[2] /\ t[3] = s[3] /\ t[4] = y
    OBVIOUS
  <2> HIDE DEF s, t
  <2>3. \A i \in 1 .. Len(s) : t[i] = s[i]
    BY <2>2
  <2>4. Len(t) = Len(s) + 1 /\ t[Len(s) + 1] = y
    BY <2>2
  <2>5. s \o <<y>> = t
    BY <1>3, <2>1, <2>3, <2>4
  <2> QED
    BY <2>5 DEF s, t
<1> QED
  BY <1>1, <1>2, <1>4, <1>5, <1>6

(* The fields of a packet, in their order.                                 *)
LEMMA Fields ==
  ASSUME NEW p, NEW id
  PROVE  /\ p.type \notin BinaryTypes /\ p.id = <<>> /\ p.data = NoData =>
              EncodeAsString(p) = Text(<<Field("type", p.type)>>)
         /\ p.type \notin BinaryTypes /\ p.id = <<>> /\ p.data # NoData =>
              EncodeAsString(p) = Text(<<Field("type", p.type), Field("json", p.data)>>)
         /\ p.type \notin BinaryTypes /\ p.id = <<id>> /\ p.data # NoData =>
              EncodeAsString(p) =
                Text(<<Field("type", p.type), Field("id", id), Field("json", p.data)>>)
         /\ p.type \in BinaryTypes /\ p.id = <<>> /\ p.data # NoData =>
              EncodeAsString(p) =
                Text(<<Field("type", p.type), Field("attachments", p.attachments),
                       Field("json", p.data)>>)
         /\ p.type \in BinaryTypes /\ p.id = <<id>> /\ p.data # NoData =>
              EncodeAsString(p) =
                Text(<<Field("type", p.type), Field("attachments", p.attachments),
                       Field("id", id), Field("json", p.data)>>)
<1>1. [i \in DOMAIN <<>> |-> Field("id", <<>>[i])] = <<>>
  OBVIOUS
<1>2. [i \in DOMAIN <<id>> |-> Field("id", <<id>>[i])] = <<Field("id", id)>>
  <2> DEFINE f == Field("id", id)
             g == [i \in DOMAIN <<id>> |-> Field("id", <<id>>[i])]
  <2>1. DOMAIN <<id>> = 1 .. 1 /\ <<id>>[1] = id
    OBVIOUS
  <2>2. g = [i \in 1 .. 1 |-> f]
    BY <2>1
  <2> HIDE DEF f
  <2>3. [i \in 1 .. 1 |-> f] = <<f>>
    OBVIOUS
  <2> QED
    BY <2>2, <2>3 DEF f
<1> DEFINE ids == [i \in DOMAIN p.id |-> Field("id", p.id[i])]
           t == Field("type", p.type)
           a == Field("attachments", p.attachments)
           j == Field("json", p.data)
           k == Field("id", id)
<1>3. EncodeAsString(p) =
        Text(<<t>> \o (IF p.type \in BinaryTypes THEN <<a>> ELSE <<>>) \o ids
             \o (IF p.data = NoData THEN <<>> ELSE <<j>>))
  BY DEF EncodeAsString
<1>4. (p.id = <<>> => ids = <<>>) /\ (p.id = <<id>> => ids = <<k>>)
  BY <1>1, <1>2
<1> HIDE DEF ids, t, a, j, k
<1>6. ASSUME p.type \notin BinaryTypes, p.id = <<>>, p.data = NoData
      PROVE  EncodeAsString(p) = Text(<<t>>)
  <2>1. EncodeAsString(p) = Text(<<t>> \o <<>> \o <<>> \o <<>>)
    BY <1>3, <1>4, <1>6
  <2>2. <<t>> \o <<>> = <<t>>
    BY SmallLists
  <2> QED
    BY <2>1, <2>2
<1>7. ASSUME p.type \notin BinaryTypes, p.id = <<>>, p.data # NoData
      PROVE  EncodeAsString(p) = Text(<<t, j>>)
  <2>1. EncodeAsString(p) = Text(<<t>> \o <<>> \o <<>> \o <<j>>)
    BY <1>3, <1>4, <1>7
  <2>2. <<t>> \o <<>> = <<t>> /\ <<t>> \o <<j>> = <<t, j>>
    BY SmallLists
  <2> QED
    BY <2>1, <2>2
<1>8. ASSUME p.type \notin BinaryTypes, p.id = <<id>>, p.data # NoData
      PROVE  EncodeAsString(p) = Text(<<t, k, j>>)
  <2>1. EncodeAsString(p) = Text(<<t>> \o <<>> \o <<k>> \o <<j>>)
    BY <1>3, <1>4, <1>8
  <2>2. <<t>> \o <<>> = <<t>> /\ <<t>> \o <<k>> = <<t, k>> /\ <<t, k>> \o <<j>> = <<t, k, j>>
    BY SmallLists
  <2> QED
    BY <2>1, <2>2
<1>9. ASSUME p.type \in BinaryTypes, p.id = <<>>, p.data # NoData
      PROVE  EncodeAsString(p) = Text(<<t, a, j>>)
  <2>1. EncodeAsString(p) = Text(<<t>> \o <<a>> \o <<>> \o <<j>>)
    BY <1>3, <1>4, <1>9
  <2>2. <<t>> \o <<a>> = <<t, a>> /\ <<t, a>> \o <<>> = <<t, a>> /\ <<t, a>> \o <<j>> = <<t, a, j>>
    BY SmallLists
  <2> QED
    BY <2>1, <2>2
<1>10. ASSUME p.type \in BinaryTypes, p.id = <<id>>, p.data # NoData
       PROVE  EncodeAsString(p) = Text(<<t, a, k, j>>)
  <2>1. EncodeAsString(p) = Text(<<t>> \o <<a>> \o <<k>> \o <<j>>)
    BY <1>3, <1>4, <1>10
  <2>2. /\ <<t>> \o <<a>> = <<t, a>> /\ <<t, a>> \o <<k>> = <<t, a, k>>
        /\ <<t, a, k>> \o <<j>> = <<t, a, k, j>>
    BY SmallLists
  <2> QED
    BY <2>1, <2>2
<1> QED
  BY <1>6, <1>7, <1>8, <1>9, <1>10 DEF t, a, j, k

(* What an event holds.                                                    *)
LEMMA EventValues ==
  ASSUME NEW n
  PROVE  /\ n \notin WithBuffer => EventData(n) = Json("array", <<Plain(n)>>)
         /\ n \in WithBuffer => EventData(n) = Json("array", <<Plain(n), Buffer(n)>>)
         /\ EventData(n) # NoData /\ Number(EventData(n)) = n
         /\ EventData(n).shape = "array" /\ EventData(n).values # <<>>
<1>1. n \notin WithBuffer => EventData(n) = Json("array", <<Plain(n)>>)
  BY SmallLists DEF EventData
<1>2. n \in WithBuffer => EventData(n) = Json("array", <<Plain(n), Buffer(n)>>)
  BY SmallLists DEF EventData
<1> DEFINE p == Plain(n)
           b == Buffer(n)
<1>3. p.v = n
  BY DEF Plain
<1> HIDE DEF p, b
<1>4. /\ Json("array", <<p>>).values[1] = p /\ Json("array", <<p, b>>).values[1] = p
      /\ Json("array", <<p>>).shape = "array" /\ Json("array", <<p, b>>).shape = "array"
      /\ Json("array", <<p>>).values # <<>> /\ Json("array", <<p, b>>).values # <<>>
      /\ NoData.shape = "undefined"
  BY DEF Json, NoData
<1> QED
  BY <1>1, <1>2, <1>3, <1>4 DEF Number, p, b

(* The binary values among those of an event.                              *)
LEMMA EventBuffers ==
  ASSUME NEW n
  PROVE  /\ Buffers(<<Plain(n), Buffer(n)>>) = <<Buffer(n)>>
         /\ Deconstruct(<<Plain(n), Buffer(n)>>) = <<Plain(n), Placeholder(0)>>
<1> DEFINE p == Plain(n)
           b == Buffer(n)
           v == <<p, b>>
<1>1. p.kind = "plain" /\ b.kind = "buffer"
  BY DEF Plain, Buffer
<1> HIDE DEF p, b
<1>2. Buffers(v) = <<b>>
  <2>1. DOMAIN v = 1 .. 2 /\ v[1] = p /\ v[2] = b
    OBVIOUS
  <2> HIDE DEF v
  <2> DEFINE z == <<>>
  <2>2. Append(z, b) = <<b>>
    OBVIOUS
  <2>3. z = <<>>
    OBVIOUS
  <2> HIDE DEF z
  <2>4. PICK r : Loop(r, Taken, z, v, 2) /\ Buffers(v) = r[2]
    BY <2>1, <2>3, BuffersLoop
  <2>5. r[0] = z /\ r[1] = Handle(Taken, r[0], v[1]) /\ r[2] = Handle(Taken, r[1], v[2])
    BY <2>4 DEF Loop
  <2>6. r[1] = z /\ r[2] = Append(z, b)
    BY <1>1, <2>1, <2>5 DEF Handle, Taken
  <2> QED
    BY <2>2, <2>4, <2>6
<1>3. Buffers(SubSeq(v, 1, 1)) = <<>>
  <2> DEFINE w == SubSeq(v, 1, 1)
  <2>1. DOMAIN w = 1 .. 1 /\ w[1] = p
    OBVIOUS
  <2> HIDE DEF w
  <2> DEFINE z == <<>>
  <2>3. z = <<>>
    OBVIOUS
  <2> HIDE DEF z
  <2>4. PICK r : Loop(r, Taken, z, w, 1) /\ Buffers(w) = r[1]
    BY <2>1, <2>3, BuffersLoop
  <2>5. r[0] = z /\ r[1] = Handle(Taken, r[0], w[1])
    BY <2>4 DEF Loop
  <2>6. r[1] = z
    BY <1>1, <2>1, <2>5 DEF Handle, Taken
  <2> QED
    BY <2>3, <2>4, <2>6 DEF w
<1>4. Deconstruct(v) = <<p, Placeholder(0)>>
  <2> DEFINE h == Placeholder(0)
             d == [i \in DOMAIN v |-> IF v[i].kind = "buffer"
                                      THEN Placeholder(Len(Buffers(SubSeq(v, 1, i - 1))))
                                      ELSE v[i]]
  <2>1. DOMAIN v = 1 .. 2 /\ v[1] = p /\ v[2] = b
    OBVIOUS
  <2> HIDE DEF v
  <2>2. Len(Buffers(SubSeq(v, 1, 2 - 1))) = 0
    BY <1>3
  <2>3. d[1] = p /\ d[2] = h /\ DOMAIN d = 1 .. 2 /\ d = [i \in 1 .. 2 |-> d[i]]
    BY <1>1, <2>1, <2>2
  <2> HIDE DEF d, h
  <2>4. d = <<p, h>>
    BY <2>3
  <2> QED
    BY <2>4 DEF Deconstruct, d, h
<1> QED
  BY <1>2, <1>4 DEF p, b

(* An event is one frame, or a frame and that of its binary value.        *)
LEMMA EncodeEventData ==
  ASSUME NEW n, NEW ids, NEW p, p = PacketOf("event", ids, EventData(n))
  PROVE  /\ n \notin WithBuffer => Encode(p) = <<EncodeAsString(p)>>
         /\ n \in WithBuffer =>
              \E u : /\ Encode(p) = <<EncodeAsString(u), BufferFrame(n)>>
                    /\ u.type = "binary_event" /\ u.id = ids /\ u.attachments = 1
                    /\ u.data = Holed(n)
<1>1. /\ p.type = "event" /\ p.id = ids /\ p.data = EventData(n) /\ p.attachments = 0
      /\ p = [type |-> "event", id |-> ids, data |-> EventData(n), attachments |-> 0]
  BY DEF PacketOf
<1>2. CASE n \notin WithBuffer
  <2>1. ~HasBinary(p)
    <3>1. p.data.values = <<Plain(n)>>
      BY <1>1, <1>2, EventValues DEF Json
    <3>2. DOMAIN <<Plain(n)>> = 1 .. 1 /\ <<Plain(n)>>[1].kind = "plain"
      BY DEF Plain
    <3> QED
      BY <3>1, <3>2 DEF HasBinary
  <2> QED
    BY <1>2, <2>1 DEF Encode
<1>3. CASE n \in WithBuffer
  <2> DEFINE v == <<Plain(n), Buffer(n)>>
             q == [p EXCEPT !.type = "binary_event"]
             u == [q EXCEPT !.data.values = Deconstruct(@), !.attachments = 1]
  <2>1. p.data = Json("array", v) /\ p.data.values = v
    BY <1>1, <1>3, EventValues DEF Json
  <2>2. HasBinary(p)
    <3>1. 2 \in DOMAIN v /\ v[2].kind = "buffer"
      BY DEF Buffer
    <3> QED
      BY <2>1, <3>1 DEF HasBinary
  <2>3. Encode(p) = EncodeAsBinary(q)
    BY <1>1, <2>2 DEF Encode
  <2>4. Buffers(q.data.values) = <<Buffer(n)>> /\ Deconstruct(q.data.values) = Holed(n).values
    <3>1. q.data.values = v
      BY <1>1, <2>1
    <3> QED
      BY <3>1, EventBuffers DEF Holed, Json
  <2>5. EncodeAsBinary(q) = <<EncodeAsString(u)>> \o <<BufferFrame(n)>>
    <3> DEFINE b == <<Buffer(n)>>
    <3>1. Len(b) = 1 /\ DOMAIN b = 1 .. 1 /\ b[1] = Buffer(n)
      OBVIOUS
    <3> HIDE DEF b
    <3>2. [i \in DOMAIN b |-> Binary(b[i])] = <<Binary(Buffer(n))>>
      <4> DEFINE f == Binary(Buffer(n))
      <4>1. [i \in DOMAIN b |-> Binary(b[i])] = [i \in 1 .. 1 |-> f]
        BY <3>1
      <4> HIDE DEF f
      <4>2. [i \in 1 .. 1 |-> f] = <<f>>
        OBVIOUS
      <4> QED
        BY <4>1, <4>2 DEF f
    <3>3. Buffers(q.data.values) = b
      BY <2>4 DEF b
    <3> HIDE DEF q
    <3> QED
      BY <3>1, <3>2, <3>3 DEF EncodeAsBinary, BufferFrame
  <2>6. /\ u.type = "binary_event" /\ u.id = ids /\ u.attachments = 1
        /\ u.data = Holed(n)
    BY <1>1, <2>1, <2>4 DEF Holed, Json
  <2> HIDE DEF u
  <2>7. Encode(p) = <<EncodeAsString(u), BufferFrame(n)>>
    BY <2>3, <2>5, SmallLists
  <2> QED
    BY <1>3, <2>6, <2>7
<1> QED
  BY <1>2, <1>3

(* What is written for an event of the page, and for one of the server.    *)
LEMMA EncodeEvent ==
  ASSUME NEW n, NEW id
  PROVE  Encode(Event(n, id)) = IF n \in WithBuffer
                                THEN <<HeadFrame(n, id), BufferFrame(n)>>
                                ELSE <<EventFrame(n, id)>>
<1> DEFINE p == Event(n, id)
<1>1. p = PacketOf("event", <<id>>, EventData(n))
  BY DEF Event
<1>2. p.type = "event" /\ p.id = <<id>> /\ p.data = EventData(n)
  BY DEF Event, PacketOf
<1>3. "event" \notin BinaryTypes /\ "binary_event" \in BinaryTypes /\ Holed(n) # NoData
  <2>1. Holed(n).shape = "array" /\ NoData.shape = "undefined"
    BY DEF Holed, Json, NoData
  <2> QED
    BY <2>1 DEF BinaryTypes
<1> HIDE DEF p
<1>4. CASE n \notin WithBuffer
  <2>1. Encode(p) = <<EncodeAsString(p)>>
    BY <1>1, <1>4, EncodeEventData
  <2>2. EncodeAsString(p) = EventFrame(n, id)
    BY <1>2, <1>3, EventValues, Fields DEF EventFrame
  <2> QED
    BY <1>4, <2>1, <2>2 DEF p
<1>5. CASE n \in WithBuffer
  <2>1. PICK u : /\ Encode(p) = <<EncodeAsString(u), BufferFrame(n)>>
                 /\ u.type = "binary_event" /\ u.id = <<id>> /\ u.attachments = 1
                 /\ u.data = Holed(n)
    BY <1>1, <1>5, EncodeEventData
  <2>2. EncodeAsString(u) = HeadFrame(n, id)
    BY <1>3, <2>1, Fields DEF HeadFrame
  <2> QED
    BY <1>5, <2>1, <2>2 DEF p
<1> QED
  BY <1>4, <1>5

(* The frames of an event of the server.                                   *)
LEMMA EncodeBroadcast ==
  ASSUME NEW n
  PROVE  Encode(Broadcast(n)) = IF n \in WithBuffer
                                THEN <<NewsHead(n), BufferFrame(n)>>
                                ELSE <<NewsFrame(n)>>
<1> DEFINE p == Broadcast(n)
           id == <<>>
<1>1. p = PacketOf("event", id, EventData(n)) /\ id = <<>>
  BY DEF Broadcast
<1>2. p.type = "event" /\ p.id = id /\ p.data = EventData(n)
  BY DEF Broadcast, PacketOf
<1>3. "event" \notin BinaryTypes /\ "binary_event" \in BinaryTypes /\ Holed(n) # NoData
  <2>1. Holed(n).shape = "array" /\ NoData.shape = "undefined"
    BY DEF Holed, Json, NoData
  <2> QED
    BY <2>1 DEF BinaryTypes
<1> HIDE DEF p, id
<1>4. CASE n \notin WithBuffer
  <2>1. Encode(p) = <<EncodeAsString(p)>>
    BY <1>1, <1>4, EncodeEventData
  <2>2. EncodeAsString(p) = NewsFrame(n)
    BY <1>1, <1>2, <1>3, EventValues, Fields DEF NewsFrame
  <2> QED
    BY <1>4, <2>1, <2>2 DEF p
<1>5. CASE n \in WithBuffer
  <2>1. PICK u : /\ Encode(p) = <<EncodeAsString(u), BufferFrame(n)>>
                 /\ u.type = "binary_event" /\ u.id = id /\ u.attachments = 1
                 /\ u.data = Holed(n)
    BY <1>1, <1>5, EncodeEventData
  <2>2. EncodeAsString(u) = NewsHead(n)
    BY <1>1, <1>3, <2>1, Fields DEF NewsHead
  <2> QED
    BY <1>5, <2>1, <2>2 DEF p
<1> QED
  BY <1>4, <1>5

(* What is written to connect, to disconnect and to acknowledge.           *)
LEMMA EncodeOthers ==
  ASSUME NEW n, NEW id
  PROVE  /\ Encode(Connect) = <<ConnectFrame>> /\ Encode(Connected) = <<ConnectedFrame>>
         /\ Encode(Disconnect) = <<DisconnectFrame>>
         /\ Encode(Ack(n, id)) = <<AckFrame(n, id)>>
<1>0. "connect" \notin BinaryTypes /\ "disconnect" \notin BinaryTypes /\ "ack" \notin BinaryTypes
  BY DEF BinaryTypes
<1>1. Encode(Connect) = <<ConnectFrame>>
  <2> DEFINE p == Connect
  <2>1. p.type = "connect" /\ p.id = <<>> /\ p.data = NoData
    BY DEF Connect, PacketOf
  <2>2. Encode(p) = <<EncodeAsString(p)>>
    BY <2>1 DEF Encode
  <2> HIDE DEF p
  <2> QED
    BY <1>0, <2>1, <2>2, Fields DEF ConnectFrame, p
<1>2. Encode(Connected) = <<ConnectedFrame>>
  <2> DEFINE p == Connected
  <2>1. p.type = "connect" /\ p.id = <<>> /\ p.data.shape = "object" /\ NoData.shape = "undefined"
    BY DEF Connected, PacketOf, Json, NoData
  <2>2. Encode(p) = <<EncodeAsString(p)>>
    BY <2>1 DEF Encode
  <2>3. p.data = Connected.data
    OBVIOUS
  <2> HIDE DEF p
  <2>4. EncodeAsString(p) = Text(<<Field("type", "connect"), Field("json", Connected.data)>>)
    BY <1>0, <2>1, <2>3, Fields
  <2> QED
    BY <2>2, <2>4 DEF ConnectedFrame, p
<1>3. Encode(Disconnect) = <<DisconnectFrame>>
  <2> DEFINE p == Disconnect
  <2>1. p.type = "disconnect" /\ p.id = <<>> /\ p.data = NoData
    BY DEF Disconnect, PacketOf
  <2>2. Encode(p) = <<EncodeAsString(p)>>
    BY <2>1 DEF Encode
  <2> HIDE DEF p
  <2> QED
    BY <1>0, <2>1, <2>2, Fields DEF DisconnectFrame, p
<1>4. Encode(Ack(n, id)) = <<AckFrame(n, id)>>
  <2> DEFINE p == Ack(n, id)
  <2>1. p.type = "ack" /\ p.id = <<id>> /\ p.data.shape = "array" /\ NoData.shape = "undefined"
        /\ p.data.values = <<Plain(n)>>
    BY DEF Ack, PacketOf, Json, NoData
  <2>2. DOMAIN <<Plain(n)>> = 1 .. 1 /\ <<Plain(n)>>[1].kind = "plain"
    BY DEF Plain
  <2>3. Encode(p) = <<EncodeAsString(p)>>
    BY <2>1, <2>2 DEF Encode, HasBinary
  <2>4. p.data = Ack(n, id).data
    OBVIOUS
  <2> HIDE DEF p
  <2>5. EncodeAsString(p) =
          Text(<<Field("type", "ack"), Field("id", id), Field("json", Ack(n, id).data)>>)
    BY <1>0, <2>1, <2>4, Fields
  <2> QED
    BY <2>3, <2>5 DEF AckFrame, p
<1> QED
  BY <1>1, <1>2, <1>3, <1>4

(* What the decoder makes of the fields that there are: no data, no id,   *)
(* both, and the same with a number of attachments.                        *)
LEMMA DecodeType ==
  ASSUME NEW t, t \notin BinaryTypes
  PROVE  LET d == DecodeString(<<Field("type", t)>>)
         IN  /\ d.valid
             /\ d.packet = [type |-> t, data |-> NoData, id |-> <<>>, attachments |-> 0]
<1> DEFINE ft == Field("type", t)
           f == <<ft>>
           c == DecodeString(f)
<1>1. ft.name = "type" /\ ft.value = t
  BY DEF Field
<1> HIDE DEF ft
<1>2. Len(f) = 1 /\ f[1] = ft
  OBVIOUS
<1> HIDE DEF f
<1>3. c.packet = [type |-> t, data |-> NoData, id |-> <<>>, attachments |-> 0]
  BY <1>1, <1>2 DEF DecodeString
<1>4. c.valid
  BY <1>1, <1>2 DEF DecodeString
<1> QED
  BY <1>3, <1>4 DEF f, ft

(* A text with a type and a payload.                                       *)
LEMMA DecodeNews ==
  ASSUME NEW t, NEW j, t \notin BinaryTypes, IsPayloadValid(t, j)
  PROVE  LET d == DecodeString(<<Field("type", t), Field("json", j)>>)
         IN  /\ d.valid
             /\ d.packet = [type |-> t, data |-> j, id |-> <<>>, attachments |-> 0]
<1> DEFINE ft == Field("type", t)
           fj == Field("json", j)
           f == <<ft, fj>>
           c == DecodeString(f)
<1>1. ft.name = "type" /\ ft.value = t /\ fj.name = "json" /\ fj.value = j
  BY DEF Field
<1> HIDE DEF ft, fj
<1>2. Len(f) = 2 /\ f[1] = ft /\ f[2] = fj
  OBVIOUS
<1> HIDE DEF f
<1>3. c.packet = [type |-> t, data |-> j, id |-> <<>>, attachments |-> 0]
  BY <1>1, <1>2 DEF DecodeString
<1>4. c.valid
  BY <1>1, <1>2 DEF DecodeString
<1> QED
  BY <1>3, <1>4 DEF f, ft, fj

(* A text with a type, an id and a payload.                                *)
LEMMA DecodeId ==
  ASSUME NEW t, NEW i, NEW j, t \notin BinaryTypes, IsPayloadValid(t, j)
  PROVE  LET d == DecodeString(<<Field("type", t), Field("id", i), Field("json", j)>>)
         IN  /\ d.valid
             /\ d.packet = [type |-> t, data |-> j, id |-> <<i>>, attachments |-> 0]
<1> DEFINE ft == Field("type", t)
           fi == Field("id", i)
           fj == Field("json", j)
           f == <<ft, fi, fj>>
           c == DecodeString(f)
<1>1. /\ ft.name = "type" /\ ft.value = t /\ fi.name = "id" /\ fi.value = i
      /\ fj.name = "json" /\ fj.value = j
  BY DEF Field
<1> HIDE DEF ft, fi, fj
<1>2. Len(f) = 3 /\ f[1] = ft /\ f[2] = fi /\ f[3] = fj
  OBVIOUS
<1> HIDE DEF f
<1>3. c.packet = [type |-> t, data |-> j, id |-> <<i>>, attachments |-> 0]
  BY <1>1, <1>2 DEF DecodeString
<1>4. c.valid
  BY <1>1, <1>2 DEF DecodeString
<1> QED
  BY <1>3, <1>4 DEF f, ft, fi, fj

(* The text of a packet whose binary values follow, without an id.         *)
LEMMA DecodeHeadNews ==
  ASSUME NEW t, NEW a, NEW j, t \in BinaryTypes, IsPayloadValid(t, j)
  PROVE  LET d == DecodeString(<<Field("type", t), Field("attachments", a), Field("json", j)>>)
         IN  /\ d.valid
             /\ d.packet = [type |-> t, data |-> j, id |-> <<>>, attachments |-> a]
<1> DEFINE ft == Field("type", t)
           fa == Field("attachments", a)
           fj == Field("json", j)
           f == <<ft, fa, fj>>
           c == DecodeString(f)
<1>1. /\ ft.name = "type" /\ ft.value = t /\ fa.name = "attachments" /\ fa.value = a
      /\ fj.name = "json" /\ fj.value = j
  BY DEF Field
<1> HIDE DEF ft, fa, fj
<1>2. Len(f) = 3 /\ f[1] = ft /\ f[2] = fa /\ f[3] = fj
  OBVIOUS
<1> HIDE DEF f
<1>3. c.packet = [type |-> t, data |-> j, id |-> <<>>, attachments |-> a]
  BY <1>1, <1>2 DEF DecodeString
<1>4. c.valid
  BY <1>1, <1>2 DEF DecodeString
<1> QED
  BY <1>3, <1>4 DEF f, ft, fa, fj

(* The same with an id.                                                    *)
LEMMA DecodeHead ==
  ASSUME NEW t, NEW a, NEW i, NEW j, t \in BinaryTypes, IsPayloadValid(t, j)
  PROVE  LET d == DecodeString(<<Field("type", t), Field("attachments", a),
                             Field("id", i), Field("json", j)>>)
         IN  /\ d.valid
             /\ d.packet = [type |-> t, data |-> j, id |-> <<i>>, attachments |-> a]
<1> DEFINE ft == Field("type", t)
           fa == Field("attachments", a)
           fi == Field("id", i)
           fj == Field("json", j)
           f == <<ft, fa, fi, fj>>
           c == DecodeString(f)
<1>1. /\ ft.name = "type" /\ ft.value = t /\ fa.name = "attachments" /\ fa.value = a
      /\ fi.name = "id" /\ fi.value = i /\ fj.name = "json" /\ fj.value = j
  BY DEF Field
<1> HIDE DEF ft, fa, fi, fj
<1>2. Len(f) = 4 /\ f[1] = ft /\ f[2] = fa /\ f[3] = fi /\ f[4] = fj
  OBVIOUS
<1> HIDE DEF f
<1>3. c.packet = [type |-> t, data |-> j, id |-> <<i>>, attachments |-> a]
  BY <1>1, <1>2 DEF DecodeString
<1>4. c.valid
  BY <1>1, <1>2 DEF DecodeString
<1> QED
  BY <1>3, <1>4 DEF f, ft, fa, fi, fj

(* The binary value in its place, or nothing to replace.                   *)
LEMMA ReconstructEvent ==
  ASSUME NEW n, NEW d, NEW buffers, DOMAIN d = {"type", "data", "id", "attachments"},
         \/ d.data = EventData(n)
         \/ d.data = Holed(n) /\ n \in WithBuffer /\ buffers[1] = Buffer(n)
  PROVE  LET r == Reconstruct(d, buffers) IN
         r.type = d.type /\ r.id = d.id /\ r.data = EventData(n)
<1> DEFINE p == Plain(n)
           b == Buffer(n)
           h == Placeholder(0)
<1>1. p.kind = "plain" /\ b.kind = "buffer" /\ h.kind = "placeholder" /\ h.v = 0
  BY DEF Plain, Buffer, Placeholder
<1> HIDE DEF p, b, h
<1> DEFINE filled(s) == [i \in DOMAIN s |-> IF s[i].kind = "placeholder"
                                            THEN buffers[s[i].v + 1] ELSE s[i]]
<1>2. filled(<<p>>) = <<p>>
  <2> DEFINE s == <<p>>
  <2>1. DOMAIN s = 1 .. 1 /\ s[1] = p
    OBVIOUS
  <2> HIDE DEF s
  <2>2. filled(s) = [i \in 1 .. 1 |-> p]
    BY <1>1, <2>1
  <2>3. [i \in 1 .. 1 |-> p] = <<p>>
    OBVIOUS
  <2> HIDE DEF filled
  <2> QED
    BY <2>2, <2>3 DEF s
<1>3. filled(<<p, b>>) = <<p, b>>
  <2> DEFINE s == <<p, b>>
             t == filled(s)
  <2>1. DOMAIN s = 1 .. 2 /\ s[1] = p /\ s[2] = b
    OBVIOUS
  <2> HIDE DEF s
  <2>2. t = [i \in 1 .. 2 |-> t[i]] /\ t[1] = p /\ t[2] = b
    BY <1>1, <2>1
  <2> HIDE DEF t
  <2>3. t = <<p, b>>
    BY <2>2
  <2> QED
    BY <2>3 DEF s, t
<1>4. buffers[1] = b => filled(<<p, h>>) = <<p, b>>
  <2> SUFFICES ASSUME buffers[1] = b PROVE filled(<<p, h>>) = <<p, b>>
    OBVIOUS
  <2> DEFINE s == <<p, h>>
             t == filled(s)
  <2>1. DOMAIN s = 1 .. 2 /\ s[1] = p /\ s[2] = h
    OBVIOUS
  <2> HIDE DEF s
  <2>2. t = [i \in 1 .. 2 |-> t[i]] /\ t[1] = p /\ t[2] = b
    BY <1>1, <2>1
  <2> HIDE DEF t
  <2>3. t = <<p, b>>
    BY <2>2
  <2> QED
    BY <2>3 DEF s, t
<1>5. ASSUME NEW s, d.data = Json("array", s)
      PROVE  LET r == Reconstruct(d, buffers)
             IN  r.type = d.type /\ r.id = d.id /\ r.data = Json("array", filled(s))
  <2> DEFINE w == filled(s)
             r == [d EXCEPT !.attachments = 0, !.data.values = w]
  <2>1. d.data.values = s /\ d.data = [shape |-> "array", values |-> s]
    BY <1>5 DEF Json
  <2>2. Reconstruct(d, buffers) = r
    BY <2>1 DEF Reconstruct
  <2> HIDE DEF w
  <2>3. r.type = d.type /\ r.id = d.id /\ r.data = [d.data EXCEPT !.values = w]
    OBVIOUS
  <2>4. [d.data EXCEPT !.values = w] = Json("array", w)
    BY <2>1 DEF Json
  <2> QED
    BY <2>2, <2>3, <2>4 DEF w
<1> HIDE DEF filled
<1>6. /\ n \notin WithBuffer => EventData(n) = Json("array", <<p>>)
      /\ n \in WithBuffer => EventData(n) = Json("array", <<p, b>>)
      /\ Holed(n) = Json("array", <<p, h>>)
  BY EventValues DEF Holed, p, b, h
<1> QED
  BY <1>2, <1>3, <1>4, <1>5, <1>6 DEF b

(* What the decoder makes of the text frames of the two sides.             *)
LEMMA SessionDecoded ==
  /\ LET d == DecodeString(ConnectFrame.body) IN
     d.packet = [type |-> "connect", data |-> NoData, id |-> <<>>, attachments |-> 0]
  /\ LET d == DecodeString(ConnectedFrame.body) IN
     d.valid /\ d.packet = [type |-> "connect", data |-> Connected.data, id |-> <<>>,
                            attachments |-> 0]
  /\ LET d == DecodeString(DisconnectFrame.body) IN
     d.valid /\ d.packet = [type |-> "disconnect", data |-> NoData, id |-> <<>>,
                            attachments |-> 0]
<1>1. "connect" \notin BinaryTypes /\ "disconnect" \notin BinaryTypes
  BY DEF BinaryTypes
<1>2. \A body : Text(body).body = body
  BY DEF Text
<1>3. IsPayloadValid("connect", Connected.data)
  BY DEF Connected, PacketOf, Json, IsPayloadValid
<1>4. LET d == DecodeString(<<Field("type", "connect")>>) IN
      d.packet = [type |-> "connect", data |-> NoData, id |-> <<>>, attachments |-> 0]
  BY <1>1, DecodeType
<1>5. LET d == DecodeString(<<Field("type", "connect"), Field("json", Connected.data)>>) IN
      d.valid /\ d.packet = [type |-> "connect", data |-> Connected.data, id |-> <<>>,
                             attachments |-> 0]
  BY <1>1, <1>3, DecodeNews
<1>6. LET d == DecodeString(<<Field("type", "disconnect")>>) IN
      d.valid /\ d.packet = [type |-> "disconnect", data |-> NoData, id |-> <<>>,
                             attachments |-> 0]
  BY <1>1, DecodeType
<1> QED
  BY <1>2, <1>4, <1>5, <1>6 DEF ConnectFrame, ConnectedFrame, DisconnectFrame

(* The texts of events and of acknowledgements, decoded.                   *)
LEMMA TextDecoded ==
  ASSUME NEW n, NEW id
  PROVE  /\ LET d == DecodeString(EventFrame(n, id).body) IN
            d.packet = [type |-> "event", data |-> EventData(n), id |-> <<id>>,
                        attachments |-> 0]
         /\ LET d == DecodeString(HeadFrame(n, id).body) IN
            d.packet = [type |-> "binary_event", data |-> Holed(n), id |-> <<id>>,
                        attachments |-> 1]
         /\ LET d == DecodeString(AckFrame(n, id).body) IN
            d.valid /\ d.packet = [type |-> "ack", data |-> Ack(n, id).data, id |-> <<id>>,
                                   attachments |-> 0]
         /\ LET d == DecodeString(NewsFrame(n).body) IN
            d.valid /\ d.packet = [type |-> "event", data |-> EventData(n), id |-> <<>>,
                                   attachments |-> 0]
         /\ LET d == DecodeString(NewsHead(n).body) IN
            d.valid /\ d.packet = [type |-> "binary_event", data |-> Holed(n), id |-> <<>>,
                                   attachments |-> 1]
<1>1. /\ "event" \notin BinaryTypes /\ "ack" \notin BinaryTypes
      /\ "binary_event" \in BinaryTypes
  BY DEF BinaryTypes
<1>2. \A body : Text(body).body = body
  BY DEF Text
<1>3. /\ IsPayloadValid("ack", Ack(n, id).data)
      /\ IsPayloadValid("event", EventData(n)) /\ IsPayloadValid("binary_event", Holed(n))
  <2>1. /\ Ack(n, id).data.shape = "array"
        /\ Holed(n).shape = "array" /\ Holed(n).values # <<>>
    BY DEF Ack, PacketOf, Json, Holed
  <2> QED
    BY <2>1, EventValues DEF IsPayloadValid
<1>5. LET d == DecodeString(<<Field("type", "event"), Field("id", id),
                              Field("json", EventData(n))>>) IN
      d.packet = [type |-> "event", data |-> EventData(n), id |-> <<id>>, attachments |-> 0]
  BY <1>1, <1>3, DecodeId
<1>6. LET d == DecodeString(<<Field("type", "binary_event"), Field("attachments", 1),
                              Field("id", id), Field("json", Holed(n))>>) IN
      d.packet = [type |-> "binary_event", data |-> Holed(n), id |-> <<id>>, attachments |-> 1]
  BY <1>1, <1>3, DecodeHead
<1>9. LET d == DecodeString(<<Field("type", "ack"), Field("id", id),
                              Field("json", Ack(n, id).data)>>) IN
      d.valid /\ d.packet = [type |-> "ack", data |-> Ack(n, id).data, id |-> <<id>>,
                             attachments |-> 0]
  BY <1>1, <1>3, DecodeId
<1>10. LET d == DecodeString(<<Field("type", "event"), Field("json", EventData(n))>>) IN
       d.valid /\ d.packet = [type |-> "event", data |-> EventData(n), id |-> <<>>,
                              attachments |-> 0]
  BY <1>1, <1>3, DecodeNews
<1>11. LET d == DecodeString(<<Field("type", "binary_event"), Field("attachments", 1),
                               Field("json", Holed(n))>>) IN
       d.valid /\ d.packet = [type |-> "binary_event", data |-> Holed(n), id |-> <<>>,
                              attachments |-> 1]
  BY <1>1, <1>3, DecodeHeadNews
<1> QED
  BY <1>2, <1>5, <1>6, <1>9, <1>10, <1>11 DEF EventFrame, HeadFrame, AckFrame, NewsFrame,
     NewsHead

(* The frames are told apart by what is in them.                           *)
LEMMA FrameKinds ==
  ASSUME NEW n, NEW id
  PROVE  /\ ~ConnectFrame.binary /\ ~ConnectedFrame.binary /\ ~DisconnectFrame.binary
         /\ ~EventFrame(n, id).binary /\ ~HeadFrame(n, id).binary /\ ~AckFrame(n, id).binary
         /\ ~NewsFrame(n).binary /\ ~NewsHead(n).binary /\ BufferFrame(n).binary
         /\ ConnectFrame.body[1].value = "connect"
         /\ ConnectedFrame.body[1].value = "connect"
         /\ DisconnectFrame.body[1].value = "disconnect"
         /\ EventFrame(n, id).body[1].value = "event"
         /\ AckFrame(n, id).body[1].value = "ack"
         /\ NewsFrame(n).body[1].value = "event"
         /\ HeadFrame(n, id).body[1].value = "binary_event"
         /\ HeadFrame(n, id).body[2].value = 1
         /\ NewsHead(n).body[1].value = "binary_event"
         /\ NewsHead(n).body[2].value = 1
         /\ BufferFrame(n).body = Buffer(n)
<1>1. /\ \A t : ~Text(<<t>>).binary /\ Text(<<t>>).body[1] = t
      /\ \A t, a : ~Text(<<t, a>>).binary /\ Text(<<t, a>>).body[1] = t
      /\ \A t, a, b : /\ ~Text(<<t, a, b>>).binary
                      /\ Text(<<t, a, b>>).body[1] = t /\ Text(<<t, a, b>>).body[2] = a
      /\ \A t, a, b, x : /\ ~Text(<<t, a, b, x>>).binary
                         /\ Text(<<t, a, b, x>>).body[1] = t
                         /\ Text(<<t, a, b, x>>).body[2] = a
  BY DEF Text
<1>2. \A name, v : Field(name, v).value = v
  BY DEF Field
<1>3. ~ConnectFrame.binary /\ ConnectFrame.body[1].value = "connect"
  BY <1>1, <1>2 DEF ConnectFrame
<1>4. ~ConnectedFrame.binary /\ ConnectedFrame.body[1].value = "connect"
  BY <1>1, <1>2 DEF ConnectedFrame
<1>5. ~DisconnectFrame.binary /\ DisconnectFrame.body[1].value = "disconnect"
  BY <1>1, <1>2 DEF DisconnectFrame
<1>6. ~EventFrame(n, id).binary /\ EventFrame(n, id).body[1].value = "event"
  BY <1>1, <1>2 DEF EventFrame
<1>7. ~AckFrame(n, id).binary /\ AckFrame(n, id).body[1].value = "ack"
  BY <1>1, <1>2 DEF AckFrame
<1>8. ~NewsFrame(n).binary /\ NewsFrame(n).body[1].value = "event"
  BY <1>1, <1>2 DEF NewsFrame
<1>9. ~HeadFrame(n, id).binary /\ HeadFrame(n, id).body[1].value = "binary_event" /\ HeadFrame(n, id).body[2].value = 1
  BY <1>1, <1>2 DEF HeadFrame
<1>10. ~NewsHead(n).binary /\ NewsHead(n).body[1].value = "binary_event" /\ NewsHead(n).body[2].value = 1
  BY <1>1, <1>2 DEF NewsHead
<1>11. BufferFrame(n).binary /\ BufferFrame(n).body = Buffer(n)
  BY DEF BufferFrame, Binary
<1> QED
  BY <1>3, <1>4, <1>5, <1>6, <1>7, <1>8, <1>9, <1>10, <1>11

(* Where the packets that begin with them end.                             *)
LEMMA FramesEnd ==
  ASSUME NEW frames, NEW k, NEW end, NEW n, NEW id
  PROVE  /\ frames[k] = ConnectFrame => (EndsAt(frames, k, end) => end = k + 0)
         /\ frames[k] = EventFrame(n, id) => (EndsAt(frames, k, end) => end = k + 0)
         /\ frames[k] = HeadFrame(n, id) => (EndsAt(frames, k, end) => end = k + 1)
         /\ frames[k] = BufferFrame(n) => ~EndsAt(frames, k, end)
  BY FrameKinds DEF EndsAt, BinaryTypes

(* The packets that the server finds among the frames of the page.         *)
LEMMA PacketsFound ==
  ASSUME NEW frames, NEW k \in Nat, NEW n, NEW id
  PROVE  LET p == PacketAt(frames, k) IN
         /\ frames[k] = ConnectFrame => p.type = "connect"
         /\ frames[k] = EventFrame(n, id) =>
              p.type = "event" /\ p.id = <<id>> /\ p.data = EventData(n)
         /\ frames[k] = HeadFrame(n, id) /\ n \in WithBuffer /\ frames[k + 1] = BufferFrame(n) =>
              p.type = "binary_event" /\ p.id = <<id>> /\ p.data = EventData(n)
<1> DEFINE p == PacketAt(frames, k)
           d == DecodeString(frames[k].body).packet
           b == [i \in 1 .. d.attachments |-> frames[k + i].body]
<1>1. p = Reconstruct(d, b)
  BY DEF PacketAt
<1> HIDE DEF p
<1>2. CASE frames[k] = ConnectFrame
  <2>1. d = [type |-> "connect", data |-> NoData, id |-> <<>>, attachments |-> 0]
    BY <1>2, SessionDecoded
  <2> HIDE DEF d, b
  <2>2. p.type = d.type
    BY <1>1, <2>1 DEF Reconstruct
  <2>3. ConnectFrame # EventFrame(n, id) /\ ConnectFrame # HeadFrame(n, id)
    BY FrameKinds
  <2> QED
    BY <1>2, <2>1, <2>2, <2>3 DEF p
<1>3. CASE frames[k] = EventFrame(n, id)
  <2>1. d = [type |-> "event", data |-> EventData(n), id |-> <<id>>, attachments |-> 0]
    BY <1>3, TextDecoded
  <2> HIDE DEF d, b
  <2>2. p.type = d.type /\ p.id = d.id /\ p.data = EventData(n)
    BY <1>1, <2>1, ReconstructEvent
  <2>3. EventFrame(n, id) # ConnectFrame /\ EventFrame(n, id) # HeadFrame(n, id)
    BY FrameKinds
  <2> QED
    BY <1>3, <2>1, <2>2, <2>3 DEF p
<1>4. CASE frames[k] = HeadFrame(n, id) /\ n \in WithBuffer /\ frames[k + 1] = BufferFrame(n)
  <2>1. d = [type |-> "binary_event", data |-> Holed(n), id |-> <<id>>, attachments |-> 1]
    BY <1>4, TextDecoded
  <2>2. b[1] = Buffer(n)
    <3>1. d.attachments = 1
      BY <2>1
    <3> HIDE DEF d
    <3> QED
      BY <1>4, <3>1, FrameKinds
  <2> HIDE DEF d, b
  <2>3. p.type = d.type /\ p.id = d.id /\ p.data = EventData(n)
    BY <1>1, <1>4, <2>1, <2>2, ReconstructEvent
  <2>4. HeadFrame(n, id) # ConnectFrame /\ EventFrame(n, id) # HeadFrame(n, id)
    BY FrameKinds
  <2> QED
    BY <1>4, <2>1, <2>3, <2>4 DEF p
<1> QED
  BY <1>2, <1>3, <1>4 DEF p

(* An event of the server of which the binary value is yet to come.        *)
Half(n) == [packet |-> [type |-> "binary_event", data |-> Holed(n), id |-> <<>>,
                        attachments |-> 1],
            buffers |-> <<>>]

(* What r, the outcome of a frame f of the server, is.                     *)
ReadsAs(rec, f, r, n, id) ==
  LET one == r.packets # <<>> /\ r.reconstructor = rec /\ ~r.threw IN
  /\ f = ConnectedFrame => one /\ r.packets[1].type = "connect"
  /\ f = DisconnectFrame => one /\ r.packets[1].type = "disconnect"
  /\ f = AckFrame(n, id) =>
       /\ one /\ r.packets[1].type = "ack" /\ r.packets[1].id = <<id>>
       /\ Number(r.packets[1].data) = n
  /\ f = NewsFrame(n) =>
       one /\ r.packets[1].type = "event" /\ r.packets[1].data = EventData(n)
  /\ f = NewsHead(n) =>
       r.packets = <<>> /\ r.reconstructor = <<Half(n)>> /\ ~r.threw
  /\ f = BufferFrame(n) /\ rec = <<Half(n)>> /\ n \in WithBuffer =>
       /\ r.packets # <<>> /\ r.reconstructor = <<>> /\ ~r.threw
       /\ r.packets[1].type = "binary_event" /\ r.packets[1].data = EventData(n)

(* What the decoder makes of the frames of the server.                     *)
LEMMA FramesDecoded ==
  ASSUME NEW rec, NEW f, NEW n, NEW id
  PROVE  ReadsAs(rec, f, DecoderAdd(rec, f), n, id)
<1> DEFINE r == DecoderAdd(rec, f)
           d == DecodeString(f.body)
<1>0. /\ "connect" \notin BinaryTypes /\ "disconnect" \notin BinaryTypes
      /\ "event" \notin BinaryTypes /\ "ack" \notin BinaryTypes /\ "binary_event" \in BinaryTypes
  BY DEF BinaryTypes
<1>1. ASSUME ~f.binary, d.valid, d.packet.type \notin BinaryTypes
      PROVE  /\ r.packets # <<>> /\ r.reconstructor = rec /\ ~r.threw
             /\ r.packets[1] = d.packet
  <2> DEFINE p == d.packet
  <2>1. r = Decoded(rec, <<p>>)
    BY <1>1 DEF DecoderAdd
  <2> HIDE DEF p, r
  <2>2. <<p>> # <<>> /\ <<p>>[1] = p
    OBVIOUS
  <2>3. r.packets = <<p>> /\ r.reconstructor = rec /\ r.threw = FALSE
    BY <2>1 DEF Decoded
  <2> QED
    BY <2>2, <2>3 DEF p
<1>3. ASSUME f = ConnectedFrame
      PROVE  /\ r.packets # <<>> /\ r.reconstructor = rec /\ ~r.threw
             /\ r.packets[1].type = "connect"
  <2>1. ~f.binary
    BY <1>3, FrameKinds
  <2>3. d.valid /\ d.packet.type = "connect"
    BY <1>3, SessionDecoded
  <2> HIDE DEF r, d
  <2> QED
    BY <1>0, <1>1, <2>1, <2>3
<1>4. ASSUME f = DisconnectFrame
      PROVE  /\ r.packets # <<>> /\ r.reconstructor = rec /\ ~r.threw
             /\ r.packets[1].type = "disconnect"
  <2>1. ~f.binary
    BY <1>4, FrameKinds
  <2>2. d.valid /\ d.packet.type = "disconnect"
    BY <1>4, SessionDecoded
  <2> HIDE DEF r, d
  <2> QED
    BY <1>0, <1>1, <2>1, <2>2
<1>5. ASSUME f = AckFrame(n, id)
      PROVE  /\ r.packets # <<>> /\ r.reconstructor = rec /\ ~r.threw
             /\ r.packets[1].type = "ack" /\ r.packets[1].id = <<id>>
             /\ Number(r.packets[1].data) = n
  <2>1. ~f.binary
    BY <1>5, FrameKinds
  <2>3. /\ d.valid
        /\ d.packet = [type |-> "ack", data |-> Ack(n, id).data, id |-> <<id>>, attachments |-> 0]
    BY <1>5, TextDecoded
  <2>4. Number(Ack(n, id).data) = n
    <3>1. Ack(n, id).data.values = <<Plain(n)>> /\ <<Plain(n)>>[1] = Plain(n) /\ Plain(n).v = n
      BY DEF Ack, PacketOf, Json, Plain
    <3> QED
      BY <3>1 DEF Number
  <2> HIDE DEF r, d
  <2> QED
    BY <1>0, <1>1, <2>1, <2>3, <2>4
<1>6. ASSUME f = NewsFrame(n)
      PROVE  /\ r.packets # <<>> /\ r.reconstructor = rec /\ ~r.threw
             /\ r.packets[1].type = "event" /\ r.packets[1].data = EventData(n)
  <2>1. ~f.binary
    BY <1>6, FrameKinds
  <2>3. /\ d.valid
        /\ d.packet = [type |-> "event", data |-> EventData(n), id |-> <<>>, attachments |-> 0]
    BY <1>6, TextDecoded
  <2> HIDE DEF r, d
  <2> QED
    BY <1>0, <1>1, <2>1, <2>3
<1>7. ASSUME f = NewsHead(n)
      PROVE  r.packets = <<>> /\ r.reconstructor = <<Half(n)>> /\ ~r.threw
  <2> DEFINE h == [type |-> "binary_event", data |-> Holed(n), id |-> <<>>, attachments |-> 1]
  <2>1. ~f.binary
    BY <1>7, FrameKinds
  <2>3. d.valid /\ d.packet = h
    BY <1>7, TextDecoded
  <2>4. h.type = "binary_event" /\ h.attachments = 1
    OBVIOUS
  <2> HIDE DEF h
  <2>5. r = Decoded(<<[packet |-> h, buffers |-> <<>>]>>, <<>>)
    <3> HIDE DEF d
    <3> QED
      BY <1>0, <2>1, <2>3, <2>4 DEF DecoderAdd, d
  <2> QED
    BY <2>5 DEF Half, h, Decoded
<1>8. ASSUME f = BufferFrame(n), rec = <<Half(n)>>, n \in WithBuffer
      PROVE  /\ r.packets # <<>> /\ r.reconstructor = <<>> /\ ~r.threw
             /\ r.packets[1].type = "binary_event" /\ r.packets[1].data = EventData(n)
  <2> DEFINE h == Half(n)
             b == Buffer(n)
             p == Reconstruct(h.packet, <<b>>)
  <2>1. f.binary /\ f.body = b
    BY <1>8, FrameKinds
  <2>2. rec # <<>> /\ rec[1] = h
    BY <1>8
  <2>3. h.packet = [type |-> "binary_event", data |-> Holed(n), id |-> <<>>, attachments |-> 1]
        /\ h.buffers = <<>>
    BY DEF Half
  <2>4. Append(h.buffers, b) = <<b>> /\ Len(<<b>>) = 1 /\ <<b>>[1] = b
    BY <2>3
  <2>5. p.type = "binary_event" /\ p.data = EventData(n)
    <3> DEFINE q == h.packet
               w == <<b>>
    <3>1. DOMAIN q = {"type", "data", "id", "attachments"} /\ q.data = Holed(n)
          /\ q.type = "binary_event" /\ w[1] = b
      BY <2>3, <2>4
    <3> HIDE DEF q, w
    <3> QED
      BY <1>8, <3>1, ReconstructEvent DEF q, w
  <2>6. r = TakeBinaryData(h, b)
    BY <2>1, <2>2 DEF DecoderAdd
  <2> HIDE DEF p, r
  <2>7. r = Decoded(<<>>, <<p>>)
    <3>1. Len(Append(h.buffers, b)) = h.packet.attachments
      BY <2>3, <2>4
    <3> QED
      BY <2>4, <2>6, <3>1 DEF TakeBinaryData, p
  <2>8. <<p>> # <<>> /\ <<p>>[1] = p
    OBVIOUS
  <2>9. r.packets = <<p>> /\ r.reconstructor = <<>> /\ r.threw = FALSE
    BY <2>7 DEF Decoded
  <2> QED
    BY <2>5, <2>8, <2>9
<1> HIDE DEF r
<1>9. ReadsAs(rec, f, r, n, id)
  BY <1>3, <1>4, <1>5, <1>6, <1>7, <1>8 DEF ReadsAs
<1> QED
  BY <1>9 DEF r

-----------------------------------------------------------------------------
(* The third part: what is known of every event, packet and callback.      *)

(* Callback i was registered for event n, and no other event has it.       *)
Knows(c, n, i) ==
  /\ n \in Nat /\ i \in Nat /\ i < c.io.ids
  /\ \A b \in c.io.acks : b.id = i => b.n = n

(* What waits for acknowledgements, and what was acknowledged, is apart.   *)
AcksOK(c, em) ==
  /\ c.io.ids \in Nat
  /\ \A b \in c.io.acks : b.id \in Nat /\ b.id < c.io.ids /\ b.n \in 0 .. em
  /\ \A a, b \in c.io.acks : a.id = b.id \/ (a.n = b.n /\ a.n > 0) => a = b
  /\ IsSequence(c.io.acked)
  /\ \A i \in DOMAIN c.io.acked :
        /\ c.io.acked[i][1] = c.io.acked[i][2] /\ c.io.acked[i][1] \in 1 .. em
        /\ \A b \in c.io.acks : b.n # c.io.acked[i][1]
  /\ \A i, j \in DOMAIN c.io.acked : c.io.acked[i][1] = c.io.acked[j][1] => i = j

(* A packet of the page stands at place k of a log, or the rest of one.    *)
UpFrame(c, log, k) ==
  \/ log[k] = ConnectFrame
  \/ \E n \in WithBuffer : log[k] = BufferFrame(n)
  \/ \E n, i \in Nat : Knows(c, n, i) /\ log[k] = EventFrame(n, i)
  \/ \E n \in WithBuffer, i \in Nat :
        /\ Knows(c, n, i) /\ log[k] = HeadFrame(n, i)
        /\ k < Len(log) /\ log[k + 1] = BufferFrame(n)

UpLog(c, log) == IsSequence(log) /\ \A k \in 1 .. Len(log) : UpFrame(c, log, k)

LogsOK(c) ==
  \A e \in DOMAIN c.engines : /\ UpLog(c, c.engines[e].log)
                              /\ c.engines[e].at \in 0 .. Len(c.engines[e].log)

(* The same of what is on its way to the page.                             *)
DownFrame(c, down, k, dn) ==
  \/ down[k] = ConnectedFrame \/ down[k] = DisconnectFrame
  \/ \E n, i \in Nat : Knows(c, n, i) /\ down[k] = AckFrame(n, i)
  \/ \E n \in 1 .. dn : down[k] = NewsFrame(n)
  \/ \E n \in WithBuffer : /\ n \in 1 .. dn /\ down[k] = NewsHead(n)
                           /\ k < Len(down) /\ down[k + 1] = BufferFrame(n)
  \/ \E n \in WithBuffer : /\ down[k] = BufferFrame(n)
                           /\ k > 1 => down[k - 1] = NewsHead(n)

DownList(c, down, dn) ==
  IsSequence(down) /\ \A k \in 1 .. Len(down) : DownFrame(c, down, k, dn)

DownsOK(c, dn) == \A e \in DOMAIN c.engines : DownList(c, c.engines[e].down, dn)

(* A connection that opens has carried nothing, one that has ended carries *)
(* nothing.                                                                *)
EndsOK(c) ==
  \A e \in DOMAIN c.engines :
     /\ c.engines[e].state = "opening" => c.engines[e].log = <<>>
     /\ c.engines[e].state \in {"opening", "closed"} =>
           c.engines[e].down = <<>> /\ c.engines[e].srv = "none"

(* What comes next is what the decoder waits for.                          *)
Follows(c, dn) ==
  LET down == Newest(c).down IN
  \/ c.io.reconstructor = <<>> /\ (down # <<>> => ~down[1].binary)
  \/ \E n \in WithBuffer : /\ n \in 1 .. dn /\ c.io.reconstructor = <<Half(n)>>
                           /\ down # <<>> /\ down[1] = BufferFrame(n)

Hearing(c) == Newest(c).hears = "data" /\ Newest(c).state # "closed"

PhaseOK(c, dn) ==
  /\ Hearing(c) => Follows(c, dn)
  /\ c.io.connected => Running(c)
  /\ c.io.connected /\ ~c.io.aborted => c.io.sendBuffer = <<>> /\ c.io.receiveBuffer = <<>>

(* The number of an event of the server, from its first frame.             *)
IsNews(f) == ~f.binary /\ f.body[1].value \in {"event", "binary_event"}
NewsNumber(f) == Number(DecodeString(f.body).packet.data)

IsNewsData(data, dn) == \E n \in 1 .. dn : data = EventData(n)

(* What was heard, what waits to be heard and what is on its way follow    *)
(* each other.                                                             *)
HeardOK(c, dn) ==
  /\ IsSequence(c.io.heard) /\ c.io.misread = FALSE
  /\ \A i \in DOMAIN c.io.heard : IsNewsData(c.io.heard[i], dn)
  /\ \A i \in DOMAIN c.io.receiveBuffer : IsNewsData(c.io.receiveBuffer[i], dn)

Before(A, B) == \A x \in A : \A y \in B : x < y
Rises(s) == \A i, j \in DOMAIN s : i < j => Number(s[i]) < Number(s[j])
NumbersOf(s) == {Number(s[i]) : i \in DOMAIN s}

Coming(down) == {NewsNumber(down[k]) : k \in {l \in DOMAIN down : IsNews(down[l])}}
NewsRises(down) ==
  \A k, l \in DOMAIN down :
     IsNews(down[k]) /\ IsNews(down[l]) /\ k < l => NewsNumber(down[k]) < NewsNumber(down[l])

HalfRead(c) == IF Hearing(c) /\ c.io.reconstructor # <<>>
               THEN {Number(c.io.reconstructor[1].packet.data)} ELSE {}

OrderOK(c) ==
  LET came == NumbersOf(c.io.heard)
      waits == NumbersOf(c.io.receiveBuffer)
      comes == Coming(Newest(c).down)
  IN  /\ Rises(c.io.heard) /\ Rises(c.io.receiveBuffer) /\ NewsRises(Newest(c).down)
      /\ Before(came, waits) /\ Before(came, HalfRead(c)) /\ Before(came, comes)
      /\ Before(waits, HalfRead(c)) /\ Before(waits, comes) /\ Before(HalfRead(c), comes)

(* What each connection was given is numbered on from where the one before *)
(* it ends, and what waits to be sent from there.                          *)
Carried(log) == Clicks(PacketsOf(log))

Tally(c, base) ==
  /\ base \in [1 .. Len(c.engines) + 1 -> Nat] /\ base[1] = 0
  /\ \A e \in 1 .. Len(c.engines) :
        LET s == Carried(c.engines[e].log) IN
        /\ IsSequence(s) /\ base[e + 1] = base[e] + Len(s)
        /\ \A i \in 1 .. Len(s) : s[i] = EventData(base[e] + i)

Waits(c) ==
  \A k \in DOMAIN c.io.sendBuffer :
     \E n, i \in Nat : n > 0 /\ Knows(c, n, i) /\ c.io.sendBuffer[k] = Event(n, i)

GivenOK(c, em) ==
  \E base \in [1 .. Len(c.engines) + 1 -> Nat] :
     LET done == base[Len(c.engines) + 1] IN
     /\ Tally(c, base) /\ done + Len(c.io.sendBuffer) = em
     /\ \A k \in DOMAIN c.io.sendBuffer :
           \E i \in Nat : c.io.sendBuffer[k] = Event(done + k, i)

Data(c, em, dn) ==
  /\ em \in Nat /\ dn \in Nat
  /\ AcksOK(c, em) /\ LogsOK(c) /\ DownsOK(c, dn) /\ EndsOK(c) /\ PhaseOK(c, dn)
  /\ HeardOK(c, dn) /\ Waits(c)
  /\ ~c.io.aborted => OrderOK(c) /\ GivenOK(c, em)

(* The attempts since the last connection that opened, and two flags.      *)
Bounds(c) ==
  /\ c.io.reconnecting \in BOOLEAN /\ c.io.connected \in BOOLEAN
  /\ c.io.attempts \in Nat
  /\ Running(c) \/ Finished(c) => c.io.attempts = 0
  /\ Opening(c) => c.io.attempts < Len(c.engines)
  /\ Waiting(c) => c.io.attempts <= Len(c.engines)

(* Lists one after the other, and a list without its first thing.          *)
LEMMA Joined ==
  ASSUME NEW s, IsSequence(s), NEW t, IsSequence(t)
  PROVE  /\ IsSequence(s \o t) /\ Len(s) \in Nat /\ Len(t) \in Nat
         /\ Len(s \o t) = Len(s) + Len(t)
         /\ DOMAIN s = 1 .. Len(s) /\ DOMAIN t = 1 .. Len(t)
         /\ DOMAIN (s \o t) = 1 .. Len(s) + Len(t)
         /\ \A i \in 1 .. Len(s) : (s \o t)[i] = s[i]
         /\ \A i \in 1 .. Len(t) : (s \o t)[Len(s) + i] = t[i]
  BY DEF IsSequence

(* What stands at a place of two lists put together.                       *)
LEMMA JoinedAt ==
  ASSUME NEW s, IsSequence(s), NEW t, IsSequence(t)
  PROVE  /\ Len(s) \in Nat /\ Len(t) \in Nat
         /\ \A k \in 1 .. Len(s) + Len(t) :
               (s \o t)[k] = IF k <= Len(s) THEN s[k] ELSE t[k - Len(s)]
  BY DEF IsSequence

(* A list without its first element.                                       *)
LEMMA TailFacts ==
  ASSUME NEW s, IsSequence(s), s # <<>>
  PROVE  /\ Len(s) \in Nat /\ Len(s) > 0 /\ Head(s) = s[1] /\ DOMAIN s = 1 .. Len(s)
         /\ IsSequence(Tail(s)) /\ Len(Tail(s)) = Len(s) - 1
         /\ DOMAIN Tail(s) = 1 .. Len(s) - 1
         /\ \A i \in 1 .. Len(s) - 1 : Tail(s)[i] = s[i + 1]
  BY DEF IsSequence

(* Loops that do the same are the same.                                    *)
LEMMA LoopsAgree ==
  ASSUME NEW kind, NEW other, NEW c, NEW s, NEW t, NEW n \in Nat, NEW r, NEW q,
         Loop(r, kind, c, s, n), Loop(q, other, c, t, n),
         \A k \in 1 .. n : \A a : Handle(kind, a, s[k]) = Handle(other, a, t[k])
  PROVE  r[n] = q[n]
<1> DEFINE T == {k \in 0 .. n : r[k] = q[k]}
<1>1. 0 \in T
  BY DEF Loop
<1>2. ASSUME NEW k \in 0 .. n - 1, k \in T
      PROVE  k + 1 \in T
  <2>1. k + 1 \in 1 .. n /\ k + 1 \in 0 .. n /\ (k + 1) - 1 = k
    OBVIOUS
  <2>2. r[k + 1] = Handle(kind, r[k], s[k + 1])
    BY <2>1 DEF Loop
  <2>3. q[k + 1] = Handle(other, q[k], t[k + 1])
    BY <2>1 DEF Loop
  <2>4. r[k] = q[k]
    BY <1>2
  <2> QED
    BY <2>1, <2>2, <2>3, <2>4
<1>3. 0 .. n \subseteq T
  <2> HIDE DEF T
  <2> QED
    BY <1>1, <1>2, Induction
<1> QED
  BY <1>3

(* A loop over more things begins as the loop over the first of them.      *)
LEMMA LoopPrefix ==
  ASSUME NEW kind, NEW c, NEW s, NEW n \in Nat, NEW m \in Nat, NEW r,
         Loop(r, kind, c, s, n + m)
  PROVE  /\ Loop(r, kind, c, s, n)
         /\ \A k \in 1 .. m : r[n + k] = Handle(kind, r[n + k - 1], s[n + k])
<1>1. \A k \in 1 .. n : k \in 1 .. n + m
  OBVIOUS
<1>2. \A k \in 1 .. m : n + k \in 1 .. n + m
  OBVIOUS
<1> QED
  BY <1>1, <1>2 DEF Loop

(* A loop that begins with no things, and adds some, makes a list.         *)
LEMMA LoopMakesList ==
  ASSUME NEW kind, NEW c, IsSequence(c), NEW s, NEW n \in Nat, NEW r,
         Loop(r, kind, c, s, n),
         \A a, x : IsSequence(a) => IsSequence(Handle(kind, a, x))
  PROVE  IsSequence(r[n])
<1> DEFINE T == {k \in 0 .. n : IsSequence(r[k])}
<1>1. 0 \in T
  BY DEF Loop
<1>2. ASSUME NEW k \in 0 .. n - 1, k \in T
      PROVE  k + 1 \in T
  <2>1. k + 1 \in 1 .. n /\ k + 1 \in 0 .. n /\ (k + 1) - 1 = k
    OBVIOUS
  <2>2. r[k + 1] = Handle(kind, r[k], s[k + 1])
    BY <2>1 DEF Loop
  <2> QED
    BY <1>2, <2>1, <2>2
<1>3. 0 .. n \subseteq T
  <2> HIDE DEF T
  <2> QED
    BY <1>1, <1>2, Induction
<1> QED
  BY <1>3

(* The clicks among the packets with one more.                             *)
LEMMA ClicksAppend ==
  ASSUME NEW s, IsSequence(s), NEW x
  PROVE  /\ IsSequence(Clicks(s))
         /\ Clicks(Append(s, x)) = IF IsClick(x) THEN Append(Clicks(s), x.data) ELSE Clicks(s)
<1> DEFINE n == Len(s)
           t == Append(s, x)
           z == <<>>
<1>1. /\ n \in Nat /\ DOMAIN s = 1 .. n /\ DOMAIN t = 1 .. n + 1
      /\ t[n + 1] = x /\ \A i \in 1 .. n : t[i] = s[i]
  BY SequenceAppend
<1>2. z = <<>> /\ IsSequence(z)
  BY DEF IsSequence
<1> HIDE DEF n, t, z
<1>3. PICK q : Loop(q, Clicked, z, s, n) /\ Clicks(s) = q[n]
  BY <1>1, <1>2, ClicksLoop
<1>4. n + 1 \in Nat /\ 1 \in Nat /\ n + 1 - 1 = n
  BY <1>1
<1>5. PICK r : Loop(r, Clicked, z, t, n + 1) /\ Clicks(t) = r[n + 1]
  BY <1>1, <1>2, <1>4, ClicksLoop
<1>6. Loop(r, Clicked, z, t, n) /\ r[n + 1] = Handle(Clicked, r[n], t[n + 1])
  BY <1>1, <1>4, <1>5, LoopPrefix
<1>7. \A k \in 1 .. n : \A a : Handle(Clicked, a, t[k]) = Handle(Clicked, a, s[k])
  BY <1>1
<1>8. r[n] = q[n]
  BY <1>1, <1>3, <1>6, <1>7, LoopsAgree
<1>9. \A a, y : Handle(Clicked, a, y) = IF IsClick(y) THEN Append(a, y.data) ELSE a
  BY DEF Handle, Clicked
<1>10. IsSequence(Clicks(s))
  <2>1. ASSUME NEW a, NEW y, IsSequence(a)
        PROVE  IsSequence(Handle(Clicked, a, y))
    <3>1. IsSequence(Append(a, y.data))
      BY <2>1, SequenceAppend
    <3> QED
      BY <1>9, <2>1, <3>1
  <2> QED
    BY <1>1, <1>2, <1>3, <2>1, LoopMakesList
<1> QED
  BY <1>1, <1>3, <1>5, <1>6, <1>8, <1>9, <1>10 DEF t

(* The other side's packets among the frames with those of one more.       *)
LEMMA PacketsAppend ==
  ASSUME NEW s, IsSequence(s), NEW t, IsSequence(t), NEW m \in {1, 2},
         Len(t) = Len(s) + m, \A k \in 1 .. Len(s) : t[k] = s[k],
         \A k \in 1 .. Len(s) : ~s[k].binary => PacketAt(t, k) = PacketAt(s, k),
         ~t[Len(s) + 1].binary, m = 2 => t[Len(s) + 2].binary
  PROVE  /\ IsSequence(PacketsOf(s))
         /\ PacketsOf(t) = Append(PacketsOf(s), PacketAt(t, Len(s) + 1))
<1> DEFINE n == Len(s)
           w == n + m
           z == <<>>
           before == [k \in 1 .. n |-> k]
           after == [k \in 1 .. w |-> k]
<1>1. n \in Nat /\ DOMAIN s = 1 .. n /\ DOMAIN t = 1 .. w /\ w \in Nat /\ m \in Nat
      /\ Len(s) = n
  BY DEF IsSequence
<1>2. z = <<>> /\ IsSequence(z)
  BY DEF IsSequence
<1>3. /\ \A k \in 1 .. n : before[k] = k /\ after[k] = k
      /\ after[n + 1] = n + 1 /\ (m = 2 => after[n + 2] = n + 2)
  BY <1>1
<1>0. w = n + m
  OBVIOUS
<1> HIDE DEF n, z, w
<1>4. PICK q : Loop(q, Read(s), z, before, n) /\ PacketsOf(s) = q[n]
  BY <1>1, <1>2, PacketsLoop, SMTT(30)
<1>5. PICK r : Loop(r, Read(t), z, after, w) /\ PacketsOf(t) = r[w]
  <2>1. w \in Nat /\ DOMAIN t = 1 .. w /\ z = <<>>
    BY <1>1, <1>2
  <2> QED
    BY <2>1, PacketsLoop
<1> HIDE DEF before, after
<1>6. \A f, a, k : Handle(Read(f), a, k) = IF f[k].binary THEN a ELSE Append(a, PacketAt(f, k))
  BY DEF Handle, Read
<1>7. /\ Loop(r, Read(t), z, after, n)
      /\ \A k \in 1 .. m : r[n + k] = Handle(Read(t), r[n + k - 1], after[n + k])
  <2>1. Loop(r, Read(t), z, after, n + m)
    BY <1>0, <1>5
  <2>2. \A k \in 1 .. n : k \in 1 .. n + m
    BY <1>1
  <2>3. \A k \in 1 .. m : n + k \in 1 .. n + m
    BY <1>1
  <2>4. /\ r[0] = z
        /\ \A k \in 1 .. n + m : r[k] = Handle(Read(t), r[k - 1], after[k])
    BY <2>1 DEF Loop
  <2>5. Loop(r, Read(t), z, after, n)
    BY <2>2, <2>4 DEF Loop
  <2>6. ASSUME NEW k \in 1 .. m
        PROVE  r[n + k] = Handle(Read(t), r[n + k - 1], after[n + k])
    <3> DEFINE j == n + k
    <3>1. j \in 1 .. n + m
      BY <2>3
    <3> HIDE DEF j
    <3>2. r[j] = Handle(Read(t), r[j - 1], after[j])
      BY <2>4, <3>1
    <3>3. j - 1 = n + k - 1
      BY <1>1 DEF j
    <3> QED
      BY <3>2, <3>3 DEF j
  <2> QED
    BY <2>5, <2>6
<1>8. ASSUME NEW k \in 1 .. n, NEW a
      PROVE  Handle(Read(t), a, after[k]) = Handle(Read(s), a, before[k])
  <2>1. t[k] = s[k] /\ (~s[k].binary => PacketAt(t, k) = PacketAt(s, k))
    BY <1>1
  <2>2. after[k] = k /\ before[k] = k
    BY <1>3
  <2>3. /\ Handle(Read(t), a, k) = IF t[k].binary THEN a ELSE Append(a, PacketAt(t, k))
        /\ Handle(Read(s), a, k) = IF s[k].binary THEN a ELSE Append(a, PacketAt(s, k))
    BY <1>6
  <2> QED
    BY <2>1, <2>2, <2>3, Zenon
<1>9. r[n] = q[n]
  BY <1>1, <1>4, <1>7, <1>8, LoopsAgree
<1>10. r[n + 1] = Append(q[n], PacketAt(t, n + 1))
  <2>1. r[n + 1] = Handle(Read(t), r[n], after[n + 1])
    <3>1. 1 \in 1 .. m /\ n + 1 - 1 = n
      BY <1>1
    <3> QED
      BY <1>7, <3>1
  <2> QED
    BY <1>1, <1>3, <1>6, <1>9, <2>1
<1>11. r[w] = r[n + 1]
  <2>1. CASE m = 1
    BY <1>0, <2>1
  <2>2. CASE m = 2
    <3>1. 2 \in 1 .. m /\ n + 2 - 1 = n + 1
      BY <1>1, <2>2
    <3>2. r[n + 2] = Handle(Read(t), r[n + 1], after[n + 2])
      BY <1>7, <3>1
    <3> QED
      BY <1>0, <1>1, <1>3, <1>6, <2>2, <3>2
  <2> QED
    BY <2>1, <2>2
<1>12. IsSequence(PacketsOf(s))
  <2>1. ASSUME NEW a, NEW k, IsSequence(a)
        PROVE  IsSequence(Handle(Read(s), a, k))
    <3>1. IsSequence(Append(a, PacketAt(s, k)))
      BY <2>1, SequenceAppend
    <3>2. Handle(Read(s), a, k) = IF s[k].binary THEN a ELSE Append(a, PacketAt(s, k))
      BY <1>6
    <3> QED
      BY <2>1, <3>1, <3>2, Zenon
  <2> QED
    BY <1>1, <1>2, <1>4, <2>1, LoopMakesList
<1> QED
  BY <1>1, <1>4, <1>5, <1>10, <1>11, <1>12

(* Nothing was carried by a connection that opens.                         *)
LEMMA CarriedNothing ==
  /\ PacketsOf(<<>>) = <<>> /\ Clicks(<<>>) = <<>> /\ Carried(<<>>) = <<>>
<1> DEFINE z == <<>>
<1>1. z = <<>> /\ DOMAIN z = 1 .. 0 /\ 0 \in Nat
  OBVIOUS
<1> HIDE DEF z
<1>2. PICK q : Loop(q, Clicked, z, z, 0) /\ Clicks(z) = q[0]
  BY <1>1, ClicksLoop
<1>3. PICK r : Loop(r, Read(z), z, [k \in 1 .. 0 |-> k], 0) /\ PacketsOf(z) = r[0]
  BY <1>1, PacketsLoop
<1> QED
  BY <1>1, <1>2, <1>3 DEF Loop, Carried

(* What is known of callbacks stays known.                                 *)
StillKnows(c, d) == \A n, i \in Nat : Knows(c, n, i) => Knows(d, n, i)

(* A frame of the page stays one where what follows it stays.              *)
LEMMA UpFrameKept ==
  ASSUME NEW c, NEW d, StillKnows(c, d), NEW s, NEW t, NEW k \in Nat, UpFrame(c, s, k),
         t[k] = s[k], k < Len(s) => k < Len(t) /\ t[k + 1] = s[k + 1]
  PROVE  UpFrame(d, t, k)
<1>1. CASE s[k] = ConnectFrame
  BY <1>1 DEF UpFrame
<1>2. CASE \E n \in WithBuffer : s[k] = BufferFrame(n)
  BY <1>2 DEF UpFrame
<1>3. CASE \E n, i \in Nat : Knows(c, n, i) /\ s[k] = EventFrame(n, i)
  <2>1. PICK n, i \in Nat : Knows(c, n, i) /\ s[k] = EventFrame(n, i)
    BY <1>3
  <2>2. Knows(d, n, i) /\ t[k] = EventFrame(n, i)
    BY <2>1 DEF StillKnows
  <2> QED
    BY <2>2 DEF UpFrame
<1>4. CASE \E n \in WithBuffer, i \in Nat :
             /\ Knows(c, n, i) /\ s[k] = HeadFrame(n, i)
             /\ k < Len(s) /\ s[k + 1] = BufferFrame(n)
  <2>1. PICK n \in WithBuffer, i \in Nat :
             /\ Knows(c, n, i) /\ s[k] = HeadFrame(n, i)
             /\ k < Len(s) /\ s[k + 1] = BufferFrame(n)
    BY <1>4
  <2>2. n \in Nat
    BY SocketIOAssumption
  <2>3. /\ Knows(d, n, i) /\ t[k] = HeadFrame(n, i)
        /\ k < Len(t) /\ t[k + 1] = BufferFrame(n)
    BY <2>1, <2>2 DEF StillKnows
  <2> QED
    BY <2>3 DEF UpFrame
<1> QED
  BY <1>1, <1>2, <1>3, <1>4 DEF UpFrame

(* A log is as good when more callbacks are known.                         *)
LEMMA UpLogKept ==
  ASSUME NEW c, NEW d, StillKnows(c, d), NEW s, UpLog(c, s)
  PROVE  UpLog(d, s)
<1>1. ASSUME NEW k \in 1 .. Len(s)
      PROVE  UpFrame(d, s, k)
  <2>1. UpFrame(c, s, k) /\ k \in Nat
    BY DEF UpLog, IsSequence
  <2> QED
    BY <2>1, UpFrameKept
<1> QED
  BY <1>1 DEF UpLog

(* One frame, or two, are a list.                                          *)
LEMMA OneOrTwo ==
  ASSUME NEW a, NEW b
  PROVE  /\ DOMAIN <<a>> = 1 .. 1 /\ DOMAIN <<a, b>> = 1 .. 2
         /\ IsSequence(<<a>>) /\ Len(<<a>>) = 1 /\ <<a>>[1] = a
         /\ IsSequence(<<a, b>>) /\ Len(<<a, b>>) = 2 /\ <<a, b>>[1] = a /\ <<a, b>>[2] = b
<1>1. DOMAIN <<a>> = 1 .. 1 /\ DOMAIN <<a, b>> = 1 .. 2 /\ 1 \in Nat /\ 2 \in Nat
  OBVIOUS
<1> QED
  BY <1>1 DEF IsSequence

(* The frames of the packets of the page, one after the others.            *)
LEMMA UpLogMore ==
  ASSUME NEW c, NEW s, UpLog(c, s)
  PROVE  /\ UpLog(c, s \o Encode(Connect))
         /\ \A n, i \in Nat : Knows(c, n, i) => UpLog(c, s \o Encode(Event(n, i)))
<1>0. StillKnows(c, c) /\ IsSequence(s) /\ \A k \in 1 .. Len(s) : UpFrame(c, s, k)
  BY DEF StillKnows, UpLog
<1>1. ASSUME NEW u, IsSequence(u),
             \A j \in 1 .. Len(u) : UpFrame(c, s \o u, Len(s) + j)
      PROVE  UpLog(c, s \o u)
  <2> DEFINE t == s \o u
  <2>1. /\ IsSequence(t) /\ Len(s) \in Nat /\ Len(u) \in Nat /\ Len(t) = Len(s) + Len(u)
        /\ \A k \in 1 .. Len(s) : t[k] = s[k]
    BY <1>0, <1>1, Joined
  <2>2. \A j \in 1 .. Len(u) : UpFrame(c, t, Len(s) + j)
    BY <1>1
  <2> HIDE DEF t
  <2>3. ASSUME NEW k \in 1 .. Len(s)
        PROVE  UpFrame(c, t, k)
    <3>1. k \in Nat /\ t[k] = s[k] /\ UpFrame(c, s, k)
          /\ (k < Len(s) => k < Len(t) /\ t[k + 1] = s[k + 1])
      BY <1>0, <2>1
    <3> QED
      BY <1>0, <3>1, UpFrameKept
  <2>4. ASSUME NEW k \in 1 .. Len(t)
        PROVE  UpFrame(c, t, k)
    <3>1. k \in 1 .. Len(s) \/ (k - Len(s) \in 1 .. Len(u) /\ Len(s) + (k - Len(s)) = k)
      BY <2>1
    <3> QED
      BY <2>2, <2>3, <3>1
  <2>5. UpLog(c, t)
    BY <2>1, <2>4 DEF UpLog
  <2> QED
    BY <2>5 DEF t
<1>2. ASSUME NEW a, a = ConnectFrame \/ \E n, i \in Nat : Knows(c, n, i) /\ a = EventFrame(n, i)
      PROVE  UpLog(c, s \o <<a>>)
  <2> DEFINE u == <<a>>
             t == s \o u
  <2>1. IsSequence(u) /\ Len(u) = 1 /\ u[1] = a
    BY OneOrTwo
  <2> HIDE DEF u
  <2>2. t[Len(s) + 1] = a
    <3>1. \A j \in 1 .. Len(u) : t[Len(s) + j] = u[j]
      <4>1. /\ Len(s) \in Nat /\ Len(u) \in Nat
            /\ \A k \in 1 .. Len(s) + Len(u) :
                  t[k] = IF k <= Len(s) THEN s[k] ELSE u[k - Len(s)]
        BY <1>0, <2>1, JoinedAt
      <4> HIDE DEF t
      <4> QED
        BY <4>1
    <3>2. 1 \in 1 .. Len(u)
      BY <2>1
    <3> HIDE DEF t
    <3> QED
      BY <2>1, <3>1, <3>2
  <2> HIDE DEF t
  <2>3. UpFrame(c, t, Len(s) + 1)
    BY <1>2, <2>2 DEF UpFrame
  <2>4. \A j \in 1 .. Len(u) : UpFrame(c, t, Len(s) + j)
    BY <2>1, <2>3
  <2> QED
    BY <1>1, <2>1, <2>4 DEF t, u
<1>3. ASSUME NEW n \in Nat, NEW i \in Nat, Knows(c, n, i), n \in WithBuffer
      PROVE  UpLog(c, s \o <<HeadFrame(n, i), BufferFrame(n)>>)
  <2> DEFINE a == HeadFrame(n, i)
             b == BufferFrame(n)
             u == <<a, b>>
             t == s \o u
  <2>1. IsSequence(u) /\ Len(u) = 2 /\ u[1] = a /\ u[2] = b
    BY OneOrTwo
  <2> HIDE DEF u
  <2>2. t[Len(s) + 1] = a /\ t[Len(s) + 2] = b /\ Len(t) = Len(s) + 2 /\ Len(s) \in Nat
    <3>1. \A j \in 1 .. Len(u) : t[Len(s) + j] = u[j]
      <4>1. /\ Len(s) \in Nat /\ Len(u) \in Nat
            /\ \A k \in 1 .. Len(s) + Len(u) :
                  t[k] = IF k <= Len(s) THEN s[k] ELSE u[k - Len(s)]
        BY <1>0, <2>1, JoinedAt
      <4> HIDE DEF t
      <4> QED
        BY <4>1
    <3>2. Len(t) = Len(s) + Len(u) /\ Len(s) \in Nat
      BY <1>0, <2>1, Joined
    <3>3. 1 \in 1 .. Len(u) /\ 2 \in 1 .. Len(u)
      BY <2>1
    <3> HIDE DEF t
    <3> QED
      BY <2>1, <3>1, <3>2, <3>3
  <2> HIDE DEF t
  <2>3. UpFrame(c, t, Len(s) + 1)
    <3>1. Len(s) + 1 < Len(t) /\ (Len(s) + 1) + 1 = Len(s) + 2
      BY <2>2
    <3> QED
      BY <1>3, <2>2, <3>1 DEF UpFrame
  <2>4. UpFrame(c, t, Len(s) + 2)
    BY <1>3, <2>2 DEF UpFrame
  <2>5. ASSUME NEW j \in 1 .. Len(u)
        PROVE  UpFrame(c, t, Len(s) + j)
    <3>1. j = 1 \/ j = 2
      BY <2>1
    <3> QED
      BY <2>3, <2>4, <3>1
  <2> QED
    BY <1>1, <2>1, <2>5 DEF t, u
<1>4. UpLog(c, s \o Encode(Connect))
  BY <1>2, EncodeOthers
<1>5. ASSUME NEW n \in Nat, NEW i \in Nat, Knows(c, n, i)
      PROVE  UpLog(c, s \o Encode(Event(n, i)))
  <2>1. CASE n \notin WithBuffer
    <3>1. UpLog(c, s \o <<EventFrame(n, i)>>)
      BY <1>2, <1>5
    <3> QED
      BY <2>1, <3>1, EncodeEvent
  <2>2. CASE n \in WithBuffer
    <3>1. UpLog(c, s \o <<HeadFrame(n, i), BufferFrame(n)>>)
      BY <1>3, <1>5, <2>2
    <3> QED
      BY <2>2, <3>1, EncodeEvent
  <2> QED
    BY <2>1, <2>2
<1> QED
  BY <1>4, <1>5

(* A packet of the page is the same one when more is written behind it.    *)
LEMMA PacketKept ==
  ASSUME NEW c, NEW s, NEW t, NEW k \in Nat, UpFrame(c, s, k), ~s[k].binary,
         t[k] = s[k], k < Len(s) => t[k + 1] = s[k + 1]
  PROVE  PacketAt(t, k) = PacketAt(s, k)
<1> DEFINE d == DecodeString(s[k].body).packet
<1>1. /\ PacketAt(s, k) = Reconstruct(d, [i \in 1 .. d.attachments |-> s[k + i].body])
      /\ PacketAt(t, k) = Reconstruct(d, [i \in 1 .. d.attachments |-> t[k + i].body])
  BY DEF PacketAt
<1>2. CASE d.attachments = 0
  <2> HIDE DEF d
  <2>1. \A i \in 1 .. d.attachments : FALSE
    BY <1>2
  <2>2. [i \in 1 .. d.attachments |-> s[k + i].body] = [i \in 1 .. d.attachments |-> t[k + i].body]
    BY <2>1
  <2> QED
    BY <1>1, <2>2
<1>3. CASE d.attachments = 1 /\ k < Len(s)
  <2> HIDE DEF d
  <2>1. \A i \in 1 .. d.attachments : t[k + i] = s[k + i]
    BY <1>3
  <2>2. [i \in 1 .. d.attachments |-> s[k + i].body] = [i \in 1 .. d.attachments |-> t[k + i].body]
    BY <2>1
  <2> QED
    BY <1>1, <2>2
<1>4. d.attachments = 0 \/ (d.attachments = 1 /\ k < Len(s))
  <2>1. CASE s[k] = ConnectFrame
    <3>1. d = [type |-> "connect", data |-> NoData, id |-> <<>>, attachments |-> 0]
      BY <2>1, SessionDecoded
    <3> HIDE DEF d
    <3> QED
      BY <3>1
  <2>2. ASSUME NEW n \in WithBuffer, s[k] = BufferFrame(n)
        PROVE  FALSE
    BY <2>2, FrameKinds
  <2>3. ASSUME NEW n, NEW i, s[k] = EventFrame(n, i)
        PROVE  d.attachments = 0
    <3>1. d = [type |-> "event", data |-> EventData(n), id |-> <<i>>, attachments |-> 0]
      BY <2>3, TextDecoded
    <3> HIDE DEF d
    <3> QED
      BY <3>1
  <2>4. ASSUME NEW n, NEW i, s[k] = HeadFrame(n, i)
        PROVE  d.attachments = 1
    <3>1. d = [type |-> "binary_event", data |-> Holed(n), id |-> <<i>>, attachments |-> 1]
      BY <2>4, TextDecoded
    <3> HIDE DEF d
    <3> QED
      BY <3>1
  <2> HIDE DEF d
  <2> QED
    BY <2>1, <2>2, <2>3, <2>4 DEF UpFrame
<1> QED
  BY <1>2, <1>3, <1>4

(* What a log has carried with one packet more.                            *)
LEMMA CarriedNext ==
  ASSUME NEW c, NEW s, UpLog(c, s), NEW u, IsSequence(u), NEW m \in {1, 2}, Len(u) = m,
         ~u[1].binary, m = 2 => u[2].binary
  PROVE  LET x == PacketAt(s \o u, Len(s) + 1) IN
         /\ IsSequence(Carried(s))
         /\ Carried(s \o u) = IF IsClick(x) THEN Append(Carried(s), x.data) ELSE Carried(s)
<1> DEFINE t == s \o u
           x == PacketAt(t, Len(s) + 1)
<1>1. /\ IsSequence(s) /\ IsSequence(t) /\ Len(t) = Len(s) + m /\ Len(s) \in Nat
      /\ \A k \in 1 .. Len(s) : t[k] = s[k]
  <2>1. IsSequence(s)
    BY DEF UpLog
  <2>2. IsSequence(t) /\ Len(s) \in Nat /\ Len(t) = Len(s) + Len(u)
    BY <2>1, Joined
  <2>3. \A k \in 1 .. Len(s) : t[k] = s[k]
    <3>1. /\ Len(s) \in Nat /\ Len(u) \in Nat
          /\ \A k \in 1 .. Len(s) + Len(u) : t[k] = IF k <= Len(s) THEN s[k] ELSE u[k - Len(s)]
      BY <2>1, JoinedAt
    <3> HIDE DEF t
    <3> QED
      BY <3>1
  <2> QED
    BY <2>1, <2>2, <2>3
<1>2. t[Len(s) + 1] = u[1] /\ (m = 2 => t[Len(s) + 2] = u[2])
  <2>1. \A k \in 1 .. Len(s) + Len(u) : t[k] = IF k <= Len(s) THEN s[k] ELSE u[k - Len(s)]
    BY <1>1, JoinedAt
  <2> HIDE DEF t
  <2> QED
    BY <1>1, <2>1
<1> HIDE DEF t, x
<1>3. ASSUME NEW k \in 1 .. Len(s), ~s[k].binary
      PROVE  PacketAt(t, k) = PacketAt(s, k)
  <2>1. k \in Nat /\ UpFrame(c, s, k) /\ t[k] = s[k] /\ (k < Len(s) => t[k + 1] = s[k + 1])
    BY <1>1 DEF UpLog
  <2> QED
    BY <1>3, <2>1, PacketKept
<1>4. IsSequence(PacketsOf(s)) /\ PacketsOf(t) = Append(PacketsOf(s), x)
  <2>1. ~t[Len(s) + 1].binary /\ (m = 2 => t[Len(s) + 2].binary)
    BY <1>2
  <2>2. /\ IsSequence(PacketsOf(s))
        /\ PacketsOf(t) = Append(PacketsOf(s), PacketAt(t, Len(s) + 1))
    BY <1>1, <1>3, <2>1, PacketsAppend
  <2> QED
    BY <2>2 DEF x
<1>5. /\ IsSequence(Carried(s))
      /\ Carried(t) = IF IsClick(x) THEN Append(Carried(s), x.data) ELSE Carried(s)
  BY <1>4, ClicksAppend DEF Carried
<1> QED
  BY <1>5 DEF t, x

(* The packets that the page writes.                                       *)
LEMMA CarriedMore ==
  ASSUME NEW c, NEW s, UpLog(c, s)
  PROVE  /\ IsSequence(Carried(s))
         /\ Carried(s \o Encode(Connect)) = Carried(s)
         /\ \A n \in Nat : \A i :
              Carried(s \o Encode(Event(n, i))) =
                IF n > 0 THEN Append(Carried(s), EventData(n)) ELSE Carried(s)
<1>1. Len(s) \in Nat /\ IsSequence(s)
  BY DEF UpLog, IsSequence
<1>2. \A p : p.type = "connect" => ~IsClick(p)
  BY DEF IsClick
<1>3. \A n, p : p.type \in {"event", "binary_event"} /\ p.data = EventData(n) =>
                   (IsClick(p) <=> n > 0)
  BY EventValues DEF IsClick
<1>4. /\ IsSequence(Carried(s)) /\ Carried(s \o Encode(Connect)) = Carried(s)
  <2> DEFINE a == ConnectFrame
             u == <<a>>
             t == s \o u
             x == PacketAt(t, Len(s) + 1)
  <2>1. IsSequence(u) /\ Len(u) = 1 /\ u[1] = a /\ ~u[1].binary
    BY OneOrTwo, FrameKinds
  <2>2. Encode(Connect) = u
    BY EncodeOthers
  <2> HIDE DEF u
  <2>3. t[Len(s) + 1] = a
    <3>1. \A k \in 1 .. Len(s) + Len(u) : t[k] = IF k <= Len(s) THEN s[k] ELSE u[k - Len(s)]
      BY <1>1, <2>1, JoinedAt
    <3> HIDE DEF t
    <3> QED
      BY <1>1, <2>1, <3>1
  <2>4. x.type = "connect"
    <3> HIDE DEF t
    <3>1. Len(s) + 1 \in Nat
      BY <1>1
    <3> QED
      BY <2>3, <3>1, PacketsFound
  <2>5. /\ IsSequence(Carried(s))
        /\ Carried(t) = IF IsClick(x) THEN Append(Carried(s), x.data) ELSE Carried(s)
    BY <2>1, CarriedNext
  <2> HIDE DEF x
  <2> QED
    BY <1>2, <2>2, <2>4, <2>5
<1>5. ASSUME NEW n \in Nat, NEW i, n \notin WithBuffer
      PROVE  Carried(s \o Encode(Event(n, i))) =
               IF n > 0 THEN Append(Carried(s), EventData(n)) ELSE Carried(s)
  <2> DEFINE a == EventFrame(n, i)
             u == <<a>>
             t == s \o u
             x == PacketAt(t, Len(s) + 1)
  <2>1. IsSequence(u) /\ Len(u) = 1 /\ u[1] = a /\ ~u[1].binary
    BY OneOrTwo, FrameKinds
  <2>2. Encode(Event(n, i)) = u
    BY <1>5, EncodeEvent
  <2> HIDE DEF u
  <2>3. t[Len(s) + 1] = a
    <3>1. \A k \in 1 .. Len(s) + Len(u) : t[k] = IF k <= Len(s) THEN s[k] ELSE u[k - Len(s)]
      BY <1>1, <2>1, JoinedAt
    <3> HIDE DEF t
    <3> QED
      BY <1>1, <2>1, <3>1
  <2>4. x.type = "event" /\ x.data = EventData(n)
    <3> HIDE DEF t
    <3>1. Len(s) + 1 \in Nat
      BY <1>1
    <3> QED
      BY <2>3, <3>1, PacketsFound
  <2>5. Carried(t) = IF IsClick(x) THEN Append(Carried(s), x.data) ELSE Carried(s)
    BY <2>1, CarriedNext
  <2> HIDE DEF x
  <2> QED
    BY <1>3, <1>4, <2>2, <2>4, <2>5
<1>6. ASSUME NEW n \in Nat, NEW i, n \in WithBuffer
      PROVE  Carried(s \o Encode(Event(n, i))) =
               IF n > 0 THEN Append(Carried(s), EventData(n)) ELSE Carried(s)
  <2> DEFINE a == HeadFrame(n, i)
             b == BufferFrame(n)
             u == <<a, b>>
             t == s \o u
             x == PacketAt(t, Len(s) + 1)
  <2>1. IsSequence(u) /\ Len(u) = 2 /\ u[1] = a /\ u[2] = b /\ ~u[1].binary /\ u[2].binary
    BY OneOrTwo, FrameKinds
  <2>2. Encode(Event(n, i)) = u
    BY <1>6, EncodeEvent
  <2> HIDE DEF u
  <2>3. t[Len(s) + 1] = a /\ t[(Len(s) + 1) + 1] = b
    <3>1. \A k \in 1 .. Len(s) + Len(u) : t[k] = IF k <= Len(s) THEN s[k] ELSE u[k - Len(s)]
      BY <1>1, <2>1, JoinedAt
    <3> HIDE DEF t
    <3> QED
      BY <1>1, <2>1, <3>1
  <2>4. x.type = "binary_event" /\ x.data = EventData(n)
    <3> HIDE DEF t
    <3>1. Len(s) + 1 \in Nat
      BY <1>1
    <3> QED
      BY <1>6, <2>3, <3>1, PacketsFound
  <2>5. Carried(t) = IF IsClick(x) THEN Append(Carried(s), x.data) ELSE Carried(s)
    BY <2>1, CarriedNext
  <2> HIDE DEF x
  <2> QED
    BY <1>3, <1>4, <2>2, <2>4, <2>5
<1> QED
  BY <1>4, <1>5, <1>6

(* A frame of the server stays one where its neighbours stay.              *)
LEMMA DownFrameKept ==
  ASSUME NEW c, NEW d, StillKnows(c, d), NEW m \in Nat, NEW n \in Nat, m <= n,
         NEW s, NEW t, NEW k \in Nat, NEW l \in Nat, DownFrame(c, s, k, m),
         t[l] = s[k], k < Len(s) => l < Len(t) /\ t[l + 1] = s[k + 1],
         l > 1 => k > 1 /\ t[l - 1] = s[k - 1]
  PROVE  DownFrame(d, t, l, n)
<1>1. CASE s[k] = ConnectedFrame \/ s[k] = DisconnectFrame
  BY <1>1 DEF DownFrame
<1>2. CASE \E j, i \in Nat : Knows(c, j, i) /\ s[k] = AckFrame(j, i)
  <2>1. PICK j, i \in Nat : Knows(c, j, i) /\ s[k] = AckFrame(j, i)
    BY <1>2
  <2>2. Knows(d, j, i) /\ t[l] = AckFrame(j, i)
    BY <2>1 DEF StillKnows
  <2> QED
    BY <2>2 DEF DownFrame
<1>3. CASE \E j \in 1 .. m : s[k] = NewsFrame(j)
  <2>1. PICK j \in 1 .. m : s[k] = NewsFrame(j)
    BY <1>3
  <2>2. j \in 1 .. n /\ t[l] = NewsFrame(j)
    BY <2>1
  <2> QED
    BY <2>2 DEF DownFrame
<1>4. CASE \E j \in WithBuffer : /\ j \in 1 .. m /\ s[k] = NewsHead(j)
                                 /\ k < Len(s) /\ s[k + 1] = BufferFrame(j)
  <2>1. PICK j \in WithBuffer : /\ j \in 1 .. m /\ s[k] = NewsHead(j)
                                /\ k < Len(s) /\ s[k + 1] = BufferFrame(j)
    BY <1>4
  <2>2. j \in 1 .. n /\ t[l] = NewsHead(j) /\ l < Len(t) /\ t[l + 1] = BufferFrame(j)
    BY <2>1
  <2> QED
    BY <2>2 DEF DownFrame
<1>5. CASE \E j \in WithBuffer : s[k] = BufferFrame(j) /\ (k > 1 => s[k - 1] = NewsHead(j))
  <2>1. PICK j \in WithBuffer : s[k] = BufferFrame(j) /\ (k > 1 => s[k - 1] = NewsHead(j))
    BY <1>5
  <2>2. t[l] = BufferFrame(j) /\ (l > 1 => t[l - 1] = NewsHead(j))
    BY <2>1
  <2> QED
    BY <2>2 DEF DownFrame
<1> QED
  BY <1>1, <1>2, <1>3, <1>4, <1>5 DEF DownFrame

(* What is on its way is as good when more is known.                       *)
LEMMA DownListKept ==
  ASSUME NEW c, NEW d, StillKnows(c, d), NEW m \in Nat, NEW n \in Nat, m <= n,
         NEW s, DownList(c, s, m)
  PROVE  DownList(d, s, n)
<1>1. ASSUME NEW k \in 1 .. Len(s)
      PROVE  DownFrame(d, s, k, n)
  <2>1. DownFrame(c, s, k, m) /\ k \in Nat
    BY DEF DownList, IsSequence
  <2> QED
    BY <2>1, DownFrameKept
<1> QED
  BY <1>1 DEF DownList

(* What is left when one frame has been given.                             *)
LEMMA DownListTail ==
  ASSUME NEW c, NEW n \in Nat, NEW s, DownList(c, s, n), s # <<>>
  PROVE  DownList(c, Tail(s), n) /\ DownFrame(c, s, 1, n)
<1>1. /\ IsSequence(s) /\ Len(s) \in Nat /\ Len(s) > 0 /\ IsSequence(Tail(s))
      /\ Len(Tail(s)) = Len(s) - 1 /\ \A i \in 1 .. Len(s) - 1 : Tail(s)[i] = s[i + 1]
  BY TailFacts DEF DownList
<1>2. StillKnows(c, c) /\ n <= n
  BY DEF StillKnows
<1> DEFINE t == Tail(s)
<1>3. ASSUME NEW l \in 1 .. Len(t)
      PROVE  DownFrame(c, t, l, n)
  <2>1. /\ l \in Nat /\ l + 1 \in Nat /\ l + 1 \in 1 .. Len(s)
        /\ t[l] = s[l + 1] /\ (l + 1 < Len(s) => l < Len(t) /\ t[l + 1] = s[(l + 1) + 1])
        /\ (l > 1 => l + 1 > 1 /\ t[l - 1] = s[(l + 1) - 1])
    BY <1>1
  <2>2. DownFrame(c, s, l + 1, n)
    BY <2>1 DEF DownList
  <2> HIDE DEF t
  <2> QED
    BY <1>2, <2>1, <2>2, DownFrameKept
<1>4. 1 \in 1 .. Len(s)
  BY <1>1
<1> QED
  BY <1>1, <1>3, <1>4 DEF DownList

(* What the server writes behind it.                                       *)
LEMMA DownListMore ==
  ASSUME NEW c, NEW n \in Nat, NEW s, DownList(c, s, n)
  PROVE  /\ DownList(c, s \o Encode(Connected), n)
         /\ DownList(c, s \o Encode(Disconnect), n)
         /\ \A j, i \in Nat : Knows(c, j, i) => DownList(c, s \o Encode(Ack(j, i)), n)
         /\ \A j \in 1 .. n : DownList(c, s \o Encode(Broadcast(j)), n)
<1>0. StillKnows(c, c) /\ IsSequence(s) /\ n <= n
      /\ \A k \in 1 .. Len(s) : DownFrame(c, s, k, n)
  BY DEF StillKnows, DownList
<1>1. ASSUME NEW u, IsSequence(u), NEW t, t = s \o u,
             \A l \in 1 .. Len(u) : DownFrame(c, t, Len(s) + l, n)
      PROVE  DownList(c, t, n)
  <2>1. /\ IsSequence(t) /\ Len(s) \in Nat /\ Len(u) \in Nat /\ Len(t) = Len(s) + Len(u)
        /\ \A k \in 1 .. Len(s) : t[k] = s[k]
    BY <1>0, <1>1, Joined
  <2>3. ASSUME NEW k \in 1 .. Len(s)
        PROVE  DownFrame(c, t, k, n)
    <3>1. k \in Nat /\ t[k] = s[k] /\ DownFrame(c, s, k, n)
          /\ (k < Len(s) => k < Len(t) /\ t[k + 1] = s[k + 1])
          /\ (k > 1 => k > 1 /\ t[k - 1] = s[k - 1])
      BY <1>0, <2>1
    <3> QED
      BY <1>0, <3>1, DownFrameKept
  <2>4. ASSUME NEW k \in 1 .. Len(t)
        PROVE  DownFrame(c, t, k, n)
    <3>1. k \in 1 .. Len(s) \/ (k - Len(s) \in 1 .. Len(u) /\ Len(s) + (k - Len(s)) = k)
      BY <2>1
    <3> QED
      BY <1>1, <2>3, <3>1
  <2> QED
    BY <2>1, <2>4 DEF DownList
<1>2. ASSUME NEW u, IsSequence(u), NEW t, t = s \o u
      PROVE  /\ Len(s) \in Nat /\ Len(u) \in Nat /\ Len(t) = Len(s) + Len(u)
             /\ \A l \in 1 .. Len(u) : t[Len(s) + l] = u[l]
  <2>1. /\ Len(s) \in Nat /\ Len(u) \in Nat
        /\ \A k \in 1 .. Len(s) + Len(u) : t[k] = IF k <= Len(s) THEN s[k] ELSE u[k - Len(s)]
    BY <1>0, <1>2, JoinedAt
  <2>2. Len(t) = Len(s) + Len(u)
    BY <1>0, <1>2, Joined
  <2> QED
    BY <2>1, <2>2
<1>3. ASSUME NEW a, \/ a = ConnectedFrame \/ a = DisconnectFrame
                    \/ \E j, i \in Nat : a = AckFrame(j, i) /\ Knows(c, j, i)
                    \/ \E j \in 1 .. n : a = NewsFrame(j)
      PROVE  DownList(c, s \o <<a>>, n)
  <2> DEFINE u == <<a>>
             t == s \o u
  <2>1. IsSequence(u) /\ Len(u) = 1 /\ u[1] = a
    BY OneOrTwo
  <2> HIDE DEF u
  <2>2. t = s \o u
    OBVIOUS
  <2> HIDE DEF t
  <2>3. t[Len(s) + 1] = a
    <3>1. \A l \in 1 .. Len(u) : t[Len(s) + l] = u[l]
      BY <1>2, <2>1, <2>2
    <3> QED
      BY <2>1, <3>1
  <2>4. DownFrame(c, t, Len(s) + 1, n)
    BY <1>3, <2>3 DEF DownFrame
  <2>5. ASSUME NEW l \in 1 .. Len(u)
        PROVE  DownFrame(c, t, Len(s) + l, n)
    <3>1. l = 1
      BY <2>1
    <3> QED
      BY <2>4, <3>1
  <2>6. DownList(c, t, n)
    BY <1>1, <2>1, <2>2, <2>5
  <2> QED
    BY <2>6 DEF t, u
<1>4. ASSUME NEW j \in 1 .. n, j \in WithBuffer
      PROVE  DownList(c, s \o <<NewsHead(j), BufferFrame(j)>>, n)
  <2> DEFINE a == NewsHead(j)
             b == BufferFrame(j)
             u == <<a, b>>
             t == s \o u
  <2>1. IsSequence(u) /\ Len(u) = 2 /\ u[1] = a /\ u[2] = b
    BY OneOrTwo
  <2> HIDE DEF u
  <2>2. t = s \o u
    OBVIOUS
  <2> HIDE DEF t
  <2>3. /\ t[Len(s) + 1] = a /\ t[Len(s) + 2] = b /\ Len(t) = Len(s) + 2 /\ Len(s) \in Nat
    <3>1. /\ Len(s) \in Nat /\ Len(u) \in Nat /\ Len(t) = Len(s) + Len(u)
          /\ \A l \in 1 .. Len(u) : t[Len(s) + l] = u[l]
      BY <1>2, <2>1, <2>2
    <3>2. 1 \in 1 .. Len(u) /\ 2 \in 1 .. Len(u)
      BY <2>1
    <3> QED
      BY <2>1, <3>1, <3>2
  <2>4. DownFrame(c, t, Len(s) + 1, n)
    <3>1. Len(s) + 1 < Len(t) /\ (Len(s) + 1) + 1 = Len(s) + 2
      BY <2>3
    <3> QED
      BY <1>4, <2>3, <3>1 DEF DownFrame
  <2>5. DownFrame(c, t, Len(s) + 2, n)
    <3>1. (Len(s) + 2) - 1 = Len(s) + 1
      BY <2>3
    <3> QED
      BY <1>4, <2>3, <3>1 DEF DownFrame
  <2>6. ASSUME NEW l \in 1 .. Len(u)
        PROVE  DownFrame(c, t, Len(s) + l, n)
    <3>1. l = 1 \/ l = 2
      BY <2>1
    <3> QED
      BY <2>4, <2>5, <3>1
  <2>7. DownList(c, t, n)
    BY <1>1, <2>1, <2>2, <2>6
  <2> QED
    BY <2>7 DEF t, u
<1>5. Encode(Connected) = <<ConnectedFrame>> /\ Encode(Disconnect) = <<DisconnectFrame>>
  BY EncodeOthers
<1>6. DownList(c, s \o Encode(Connected), n) /\ DownList(c, s \o Encode(Disconnect), n)
  BY <1>3, <1>5
<1>7. ASSUME NEW j \in Nat, NEW i \in Nat, Knows(c, j, i)
      PROVE  DownList(c, s \o Encode(Ack(j, i)), n)
  BY <1>3, <1>7, EncodeOthers
<1>8. ASSUME NEW j \in 1 .. n
      PROVE  DownList(c, s \o Encode(Broadcast(j)), n)
  <2>1. DownList(c, s \o <<NewsFrame(j)>>, n)
    BY <1>3
  <2> QED
    BY <1>4, <2>1, EncodeBroadcast
<1> QED
  BY <1>6, <1>7, <1>8

(* Which frames begin an event of the server, and its number.              *)
LEMMA NewsNumbers ==
  ASSUME NEW n, NEW i
  PROVE  /\ IsNews(NewsFrame(n)) /\ NewsNumber(NewsFrame(n)) = n
         /\ IsNews(NewsHead(n)) /\ NewsNumber(NewsHead(n)) = n
         /\ ~IsNews(BufferFrame(n)) /\ ~IsNews(ConnectedFrame) /\ ~IsNews(DisconnectFrame)
         /\ ~IsNews(AckFrame(n, i))
         /\ Number(Half(n).packet.data) = n
<1>1. Number(EventData(n)) = n /\ Number(Holed(n)) = n
  <2>1. Holed(n).values = <<Plain(n), Placeholder(0)>> /\ <<Plain(n), Placeholder(0)>>[1] = Plain(n)
    BY DEF Holed, Json
  <2>2. Plain(n).v = n
    BY DEF Plain
  <2> QED
    BY <2>1, <2>2, EventValues DEF Number
<1>2. NewsNumber(NewsFrame(n)) = n
  <2> DEFINE d == DecodeString(NewsFrame(n).body).packet
  <2>1. d = [type |-> "event", data |-> EventData(n), id |-> <<>>, attachments |-> 0]
    BY TextDecoded
  <2>2. NewsNumber(NewsFrame(n)) = Number(d.data)
    BY DEF NewsNumber
  <2> HIDE DEF d
  <2> QED
    BY <1>1, <2>1, <2>2
<1>3. NewsNumber(NewsHead(n)) = n
  <2> DEFINE d == DecodeString(NewsHead(n).body).packet
  <2>1. d = [type |-> "binary_event", data |-> Holed(n), id |-> <<>>, attachments |-> 1]
    BY TextDecoded
  <2>2. NewsNumber(NewsHead(n)) = Number(d.data)
    BY DEF NewsNumber
  <2> HIDE DEF d
  <2> QED
    BY <1>1, <2>1, <2>2
<1>4. Half(n).packet.data = Holed(n)
  BY DEF Half
<1> QED
  BY <1>1, <1>2, <1>3, <1>4, FrameKinds DEF IsNews

(* What comes is numbered as what the server has emitted.                  *)
LEMMA ComingBounded ==
  ASSUME NEW c, NEW n \in Nat, NEW s, DownList(c, s, n)
  PROVE  Coming(s) \subseteq 1 .. n
<1>1. ASSUME NEW k \in DOMAIN s, IsNews(s[k])
      PROVE  NewsNumber(s[k]) \in 1 .. n
  <2>1. DownFrame(c, s, k, n)
    BY DEF DownList, IsSequence
  <2>2. s[k] # ConnectedFrame /\ s[k] # DisconnectFrame
    BY <1>1, NewsNumbers
  <2>3. ASSUME NEW j, NEW i, s[k] = AckFrame(j, i)
        PROVE  FALSE
    BY <1>1, <2>3, NewsNumbers
  <2>4. ASSUME NEW j, s[k] = BufferFrame(j)
        PROVE  FALSE
    BY <1>1, <2>4, NewsNumbers
  <2>5. ASSUME NEW j \in 1 .. n, s[k] = NewsFrame(j) \/ s[k] = NewsHead(j)
        PROVE  NewsNumber(s[k]) \in 1 .. n
    BY <2>5, NewsNumbers
  <2> QED
    BY <2>1, <2>2, <2>3, <2>4, <2>5 DEF DownFrame
<1> QED
  BY <1>1 DEF Coming

(* What comes when the first frame has been given.                         *)
LEMMA ComingTail ==
  ASSUME NEW s, IsSequence(s), s # <<>>, NewsRises(s)
  PROVE  /\ Coming(Tail(s)) \subseteq Coming(s) /\ NewsRises(Tail(s))
         /\ IsNews(s[1]) => /\ NewsNumber(s[1]) \in Coming(s)
                            /\ Before({NewsNumber(s[1])}, Coming(Tail(s)))
<1> DEFINE t == Tail(s)
<1>1. /\ Len(s) \in Nat /\ Len(s) > 0 /\ DOMAIN s = 1 .. Len(s)
      /\ DOMAIN t = 1 .. Len(s) - 1 /\ \A i \in 1 .. Len(s) - 1 : t[i] = s[i + 1]
  BY TailFacts
<1> HIDE DEF t
<1>2. \A k \in DOMAIN t : k + 1 \in DOMAIN s /\ t[k] = s[k + 1] /\ 1 < k + 1
  BY <1>1
<1>3. Coming(t) \subseteq Coming(s)
  BY <1>2 DEF Coming
<1>4. NewsRises(t)
  <2>1. ASSUME NEW k \in DOMAIN t, NEW l \in DOMAIN t, IsNews(t[k]), IsNews(t[l]), k < l
        PROVE  NewsNumber(t[k]) < NewsNumber(t[l])
    <3>1. k + 1 \in DOMAIN s /\ l + 1 \in DOMAIN s /\ t[k] = s[k + 1] /\ t[l] = s[l + 1]
      BY <1>2
    <3>2. k + 1 < l + 1
      BY <1>1, <2>1
    <3> QED
      BY <2>1, <3>1, <3>2 DEF NewsRises
  <2> QED
    BY <2>1 DEF NewsRises
<1>5. ASSUME IsNews(s[1])
      PROVE  NewsNumber(s[1]) \in Coming(s) /\ Before({NewsNumber(s[1])}, Coming(t))
  <2>1. 1 \in DOMAIN s
    BY <1>1
  <2>2. ASSUME NEW k \in DOMAIN t, IsNews(t[k])
        PROVE  NewsNumber(s[1]) < NewsNumber(t[k])
    <3>1. k + 1 \in DOMAIN s /\ t[k] = s[k + 1] /\ 1 < k + 1
      BY <1>2
    <3> QED
      BY <1>5, <2>1, <2>2, <3>1 DEF NewsRises
  <2> QED
    BY <1>5, <2>1, <2>2 DEF Coming, Before
<1> QED
  BY <1>3, <1>4, <1>5 DEF t

(* What comes when the server has written more.                            *)
LEMMA ComingJoined ==
  ASSUME NEW s, IsSequence(s), NEW u, IsSequence(u)
  PROVE  /\ Coming(s \o u) \subseteq Coming(s) \cup Coming(u)
         /\ NewsRises(s) /\ NewsRises(u) /\ Before(Coming(s), Coming(u)) => NewsRises(s \o u)
<1> DEFINE t == s \o u
<1>1. /\ Len(s) \in Nat /\ Len(u) \in Nat
      /\ DOMAIN s = 1 .. Len(s) /\ DOMAIN u = 1 .. Len(u) /\ DOMAIN t = 1 .. Len(s) + Len(u)
  BY Joined
<1>2. \A k \in DOMAIN t : t[k] = IF k <= Len(s) THEN s[k] ELSE u[k - Len(s)]
  BY <1>1, JoinedAt
<1> HIDE DEF t
<1>3. \A k \in DOMAIN t : \/ k \in DOMAIN s /\ k <= Len(s) /\ t[k] = s[k]
                          \/ k - Len(s) \in DOMAIN u /\ Len(s) < k /\ t[k] = u[k - Len(s)]
  BY <1>1, <1>2
<1>4. Coming(t) \subseteq Coming(s) \cup Coming(u)
  BY <1>3 DEF Coming
<1>5. ASSUME NewsRises(s), NewsRises(u), Before(Coming(s), Coming(u)),
             NEW k \in DOMAIN t, NEW l \in DOMAIN t, IsNews(t[k]), IsNews(t[l]), k < l
      PROVE  NewsNumber(t[k]) < NewsNumber(t[l])
  <2>1. CASE k \in DOMAIN s /\ t[k] = s[k] /\ l \in DOMAIN s /\ t[l] = s[l]
    BY <1>5, <2>1 DEF NewsRises
  <2>2. CASE k \in DOMAIN s /\ t[k] = s[k] /\ l - Len(s) \in DOMAIN u /\ t[l] = u[l - Len(s)]
    <3>1. NewsNumber(t[k]) \in Coming(s) /\ NewsNumber(t[l]) \in Coming(u)
      BY <1>5, <2>2 DEF Coming
    <3> QED
      BY <1>5, <3>1 DEF Before
  <2>3. CASE /\ k - Len(s) \in DOMAIN u /\ t[k] = u[k - Len(s)]
             /\ l - Len(s) \in DOMAIN u /\ t[l] = u[l - Len(s)]
    <3>1. k - Len(s) < l - Len(s)
      BY <1>1, <1>5
    <3> QED
      BY <1>5, <2>3, <3>1 DEF NewsRises
  <2>4. ~(Len(s) < k /\ l <= Len(s))
    BY <1>1, <1>5
  <2> QED
    BY <1>3, <2>1, <2>2, <2>3, <2>4
<1>6. NewsRises(s) /\ NewsRises(u) /\ Before(Coming(s), Coming(u)) => NewsRises(t)
  BY <1>5 DEF NewsRises
<1> QED
  BY <1>4, <1>6 DEF t

(* What comes of the packets that the server writes.                       *)
LEMMA ComingOf ==
  ASSUME NEW n, NEW i
  PROVE  /\ Coming(Encode(Connected)) = {} /\ Coming(Encode(Disconnect)) = {}
         /\ Coming(Encode(Ack(n, i))) = {} /\ Coming(Encode(Broadcast(n))) = {n}
         /\ NewsRises(Encode(Connected)) /\ NewsRises(Encode(Disconnect))
         /\ NewsRises(Encode(Ack(n, i))) /\ NewsRises(Encode(Broadcast(n)))
         /\ IsSequence(Encode(Connected)) /\ IsSequence(Encode(Disconnect))
         /\ IsSequence(Encode(Ack(n, i))) /\ IsSequence(Encode(Broadcast(n)))
<1>1. ASSUME NEW a
      PROVE  LET u == <<a>> IN
             /\ IsSequence(u) /\ NewsRises(u)
             /\ ~IsNews(a) => Coming(u) = {}
             /\ IsNews(a) => Coming(u) = {NewsNumber(a)}
  <2> DEFINE u == <<a>>
  <2>1. IsSequence(u) /\ DOMAIN u = 1 .. 1 /\ u[1] = a
    BY OneOrTwo
  <2> HIDE DEF u
  <2>2. \A k \in DOMAIN u : k = 1 /\ u[k] = a
    BY <2>1
  <2>3. 1 \in DOMAIN u
    BY <2>1
  <2>4. NewsRises(u)
    BY <2>2 DEF NewsRises
  <2>5. ~IsNews(a) => Coming(u) = {}
    BY <2>2 DEF Coming
  <2>6. IsNews(a) => Coming(u) = {NewsNumber(a)}
    BY <2>2, <2>3 DEF Coming
  <2> QED
    BY <2>1, <2>4, <2>5, <2>6 DEF u
<1>2. ASSUME NEW a, NEW b, IsNews(a), ~IsNews(b)
      PROVE  LET u == <<a, b>> IN IsSequence(u) /\ NewsRises(u) /\ Coming(u) = {NewsNumber(a)}
  <2> DEFINE u == <<a, b>>
  <2>1. IsSequence(u) /\ DOMAIN u = 1 .. 2 /\ u[1] = a /\ u[2] = b
    BY OneOrTwo
  <2> HIDE DEF u
  <2>2. \A k \in DOMAIN u : IsNews(u[k]) => k = 1 /\ u[k] = a
    BY <1>2, <2>1
  <2>3. 1 \in DOMAIN u
    BY <2>1
  <2>4. NewsRises(u)
    BY <2>2 DEF NewsRises
  <2>5. Coming(u) = {NewsNumber(a)}
    BY <1>2, <2>1, <2>2, <2>3 DEF Coming
  <2> QED
    BY <2>1, <2>4, <2>5 DEF u
<1>3. /\ Encode(Connected) = <<ConnectedFrame>> /\ Encode(Disconnect) = <<DisconnectFrame>>
      /\ Encode(Ack(n, i)) = <<AckFrame(n, i)>>
  BY EncodeOthers
<1>4. /\ Coming(Encode(Connected)) = {} /\ NewsRises(Encode(Connected))
      /\ IsSequence(Encode(Connected))
  BY <1>1, <1>3, NewsNumbers
<1>5. /\ Coming(Encode(Disconnect)) = {} /\ NewsRises(Encode(Disconnect))
      /\ IsSequence(Encode(Disconnect))
  BY <1>1, <1>3, NewsNumbers
<1>6. /\ Coming(Encode(Ack(n, i))) = {} /\ NewsRises(Encode(Ack(n, i)))
      /\ IsSequence(Encode(Ack(n, i)))
  BY <1>1, <1>3, NewsNumbers
<1>7. /\ Coming(Encode(Broadcast(n))) = {n} /\ NewsRises(Encode(Broadcast(n)))
      /\ IsSequence(Encode(Broadcast(n)))
  <2>1. IsNews(NewsFrame(n)) /\ NewsNumber(NewsFrame(n)) = n
        /\ IsNews(NewsHead(n)) /\ NewsNumber(NewsHead(n)) = n /\ ~IsNews(BufferFrame(n))
    BY NewsNumbers
  <2>2. CASE n \notin WithBuffer
    BY <1>1, <2>1, <2>2, EncodeBroadcast
  <2>3. CASE n \in WithBuffer
    BY <1>2, <2>1, <2>3, EncodeBroadcast
  <2> QED
    BY <2>2, <2>3
<1> QED
  BY <1>4, <1>5, <1>6, <1>7

(* What is known of events is the same in c and in d, and so is what the   *)
(* connections carry.                                                      *)
SameData(c, d) ==
  /\ d.io.ids = c.io.ids /\ d.io.acks = c.io.acks /\ d.io.acked = c.io.acked
  /\ d.io.sendBuffer = c.io.sendBuffer /\ d.io.receiveBuffer = c.io.receiveBuffer
  /\ d.io.heard = c.io.heard /\ d.io.aborted = c.io.aborted /\ d.io.misread = c.io.misread

SameLines(c, d) ==
  /\ DOMAIN d.engines = DOMAIN c.engines
  /\ \A e \in DOMAIN c.engines :
        /\ d.engines[e].log = c.engines[e].log /\ d.engines[e].at = c.engines[e].at
        /\ d.engines[e].down = c.engines[e].down /\ d.engines[e].srv = c.engines[e].srv
        /\ d.engines[e].state = c.engines[e].state

(* Two steps that keep the data keep it together.                          *)
LEMMA SameTrans ==
  ASSUME NEW c, NEW d, NEW f, SameData(c, d), SameLines(c, d), SameData(d, f), SameLines(d, f)
  PROVE  SameData(c, f) /\ SameLines(c, f)
  BY DEF SameData, SameLines

(* Manager.cleanup keeps what is known of events, and drops half a packet. *)
LEMMA CleanupSame ==
  ASSUME NEW c, Shape(c)
  PROVE  LET d == Cleanup(c) IN
         /\ Shape(d) /\ SameData(c, d) /\ SameLines(c, d)
         /\ d.io.connected = c.io.connected /\ d.io.reconstructor = <<>>
         /\ d.io.reconnecting = c.io.reconnecting /\ d.io.attempts = c.io.attempts
         /\ d.io.skipReconnect = c.io.skipReconnect /\ d.io.subscribed = c.io.subscribed
         /\ d.io.fn = c.io.fn
  BY ZenonT(60) DEF Cleanup, Shape, IsSequence, EngineFields, IoFields, SameData, SameLines

(* Manager.reconnect keeps it, and counts an attempt.                      *)
LEMMA ReconnectSame ==
  ASSUME NEW c, Shape(c), ~c.io.reconnecting, ~c.io.skipReconnect
  PROVE  LET d == Reconnect(c) IN
         /\ Shape(d) /\ SameData(c, d) /\ SameLines(c, d)
         /\ d.io.connected = c.io.connected /\ d.io.reconstructor = c.io.reconstructor
         /\ d.io.reconnecting = TRUE /\ d.io.attempts = c.io.attempts + 1
         /\ d.io.subscribed = c.io.subscribed
  BY DEF Reconnect, BackoffDuration, Shape, IoFields, SameData, SameLines

(* So does the listener of "error" while an engine opens.                  *)
LEMMA OnErrorSame ==
  ASSUME NEW c, Shape(c), ~c.io.skipReconnect,
         c.io.reconnecting <=> c.io.fn, ~c.io.fn => c.io.attempts = 0
  PROVE  LET d == OnError(c) IN
         /\ Shape(d) /\ SameData(c, d) /\ SameLines(c, d)
         /\ d.io.connected = c.io.connected /\ d.io.reconstructor = <<>>
         /\ d.io.reconnecting = TRUE /\ d.io.attempts = c.io.attempts + 1
<1> DEFINE u == Cleanup(c)
           f == [u EXCEPT !.io.readyState = "closed"]
           g == [f EXCEPT !.io.reconnecting = FALSE]
<1>1. OnError(c) = IF c.io.fn THEN Reconnect(g) ELSE MaybeReconnectOnOpen(f)
  BY DEF OnError
<1>2. /\ Shape(u) /\ SameData(c, u) /\ SameLines(c, u)
      /\ u.io.connected = c.io.connected /\ u.io.reconstructor = <<>>
      /\ u.io.reconnecting = c.io.reconnecting /\ u.io.attempts = c.io.attempts
      /\ u.io.skipReconnect = c.io.skipReconnect
  BY CleanupSame
<1> HIDE DEF u
<1>3. /\ Shape(f) /\ SameData(u, f) /\ SameLines(u, f)
      /\ f.io.connected = u.io.connected /\ f.io.reconstructor = u.io.reconstructor
      /\ f.io.reconnecting = u.io.reconnecting /\ f.io.attempts = u.io.attempts
      /\ f.io.skipReconnect = u.io.skipReconnect
  BY <1>2 DEF Shape, IoFields, SameData, SameLines
<1> HIDE DEF f
<1>4. /\ Shape(g) /\ SameData(f, g) /\ SameLines(f, g)
      /\ g.io.connected = f.io.connected /\ g.io.reconstructor = f.io.reconstructor
      /\ ~g.io.reconnecting /\ g.io.attempts = f.io.attempts
      /\ g.io.skipReconnect = f.io.skipReconnect
  BY <1>3 DEF Shape, IoFields, SameData, SameLines
<1> HIDE DEF g
<1>5. SameData(c, f) /\ SameLines(c, f) /\ SameData(c, g) /\ SameLines(c, g)
  <2>1. SameData(c, f) /\ SameLines(c, f)
    BY <1>2, <1>3, SameTrans
  <2> QED
    BY <1>4, <2>1, SameTrans
<1>6. ASSUME NEW h, Shape(h), SameData(c, h), SameLines(c, h), ~h.io.reconnecting,
             ~h.io.skipReconnect, h.io.connected = c.io.connected, h.io.reconstructor = <<>>,
             h.io.attempts = c.io.attempts
      PROVE  LET d == Reconnect(h) IN
             /\ Shape(d) /\ SameData(c, d) /\ SameLines(c, d)
             /\ d.io.connected = c.io.connected /\ d.io.reconstructor = <<>>
             /\ d.io.reconnecting = TRUE /\ d.io.attempts = c.io.attempts + 1
  <2> DEFINE d == Reconnect(h)
  <2>1. /\ Shape(d) /\ SameData(h, d) /\ SameLines(h, d)
        /\ d.io.connected = h.io.connected /\ d.io.reconstructor = h.io.reconstructor
        /\ d.io.reconnecting = TRUE /\ d.io.attempts = h.io.attempts + 1
    BY <1>6, ReconnectSame
  <2> HIDE DEF d
  <2>2. SameData(c, d) /\ SameLines(c, d)
    BY <1>6, <2>1, SameTrans
  <2> QED
    BY <1>6, <2>1, <2>2 DEF d
<1>7. CASE c.io.fn
  BY <1>1, <1>2, <1>3, <1>4, <1>5, <1>6, <1>7, ZenonT(60)
<1>8. CASE ~c.io.fn
  BY <1>1, <1>2, <1>3, <1>5, <1>6, <1>8 DEF MaybeReconnectOnOpen
<1> QED
  BY <1>7, <1>8

(* Manager.onclose keeps it; a Socket that listens is not connected then.  *)
LEMMA OnCloseSame ==
  ASSUME NEW c, Shape(c), ~c.io.reconnecting, c.io.reconnecting \in BOOLEAN,
         c.io.skipReconnect <=> ~c.io.subscribed
  PROVE  LET d == OnClose(c) IN
         /\ Shape(d) /\ SameData(c, d) /\ SameLines(c, d) /\ d.io.reconstructor = <<>>
         /\ d.io.connected = IF c.io.subscribed THEN FALSE ELSE c.io.connected
         /\ d.io.reconnecting \in BOOLEAN
         /\ c.io.subscribed => d.io.attempts = 1
         /\ ~c.io.subscribed => d.io.attempts = 0
         /\ d.io.subscribed = c.io.subscribed
<1> DEFINE u == Cleanup(c)
           f == [BackoffReset(u) EXCEPT !.io.readyState = "closed"]
           g == SocketOnClose(f)
           r == IF ~g.io.skipReconnect THEN Reconnect(g) ELSE g
<1>1. OnClose(c) = r
  BY DEF OnClose
<1>2. /\ Shape(u) /\ SameData(c, u) /\ SameLines(c, u)
      /\ u.io.connected = c.io.connected /\ u.io.reconstructor = <<>>
      /\ u.io.reconnecting = c.io.reconnecting
      /\ u.io.skipReconnect = c.io.skipReconnect /\ u.io.subscribed = c.io.subscribed
  BY CleanupSame
<1> HIDE DEF u
<1>3. /\ Shape(f) /\ SameData(u, f) /\ SameLines(u, f)
      /\ f.io.connected = u.io.connected /\ f.io.reconstructor = u.io.reconstructor
      /\ f.io.reconnecting = u.io.reconnecting /\ f.io.attempts = 0
      /\ f.io.skipReconnect = u.io.skipReconnect /\ f.io.subscribed = u.io.subscribed
  BY <1>2 DEF BackoffReset, Shape, IoFields, SameData, SameLines
<1> HIDE DEF f
<1>4. /\ Shape(g) /\ SameData(f, g) /\ SameLines(f, g)
      /\ g.io.connected = IF c.io.subscribed THEN FALSE ELSE c.io.connected
      /\ g.io.reconstructor = f.io.reconstructor
      /\ g.io.reconnecting = f.io.reconnecting /\ g.io.attempts = 0
      /\ g.io.skipReconnect = f.io.skipReconnect /\ g.io.subscribed = f.io.subscribed
  BY <1>2, <1>3 DEF SocketOnClose, Shape, IoFields, SameData, SameLines
<1> HIDE DEF g
<1>5. SameData(c, g) /\ SameLines(c, g)
  <2>1. SameData(c, f) /\ SameLines(c, f)
    BY <1>2, <1>3, SameTrans
  <2> QED
    BY <1>4, <2>1, SameTrans
<1>6. CASE c.io.skipReconnect
  <2>1. r = g
    BY <1>2, <1>3, <1>4, <1>6
  <2> HIDE DEF r
  <2> QED
    BY <1>1, <1>2, <1>3, <1>4, <1>5, <1>6, <2>1
<1>7. CASE ~c.io.skipReconnect
  <2> DEFINE d == Reconnect(g)
  <2>1. r = d
    BY <1>2, <1>3, <1>4, <1>7
  <2>2. /\ Shape(d) /\ SameData(g, d) /\ SameLines(g, d)
        /\ d.io.connected = g.io.connected /\ d.io.reconstructor = g.io.reconstructor
        /\ d.io.reconnecting = TRUE /\ d.io.attempts = g.io.attempts + 1
        /\ d.io.subscribed = g.io.subscribed
    BY <1>2, <1>3, <1>4, <1>7, ReconnectSame
  <2> HIDE DEF d, r
  <2>3. SameData(c, d) /\ SameLines(c, d)
    BY <1>5, <2>2, SameTrans
  <2>4. d.io.attempts = 1
    BY <1>4, <2>2
  <2> QED
    BY <1>1, <1>2, <1>3, <1>4, <1>7, <2>1, <2>2, <2>3, <2>4
<1> QED
  BY <1>6, <1>7

(* The end of a connection keeps what was written to it.                   *)
LEMMA EndedSame ==
  ASSUME NEW c, Shape(c), NEW e \in DOMAIN c.engines
  PROVE  LET d == Ended(c, e) IN
         /\ Shape(d) /\ d.io = c.io /\ DOMAIN d.engines = DOMAIN c.engines
         /\ d.engines[e].state = "closed" /\ d.engines[e].down = <<>>
         /\ d.engines[e].srv = "none" /\ d.engines[e].log = c.engines[e].log
         /\ d.engines[e].at = Len(c.engines[e].log)
         /\ \A f \in DOMAIN c.engines : f # e => d.engines[f] = c.engines[f]
  BY DEF Ended, Shape, IsSequence, EngineFields

(* The parts of Data, where what each is about is the same.                *)
LEMMA AcksSame ==
  ASSUME NEW c, NEW d, NEW em, d.io.ids = c.io.ids, d.io.acks = c.io.acks,
         d.io.acked = c.io.acked, AcksOK(c, em)
  PROVE  AcksOK(d, em) /\ StillKnows(c, d)
  BY DEF AcksOK, StillKnows, Knows

(* What waits to be sent is as good when more callbacks are known.         *)
LEMMA WaitsKept ==
  ASSUME NEW c, NEW d, StillKnows(c, d), d.io.sendBuffer = c.io.sendBuffer, Waits(c)
  PROVE  Waits(d)
<1>1. ASSUME NEW k \in DOMAIN d.io.sendBuffer
      PROVE  \E n, i \in Nat : n > 0 /\ Knows(d, n, i) /\ d.io.sendBuffer[k] = Event(n, i)
  <2>1. PICK n, i \in Nat : n > 0 /\ Knows(c, n, i) /\ c.io.sendBuffer[k] = Event(n, i)
    BY <1>1 DEF Waits
  <2>2. Knows(d, n, i) /\ d.io.sendBuffer[k] = Event(n, i)
    BY <2>1 DEF StillKnows
  <2> QED
    BY <2>1, <2>2
<1> QED
  BY <1>1 DEF Waits

(* What was heard is as good when the server has emitted more.             *)
LEMMA HeardKept ==
  ASSUME NEW c, NEW d, NEW m \in Nat, NEW n \in Nat, m <= n, HeardOK(c, m),
         d.io.heard = c.io.heard, d.io.receiveBuffer = c.io.receiveBuffer,
         d.io.misread = c.io.misread
  PROVE  HeardOK(d, n)
<1>1. \A x : IsNewsData(x, m) => IsNewsData(x, n)
  <2>1. \A k \in 1 .. m : k \in 1 .. n
    OBVIOUS
  <2> QED
    BY <2>1 DEF IsNewsData
<1> QED
  BY <1>1 DEF HeardOK

(* Nothing is on its way in an empty list.                                 *)
LEMMA NothingComes == Coming(<<>>) = {} /\ NewsRises(<<>>) /\ IsSequence(<<>>)
  BY DEF Coming, NewsRises, IsSequence

(* The order is kept when no more is on its way than before.               *)
LEMMA OrderKept ==
  ASSUME NEW c, NEW d, OrderOK(c),
         d.io.heard = c.io.heard, d.io.receiveBuffer = c.io.receiveBuffer,
         Coming(Newest(d).down) \subseteq Coming(Newest(c).down), NewsRises(Newest(d).down),
         HalfRead(d) \subseteq HalfRead(c)
  PROVE  OrderOK(d)
<1>1. \A A, B, C : Before(A, B) /\ C \subseteq B => Before(A, C)
  BY DEF Before
<1>2. \A A, B, C, D : Before(A, B) /\ C \subseteq A /\ D \subseteq B => Before(C, D)
  BY DEF Before
<1> DEFINE came == NumbersOf(c.io.heard)
           waits == NumbersOf(c.io.receiveBuffer)
           comes == Coming(Newest(c).down)
           half == HalfRead(c)
           comes2 == Coming(Newest(d).down)
           half2 == HalfRead(d)
<1>3. /\ Rises(c.io.heard) /\ Rises(c.io.receiveBuffer)
      /\ Before(came, waits) /\ Before(came, half) /\ Before(came, comes)
      /\ Before(waits, half) /\ Before(waits, comes) /\ Before(half, comes)
  BY DEF OrderOK
<1>4. /\ OrderOK(d) <=>
         /\ Rises(c.io.heard) /\ Rises(c.io.receiveBuffer) /\ NewsRises(Newest(d).down)
         /\ Before(came, waits) /\ Before(came, half2) /\ Before(came, comes2)
         /\ Before(waits, half2) /\ Before(waits, comes2) /\ Before(half2, comes2)
  BY DEF OrderOK
<1>5. comes2 \subseteq comes /\ half2 \subseteq half
  OBVIOUS
<1> HIDE DEF came, waits, comes, half, comes2, half2
<1>6. /\ Before(came, half2) /\ Before(came, comes2) /\ Before(waits, half2)
      /\ Before(waits, comes2) /\ Before(half2, comes2)
  BY <1>1, <1>2, <1>3, <1>5
<1> QED
  BY <1>3, <1>4, <1>6

(* What was given is kept where the logs carry the same events.            *)
LEMMA GivenKept ==
  ASSUME NEW c, NEW d, NEW em, GivenOK(c, em), Len(d.engines) = Len(c.engines),
         d.io.sendBuffer = c.io.sendBuffer,
         \A e \in 1 .. Len(c.engines) : Carried(d.engines[e].log) = Carried(c.engines[e].log)
  PROVE  GivenOK(d, em)
<1>1. PICK base \in [1 .. Len(c.engines) + 1 -> Nat] :
        LET done == base[Len(c.engines) + 1] IN
        /\ Tally(c, base) /\ done + Len(c.io.sendBuffer) = em
        /\ \A k \in DOMAIN c.io.sendBuffer :
              \E i \in Nat : c.io.sendBuffer[k] = Event(done + k, i)
  BY DEF GivenOK
<1>2. Tally(d, base)
  BY <1>1 DEF Tally
<1> QED
  BY <1>1, <1>2 DEF GivenOK

(* A step that brings no message, and at most ends connections.            *)
LEMMA SettledData ==
  ASSUME NEW c, NEW d, NEW em, NEW dn, Data(c, em, dn), Shape(c), Shape(d), SameData(c, d),
         Len(c.engines) > 0, DOMAIN d.engines = DOMAIN c.engines,
         \A e \in DOMAIN c.engines :
            /\ d.engines[e].log = c.engines[e].log
            /\ d.engines[e].at \in {c.engines[e].at, Len(c.engines[e].log)}
            /\ d.engines[e].down \in {c.engines[e].down, <<>>},
         EndsOK(d), PhaseOK(d, dn), HalfRead(d) \subseteq HalfRead(c)
  PROVE  Data(d, em, dn)
<1>1. /\ em \in Nat /\ dn \in Nat /\ dn <= dn
      /\ AcksOK(c, em) /\ LogsOK(c) /\ DownsOK(c, dn) /\ HeardOK(c, dn) /\ Waits(c)
      /\ ~c.io.aborted => OrderOK(c) /\ GivenOK(c, em)
  BY DEF Data
<1>2. /\ DOMAIN c.engines = 1 .. Len(c.engines) /\ Len(c.engines) \in Nat
      /\ Len(d.engines) = Len(c.engines) /\ Len(c.engines) \in DOMAIN c.engines
  <2>1. DOMAIN c.engines = 1 .. Len(c.engines) /\ Len(c.engines) \in Nat
    BY Lengths
  <2>2. DOMAIN d.engines = 1 .. Len(d.engines) /\ Len(d.engines) \in Nat
    BY Lengths
  <2> QED
    BY <2>1, <2>2
<1>3. AcksOK(d, em) /\ StillKnows(c, d)
  BY <1>1, AcksSame DEF SameData
<1>4. LogsOK(d)
  <2>1. ASSUME NEW e \in DOMAIN c.engines
        PROVE  UpLog(d, d.engines[e].log) /\ d.engines[e].at \in 0 .. Len(d.engines[e].log)
    <3>1. /\ UpLog(c, c.engines[e].log) /\ c.engines[e].at \in 0 .. Len(c.engines[e].log)
          /\ d.engines[e].log = c.engines[e].log
      BY <1>1 DEF LogsOK
    <3>2. UpLog(d, c.engines[e].log)
      BY <1>3, <3>1, UpLogKept
    <3>3. Len(c.engines[e].log) \in Nat
      BY <3>1 DEF UpLog, IsSequence
    <3> QED
      BY <3>1, <3>2, <3>3
  <2> QED
    BY <2>1 DEF LogsOK
<1>5. DownsOK(d, dn)
  <2>1. ASSUME NEW e \in DOMAIN c.engines
        PROVE  DownList(d, d.engines[e].down, dn)
    <3>1. DownList(c, c.engines[e].down, dn)
      BY <1>1 DEF DownsOK
    <3>2. DownList(d, c.engines[e].down, dn)
      BY <1>1, <1>3, <3>1, DownListKept
    <3>3. DownList(d, <<>>, dn)
      BY NothingComes DEF DownList
    <3> QED
      BY <3>2, <3>3
  <2> QED
    BY <2>1 DEF DownsOK
<1>6. HeardOK(d, dn) /\ Waits(d)
  BY <1>1, <1>3, HeardKept, WaitsKept DEF SameData
<1>7. ASSUME ~d.io.aborted
      PROVE  OrderOK(d) /\ GivenOK(d, em)
  <2>1. OrderOK(c) /\ GivenOK(c, em)
    BY <1>1, <1>7 DEF SameData
  <2>2. Newest(d).down = Newest(c).down \/ Newest(d).down = <<>>
    BY <1>2 DEF Newest
  <2>3. NewsRises(Newest(c).down)
    BY <2>1 DEF OrderOK
  <2>4. Coming(Newest(d).down) \subseteq Coming(Newest(c).down) /\ NewsRises(Newest(d).down)
    BY <2>2, <2>3, NothingComes
  <2>5. OrderOK(d)
    BY <2>1, <2>4, OrderKept DEF SameData
  <2>6. GivenOK(d, em)
    BY <1>2, <2>1, GivenKept DEF SameData
  <2> QED
    BY <2>5, <2>6
<1> QED
  BY <1>1, <1>3, <1>4, <1>5, <1>6, <1>7 DEF Data

(* What is known in a state.                                               *)
Known(c, em, dn) == Data(c, em, dn) /\ Bounds(c)

(* Where the connection has ended, and the Socket is told so.              *)
LEMMA EndedData ==
  ASSUME Good(c0), Data(c0, emitted, downs), Alive(Current),
         NEW d, Shape(d), SameData(Ended(c0, Current), d), SameLines(Ended(c0, Current), d),
         ~d.io.connected
  PROVE  /\ Data(d, emitted, downs) /\ Newest(d).state = "closed"
         /\ Len(d.engines) = Current
<1> DEFINE f == Ended(c0, Current)
<1>1. /\ Shape(c0) /\ c0.io = io /\ c0.engines = engines /\ DOMAIN engines = 1 .. Current
      /\ Current \in Nat /\ Current \in 1 .. Current /\ Current > 0
      /\ \A e \in 1 .. Current : e < Current => engines[e].state = "closed"
      /\ Len(c0.engines) = Current
  BY GoodHere DEF Current
<1>2. /\ Shape(f) /\ f.io = io /\ DOMAIN f.engines = DOMAIN engines
      /\ f.engines[Current].state = "closed" /\ f.engines[Current].down = <<>>
      /\ f.engines[Current].srv = "none" /\ f.engines[Current].log = engines[Current].log
      /\ f.engines[Current].at = Len(engines[Current].log)
      /\ \A e \in DOMAIN engines : e # Current => f.engines[e] = engines[e]
  BY <1>1, EndedSame
<1> HIDE DEF f
<1>3. SameData(f, d) /\ SameLines(f, d)
  BY DEF f
<1>4. /\ SameData(c0, d) /\ DOMAIN d.engines = DOMAIN engines
      /\ \A e \in DOMAIN engines :
            /\ d.engines[e].log = engines[e].log
            /\ d.engines[e].at \in {engines[e].at, Len(engines[e].log)}
            /\ d.engines[e].down \in {engines[e].down, <<>>}
  <2>1. SameData(c0, d)
    BY <1>1, <1>2, <1>3 DEF SameData
  <2> QED
    BY <1>1, <1>2, <1>3, <2>1 DEF SameLines
<1>5. \A e \in DOMAIN engines : d.engines[e].state = "closed"
  BY <1>1, <1>2, <1>3 DEF SameLines
<1>6. Len(d.engines) = Current
  <2>1. DOMAIN d.engines = 1 .. Len(d.engines) /\ Len(d.engines) \in Nat
    BY Lengths
  <2> QED
    BY <1>1, <1>4, <2>1
<1>7. Newest(d).state = "closed"
  BY <1>1, <1>5, <1>6 DEF Newest
<1>8. EndsOK(d)
  <2>1. EndsOK(c0)
    BY DEF Data
  <2>2. ASSUME NEW e \in DOMAIN d.engines
        PROVE  d.engines[e].down = <<>> /\ d.engines[e].srv = "none"
    <3>1. CASE e = Current
      BY <1>1, <1>2, <1>3, <3>1 DEF SameLines
    <3>2. CASE e # Current
      <4>1. e \in 1 .. Current /\ e < Current
        BY <1>1, <1>4, <3>2
      <4>2. engines[e].down = <<>> /\ engines[e].srv = "none"
        BY <1>1, <2>1, <4>1 DEF EndsOK
      <4> QED
        BY <1>1, <1>2, <1>3, <3>2, <4>1, <4>2 DEF SameLines
    <3> QED
      BY <3>1, <3>2
  <2>3. \A e \in DOMAIN d.engines : d.engines[e].state # "opening"
    BY <1>4, <1>5
  <2> QED
    BY <2>2, <2>3 DEF EndsOK
<1>9. ~Hearing(d)
  BY <1>7 DEF Hearing
<1>10. PhaseOK(d, downs) /\ HalfRead(d) = {}
  BY <1>9 DEF PhaseOK, HalfRead
<1>11. Data(d, emitted, downs)
  BY <1>1, <1>4, <1>8, <1>10, SettledData
<1> QED
  BY <1>6, <1>7, <1>11

(* Before a connection is open the Socket is not connected.                *)
LEMMA NotConnected ==
  ASSUME Good(c0), Data(c0, emitted, downs), io.connected
  PROVE  Running(c0) /\ engines[Current].state = "open"
<1>1. Running(c0)
  BY GoodHere DEF Data, PhaseOK
<1> QED
  BY <1>1, GoodHere DEF Running

(* The error of an open.                                                   *)
LEMMA OnErrorData ==
  ASSUME Good(c0), Known(c0, emitted, downs), engines[Current].state = "opening",
         NEW f, f.engines = Ended(c0, Current).engines, Shape(f),
         f.io = io \/ f.io = [io EXCEPT !.timers = io.timers \ {"timeout"}]
  PROVE  Known(OnError(f), emitted, downs)
<1>0. Current \in 1 .. Current /\ Shape(c0) /\ c0.io = io /\ DOMAIN io = IoFields
      /\ DOMAIN c0.engines = 1 .. Current /\ c0.engines = engines
  BY GoodHere
<1>1. Opening(c0) /\ Alive(Current)
  BY GoodHere DEF Good, Opening, Running, Waiting, Finished, Alive
<1>2. ~io.connected
  BY NotConnected DEF Known
<1>3. /\ f.io.fn = io.fn /\ f.io.attempts = io.attempts
      /\ f.io.skipReconnect = io.skipReconnect /\ f.io.subscribed = io.subscribed
      /\ f.io.reconnecting = io.reconnecting /\ f.io.connected = io.connected
  BY <1>0 DEF IoFields
<1> DEFINE g == Ended(c0, Current)
           d == OnError(f)
<1>4. g.io = io
  BY <1>0, EndedSame
<1>5. SameData(g, f) /\ SameLines(g, f)
  BY <1>0, <1>4 DEF SameData, SameLines, IoFields
<1>6. /\ Shape(d) /\ SameData(f, d) /\ SameLines(f, d)
      /\ d.io.connected = f.io.connected
      /\ d.io.reconnecting = TRUE /\ d.io.attempts = f.io.attempts + 1
  <2>1. /\ ~f.io.skipReconnect /\ (f.io.reconnecting <=> f.io.fn)
        /\ ~f.io.fn => f.io.attempts = 0
    BY <1>0, <1>1, <1>3 DEF Opening
  <2> QED
    BY <2>1, OnErrorSame
<1> HIDE DEF g, d
<1>7. SameData(g, d) /\ SameLines(g, d)
  BY <1>5, <1>6, SameTrans
<1>8. Data(d, emitted, downs) /\ Newest(d).state = "closed" /\ Len(d.engines) = Current
  BY <1>1, <1>2, <1>3, <1>6, <1>7, EndedData DEF Known, g
<1>9. io.attempts \in Nat /\ io.attempts < Current
  BY <1>0, <1>1 DEF Known, Bounds, Current
<1>10. Bounds(d)
  <2>1. ~Running(d) /\ ~Finished(d) /\ ~Opening(d)
    BY <1>6, <1>8 DEF Running, Finished, Opening
  <2>2. d.io.attempts \in Nat /\ d.io.attempts <= Len(d.engines)
    BY <1>0, <1>3, <1>6, <1>8, <1>9
  <2>3. d.io.connected = FALSE
    BY <1>0, <1>2, <1>3, <1>6 DEF Known, Bounds
  <2> QED
    BY <1>6, <2>1, <2>2, <2>3 DEF Bounds
<1> QED
  BY <1>8, <1>10 DEF Known, d

(* An engine fails while it opens.                                         *)
LEMMA EngineFailsData ==
  ASSUME Good(c0), Known(c0, emitted, downs), EngineFails
  PROVE  \E d : Step(d) /\ Known(d, emitted', downs')
<1>1. PICK e \in 1 .. Current :
        /\ engines[e].state = "opening"
        /\ Step(IF engines[e].hears = "open" THEN OnError(Ended(c0, e)) ELSE Ended(c0, e))
        /\ UNCHANGED <<emitted, downs>>
  BY DEF EngineFails
<1>2. e = Current /\ Shape(Ended(c0, e)) /\ Ended(c0, e).io = io
  BY <1>1, LastEnds DEF Alive, AllEnded
<1>3. engines[e].hears = "open"
  BY <1>1, <1>2, OnErrorKeeps
<1>4. Known(OnError(Ended(c0, e)), emitted, downs)
  BY <1>1, <1>2, OnErrorData
<1> QED
  BY <1>1, <1>3, <1>4

(* The timer of Manager.open ends a connection that does not open.         *)
LEMMA ConnectTimeoutData ==
  ASSUME Good(c0), Known(c0, emitted, downs), ConnectTimeout
  PROVE  \E d : Step(d) /\ Known(d, emitted', downs')
<1> DEFINE e == Current
           g == Ended(c0, e)
           f == [g EXCEPT !.io.timers = @ \ {"timeout"}]
<1>1. /\ "timeout" \in io.timers
      /\ Step(CASE engines[e].hears = "open" -> OnError(f)
              [] engines[e].hears = "data" -> OnClose(f)
              [] OTHER -> f)
      /\ emitted' = emitted /\ downs' = downs
  BY DEF ConnectTimeout
<1>2. e \in 1 .. Current
  BY GoodHere
<1>3. engines[e].state = "opening" /\ engines[e].hears = "open"
  BY <1>1, GoodHere DEF Good, Opening, Running, Waiting, Finished
<1>4. AllEnded(g) /\ g.io = io
  BY <1>2, <1>3, LastEnds DEF Alive
<1> HIDE DEF g
<1>5. f.engines = g.engines /\ f.io = [io EXCEPT !.timers = io.timers \ {"timeout"}] /\ Shape(f)
  BY <1>4 DEF AllEnded, Shape, IoFields
<1> HIDE DEF f
<1>6. Known(OnError(f), emitted, downs)
  BY <1>3, <1>5, OnErrorData DEF g
<1> QED
  BY <1>1, <1>3, <1>6

(* A connection is lost, or has drained.                                   *)
LEMMA EngineClosesData ==
  ASSUME Good(c0), Known(c0, emitted, downs), EngineCloses
  PROVE  \E d : Step(d) /\ Known(d, emitted', downs')
<1>1. PICK e \in 1 .. Current :
        /\ engines[e].state \in {"open", "closing"}
        /\ Step(IF engines[e].hears = "data" THEN OnClose(Ended(c0, e)) ELSE Ended(c0, e))
        /\ UNCHANGED <<emitted, downs>>
  BY DEF EngineCloses
<1> DEFINE f == Ended(c0, e)
           d == OnClose(f)
<1>2. e = Current /\ Alive(e) /\ AllEnded(f) /\ f.io = io /\ Len(f.engines) = Current
  BY <1>1, LastEnds DEF Alive
<1>3. /\ Current \in 1 .. Current /\ Current \in Nat /\ Shape(c0) /\ c0.io = io
      /\ c0.engines = engines
  BY GoodHere
<1>4. f = Ended(c0, Current) /\ Shape(f)
  BY <1>2 DEF AllEnded
<1> HIDE DEF f
<1>5. (Running(c0) /\ engines[e].hears = "data") \/ Finished(c0)
  BY <1>1, <1>2, GoodHere DEF Good, Opening, Running, Waiting, Finished
<1>6. /\ ~io.reconnecting /\ io.reconnecting \in BOOLEAN /\ io.connected \in BOOLEAN
      /\ io.skipReconnect <=> ~io.subscribed
  BY <1>3, <1>5 DEF Running, Finished, Known, Bounds
<1>7. io.connected => io.subscribed
  BY <1>3, NotConnected DEF Known, Running
<1>8. CASE engines[e].hears = "data"
  <2>1. /\ Shape(d) /\ SameData(f, d) /\ SameLines(f, d)
        /\ d.io.connected = IF io.subscribed THEN FALSE ELSE io.connected
        /\ d.io.reconnecting \in BOOLEAN
        /\ io.subscribed => d.io.attempts = 1
        /\ ~io.subscribed => d.io.attempts = 0
        /\ d.io.subscribed = f.io.subscribed
    BY <1>2, <1>4, <1>6, OnCloseSame
  <2>2. Good(d)
    BY <1>2, <1>6, OnCloseKeeps
  <2> HIDE DEF d
  <2>3. d.io.connected = FALSE
    BY <1>6, <1>7, <2>1
  <2>4. Data(d, emitted, downs) /\ Newest(d).state = "closed" /\ Len(d.engines) = Current
    BY <1>2, <1>4, <2>1, <2>3, EndedData DEF Known
  <2>5. d.io.subscribed = io.subscribed
    BY <1>2, <2>1
  <2>6. Bounds(d)
    <3>1. ~Running(d) /\ ~Opening(d)
      BY <2>4 DEF Running, Opening
    <3>2. Finished(d) => ~d.io.subscribed
      BY DEF Finished
    <3>3. d.io.attempts \in Nat /\ d.io.attempts <= Len(d.engines)
      BY <1>3, <1>6, <2>1, <2>4
    <3> QED
      BY <2>1, <2>3, <2>5, <3>1, <3>2, <3>3 DEF Bounds
  <2>7. Known(d, emitted, downs)
    BY <2>4, <2>6 DEF Known
  <2> QED
    BY <1>1, <1>8, <2>7 DEF f, d
<1>9. CASE Finished(c0) /\ engines[e].hears # "data"
  <2>1. SameData(f, f) /\ SameLines(f, f) /\ ~f.io.connected
    BY <1>2, <1>3, <1>7, <1>9 DEF SameData, SameLines, Finished
  <2>2. Data(f, emitted, downs) /\ Newest(f).state = "closed"
    BY <1>2, <1>4, <2>1, EndedData DEF Known
  <2>3. Bounds(f)
    <3>1. io.attempts = 0
      BY <1>3, <1>9 DEF Known, Bounds
    <3>2. ~Running(f) /\ ~Opening(f)
      BY <2>2 DEF Running, Opening
    <3>3. f.io.attempts = 0 /\ f.io.connected \in BOOLEAN /\ f.io.reconnecting \in BOOLEAN
          /\ Len(f.engines) >= 0
      BY <1>2, <1>3, <1>6, <3>1
    <3> QED
      BY <3>2, <3>3 DEF Bounds
  <2>4. Known(f, emitted, downs)
    BY <2>2, <2>3 DEF Known
  <2> QED
    BY <1>1, <1>9, <2>4 DEF f
<1> QED
  BY <1>5, <1>8, <1>9

(* Manager.open keeps what is known of events.                             *)
LEMMA OpenSame ==
  ASSUME NEW c, Shape(c), c.io.readyState = "closed", NEW fn
  PROVE  LET d == Open(c, fn) IN
         /\ SameData(c, d) /\ d.engines = Append(c.engines, NewEngine)
         /\ d.io.connected = c.io.connected /\ d.io.reconnecting = c.io.reconnecting
         /\ d.io.attempts = c.io.attempts /\ d.io.readyState = "opening"
<1> DEFINE d == Open(c, fn)
<1>1. d = [c EXCEPT !.engines = Append(@, NewEngine),
                    !.io.readyState = "opening", !.io.skipReconnect = FALSE,
                    !.io.fn = fn, !.io.timers = @ \cup {"timeout"}]
  BY DEF Open
<1>2. DOMAIN c = {"io", "engines"} /\ DOMAIN c.io = IoFields
  BY DEF Shape
<1>3. d.engines = Append(c.engines, NewEngine)
  BY <1>1, <1>2
<1>4. d.io = [c.io EXCEPT !.readyState = "opening", !.skipReconnect = FALSE,
                          !.fn = fn, !.timers = c.io.timers \cup {"timeout"}]
  BY <1>1, <1>2 DEF IoFields
<1> HIDE DEF d
<1> QED
  BY <1>2, <1>3, <1>4 DEF SameData, IoFields, d

(* The connections with a new one, which has carried nothing.              *)
LEMMA GivenOpen ==
  ASSUME NEW c, NEW d, NEW em, GivenOK(c, em), Len(c.engines) \in Nat,
         d.io.sendBuffer = c.io.sendBuffer, Len(d.engines) = Len(c.engines) + 1,
         \A e \in 1 .. Len(c.engines) : d.engines[e] = c.engines[e],
         d.engines[Len(c.engines) + 1].log = <<>>
  PROVE  GivenOK(d, em)
<1> DEFINE n == Len(c.engines)
<1>1. PICK base \in [1 .. n + 1 -> Nat] :
        /\ Tally(c, base) /\ base[n + 1] + Len(c.io.sendBuffer) = em
        /\ \A k \in DOMAIN c.io.sendBuffer :
              \E i \in Nat : c.io.sendBuffer[k] = Event(base[n + 1] + k, i)
  BY DEF GivenOK
<1> DEFINE next == [k \in 1 .. (n + 1) + 1 |-> IF k \in 1 .. n + 1 THEN base[k] ELSE base[n + 1]]
<1>2. /\ base[1] = 0
      /\ \A e \in 1 .. n :
            LET s == Carried(c.engines[e].log) IN
            /\ IsSequence(s) /\ base[e + 1] = base[e] + Len(s)
            /\ \A i \in 1 .. Len(s) : s[i] = EventData(base[e] + i)
  BY <1>1 DEF Tally
<1>3. n \in Nat /\ Len(d.engines) = n + 1 /\ n + 1 \in 1 .. n + 1 /\ base[n + 1] \in Nat
  BY <1>1
<1> HIDE DEF n
<1>4. /\ \A k \in 1 .. n + 1 : next[k] = base[k]
      /\ next[(n + 1) + 1] = base[n + 1]
      /\ next \in [1 .. (n + 1) + 1 -> Nat]
  BY <1>1, <1>3, SMTT(30)
<1> HIDE DEF next
<1>5. ASSUME NEW e \in 1 .. n + 1
      PROVE  LET s == Carried(d.engines[e].log) IN
             /\ IsSequence(s) /\ next[e + 1] = next[e] + Len(s)
             /\ \A i \in 1 .. Len(s) : s[i] = EventData(next[e] + i)
  <2>1. CASE e \in 1 .. n
    <3>1. d.engines[e] = c.engines[e]
      BY <2>1 DEF n
    <3>2. next[e] = base[e] /\ next[e + 1] = base[e + 1]
      BY <1>3, <1>4, <2>1
    <3> QED
      BY <1>2, <2>1, <3>1, <3>2
  <2>2. CASE e = n + 1
    <3> DEFINE s == Carried(d.engines[e].log)
    <3>1. s = <<>>
      BY <2>2, CarriedNothing DEF n
    <3>2. IsSequence(s) /\ Len(s) = 0
      BY <3>1, NothingComes
    <3> HIDE DEF s
    <3>3. next[e] = base[n + 1] /\ next[e + 1] = base[n + 1] /\ base[n + 1] = base[n + 1] + 0
      BY <1>3, <1>4, <2>2
    <3>4. next[e + 1] = next[e] + Len(s) /\ \A i \in 1 .. Len(s) : FALSE
      BY <3>2, <3>3
    <3> QED
      BY <3>2, <3>4 DEF s
  <2> QED
    BY <1>3, <2>1, <2>2
<1>6. next[1] = 0
  BY <1>2, <1>3, <1>4
<1>7. Tally(d, next)
  BY <1>3, <1>4, <1>5, <1>6 DEF Tally
<1>8. next \in [1 .. Len(d.engines) + 1 -> Nat] /\ next[Len(d.engines) + 1] = base[n + 1]
  BY <1>3, <1>4
<1> QED
  BY <1>1, <1>7, <1>8 DEF GivenOK

(* The timer of Manager.reconnect opens a connection, with nothing in its  *)
(* log.                                                                    *)
LEMMA ReconnectTimerData ==
  ASSUME Good(c0), Known(c0, emitted, downs), ReconnectTimer
  PROVE  \E d : Step(d) /\ Known(d, emitted', downs')
<1> DEFINE f == [c0 EXCEPT !.io.timers = @ \ {"reconnect"}]
           d == Open(f, TRUE)
<1>1. /\ "reconnect" \in io.timers /\ emitted' = emitted /\ downs' = downs
      /\ Step(IF io.skipReconnect THEN f ELSE d)
  BY DEF ReconnectTimer
<1>2. Waiting(c0) /\ c0.io = io /\ c0.engines = engines /\ Shape(c0) /\ Len(c0.engines) = Current
      /\ Current \in Nat /\ Current \in 1 .. Current /\ DOMAIN engines = 1 .. Current
  BY <1>1, GoodHere DEF Good, Opening, Running, Finished, Current
<1>3. /\ Shape(f) /\ f.engines = engines /\ SameData(c0, f)
      /\ f.io.readyState = "closed" /\ f.io.connected = io.connected
      /\ f.io.reconnecting = io.reconnecting /\ f.io.attempts = io.attempts
  BY <1>2 DEF Waiting, Shape, IoFields, SameData
<1> HIDE DEF f
<1>4. /\ SameData(f, d) /\ d.engines = Append(engines, NewEngine)
      /\ d.io.connected = io.connected /\ d.io.reconnecting = io.reconnecting
      /\ d.io.attempts = io.attempts /\ d.io.readyState = "opening"
  BY <1>3, OpenSame
<1> HIDE DEF d
<1>5. SameData(c0, d)
  BY <1>3, <1>4 DEF SameData
<1>6. /\ DOMAIN d.engines = 1 .. Current + 1 /\ Len(d.engines) = Current + 1
      /\ \A e \in 1 .. Current : d.engines[e] = engines[e]
      /\ d.engines[Current + 1] = NewEngine
  BY <1>2, <1>4, SequenceAppend DEF Shape, Current
<1>7. /\ NewEngine.state = "opening" /\ NewEngine.hears = "open" /\ NewEngine.log = <<>>
      /\ NewEngine.at = 0 /\ NewEngine.down = <<>> /\ NewEngine.srv = "none"
  BY DEF NewEngine
<1>8. ~io.connected /\ ~io.skipReconnect
  BY <1>2, NotConnected, GoodHere DEF Known, Waiting, Running
<1>9. \A e \in DOMAIN d.engines : \/ e \in 1 .. Current /\ d.engines[e] = engines[e]
                                  \/ d.engines[e] = NewEngine
  BY <1>2, <1>6
<1>10. /\ emitted \in Nat /\ downs \in Nat /\ downs <= downs
       /\ AcksOK(c0, emitted) /\ LogsOK(c0) /\ DownsOK(c0, downs) /\ EndsOK(c0)
       /\ HeardOK(c0, downs) /\ Waits(c0)
       /\ ~io.aborted => OrderOK(c0) /\ GivenOK(c0, emitted)
  BY <1>2 DEF Known, Data
<1>11. AcksOK(d, emitted) /\ StillKnows(c0, d)
  BY <1>5, <1>10, AcksSame DEF SameData
<1>12. LogsOK(d)
  <2>1. ASSUME NEW e \in DOMAIN d.engines
        PROVE  UpLog(d, d.engines[e].log) /\ d.engines[e].at \in 0 .. Len(d.engines[e].log)
    <3>1. CASE e \in 1 .. Current /\ d.engines[e] = engines[e]
      <4>1. UpLog(c0, engines[e].log) /\ engines[e].at \in 0 .. Len(engines[e].log)
        BY <1>2, <1>10, <3>1 DEF LogsOK
      <4> QED
        BY <1>11, <3>1, <4>1, UpLogKept
    <3>2. CASE d.engines[e] = NewEngine
      <4>1. Len(<<>>) = 0 /\ UpLog(d, <<>>)
        BY NothingComes DEF UpLog
      <4> QED
        BY <1>7, <3>2, <4>1
    <3> QED
      BY <1>9, <3>1, <3>2
  <2> QED
    BY <2>1 DEF LogsOK
<1>13. DownsOK(d, downs)
  <2>1. ASSUME NEW e \in DOMAIN d.engines
        PROVE  DownList(d, d.engines[e].down, downs)
    <3>1. CASE e \in 1 .. Current /\ d.engines[e] = engines[e]
      <4>1. DownList(c0, engines[e].down, downs)
        BY <1>2, <1>10, <3>1 DEF DownsOK
      <4> QED
        BY <1>10, <1>11, <3>1, <4>1, DownListKept
    <3>2. CASE d.engines[e] = NewEngine
      <4>1. DownList(d, <<>>, downs)
        BY NothingComes DEF DownList
      <4> QED
        BY <1>7, <3>2, <4>1
    <3> QED
      BY <1>9, <3>1, <3>2
  <2> QED
    BY <2>1 DEF DownsOK
<1>14. EndsOK(d)
  <2>1. \A e \in 1 .. Current :
          /\ engines[e].state = "opening" => engines[e].log = <<>>
          /\ engines[e].state \in {"opening", "closed"} =>
                engines[e].down = <<>> /\ engines[e].srv = "none"
    BY <1>2, <1>10 DEF EndsOK
  <2> QED
    BY <1>7, <1>9, <2>1 DEF EndsOK
<1>15. Newest(d) = NewEngine
  BY <1>6 DEF Newest
<1>16. ~Hearing(d) /\ HalfRead(d) = {}
  BY <1>7, <1>15 DEF Hearing, HalfRead
<1>17. PhaseOK(d, downs)
  BY <1>4, <1>8, <1>16 DEF PhaseOK
<1>18. HeardOK(d, downs) /\ Waits(d)
  BY <1>5, <1>10, <1>11, HeardKept, WaitsKept DEF SameData
<1>19. ASSUME ~d.io.aborted
       PROVE  OrderOK(d) /\ GivenOK(d, emitted)
  <2>1. OrderOK(c0) /\ GivenOK(c0, emitted)
    BY <1>2, <1>5, <1>10, <1>19 DEF SameData
  <2>2. Coming(Newest(d).down) = {} /\ NewsRises(Newest(d).down)
    BY <1>7, <1>15, NothingComes
  <2>3. OrderOK(d)
    BY <1>5, <1>16, <2>1, <2>2, OrderKept DEF SameData
  <2>4. GivenOK(d, emitted)
    BY <1>2, <1>5, <1>6, <1>7, <2>1, GivenOpen DEF SameData
  <2> QED
    BY <2>3, <2>4
<1>20. Data(d, emitted, downs)
  BY <1>10, <1>11, <1>12, <1>13, <1>14, <1>17, <1>18, <1>19 DEF Data
<1>21. Bounds(d)
  <2>1. io.attempts \in Nat /\ io.attempts <= Current /\ io.connected \in BOOLEAN
        /\ io.reconnecting \in BOOLEAN
    BY <1>2 DEF Known, Bounds
  <2>2. d.io.attempts < Len(d.engines)
    BY <1>2, <1>4, <1>6, <2>1
  <2> QED
    BY <1>4, <2>1, <2>2 DEF Bounds, Running, Finished, Waiting
<1>22. Known(d, emitted, downs)
  BY <1>20, <1>21, Zenon DEF Known
<1> QED
  BY <1>1, <1>8, <1>22

(* A packet lengthens the log of the newest connection, where it is        *)
(* opening or open, and does nothing else.                                 *)
LEMMA PacketSame ==
  ASSUME NEW c, Shape(c), Len(c.engines) > 0, Newest(c).state \in {"opening", "open"}, NEW x
  PROVE  LET d == Packet(c, x)
             n == Len(c.engines)
         IN  /\ Shape(d) /\ d.io = c.io /\ DOMAIN d.engines = DOMAIN c.engines
             /\ Len(d.engines) = n
             /\ \A e \in DOMAIN c.engines :
                   /\ d.engines[e].at = c.engines[e].at /\ d.engines[e].down = c.engines[e].down
                   /\ d.engines[e].srv = c.engines[e].srv
                   /\ d.engines[e].state = c.engines[e].state
                   /\ d.engines[e].hears = c.engines[e].hears
                   /\ e # n => d.engines[e].log = c.engines[e].log
             /\ d.engines[n].log = c.engines[n].log \o Encode(x)
<1> DEFINE d == Packet(c, x)
           n == Len(c.engines)
<1>1. DOMAIN c.engines = 1 .. n /\ n \in Nat /\ n \in DOMAIN c.engines
  <2>1. DOMAIN c.engines = 1 .. n /\ n \in Nat
    BY Lengths
  <2> QED
    BY <2>1
<1>2. d = [c EXCEPT !.engines[n].log = @ \o Encode(x)]
  BY DEF Packet, Newest
<1>3. /\ DOMAIN c = {"io", "engines"}
      /\ \A e \in DOMAIN c.engines : DOMAIN c.engines[e] = EngineFields
  BY DEF Shape
<1> HIDE DEF n
<1>4. d.io = c.io /\ DOMAIN d = DOMAIN c
      /\ d.engines = [c.engines EXCEPT ![n] = [@ EXCEPT !.log = c.engines[n].log \o Encode(x)]]
  BY <1>2, <1>3
<1> HIDE DEF d
<1>5. /\ DOMAIN d.engines = DOMAIN c.engines
      /\ \A e \in DOMAIN c.engines : e # n => d.engines[e] = c.engines[e]
      /\ d.engines[n] = [c.engines[n] EXCEPT !.log = c.engines[n].log \o Encode(x)]
  BY <1>1, <1>4
<1>6. /\ DOMAIN d.engines[n] = EngineFields
      /\ d.engines[n].log = c.engines[n].log \o Encode(x)
      /\ d.engines[n].at = c.engines[n].at /\ d.engines[n].down = c.engines[n].down
      /\ d.engines[n].srv = c.engines[n].srv /\ d.engines[n].state = c.engines[n].state
      /\ d.engines[n].hears = c.engines[n].hears
  BY <1>1, <1>3, <1>5 DEF EngineFields
<1>7. Shape(d)
  BY <1>1, <1>3, <1>4, <1>5, <1>6 DEF Shape, IsSequence
<1>8. Len(d.engines) = n
  <2>1. DOMAIN d.engines = 1 .. Len(d.engines) /\ Len(d.engines) \in Nat
    BY <1>7, Lengths
  <2> QED
    BY <1>1, <1>5, <2>1
<1>9. ASSUME NEW e \in DOMAIN c.engines
      PROVE  /\ d.engines[e].at = c.engines[e].at /\ d.engines[e].down = c.engines[e].down
             /\ d.engines[e].srv = c.engines[e].srv
             /\ d.engines[e].state = c.engines[e].state
             /\ d.engines[e].hears = c.engines[e].hears
             /\ e # n => d.engines[e].log = c.engines[e].log
  <2>1. CASE e = n
    BY <1>6, <2>1
  <2>2. CASE e # n
    BY <1>5, <2>2
  <2> QED
    BY <2>1, <2>2
<1> QED
  BY <1>4, <1>5, <1>6, <1>7, <1>8, <1>9, Zenon DEF d, n

(* The logs where one of them has got longer.                              *)
LEMMA LogsMore ==
  ASSUME NEW c, NEW d, LogsOK(c), StillKnows(c, d), NEW n, DOMAIN d.engines = DOMAIN c.engines,
         \A e \in DOMAIN c.engines :
            d.engines[e].at = c.engines[e].at /\ (e # n => d.engines[e].log = c.engines[e].log),
         UpLog(d, d.engines[n].log), NEW u, IsSequence(u),
         d.engines[n].log = c.engines[n].log \o u
  PROVE  LogsOK(d)
<1>1. ASSUME NEW e \in DOMAIN c.engines
      PROVE  UpLog(d, d.engines[e].log) /\ d.engines[e].at \in 0 .. Len(d.engines[e].log)
  <2>1. UpLog(c, c.engines[e].log) /\ c.engines[e].at \in 0 .. Len(c.engines[e].log)
    BY DEF LogsOK
  <2>2. CASE e # n
    BY <2>1, <2>2, UpLogKept
  <2>3. CASE e = n
    <3> DEFINE s == c.engines[n].log
               t == d.engines[n].log
    <3>1. IsSequence(s) /\ t = s \o u
      BY <2>1, <2>3 DEF UpLog
    <3> HIDE DEF s, t
    <3>2. Len(s) \in Nat /\ Len(u) \in Nat /\ Len(t) = Len(s) + Len(u)
      BY <3>1, Joined
    <3>3. 0 .. Len(s) \subseteq 0 .. Len(t)
      BY <3>2
    <3>4. c.engines[n].at \in 0 .. Len(s) /\ d.engines[n].at = c.engines[n].at
      BY <2>1, <2>3 DEF s
    <3> QED
      BY <2>3, <3>3, <3>4 DEF t
  <2> QED
    BY <2>2, <2>3
<1> QED
  BY <1>1 DEF LogsOK

(* The frames of a packet are a list.                                      *)
LEMMA FramesAreLists ==
  /\ IsSequence(Encode(Connect)) /\ \A n, i : IsSequence(Encode(Event(n, i)))
<1>1. IsSequence(Encode(Connect))
  BY EncodeOthers, OneOrTwo
<1>2. ASSUME NEW n, NEW i
      PROVE  IsSequence(Encode(Event(n, i)))
  <2> DEFINE a == EventFrame(n, i)
             h == HeadFrame(n, i)
             b == BufferFrame(n)
  <2>3. Encode(Event(n, i)) = IF n \in WithBuffer THEN <<h, b>> ELSE <<a>>
    BY EncodeEvent
  <2> HIDE DEF a, h, b
  <2>4. IsSequence(<<h, b>>) /\ IsSequence(<<a>>)
    BY OneOrTwo
  <2> DEFINE w == Encode(Event(n, i))
             x == <<h, b>>
             y == <<a>>
  <2>5. w = x \/ w = y
    BY <2>3
  <2>6. IsSequence(x) /\ IsSequence(y)
    BY <2>4
  <2> HIDE DEF w, x, y
  <2>7. IsSequence(w)
    BY <2>5, <2>6
  <2> QED
    BY <2>7 DEF w
<1> QED
  BY <1>1, <1>2

(* A connection opens: the page's CONNECT is the first that it is given.   *)
LEMMA EngineOpensData ==
  ASSUME Good(c0), Known(c0, emitted, downs), EngineOpens
  PROVE  \E d : Step(d) /\ Known(d, emitted', downs')
<1>1. c0.engines = engines /\ c0.io = io /\ DOMAIN engines = 1 .. Current /\ Current \in Nat
      /\ Current \in 1 .. Current /\ Len(c0.engines) = Current /\ Shape(c0)
      /\ DOMAIN io = IoFields /\ Current > 0
  BY GoodHere DEF Current
<1>2. PICK e \in 1 .. Current :
        /\ engines[e].state = "opening"
        /\ LET o == [c0 EXCEPT !.engines[e].state = "open"] IN
           Step(IF engines[e].hears = "open" THEN OnOpen(o, e) ELSE o)
        /\ UNCHANGED <<emitted, downs>>
  BY DEF EngineOpens
<1>4. e = Current
  BY <1>2, GoodHere
<1>5. Opening(c0) /\ engines[e].hears = "open"
  BY <1>2, <1>4, GoodHere DEF Good, Opening, Running, Waiting, Finished
<1> DEFINE o == [c0 EXCEPT !.engines[e].state = "open"]
           u == Cleanup(o)
           v == [u EXCEPT !.io.readyState = "open"]
           p == Packet(v, Connect)
           d == [p EXCEPT !.engines[e].hears = "data"]
           r == IF io.fn THEN OnReconnect(d) ELSE d
<1>6. /\ Shape(o) /\ o.io = io /\ DOMAIN o.engines = 1 .. Current
      /\ o.engines[e].state = "open"
      /\ \A f \in 1 .. Current : f # e => o.engines[f] = engines[f]
      /\ \A f \in 1 .. Current :
            /\ o.engines[f].log = engines[f].log /\ o.engines[f].at = engines[f].at
            /\ o.engines[f].down = engines[f].down /\ o.engines[f].srv = engines[f].srv
  BY <1>1, <1>2, SMTT(30) DEF Shape, EngineFields, IsSequence
<1>7. OnOpen(o, e) = r
  BY <1>6 DEF OnOpen
<1> HIDE DEF o
<1>8. /\ Shape(u) /\ SameData(o, u) /\ SameLines(o, u)
      /\ u.io.connected = o.io.connected /\ u.io.reconstructor = <<>>
      /\ u.io.reconnecting = o.io.reconnecting /\ u.io.attempts = o.io.attempts
      /\ u.io.fn = o.io.fn
  BY <1>6, CleanupSame
<1> HIDE DEF u
<1>9. /\ Shape(v) /\ v.engines = u.engines /\ SameData(u, v)
      /\ v.io.connected = u.io.connected /\ v.io.reconstructor = u.io.reconstructor
      /\ v.io.reconnecting = u.io.reconnecting /\ v.io.attempts = u.io.attempts
      /\ v.io.fn = u.io.fn
  BY <1>8 DEF Shape, IoFields, SameData
<1> HIDE DEF v
<1>10. /\ DOMAIN v.engines = 1 .. Current /\ Len(v.engines) = Current
       /\ Newest(v).state = "open"
       /\ \A f \in 1 .. Current :
            /\ v.engines[f].log = engines[f].log /\ v.engines[f].at = engines[f].at
            /\ v.engines[f].down = engines[f].down /\ v.engines[f].srv = engines[f].srv
            /\ v.engines[f].state = o.engines[f].state
  <2>1. DOMAIN v.engines = 1 .. Current
    BY <1>6, <1>8, <1>9 DEF SameLines
  <2>2. Len(v.engines) = Current
    <3>1. DOMAIN v.engines = 1 .. Len(v.engines) /\ Len(v.engines) \in Nat
      BY <1>9, Lengths, SMTT(30)
    <3> QED
      BY <1>1, <2>1, <3>1
  <2> QED
    BY <1>1, <1>4, <1>6, <1>8, <1>9, <2>1, <2>2 DEF SameLines, Newest
<1>11. /\ Shape(p) /\ p.io = v.io /\ DOMAIN p.engines = 1 .. Current
       /\ \A f \in 1 .. Current :
            /\ p.engines[f].at = engines[f].at /\ p.engines[f].down = engines[f].down
            /\ p.engines[f].srv = engines[f].srv /\ p.engines[f].state = o.engines[f].state
            /\ f # e => p.engines[f].log = engines[f].log
       /\ p.engines[e].log = engines[e].log \o Encode(Connect)
  <2> DEFINE x == Connect
             q == Packet(v, x)
  <2> HIDE DEF x
  <2>3. Len(v.engines) > 0 /\ Newest(v).state \in {"opening", "open"} /\ Shape(v)
    BY <1>1, <1>9, <1>10
  <2>4. LET n == Len(v.engines) IN
        /\ Shape(q) /\ q.io = v.io /\ DOMAIN q.engines = DOMAIN v.engines
        /\ Len(q.engines) = n
        /\ \A f \in DOMAIN v.engines :
             /\ q.engines[f].at = v.engines[f].at /\ q.engines[f].down = v.engines[f].down
             /\ q.engines[f].srv = v.engines[f].srv
             /\ q.engines[f].state = v.engines[f].state
             /\ q.engines[f].hears = v.engines[f].hears
             /\ f # n => q.engines[f].log = v.engines[f].log
        /\ q.engines[n].log = v.engines[n].log \o Encode(x)
    BY <2>3, PacketSame
  <2> HIDE DEF q
  <2>1. /\ Shape(q) /\ q.io = v.io /\ DOMAIN q.engines = DOMAIN v.engines
        /\ \A f \in DOMAIN v.engines :
             /\ q.engines[f].at = v.engines[f].at /\ q.engines[f].down = v.engines[f].down
             /\ q.engines[f].srv = v.engines[f].srv /\ q.engines[f].state = v.engines[f].state
             /\ f # Current => q.engines[f].log = v.engines[f].log
        /\ q.engines[Current].log = v.engines[Current].log \o Encode(x)
    BY <1>10, <2>4
  <2>2. p = q /\ Encode(x) = Encode(Connect)
    BY DEF x, q
  <2> HIDE DEF p
  <2>5. \A f \in 1 .. Current :
            /\ q.engines[f].at = engines[f].at /\ q.engines[f].down = engines[f].down
            /\ q.engines[f].srv = engines[f].srv /\ q.engines[f].state = o.engines[f].state
            /\ f # Current => q.engines[f].log = engines[f].log
    BY <1>10, <2>1, SMTT(30)
  <2>6. q.engines[Current].log = engines[Current].log \o Encode(x)
    BY <1>1, <1>10, <2>1
  <2> QED
    BY <1>4, <1>10, <2>1, <2>2, <2>5, <2>6, Zenon
<1> HIDE DEF p
<1>12. /\ Shape(d) /\ d.io = p.io /\ DOMAIN d.engines = 1 .. Current
       /\ \A f \in 1 .. Current :
            /\ d.engines[f].at = p.engines[f].at /\ d.engines[f].down = p.engines[f].down
            /\ d.engines[f].srv = p.engines[f].srv /\ d.engines[f].state = p.engines[f].state
            /\ d.engines[f].log = p.engines[f].log
  BY <1>11, ZenonT(60) DEF Shape, EngineFields, IsSequence
<1> HIDE DEF d
<1>13. /\ Shape(r) /\ r.engines = d.engines /\ SameData(d, r)
       /\ r.io.connected = d.io.connected /\ r.io.reconstructor = d.io.reconstructor
       /\ r.io.attempts = 0 /\ r.io.reconnecting \in BOOLEAN
  <2>1. CASE io.fn
    BY <1>12, <2>1 DEF OnReconnect, BackoffReset, Shape, IoFields, SameData
  <2>2. CASE ~io.fn
    <3>1. io.attempts = 0 /\ io.reconnecting \in BOOLEAN
      BY <1>1, <1>5, <2>2 DEF Opening, Known, Bounds
    <3> QED
      BY <1>6, <1>8, <1>9, <1>11, <1>12, <2>2, <3>1 DEF SameData
  <2> QED
    BY <2>1, <2>2
<1> HIDE DEF r
<1>14. /\ SameData(c0, r) /\ DOMAIN r.engines = 1 .. Current /\ r.io.connected = io.connected
       /\ r.io.reconstructor = <<>>
       /\ \A f \in 1 .. Current :
            /\ r.engines[f].at = engines[f].at /\ r.engines[f].down = engines[f].down
            /\ r.engines[f].srv = engines[f].srv /\ r.engines[f].state = o.engines[f].state
            /\ f # e => r.engines[f].log = engines[f].log
       /\ r.engines[e].log = engines[e].log \o Encode(Connect)
  <2>1. SameData(c0, r)
    BY <1>1, <1>6, <1>8, <1>9, <1>11, <1>12, <1>13 DEF SameData
  <2>2. r.io.connected = io.connected
    BY <1>6, <1>8, <1>9, <1>11, <1>12, <1>13
  <2>3. r.io.reconstructor = <<>>
    BY <1>8, <1>9, <1>11, <1>12, <1>13
  <2>4. \A f \in 1 .. Current :
            /\ r.engines[f].at = engines[f].at /\ r.engines[f].down = engines[f].down
            /\ r.engines[f].srv = engines[f].srv /\ r.engines[f].state = o.engines[f].state
            /\ f # e => r.engines[f].log = engines[f].log
    BY <1>11, <1>12, <1>13
  <2>5. r.engines[e].log = engines[e].log \o Encode(Connect)
    BY <1>11, <1>12, <1>13
  <2> QED
    BY <1>12, <1>13, <2>1, <2>2, <2>3, <2>4, <2>5, SMTT(30)
<1>15. Len(r.engines) = Current
  <2>1. DOMAIN r.engines = 1 .. Len(r.engines) /\ Len(r.engines) \in Nat
    BY <1>13, Lengths
  <2> QED
    BY <1>1, <1>14, <2>1
<1>16. /\ emitted \in Nat /\ downs \in Nat /\ downs <= downs
       /\ AcksOK(c0, emitted) /\ LogsOK(c0) /\ DownsOK(c0, downs) /\ EndsOK(c0)
       /\ HeardOK(c0, downs) /\ Waits(c0)
       /\ ~io.aborted => OrderOK(c0) /\ GivenOK(c0, emitted)
  BY <1>1 DEF Known, Data
<1>17. AcksOK(r, emitted) /\ StillKnows(c0, r)
  BY <1>14, <1>16, AcksSame DEF SameData
<1>18. /\ UpLog(c0, engines[e].log) /\ engines[e].log = <<>> /\ engines[e].down = <<>>
  BY <1>1, <1>2, <1>16, SMTT(30) DEF LogsOK, EndsOK
<1>19. LogsOK(r)
  <2> DEFINE w == Encode(Connect)
  <2>1. UpLog(r, engines[e].log)
    BY <1>17, <1>18, UpLogKept
  <2>2. UpLog(r, engines[e].log \o w) /\ IsSequence(w)
    BY <2>1, UpLogMore, FramesAreLists
  <2> HIDE DEF w
  <2>3. r.engines[e].log = c0.engines[e].log \o w /\ DOMAIN r.engines = DOMAIN c0.engines
    BY <1>1, <1>14 DEF w
  <2>4. \A f \in DOMAIN c0.engines :
          r.engines[f].at = c0.engines[f].at /\ (f # e => r.engines[f].log = c0.engines[f].log)
    BY <1>1, <1>14
  <2>5. UpLog(r, r.engines[e].log) /\ IsSequence(w)
    BY <1>1, <2>2, <2>3
  <2>6. LogsOK(c0) /\ StillKnows(c0, r)
    BY <1>16, <1>17
  <2> HIDE DEF r
  <2> QED
    BY <2>3, <2>4, <2>5, <2>6, LogsMore
<1>20. DownsOK(r, downs)
  <2>1. ASSUME NEW f \in 1 .. Current
        PROVE  DownList(r, r.engines[f].down, downs)
    <3>1. DownList(c0, engines[f].down, downs)
      BY <1>1, <1>16 DEF DownsOK
    <3>2. DownList(r, engines[f].down, downs)
      BY <1>16, <1>17, <3>1, DownListKept
    <3> QED
      BY <1>14, <3>2
  <2> QED
    BY <1>14, <2>1 DEF DownsOK
<1>21. EndsOK(r)
  <2>1. \A f \in 1 .. Current : f # e => r.engines[f].state = engines[f].state
    BY <1>6, <1>14
  <2>2. r.engines[e].state = "open"
    BY <1>6, <1>14
  <2>3. \A f \in 1 .. Current :
          /\ engines[f].state = "opening" => engines[f].log = <<>>
          /\ engines[f].state \in {"opening", "closed"} =>
                engines[f].down = <<>> /\ engines[f].srv = "none"
    BY <1>1, <1>16 DEF EndsOK
  <2>4. ASSUME NEW f \in 1 .. Current
        PROVE  /\ r.engines[f].state = "opening" => r.engines[f].log = <<>>
               /\ r.engines[f].state \in {"opening", "closed"} =>
                     r.engines[f].down = <<>> /\ r.engines[f].srv = "none"
    <3>1. CASE f = e
      BY <2>2, <3>1
    <3>2. CASE f # e
      BY <1>14, <2>1, <2>3, <3>2
    <3> QED
      BY <3>1, <3>2
  <2> QED
    BY <1>14, <2>4 DEF EndsOK
<1>22. Newest(r).down = <<>> /\ Newest(c0).down = <<>>
  BY <1>1, <1>4, <1>14, <1>15, <1>18 DEF Newest
<1>23. ~io.connected
  BY <1>5, NotConnected, <1>1 DEF Known, Opening, Running
<1>24. PhaseOK(r, downs) /\ HalfRead(r) = {}
  BY <1>14, <1>22, <1>23 DEF PhaseOK, HalfRead, Follows
<1>25. HeardOK(r, downs) /\ Waits(r)
  BY <1>14, <1>16, <1>17, HeardKept, WaitsKept DEF SameData
<1>26. ASSUME ~r.io.aborted
       PROVE  OrderOK(r) /\ GivenOK(r, emitted)
  <2>1. OrderOK(c0) /\ GivenOK(c0, emitted)
    BY <1>1, <1>14, <1>16, <1>26 DEF SameData
  <2>2. OrderOK(r)
    BY <1>14, <1>22, <1>24, <2>1, OrderKept, NothingComes DEF SameData
  <2>3. ASSUME NEW f \in 1 .. Current
        PROVE  Carried(r.engines[f].log) = Carried(engines[f].log)
    <3>1. CASE f = e
      <4>1. Carried(engines[e].log \o Encode(Connect)) = Carried(engines[e].log)
        BY <1>18, CarriedMore
      <4> QED
        BY <1>14, <3>1, <4>1
    <3>2. CASE f # e
      BY <1>14, <3>2
    <3> QED
      BY <3>1, <3>2
  <2>4. GivenOK(r, emitted)
    BY <1>1, <1>14, <1>15, <2>1, <2>3, GivenKept DEF SameData
  <2> QED
    BY <2>2, <2>4
<1>27. Data(r, emitted, downs)
  BY <1>16, <1>17, <1>19, <1>20, <1>21, <1>24, <1>25, <1>26 DEF Data
<1>28. Bounds(r)
  <2>1. io.connected \in BOOLEAN
    BY <1>1 DEF Known, Bounds
  <2>2. Len(r.engines) > 0 /\ Len(r.engines) \in Nat
    BY <1>1, <1>15
  <2> QED
    BY <1>13, <1>14, <2>1, <2>2 DEF Bounds
<1>29. Known(r, emitted, downs)
  BY <1>27, <1>28 DEF Known
<1> QED
  BY <1>2, <1>5, <1>7, <1>29 DEF o

(* A callback is registered for an event that has none.                    *)
LEMMA NewAck ==
  ASSUME NEW c, NEW m \in Nat, AcksOK(c, m), NEW em \in Nat, m <= em, NEW n \in Nat,
         n = 0 \/ (m < n /\ n <= em), NEW d, d.io.ids = c.io.ids + 1,
         d.io.acks = c.io.acks \cup {[id |-> c.io.ids, n |-> n]}, d.io.acked = c.io.acked
  PROVE  AcksOK(d, em) /\ StillKnows(c, d) /\ Knows(d, n, c.io.ids) /\ c.io.ids \in Nat
<1> DEFINE i == c.io.ids
           new == [id |-> i, n |-> n]
<1>1. /\ i \in Nat /\ new.id = i /\ new.n = n /\ i < i + 1 /\ n \in 0 .. em
  BY DEF AcksOK
<1> HIDE DEF new
<1>2. d.io.acks = c.io.acks \cup {new} /\ d.io.ids = i + 1
  BY DEF new
<1>3. \A b \in c.io.acks : b.id \in Nat /\ b.id < i /\ b.n \in 0 .. m
  BY DEF AcksOK
<1> HIDE DEF i
<1>4. \A b \in c.io.acks : /\ b.id \in Nat /\ b.id < i + 1 /\ b.n \in 0 .. em
                           /\ b.id # i /\ ~(b.n = n /\ n > 0)
  BY <1>1, <1>3
<1>5. \A b \in d.io.acks : b.id \in Nat /\ b.id < d.io.ids /\ b.n \in 0 .. em
  BY <1>1, <1>2, <1>4
<1>6. \A a, b \in d.io.acks : a.id = b.id \/ (a.n = b.n /\ a.n > 0) => a = b
  <2>1. \A a, b \in c.io.acks : a.id = b.id \/ (a.n = b.n /\ a.n > 0) => a = b
    BY DEF AcksOK
  <2> QED
    BY <1>1, <1>2, <1>4, <2>1
<1>7. /\ IsSequence(d.io.acked)
      /\ \A k \in DOMAIN d.io.acked :
            /\ d.io.acked[k][1] = d.io.acked[k][2] /\ d.io.acked[k][1] \in 1 .. em
            /\ \A b \in d.io.acks : b.n # d.io.acked[k][1]
      /\ \A k, l \in DOMAIN d.io.acked : d.io.acked[k][1] = d.io.acked[l][1] => k = l
  <2>1. /\ IsSequence(c.io.acked)
        /\ \A k \in DOMAIN c.io.acked :
              /\ c.io.acked[k][1] = c.io.acked[k][2] /\ c.io.acked[k][1] \in 1 .. m
              /\ \A b \in c.io.acks : b.n # c.io.acked[k][1]
        /\ \A k, l \in DOMAIN c.io.acked : c.io.acked[k][1] = c.io.acked[l][1] => k = l
    BY DEF AcksOK
  <2>2. \A x \in 1 .. m : x \in 1 .. em /\ x # n
    OBVIOUS
  <2> QED
    BY <1>1, <1>2, <2>1, <2>2
<1>8. AcksOK(d, em)
  BY <1>1, <1>2, <1>5, <1>6, <1>7 DEF AcksOK
<1>9. StillKnows(c, d)
  BY <1>1, <1>2 DEF StillKnows, Knows, i
<1>10. Knows(d, n, i)
  BY <1>1, <1>2, <1>4 DEF Knows
<1> QED
  BY <1>1, <1>8, <1>9, <1>10 DEF i

(* Nothing changes on the connections but the log of the newest.           *)
LinesBut(c, d) ==
  /\ DOMAIN d.engines = DOMAIN c.engines
  /\ \A e \in DOMAIN c.engines :
        /\ d.engines[e].at = c.engines[e].at /\ d.engines[e].down = c.engines[e].down
        /\ d.engines[e].srv = c.engines[e].srv /\ d.engines[e].state = c.engines[e].state
        /\ d.engines[e].hears = c.engines[e].hears
        /\ e # Len(c.engines) => d.engines[e].log = c.engines[e].log

(* It speaks of the connections only.                                      *)
LEMMA LinesOfSame ==
  ASSUME NEW c, NEW p, NEW q, p.engines = c.engines, LinesBut(p, q)
  PROVE  LinesBut(c, q)
<1>1. DOMAIN q.engines = DOMAIN c.engines
  BY Zenon DEF LinesBut
<1>2. ASSUME NEW e \in DOMAIN c.engines
      PROVE  /\ q.engines[e].at = c.engines[e].at /\ q.engines[e].down = c.engines[e].down
             /\ q.engines[e].srv = c.engines[e].srv /\ q.engines[e].state = c.engines[e].state
             /\ q.engines[e].hears = c.engines[e].hears
             /\ e # Len(c.engines) => q.engines[e].log = c.engines[e].log
  <2>1. e \in DOMAIN p.engines
    BY <1>2, Zenon
  <2>2. /\ q.engines[e].at = p.engines[e].at /\ q.engines[e].down = p.engines[e].down
        /\ q.engines[e].srv = p.engines[e].srv /\ q.engines[e].state = p.engines[e].state
        /\ q.engines[e].hears = p.engines[e].hears
        /\ e # Len(p.engines) => q.engines[e].log = p.engines[e].log
    BY <2>1, Zenon DEF LinesBut
  <2> QED
    BY <2>2
<1> QED
  BY <1>1, <1>2, Zenon DEF LinesBut

(* The log of the connection that is open has grown by good frames.        *)
LEMMA LinesGrown ==
  ASSUME NEW c, NEW d, NEW dn \in Nat, Shape(c), Shape(d), Len(c.engines) > 0, LogsOK(c),
         DownsOK(c, dn), EndsOK(c), StillKnows(c, d), LinesBut(c, d),
         Newest(c).state = "open", UpLog(d, d.engines[Len(c.engines)].log),
         Len(Newest(c).log) <= Len(d.engines[Len(c.engines)].log)
  PROVE  /\ LogsOK(d) /\ DownsOK(d, dn) /\ EndsOK(d) /\ Len(d.engines) = Len(c.engines)
         /\ Newest(d).down = Newest(c).down /\ Newest(d).state = "open"
         /\ Newest(d).hears = Newest(c).hears
<1> DEFINE n == Len(c.engines)
<1>1. /\ DOMAIN c.engines = 1 .. n /\ n \in Nat /\ n \in 1 .. n
      /\ DOMAIN d.engines = 1 .. Len(d.engines) /\ Len(d.engines) \in Nat
      /\ DOMAIN d.engines = DOMAIN c.engines
  BY Lengths DEF LinesBut
<1>2. Len(d.engines) = n
  <2> HIDE DEF n
  <2> QED
    BY <1>1
<1> HIDE DEF n
<1>3. \A e \in 1 .. n :
        /\ d.engines[e].at = c.engines[e].at /\ d.engines[e].down = c.engines[e].down
        /\ d.engines[e].srv = c.engines[e].srv /\ d.engines[e].state = c.engines[e].state
        /\ d.engines[e].hears = c.engines[e].hears
        /\ e # n => d.engines[e].log = c.engines[e].log
  BY <1>1 DEF LinesBut, n
<1>4. /\ c.engines[n].state = "open" /\ UpLog(d, d.engines[n].log)
      /\ Len(c.engines[n].log) <= Len(d.engines[n].log)
  BY DEF Newest, n
<1>5. LogsOK(d)
  <2>1. ASSUME NEW e \in 1 .. n
        PROVE  UpLog(d, d.engines[e].log) /\ d.engines[e].at \in 0 .. Len(d.engines[e].log)
    <3>1. UpLog(c, c.engines[e].log) /\ c.engines[e].at \in 0 .. Len(c.engines[e].log)
      BY <1>1 DEF LogsOK
    <3>2. CASE e # n
      BY <1>3, <3>1, <3>2, UpLogKept, SMTT(30)
    <3>3. CASE e = n
      <4> DEFINE s == c.engines[n].log
                 t == d.engines[n].log
      <4>1. Len(s) \in Nat /\ Len(t) \in Nat
        <5>1. IsSequence(s) /\ IsSequence(t)
          BY <1>4, <3>1, <3>3 DEF UpLog
        <5> HIDE DEF s, t
        <5> QED
          BY <5>1, SequenceAppend
      <4>2. Len(s) <= Len(t) /\ c.engines[n].at \in 0 .. Len(s)
            /\ d.engines[n].at = c.engines[n].at
        BY <1>1, <1>3, <1>4, <3>1, <3>3
      <4> HIDE DEF s, t
      <4>3. d.engines[n].at \in 0 .. Len(t)
        BY <4>1, <4>2
      <4> QED
        BY <1>4, <3>3, <4>3 DEF t
    <3> QED
      BY <3>2, <3>3
  <2> QED
    BY <1>1, <2>1 DEF LogsOK
<1>6. DownsOK(d, dn)
  <2>1. ASSUME NEW e \in 1 .. n
        PROVE  DownList(d, d.engines[e].down, dn)
    <3>1. DownList(c, c.engines[e].down, dn)
      BY <1>1 DEF DownsOK
    <3>2. DownList(d, c.engines[e].down, dn)
      BY <3>1, DownListKept
    <3> QED
      BY <1>3, <3>2
  <2> QED
    BY <1>1, <2>1 DEF DownsOK
<1>7. EndsOK(d)
  <2>1. \A e \in 1 .. n :
          /\ c.engines[e].state = "opening" => c.engines[e].log = <<>>
          /\ c.engines[e].state \in {"opening", "closed"} =>
                c.engines[e].down = <<>> /\ c.engines[e].srv = "none"
    BY <1>1 DEF EndsOK
  <2>2. ASSUME NEW e \in 1 .. n
        PROVE  /\ d.engines[e].state = "opening" => d.engines[e].log = <<>>
               /\ d.engines[e].state \in {"opening", "closed"} =>
                     d.engines[e].down = <<>> /\ d.engines[e].srv = "none"
    <3>1. CASE e = n
      BY <1>3, <1>4, <3>1
    <3>2. CASE e # n
      BY <1>3, <2>1, <3>2
    <3> QED
      BY <3>1, <3>2
  <2> QED
    BY <1>1, <2>2 DEF EndsOK
<1>8. /\ Newest(d) = d.engines[n] /\ Newest(c) = c.engines[n]
  BY <1>2 DEF Newest, n
<1>9. d.engines[n].down = c.engines[n].down /\ d.engines[n].state = "open"
      /\ d.engines[n].hears = c.engines[n].hears
  BY <1>1, <1>3, <1>4
<1> QED
  BY <1>2, <1>5, <1>6, <1>7, <1>8, <1>9 DEF n

(* The list t is s and, behind it, the data of the next m events.          *)
Numbers(s, t, m, done) ==
  /\ IsSequence(t) /\ Len(t) = Len(s) + m /\ \A i \in 1 .. Len(s) : t[i] = s[i]
  /\ \A i \in 1 .. m : t[Len(s) + i] = EventData(done + i)

(* The numbering goes on where the newest connection carries more.         *)
LEMMA TallyMore ==
  ASSUME NEW c, NEW d, Shape(c), Len(c.engines) > 0, Len(d.engines) = Len(c.engines),
         NEW base \in [1 .. Len(c.engines) + 1 -> Nat], Tally(c, base), NEW m \in Nat,
         LinesBut(c, d),
         Numbers(Carried(Newest(c).log), Carried(Newest(d).log), m,
                 base[Len(c.engines) + 1])
  PROVE  \E next \in [1 .. Len(d.engines) + 1 -> Nat] :
            Tally(d, next) /\ next[Len(d.engines) + 1] = base[Len(c.engines) + 1] + m
<1> DEFINE n == Len(c.engines)
           next == [base EXCEPT ![n + 1] = base[n + 1] + m]
           s == Carried(Newest(c).log)
           t == Carried(Newest(d).log)
<1>6. /\ IsSequence(t) /\ Len(t) = Len(s) + m /\ \A i \in 1 .. Len(s) : t[i] = s[i]
      /\ \A i \in 1 .. m : t[Len(s) + i] = EventData(base[n + 1] + i)
  BY DEF Numbers
<1>7. s = Carried(Newest(c).log) /\ t = Carried(Newest(d).log)
  OBVIOUS
<1> HIDE DEF s, t
<1>1. /\ n \in Nat /\ n > 0 /\ base \in [1 .. n + 1 -> Nat] /\ base[1] = 0
      /\ \A e \in 1 .. n :
            LET u == Carried(c.engines[e].log) IN
            /\ IsSequence(u) /\ base[e + 1] = base[e] + Len(u)
            /\ \A i \in 1 .. Len(u) : u[i] = EventData(base[e] + i)
  BY Lengths DEF Tally
<1>8. DOMAIN c.engines = 1 .. n
  BY Lengths
<1>2. /\ Newest(c) = c.engines[n] /\ Newest(d) = d.engines[n] /\ Len(d.engines) = n
      /\ \A e \in 1 .. n : e # n => d.engines[e].log = c.engines[e].log
      /\ \A i \in 1 .. m : t[Len(s) + i] = EventData(base[n + 1] + i)
  BY <1>6, <1>8 DEF Newest, LinesBut
<1> HIDE DEF n
<1>3. /\ next \in [1 .. n + 1 -> Nat] /\ next[n + 1] = base[n + 1] + m
      /\ \A e \in 1 .. n : next[e] = base[e]
      /\ n \in 1 .. n /\ 1 \in 1 .. n /\ base[n + 1] \in Nat /\ base[n] \in Nat
  <2>1. n \in 1 .. n /\ 1 \in 1 .. n /\ n + 1 \in 1 .. n + 1 /\ n \in 1 .. n + 1
        /\ \A e \in 1 .. n : e \in 1 .. n + 1 /\ e # n + 1
    BY <1>1
  <2>2. base[n + 1] \in Nat /\ base[n] \in Nat /\ DOMAIN base = 1 .. n + 1
    BY <1>1, <2>1
  <2>3. base[n + 1] + m \in Nat
    BY <2>2
  <2>4. next \in [1 .. n + 1 -> Nat] /\ next[n + 1] = base[n + 1] + m
        /\ \A e \in 1 .. n : next[e] = base[e]
    <3> DEFINE x == base[n + 1] + m
               l == n + 1
    <3> HIDE DEF x, l
    <3>1. next = [base EXCEPT ![l] = x] /\ x \in Nat /\ base \in [1 .. l -> Nat]
          /\ l \in 1 .. l /\ \A e \in 1 .. n : e \in 1 .. l /\ e # l
      BY <1>1, <2>1, <2>3 DEF x, l
    <3> HIDE DEF next
    <3>2. next \in [1 .. l -> Nat] /\ next[l] = x /\ \A e \in 1 .. n : next[e] = base[e]
      BY <3>1
    <3> QED
      BY <3>2 DEF x, l
  <2> QED
    BY <2>1, <2>2, <2>4
<1> HIDE DEF next
<1>4. ASSUME NEW e \in 1 .. n
      PROVE  LET u == Carried(d.engines[e].log) IN
             /\ IsSequence(u) /\ next[e + 1] = next[e] + Len(u)
             /\ \A i \in 1 .. Len(u) : u[i] = EventData(next[e] + i)
  <2>1. CASE e # n
    <3>3. e + 1 \in 1 .. n
      BY <1>1, <2>1
    <3>1. next[e] = base[e] /\ next[e + 1] = base[e + 1]
      BY <1>3, <3>3
    <3>2. d.engines[e].log = c.engines[e].log
      BY <1>2, <2>1
    <3> QED
      BY <1>1, <3>1, <3>2
  <2>2. CASE e = n
    <3>1. /\ IsSequence(s) /\ base[n + 1] = base[n] + Len(s)
          /\ \A i \in 1 .. Len(s) : s[i] = EventData(base[n] + i)
      <4>1. s = Carried(c.engines[n].log)
        BY <1>7, <1>2
      <4>2. LET u == Carried(c.engines[n].log) IN
            /\ IsSequence(u) /\ base[n + 1] = base[n] + Len(u)
            /\ \A i \in 1 .. Len(u) : u[i] = EventData(base[n] + i)
        <5>1. n \in 1 .. n
          BY <1>3
        <5> QED
          BY <1>1, <5>1, Zenon
      <4> QED
        BY <4>1, <4>2
    <3>2. Len(s) \in Nat
      BY <3>1, SequenceAppend
    <3>3. next[n + 1] = next[n] + Len(t)
      BY <1>3, <1>6, <3>1, <3>2, SMTT(30)
    <3>4. ASSUME NEW i \in 1 .. Len(t)
          PROVE  t[i] = EventData(next[n] + i)
      <4>1. CASE i <= Len(s)
        <5>1. i \in 1 .. Len(s)
          BY <3>2, <4>1
        <5> QED
          BY <1>6, <1>3, <3>1, <5>1
      <4>2. CASE ~(i <= Len(s))
        <5>1. PICK k \in 1 .. m : i = Len(s) + k
          <6>1. i - Len(s) \in 1 .. m /\ i = Len(s) + (i - Len(s))
            BY <1>6, <3>2, <4>2
          <6> QED
            BY <6>1
        <5>2. base[n + 1] + k = next[n] + i
          <6>1. next[n] = base[n] /\ base[n + 1] = base[n] + Len(s) /\ i = Len(s) + k
                /\ base[n] \in Nat /\ Len(s) \in Nat /\ k \in Nat
            BY <1>3, <3>1, <3>2, <5>1, SMTT(30)
          <6> QED
            BY <6>1
        <5> QED
          BY <1>2, <5>1, <5>2
      <4> QED
        BY <4>1, <4>2
    <3>5. Carried(d.engines[e].log) = t /\ next[e + 1] = next[n + 1] /\ next[e] = next[n]
      BY <1>2, <1>7, <2>2
    <3> QED
      BY <1>6, <3>3, <3>4, <3>5
  <2> QED
    BY <2>1, <2>2
<1>5. Tally(d, next)
  BY <1>1, <1>2, <1>3, <1>4 DEF Tally
<1> QED
  BY <1>2, <1>3, <1>5 DEF n

(* What is heard and read is the same in c and in d.                       *)
SameHearing(c, d) ==
  /\ d.io.acked = c.io.acked /\ d.io.receiveBuffer = c.io.receiveBuffer
  /\ d.io.heard = c.io.heard /\ d.io.aborted = c.io.aborted /\ d.io.misread = c.io.misread
  /\ d.io.connected = c.io.connected /\ d.io.reconstructor = c.io.reconstructor

(* Socket.emit registers a callback, and writes the packet or keeps it.    *)
LEMMA EmitSame ==
  ASSUME NEW c, Shape(c), Len(c.engines) > 0,
         c.io.connected => Newest(c).state = "open", NEW n
  PROVE  LET d == Emit(c, n) IN
         /\ Quiet(c, d) /\ SameHearing(c, d)
         /\ d.io.ids = c.io.ids + 1
         /\ d.io.acks = c.io.acks \cup {[id |-> c.io.ids, n |-> n]}
         /\ c.io.connected =>
               /\ LinesBut(c, d) /\ d.io.sendBuffer = c.io.sendBuffer
               /\ d.engines[Len(c.engines)].log =
                     c.engines[Len(c.engines)].log \o Encode(Event(n, c.io.ids))
         /\ ~c.io.connected =>
               /\ d.engines = c.engines
               /\ d.io.sendBuffer = Append(c.io.sendBuffer, Event(n, c.io.ids))
<1> DEFINE x == Event(n, c.io.ids)
           new == [id |-> c.io.ids, n |-> n]
           a == [c EXCEPT !.io.acks = @ \cup {new}, !.io.ids = @ + 1]
           d == Emit(c, n)
<1>0. Quiet(c, d)
  BY EmitQuiet
<1>1. d = IF c.io.connected THEN Packet(a, x)
          ELSE [a EXCEPT !.io.sendBuffer = Append(@, x)]
  BY DEF Emit
<1> HIDE DEF d, x, new
<1>2. /\ Shape(a) /\ a.engines = c.engines /\ SameHearing(c, a)
      /\ a.io.ids = c.io.ids + 1 /\ a.io.acks = c.io.acks \cup {new}
      /\ a.io.sendBuffer = c.io.sendBuffer
  BY DEF Shape, IoFields, SameHearing
<1> HIDE DEF a
<1>3. CASE c.io.connected
  <2> DEFINE q == Packet(a, x)
  <2>1. /\ Len(a.engines) > 0 /\ Newest(a).state \in {"opening", "open"} /\ Shape(a)
    BY <1>2, <1>3 DEF Newest
  <2>2. LET m == Len(a.engines) IN
        /\ Shape(q) /\ q.io = a.io /\ DOMAIN q.engines = DOMAIN a.engines
        /\ Len(q.engines) = m
        /\ \A f \in DOMAIN a.engines :
             /\ q.engines[f].at = a.engines[f].at /\ q.engines[f].down = a.engines[f].down
             /\ q.engines[f].srv = a.engines[f].srv
             /\ q.engines[f].state = a.engines[f].state
             /\ q.engines[f].hears = a.engines[f].hears
             /\ f # m => q.engines[f].log = a.engines[f].log
        /\ q.engines[m].log = a.engines[m].log \o Encode(x)
    BY <2>1, PacketSame, ZenonT(60)
  <2> HIDE DEF q
  <2>3. d = q
    BY <1>1, <1>3 DEF q
  <2>4. LinesBut(c, d) /\ d.engines[Len(c.engines)].log =
                             c.engines[Len(c.engines)].log \o Encode(x)
    <3>1. a.engines = c.engines
      BY <1>2, Zenon
    <3>2. LinesBut(a, d)
      BY <2>2, <2>3, Zenon DEF LinesBut
    <3>3. LinesBut(c, d)
      BY <3>1, <3>2, LinesOfSame, Zenon
    <3> QED
      BY <2>2, <2>3, <3>1, <3>3, Zenon
  <2>5. SameHearing(c, d) /\ d.io.ids = c.io.ids + 1
        /\ d.io.acks = c.io.acks \cup {new} /\ d.io.sendBuffer = c.io.sendBuffer
    BY <1>2, <2>2, <2>3 DEF SameHearing
  <2> QED
    BY <1>0, <1>3, <2>4, <2>5 DEF x, new, d
<1>4. CASE ~c.io.connected
  <2>1. d = [a EXCEPT !.io.sendBuffer = Append(@, x)]
    BY <1>1, <1>4
  <2>2. /\ d.engines = a.engines /\ SameHearing(a, d)
        /\ d.io.ids = a.io.ids /\ d.io.acks = a.io.acks
        /\ d.io.sendBuffer = Append(a.io.sendBuffer, x)
    BY <1>2, <2>1 DEF Shape, IoFields, SameHearing
  <2>3. SameHearing(c, d)
    BY <1>2, <2>2 DEF SameHearing
  <2> QED
    BY <1>0, <1>2, <1>4, <2>2, <2>3 DEF x, new, d
<1> QED
  BY <1>3, <1>4

(* A sum is not less than its first number.                                *)
LEMMA SumMore ==
  ASSUME NEW a \in Nat, NEW b \in Nat, NEW x, x = a + b
  PROVE  a <= x
  OBVIOUS

(* What a connected Socket emits, its newest connection carries.           *)
LEMMA EmitWrites ==
  ASSUME NEW c, NEW dn \in Nat, NEW n \in Nat, Shape(c), Len(c.engines) > 0,
         LogsOK(c), DownsOK(c, dn), EndsOK(c), Newest(c).state = "open", c.io.connected,
         NEW d, Quiet(c, d), StillKnows(c, d), Knows(d, n, c.io.ids), c.io.ids \in Nat,
         LinesBut(c, d),
         d.engines[Len(c.engines)].log =
            c.engines[Len(c.engines)].log \o Encode(Event(n, c.io.ids))
  PROVE  /\ LogsOK(d) /\ DownsOK(d, dn) /\ EndsOK(d) /\ Len(d.engines) = Len(c.engines)
         /\ Newest(d).down = Newest(c).down /\ Newest(d).state = "open"
         /\ Newest(d).hears = Newest(c).hears
         /\ Carried(Newest(d).log) = IF n > 0 THEN Append(Carried(Newest(c).log), EventData(n))
                                     ELSE Carried(Newest(c).log)
         /\ IsSequence(Carried(Newest(c).log))
<1> DEFINE m == Len(c.engines)
           s == c.engines[m].log
           w == Encode(Event(n, c.io.ids))
           t == d.engines[m].log
<1>1. m \in DOMAIN c.engines /\ Shape(d)
  <2>1. DOMAIN c.engines = 1 .. m /\ m \in Nat /\ m > 0
    BY Lengths
  <2>2. Shape(d)
    BY Zenon DEF Quiet
  <2> HIDE DEF m
  <2>3. m \in 1 .. m
    BY <2>1
  <2> QED
    BY <2>1, <2>2, <2>3, Zenon
<1>2. t = s \o w
  OBVIOUS
<1>3. UpLog(c, s)
  BY <1>1 DEF LogsOK
<1>4. UpLog(d, s)
  <2> HIDE DEF s
  <2> QED
    BY <1>3, UpLogKept
<1>5. IsSequence(w)
  BY FramesAreLists
<1>6. UpLog(d, s \o w)
  <2> HIDE DEF s
  <2> QED
    BY <1>4, UpLogMore
<1>7. /\ Carried(s \o w) = IF n > 0 THEN Append(Carried(s), EventData(n)) ELSE Carried(s)
      /\ IsSequence(Carried(s))
  <2> HIDE DEF s
  <2> QED
    BY <1>4, CarriedMore
<1>8. Len(s) <= Len(t)
  <2>1. IsSequence(s)
    BY <1>3 DEF UpLog
  <2> HIDE DEF s, t, w
  <2>2. Len(s) \in Nat /\ Len(w) \in Nat /\ Len(t) = Len(s) + Len(w)
    BY <1>2, <1>5, <2>1, Joined, ZenonT(60)
  <2> HIDE DEF m
  <2> QED
    BY <2>2, SumMore, Zenon
<1>9. Newest(c).log = s /\ UpLog(d, d.engines[Len(c.engines)].log)
      /\ Len(Newest(c).log) <= Len(d.engines[Len(c.engines)].log)
  BY <1>2, <1>6, <1>8 DEF Newest
<1>10. /\ LogsOK(d) /\ DownsOK(d, dn) /\ EndsOK(d) /\ Len(d.engines) = Len(c.engines)
       /\ Newest(d).down = Newest(c).down /\ Newest(d).state = "open"
       /\ Newest(d).hears = Newest(c).hears
  BY <1>1, <1>9, LinesGrown
<1>11. Newest(d).log = t
  BY <1>10 DEF Newest
<1> HIDE DEF s, t, w, m
<1>12. /\ Carried(Newest(d).log) = IF n > 0 THEN Append(Carried(Newest(c).log), EventData(n))
                                   ELSE Carried(Newest(c).log)
       /\ IsSequence(Carried(Newest(c).log))
  <2>1. Newest(c).log = s
    BY <1>9, Zenon
  <2> QED
    BY <1>2, <1>7, <1>11, <2>1, Zenon
<1> QED
  BY <1>10, <1>12, Zenon

(* Where nothing about connections changes, the phase and the bounds stay. *)
LEMMA QuietPhase ==
  ASSUME NEW c, NEW d, Shape(c), Len(c.engines) > 0, Quiet(c, d)
  PROVE  /\ Running(d) <=> Running(c)
         /\ Bounds(c) /\ d.io.connected \in BOOLEAN => Bounds(d)
<1>1. Shape(c) /\ Shape(d) /\ DOMAIN d.engines = DOMAIN c.engines
  BY DEF Quiet
<1>2. Len(d.engines) = Len(c.engines) /\ DOMAIN c.engines = 1 .. Len(c.engines)
      /\ Len(c.engines) \in Nat
  BY <1>1, Lengths
<1>3. Len(c.engines) \in DOMAIN c.engines
  BY <1>2
<1>4. /\ (Running(d) <=> Running(c)) /\ (Finished(d) <=> Finished(c))
      /\ (Opening(d) <=> Opening(c)) /\ (Waiting(d) <=> Waiting(c))
      /\ d.io.attempts = c.io.attempts /\ d.io.reconnecting = c.io.reconnecting
  BY <1>1, <1>2, <1>3 DEF Quiet, Opening, Running, Waiting, Finished, Newest
<1> QED
  BY <1>2, <1>4 DEF Bounds

(* The page emits an event.                                                *)
LEMMA PageEmitsData ==
  ASSUME Good(c0), Known(c0, emitted, downs), PageEmits
  PROVE  \E d : Step(d) /\ Known(d, emitted', downs')
<1> DEFINE n == emitted + 1
           d == Emit(c0, n)
           i == io.ids
           x == Event(n, i)
<1>1. emitted' = n /\ downs' = downs /\ Step(d)
  BY DEF PageEmits
<1>2. /\ Shape(c0) /\ c0.io = io /\ c0.engines = engines /\ Len(c0.engines) = Current
      /\ Current \in Nat /\ Current > 0 /\ DOMAIN engines = 1 .. Current
      /\ DOMAIN io = IoFields /\ Newest(c0) = engines[Current]
  BY GoodHere DEF Current
<1>3. /\ emitted \in Nat /\ downs \in Nat /\ n \in Nat /\ n > 0 /\ emitted <= n /\ emitted < n
      /\ AcksOK(c0, emitted) /\ LogsOK(c0) /\ DownsOK(c0, downs) /\ EndsOK(c0)
      /\ PhaseOK(c0, downs) /\ HeardOK(c0, downs) /\ Waits(c0) /\ Bounds(c0)
      /\ ~io.aborted => OrderOK(c0) /\ GivenOK(c0, emitted)
  <2>1. emitted \in Nat
    BY DEF Known, Data
  <2> QED
    BY <1>2, <2>1 DEF Known, Data
<1> HIDE DEF n
<1>4. io.connected => Running(c0) /\ engines[Current].state = "open"
  BY NotConnected, SMTT(30) DEF Known
<1>5. /\ Quiet(c0, d) /\ SameHearing(c0, d)
      /\ d.io.ids = io.ids + 1 /\ d.io.acks = io.acks \cup {[id |-> io.ids, n |-> n]}
      /\ io.connected =>
            /\ LinesBut(c0, d) /\ d.io.sendBuffer = io.sendBuffer
            /\ d.engines[Current].log = engines[Current].log \o Encode(x)
      /\ ~io.connected => d.engines = engines /\ d.io.sendBuffer = Append(io.sendBuffer, x)
  BY <1>2, <1>4, EmitSame
<1> HIDE DEF d
<1>6. AcksOK(d, n) /\ StillKnows(c0, d) /\ Knows(d, n, i) /\ i \in Nat
  BY <1>2, <1>3, <1>5, NewAck DEF SameHearing
<1>7. (Running(d) <=> Running(c0)) /\ Bounds(d) /\ Shape(d)
  <2>1. d.io.connected \in BOOLEAN
    BY <1>2, <1>3, <1>5 DEF Bounds, SameHearing
  <2> QED
    BY <1>2, <1>3, <1>5, <2>1, QuietPhase DEF Quiet
<1>8. HeardOK(d, downs)
  <2>1. d.io.heard = c0.io.heard /\ d.io.receiveBuffer = c0.io.receiveBuffer
        /\ d.io.misread = c0.io.misread /\ downs <= downs
    BY <1>3, <1>5 DEF SameHearing
  <2> QED
    BY <1>3, <2>1, HeardKept
<1>9. ASSUME Newest(d).down = Newest(c0).down, Newest(d).hears = Newest(c0).hears,
             Newest(d).state = Newest(c0).state
      PROVE  /\ Hearing(d) => Follows(d, downs)
             /\ ~d.io.aborted => OrderOK(d)
  <2>1. (Hearing(d) <=> Hearing(c0)) /\ d.io.reconstructor = c0.io.reconstructor
    BY <1>5, <1>9 DEF Hearing, SameHearing
  <2>2. Hearing(d) => Follows(d, downs)
    BY <1>3, <1>9, <2>1 DEF PhaseOK, Follows
  <2>3. HalfRead(d) \subseteq HalfRead(c0)
    BY <2>1 DEF HalfRead
  <2>4. ASSUME ~d.io.aborted
        PROVE  OrderOK(d)
    <3>1. OrderOK(c0)
      BY <1>2, <1>3, <1>5, <2>4 DEF SameHearing
    <3>2. /\ Coming(Newest(d).down) \subseteq Coming(Newest(c0).down)
          /\ NewsRises(Newest(d).down)
      BY <1>9, <3>1 DEF OrderOK
    <3>3. d.io.heard = c0.io.heard /\ d.io.receiveBuffer = c0.io.receiveBuffer
      BY <1>5 DEF SameHearing
    <3> QED
      BY <2>3, <3>1, <3>2, <3>3, OrderKept
  <2> QED
    BY <2>2, <2>4
<1>10. CASE io.connected
  <2>1. Newest(c0).state = "open" /\ c0.io.connected
    BY <1>2, <1>4, <1>10
  <2>2. /\ LogsOK(d) /\ DownsOK(d, downs) /\ EndsOK(d) /\ Len(d.engines) = Current
        /\ Newest(d).down = Newest(c0).down /\ Newest(d).state = "open"
        /\ Newest(d).hears = Newest(c0).hears
        /\ Carried(Newest(d).log) = Append(Carried(Newest(c0).log), EventData(n))
        /\ IsSequence(Carried(Newest(c0).log))
    <3>1. /\ LinesBut(c0, d)
          /\ d.engines[Len(c0.engines)].log =
                c0.engines[Len(c0.engines)].log \o Encode(Event(n, c0.io.ids))
          /\ Knows(d, n, c0.io.ids) /\ c0.io.ids \in Nat /\ Len(c0.engines) > 0
      BY <1>2, <1>5, <1>6, <1>10
    <3>2. /\ Shape(c0) /\ LogsOK(c0) /\ DownsOK(c0, downs) /\ EndsOK(c0) /\ Quiet(c0, d)
          /\ StillKnows(c0, d) /\ n \in Nat /\ downs \in Nat
      BY <1>2, <1>3, <1>5, <1>6
    <3>3. /\ LogsOK(d) /\ DownsOK(d, downs) /\ EndsOK(d) /\ Len(d.engines) = Len(c0.engines)
          /\ Newest(d).down = Newest(c0).down /\ Newest(d).state = "open"
          /\ Newest(d).hears = Newest(c0).hears
          /\ Carried(Newest(d).log) = IF n > 0 THEN Append(Carried(Newest(c0).log), EventData(n))
                                      ELSE Carried(Newest(c0).log)
          /\ IsSequence(Carried(Newest(c0).log))
      BY <2>1, <3>1, <3>2, EmitWrites
    <3> QED
      BY <1>2, <1>3, <3>3
  <2>3. d.io.sendBuffer = io.sendBuffer
    BY <1>5, <1>10
  <2>4. Waits(d)
    BY <1>2, <1>3, <1>6, <2>3, WaitsKept
  <2>5. /\ Hearing(d) => Follows(d, downs)
        /\ ~d.io.aborted => OrderOK(d)
    BY <1>9, <2>1, <2>2
  <2>6. PhaseOK(d, downs)
    BY <1>2, <1>3, <1>5, <1>7, <2>3, <2>5 DEF PhaseOK, SameHearing
  <2>7. ASSUME ~d.io.aborted
        PROVE  GivenOK(d, n)
    <3>1. GivenOK(c0, emitted) /\ io.sendBuffer = <<>>
      BY <1>2, <1>3, <1>5, <1>10, <2>7 DEF SameHearing, PhaseOK
    <3>2. PICK base \in [1 .. Len(c0.engines) + 1 -> Nat] :
            /\ Tally(c0, base)
            /\ base[Len(c0.engines) + 1] + Len(c0.io.sendBuffer) = emitted
      BY <3>1 DEF GivenOK
    <3>3. base[Current + 1] \in Nat /\ Len(io.sendBuffer) = 0
      <4>1. Current + 1 \in 1 .. Current + 1
        BY <1>2
      <4> QED
        BY <1>2, <3>1, <3>2, <4>1
    <3>4. base[Current + 1] = emitted /\ base[Current + 1] + 1 = n
      BY <1>2, <1>3, <3>2, <3>3 DEF n
    <3> DEFINE s == Carried(Newest(c0).log)
               t == Carried(Newest(d).log)
    <3>5. IsSequence(s) /\ t = Append(s, EventData(n))
      BY <2>2
    <3> HIDE DEF s, t
    <3>6. /\ IsSequence(t) /\ Len(t) = Len(s) + 1 /\ \A k \in 1 .. Len(s) : t[k] = s[k]
          /\ t[Len(s) + 1] = EventData(n)
      BY <3>5, SequenceAppend
    <3>7. \A k \in 1 .. 1 : t[Len(s) + k] = EventData(base[Len(c0.engines) + 1] + k)
      BY <1>2, <3>4, <3>6
    <3>9. \E next \in [1 .. Len(d.engines) + 1 -> Nat] :
             Tally(d, next) /\ next[Len(d.engines) + 1] = base[Len(c0.engines) + 1] + 1
      <4>1. Len(d.engines) = Len(c0.engines) /\ Len(c0.engines) > 0 /\ 1 \in Nat
            /\ Tally(c0, base) /\ s = Carried(Newest(c0).log) /\ t = Carried(Newest(d).log)
        BY <1>2, <2>2, <3>2 DEF s, t
      <4>2. Numbers(s, t, 1, base[Len(c0.engines) + 1]) /\ LinesBut(c0, d)
        BY <1>5, <1>10, <3>6, <3>7 DEF Numbers
      <4>3. Shape(c0) /\ base \in [1 .. Len(c0.engines) + 1 -> Nat]
        BY <1>2, <3>2
      <4> QED
        BY <4>1, <4>2, <4>3, TallyMore, SMTT(30)
    <3>10. PICK next \in [1 .. Len(d.engines) + 1 -> Nat] :
             Tally(d, next) /\ next[Len(d.engines) + 1] = n
      BY <1>2, <3>4, <3>9
    <3>11. d.io.sendBuffer = <<>> /\ Len(d.io.sendBuffer) = 0
           /\ DOMAIN d.io.sendBuffer = {} /\ n + 0 = n
      BY <1>3, <2>3, <3>1
    <3> QED
      BY <3>10, <3>11 DEF GivenOK
  <2>8. Data(d, n, downs)
    BY <1>3, <1>6, <1>8, <2>2, <2>4, <2>5, <2>6, <2>7 DEF Data
  <2> QED
    BY <1>1, <1>7, <2>8 DEF Known
<1>11. CASE ~io.connected
  <2> DEFINE b == io.sendBuffer
             w == d.io.sendBuffer
  <2>1. d.engines = c0.engines /\ w = Append(b, x) /\ Newest(d) = Newest(c0)
        /\ IsSequence(b)
    BY <1>2, <1>5, <1>11 DEF Newest, Shape
  <2> HIDE DEF x
  <2>2. /\ Len(b) \in Nat /\ DOMAIN b = 1 .. Len(b) /\ DOMAIN w = 1 .. Len(b) + 1
        /\ Len(w) = Len(b) + 1 /\ \A k \in 1 .. Len(b) : w[k] = b[k]
        /\ w[Len(b) + 1] = x
    <3> HIDE DEF b, w
    <3> QED
      BY <2>1, SequenceAppend
  <2>3. LogsOK(d)
    <3>1. ASSUME NEW e \in DOMAIN engines
          PROVE  UpLog(d, engines[e].log)
      BY <1>2, <1>3, <1>6, UpLogKept DEF LogsOK
    <3> QED
      BY <1>2, <1>3, <2>1, <3>1 DEF LogsOK
  <2>4. DownsOK(d, downs)
    <3>1. ASSUME NEW e \in DOMAIN engines
          PROVE  DownList(d, engines[e].down, downs)
      <4>1. DownList(c0, engines[e].down, downs) /\ downs <= downs
        BY <1>2, <1>3 DEF DownsOK
      <4> QED
        BY <1>3, <1>6, <4>1, DownListKept
    <3> QED
      BY <1>2, <2>1, <3>1 DEF DownsOK
  <2>5. EndsOK(d)
    BY <1>3, <2>1 DEF EndsOK
  <2>6. /\ Hearing(d) => Follows(d, downs)
        /\ ~d.io.aborted => OrderOK(d)
    BY <1>9, <2>1
  <2>7. PhaseOK(d, downs)
    BY <1>2, <1>5, <1>11, <2>6 DEF PhaseOK, SameHearing
  <2>8. Waits(d)
    <3>1. ASSUME NEW k \in 1 .. Len(b) + 1
          PROVE  \E j, l \in Nat : j > 0 /\ Knows(d, j, l) /\ w[k] = Event(j, l)
      <4>1. CASE k \in 1 .. Len(b)
        <5>1. PICK j, l \in Nat : j > 0 /\ Knows(c0, j, l) /\ b[k] = Event(j, l)
          BY <1>2, <1>3, <2>2, <4>1 DEF Waits
        <5> QED
          BY <1>6, <2>2, <4>1, <5>1 DEF StillKnows
      <4>2. CASE k = Len(b) + 1
        <5>1. w[k] = Event(n, i)
          BY <2>2, <4>2 DEF x
        <5> QED
          BY <1>3, <1>6, <5>1
      <4> QED
        BY <2>2, <4>1, <4>2
    <3> QED
      BY <2>2, <3>1 DEF Waits
  <2>9. ASSUME ~d.io.aborted
        PROVE  GivenOK(d, n)
    <3>1. GivenOK(c0, emitted)
      BY <1>2, <1>3, <1>5, <2>9 DEF SameHearing
    <3>2. PICK base \in [1 .. Current + 1 -> Nat] :
            /\ Tally(c0, base)
            /\ base[Current + 1] + Len(b) = emitted
            /\ \A k \in DOMAIN b : \E l \in Nat : b[k] = Event(base[Current + 1] + k, l)
      BY <1>2, <3>1 DEF GivenOK
    <3> DEFINE done == base[Current + 1]
    <3>3. done \in Nat
      <4>1. Current + 1 \in 1 .. Current + 1
        BY <1>2
      <4> QED
        BY <3>2, <4>1
    <3>4. done + Len(w) = n /\ done + (Len(b) + 1) = n
      <4> HIDE DEF done
      <4>1. done + Len(b) = emitted
        BY <3>2 DEF done
      <4> QED
        BY <2>2, <3>3, <4>1 DEF n
    <3>5. ASSUME NEW k \in DOMAIN w
          PROVE  \E l \in Nat : w[k] = Event(done + k, l)
      <4>1. CASE k \in 1 .. Len(b)
        BY <2>2, <3>2, <4>1
      <4>2. CASE k = Len(b) + 1
        BY <1>6, <2>2, <3>4, <4>2 DEF x
      <4> QED
        BY <2>2, <4>1, <4>2
    <3>6. Tally(d, base) /\ Len(d.engines) = Current
      BY <1>2, <2>1, <3>2, ZenonT(60) DEF Tally
    <3> QED
      BY <3>4, <3>5, <3>6 DEF GivenOK
  <2>10. Data(d, n, downs)
    BY <1>3, <1>6, <1>8, <2>3, <2>4, <2>5, <2>6, <2>7, <2>8, <2>9 DEF Data
  <2> QED
    BY <1>1, <1>7, <2>10 DEF Known
<1> QED
  BY <1>10, <1>11

(* The first loop of Socket.emitBuffered: what has been told to the        *)
(* listeners when d has come of c and of the first k events of s.          *)
Spoken(c, d) ==
  /\ d.engines = c.engines
  /\ d.io.ids = c.io.ids /\ d.io.acks = c.io.acks /\ d.io.acked = c.io.acked
  /\ d.io.sendBuffer = c.io.sendBuffer /\ d.io.receiveBuffer = c.io.receiveBuffer
  /\ d.io.aborted = c.io.aborted /\ d.io.misread = c.io.misread
  /\ d.io.connected = c.io.connected /\ d.io.reconstructor = c.io.reconstructor

Longer(s, t, u, k) ==
  /\ Len(t) = Len(s) + k /\ \A i \in 1 .. Len(s) : t[i] = s[i]
  /\ \A i \in 1 .. k : t[Len(s) + i] = u[i]

AllNews(s, dn) == IsSequence(s) /\ \A i \in DOMAIN s : IsNewsData(s[i], dn)

Told(c, s, k, dn, d) ==
  /\ Shape(d) /\ Spoken(c, d) /\ AllNews(d.io.heard, dn)
  /\ ~d.io.threw => Longer(c.io.heard, d.io.heard, s, k)

(* One element more.                                                       *)
LEMMA LongerNext ==
  ASSUME NEW s, IsSequence(s), NEW t, IsSequence(t), NEW u, NEW k \in Nat, Longer(s, t, u, k)
  PROVE  Longer(s, Append(t, u[k + 1]), u, k + 1)
<1> DEFINE x == u[k + 1]
           v == Append(t, x)
<1>1. /\ Len(s) \in Nat /\ Len(t) \in Nat /\ Len(t) = Len(s) + k
      /\ \A i \in 1 .. Len(s) : t[i] = s[i]
      /\ \A i \in 1 .. k : t[Len(s) + i] = u[i]
  BY SequenceAppend DEF Longer
<1>2. x = u[k + 1]
  OBVIOUS
<1> HIDE DEF x
<1>3. /\ Len(v) = Len(t) + 1 /\ \A i \in 1 .. Len(t) : v[i] = t[i]
      /\ v[Len(t) + 1] = x
  BY SequenceAppend
<1> HIDE DEF v
<1>4. Len(v) = Len(s) + (k + 1)
  BY <1>1, <1>3
<1>5. ASSUME NEW i \in 1 .. Len(s)
      PROVE  v[i] = s[i]
  <2>1. i \in 1 .. Len(t)
    BY <1>1
  <2> QED
    BY <1>1, <1>3, <2>1
<1>6. ASSUME NEW i \in 1 .. k + 1
      PROVE  v[Len(s) + i] = u[i]
  <2>1. CASE i \in 1 .. k
    <3>1. Len(s) + i \in 1 .. Len(t)
      BY <1>1, <2>1
    <3> QED
      <4>1. v[Len(s) + i] = t[Len(s) + i]
        BY <1>3, <3>1
      <4>2. t[Len(s) + i] = u[i]
        BY <1>1, <2>1
      <4> QED
        BY <4>1, <4>2
  <2>2. CASE i = k + 1
    <3>1. Len(s) + i = Len(t) + 1
      BY <1>1, <2>2
    <3> QED
      BY <1>2, <1>3, <2>2, <3>1
  <2> QED
    BY <2>1, <2>2
<1>7. Longer(s, v, u, k + 1)
  BY <1>4, <1>5, <1>6 DEF Longer
<1> QED
  BY <1>7 DEF v, x

(* A list of news with one more.                                           *)
LEMMA NewsAppend ==
  ASSUME NEW dn, NEW s, AllNews(s, dn), NEW x, IsNewsData(x, dn)
  PROVE  AllNews(Append(s, x), dn)
<1> DEFINE t == Append(s, x)
<1>1. /\ IsSequence(s) /\ \A i \in DOMAIN s : IsNewsData(s[i], dn)
  BY DEF AllNews
<1>2. /\ IsSequence(t) /\ DOMAIN s = 1 .. Len(s) /\ Len(s) \in Nat
      /\ DOMAIN t = 1 .. Len(s) + 1 /\ \A i \in 1 .. Len(s) : t[i] = s[i]
      /\ t[Len(s) + 1] = x
  BY <1>1, SequenceAppend
<1> HIDE DEF t
<1>3. \A i \in 1 .. Len(s) + 1 : i \in 1 .. Len(s) \/ i = Len(s) + 1
  BY <1>2
<1>4. AllNews(t, dn)
  BY <1>1, <1>2, <1>3 DEF AllNews
<1> QED
  BY <1>4 DEF t

(* The listeners are told of one more, unless one has thrown.              *)
LEMMA ToldNext ==
  ASSUME NEW c, IsSequence(c.io.heard), NEW s, NEW k \in Nat, NEW dn, NEW d,
         Told(c, s, k, dn, d), IsNewsData(s[k + 1], dn)
  PROVE  Told(c, s, k + 1, dn, EmitEvent(d, s[k + 1]))
<1> DEFINE x == s[k + 1]
           f == EmitEvent(d, x)
<1>1. /\ Shape(d) /\ Spoken(c, d) /\ AllNews(d.io.heard, dn)
      /\ ~d.io.threw => Longer(c.io.heard, d.io.heard, s, k)
  BY DEF Told
<1>2. CASE d.io.threw
  BY <1>1, <1>2 DEF Told, EmitEvent
<1>3. CASE ~d.io.threw
  <2>1. Shape(f)
    BY <1>1, EmitEventQuiet DEF Quiet
  <2>2. AllNews(Append(d.io.heard, x), dn)
    BY <1>1, NewsAppend
  <2>3. Longer(c.io.heard, Append(d.io.heard, x), s, k + 1)
    BY <1>1, <1>3, LongerNext DEF AllNews
  <2>4. f.io.heard = Append(d.io.heard, x) /\ Spoken(d, f)
    <3> HIDE DEF x
    <3> QED
      BY <1>1, <1>3 DEF EmitEvent, Shape, IoFields, Spoken
  <2>5. Spoken(c, f)
    BY <1>1, <2>4 DEF Spoken
  <2> HIDE DEF f, x
  <2>6. Told(c, s, k + 1, dn, f)
    BY <2>1, <2>2, <2>3, <2>4, <2>5 DEF Told
  <2> QED
    BY <2>6 DEF f, x
<1> QED
  BY <1>2, <1>3

(* emitBuffered tells them of all that was received, in order.             *)
LEMMA BufferTold ==
  ASSUME NEW c, Shape(c), NEW dn, AllNews(c.io.heard, dn), AllNews(c.io.receiveBuffer, dn)
  PROVE  Told(c, c.io.receiveBuffer, Len(c.io.receiveBuffer), dn,
              FoldLeft(EmitEvent, c, c.io.receiveBuffer))
<1> DEFINE s == c.io.receiveBuffer
           n == Len(s)
<1>1. DOMAIN s = 1 .. n /\ n \in Nat /\ IsSequence(c.io.heard)
  <2>1. IsSequence(s)
    BY DEF AllNews
  <2> HIDE DEF s
  <2> QED
    BY <2>1, SequenceAppend DEF AllNews
<1>2. \A i \in 1 .. n : IsNewsData(s[i], dn)
  BY <1>1 DEF AllNews
<1> HIDE DEF s, n
<1>3. PICK r : Loop(r, Emitted, c, s, n) /\ FoldLeft(EmitEvent, c, s) = r[n]
  BY <1>1, EmitEventLoop
<1> DEFINE T == {k \in 0 .. n : Told(c, s, k, dn, r[k])}
<1>4. 0 \in T
  <2>1. Longer(c.io.heard, c.io.heard, s, 0)
    BY <1>1, SequenceAppend DEF Longer
  <2>2. Spoken(c, c)
    BY DEF Spoken
  <2>3. r[0] = c /\ 0 \in 0 .. n
    BY <1>1, <1>3 DEF Loop
  <2>4. Told(c, s, 0, dn, r[0])
    BY <2>1, <2>2, <2>3 DEF Told
  <2> QED
    BY <2>3, <2>4
<1>5. ASSUME NEW k \in 0 .. n - 1, k \in T
      PROVE  k + 1 \in T
  <2>1. k + 1 \in 1 .. n /\ k + 1 \in 0 .. n /\ (k + 1) - 1 = k /\ k \in Nat
    BY <1>1
  <2>2. r[k + 1] = Handle(Emitted, r[k], s[k + 1])
    BY <1>3, <2>1 DEF Loop
  <2>3. Handle(Emitted, r[k], s[k + 1]) = EmitEvent(r[k], s[k + 1])
    BY DEF Handle, Emitted
  <2>4. Told(c, s, k + 1, dn, EmitEvent(r[k], s[k + 1]))
    BY <1>1, <1>2, <1>5, <2>1, ToldNext
  <2> QED
    BY <2>1, <2>2, <2>3, <2>4
<1>6. 0 .. n \subseteq T
  <2> HIDE DEF T
  <2> QED
    BY <1>1, <1>4, <1>5, Induction
<1>7. Told(c, s, n, dn, r[n])
  <2>1. n \in 0 .. n
    BY <1>1
  <2> QED
    BY <1>6, <2>1
<1> QED
  BY <1>3, <1>7 DEF s, n

(* The second loop of Socket.emitBuffered: d has come of c when the first  *)
(* k packets of s are written.                                             *)
DataOf(s) == [i \in DOMAIN s |-> s[i].data]

Put(c, s, k, d) ==
  LET n == Len(c.engines) IN
  /\ Shape(d) /\ d.io = c.io /\ LinesBut(c, d)
  /\ UpLog(c, d.engines[n].log) /\ Len(c.engines[n].log) <= Len(d.engines[n].log)
  /\ IsSequence(Carried(d.engines[n].log))
  /\ Longer(Carried(c.engines[n].log), Carried(d.engines[n].log), DataOf(s), k)

(* One more packet of the buffer is given to the connection.               *)
LEMMA PutNext ==
  ASSUME NEW c, Shape(c), Len(c.engines) > 0, Newest(c).state = "open", LogsOK(c),
         NEW s, NEW k \in Nat, k + 1 \in DOMAIN s, NEW d, Put(c, s, k, d),
         NEW n \in Nat, n > 0, NEW i \in Nat, Knows(c, n, i), s[k + 1] = Event(n, i)
  PROVE  Put(c, s, k + 1, Packet(d, s[k + 1]))
<1> DEFINE x == Event(n, i)
           w == Encode(x)
           f == Packet(d, x)
           m == Len(c.engines)
           l == c.engines[m].log
           g == d.engines[m].log
           h == f.engines[m].log
<1>1. /\ DOMAIN c.engines = 1 .. m /\ m \in Nat /\ m \in DOMAIN c.engines
      /\ Newest(c).state = c.engines[m].state
  <2>1. DOMAIN c.engines = 1 .. m /\ m \in Nat /\ m > 0 /\ Newest(c).state = c.engines[m].state
    BY Lengths DEF Newest
  <2> HIDE DEF m
  <2> QED
    BY <2>1
<1>2. /\ Shape(d) /\ d.io = c.io /\ LinesBut(c, d)
      /\ UpLog(c, g) /\ Len(l) <= Len(g) /\ IsSequence(Carried(g))
      /\ Longer(Carried(l), Carried(g), DataOf(s), k)
  BY DEF Put
<1>3. DOMAIN d.engines = DOMAIN c.engines /\ Len(d.engines) = m
  <2>1. /\ DOMAIN d.engines = 1 .. Len(d.engines) /\ Len(d.engines) \in Nat
        /\ DOMAIN d.engines = DOMAIN c.engines
    BY <1>2, Lengths DEF LinesBut
  <2> HIDE DEF m
  <2> QED
    BY <1>1, <2>1
<1>4. d.engines[m].state = "open"
  BY <1>1, <1>2, ZenonT(60) DEF LinesBut
<1> HIDE DEF x
<1>5. /\ Shape(f) /\ f.io = d.io /\ LinesBut(d, f)
      /\ f.engines[m].log = d.engines[m].log \o Encode(x)
  <2>1. Len(d.engines) > 0 /\ Newest(d).state \in {"opening", "open"}
    BY <1>3, <1>4, Zenon DEF Newest
  <2>2. LET q == Len(d.engines) IN
        /\ Shape(f) /\ f.io = d.io /\ DOMAIN f.engines = DOMAIN d.engines
        /\ Len(f.engines) = q
        /\ \A e \in DOMAIN d.engines :
             /\ f.engines[e].at = d.engines[e].at /\ f.engines[e].down = d.engines[e].down
             /\ f.engines[e].srv = d.engines[e].srv
             /\ f.engines[e].state = d.engines[e].state
             /\ f.engines[e].hears = d.engines[e].hears
             /\ e # q => f.engines[e].log = d.engines[e].log
        /\ f.engines[q].log = d.engines[q].log \o Encode(x)
    BY <1>2, <2>1, PacketSame, ZenonT(60)
  <2> HIDE DEF f
  <2> QED
    BY <1>3, <2>2 DEF LinesBut
<1> HIDE DEF f
<1>6. LinesBut(c, f)
  <2> HIDE DEF m
  <2> QED
    BY <1>2, <1>3, <1>5, ZenonT(60) DEF LinesBut, m
<1>7. h = g \o w
  BY <1>5, Zenon
<1>8. /\ UpLog(c, g \o w)
      /\ IsSequence(Carried(g)) /\ Carried(g \o w) = Append(Carried(g), EventData(n))
  <2>1. Carried(g \o Encode(Event(n, i))) = Append(Carried(g), EventData(n))
    <3> HIDE DEF g
    <3> QED
      BY <1>2, CarriedMore
  <2>2. UpLog(c, g \o Encode(Event(n, i)))
    <3> HIDE DEF g
    <3> QED
      BY <1>2, UpLogMore
  <2> QED
    BY <1>2, <2>1, <2>2 DEF x
<1>9. Len(l) <= Len(h)
  <2>1. IsSequence(l) /\ IsSequence(g) /\ IsSequence(w)
    BY <1>1, <1>2, FramesAreLists DEF LogsOK, UpLog, x
  <2> HIDE DEF l, g, h, w
  <2>2. Len(g) \in Nat /\ Len(w) \in Nat /\ Len(h) = Len(g) + Len(w) /\ Len(l) \in Nat
    BY <1>7, <2>1, Joined, SequenceAppend
  <2> QED
    BY <1>2, <2>2
<1>10. DataOf(s)[k + 1] = EventData(n)
  <2>1. Event(n, i).data = EventData(n)
    BY DEF Event, PacketOf
  <2> QED
    BY <2>1 DEF DataOf
<1>11. IsSequence(Carried(h)) /\ Longer(Carried(l), Carried(h), DataOf(s), k + 1)
  <2> DEFINE a == Carried(l)
             b == Carried(g)
             u == DataOf(s)
  <2>1. IsSequence(a)
    <3>1. UpLog(c, l)
      BY <1>1 DEF LogsOK
    <3> HIDE DEF l
    <3> QED
      BY <3>1, CarriedMore
  <2>2. Longer(a, b, u, k) /\ IsSequence(b) /\ u[k + 1] = EventData(n)
    BY <1>2, <1>10
  <2>3. Carried(h) = Append(b, u[k + 1])
    BY <1>7, <1>8, <2>2, Zenon
  <2> HIDE DEF a, b, u, h
  <2>4. Longer(a, Append(b, u[k + 1]), u, k + 1) /\ IsSequence(Append(b, u[k + 1]))
    BY <2>1, <2>2, LongerNext, SequenceAppend, Zenon
  <2> QED
    BY <2>3, <2>4 DEF a, u
<1>12. f.io = c.io /\ Shape(f) /\ UpLog(c, h)
  BY <1>2, <1>5, <1>7, <1>8, Zenon
<1>13. Put(c, s, k + 1, f)
  BY <1>6, <1>9, <1>11, <1>12 DEF Put
<1> QED
  BY <1>13 DEF f, x

(* emitBuffered gives it all that waits, in order.                         *)
LEMMA BufferPut ==
  ASSUME NEW c, Shape(c), Len(c.engines) > 0, Newest(c).state = "open", LogsOK(c), Waits(c)
  PROVE  Put(c, c.io.sendBuffer, Len(c.io.sendBuffer), FoldLeft(Packet, c, c.io.sendBuffer))
<1> DEFINE s == c.io.sendBuffer
           n == Len(s)
<1>1. DOMAIN s = 1 .. n /\ n \in Nat
  <2>1. IsSequence(s)
    BY DEF Shape
  <2> HIDE DEF s
  <2> QED
    BY <2>1, SequenceAppend
<1>2. \A k \in 1 .. n : \E j, i \in Nat : j > 0 /\ Knows(c, j, i) /\ s[k] = Event(j, i)
  BY <1>1 DEF Waits
<1> HIDE DEF s, n
<1>3. PICK r : Loop(r, Written, c, s, n) /\ FoldLeft(Packet, c, s) = r[n]
  BY <1>1, PacketLoop
<1> DEFINE T == {k \in 0 .. n : Put(c, s, k, r[k])}
<1>4. 0 \in T
  <2> DEFINE l == c.engines[Len(c.engines)].log
  <2>1. UpLog(c, l)
    BY Lengths DEF LogsOK
  <2>2. IsSequence(l) /\ IsSequence(Carried(l))
    <3> HIDE DEF l
    <3> QED
      BY <2>1, CarriedMore DEF UpLog
  <2>3. Len(l) <= Len(l)
    <3> HIDE DEF l
    <3>1. Len(l) \in Nat
      BY <2>2, SequenceAppend
    <3> QED
      BY <3>1
  <2>4. Longer(Carried(l), Carried(l), DataOf(s), 0)
    <3> DEFINE a == Carried(l)
    <3> HIDE DEF a
    <3>1. IsSequence(a)
      BY <2>2 DEF a
    <3>2. Longer(a, a, DataOf(s), 0)
      BY <3>1, SequenceAppend DEF Longer
    <3> QED
      BY <3>2 DEF a
  <2>5. LinesBut(c, c)
    BY DEF LinesBut
  <2>6. r[0] = c /\ 0 \in 0 .. n
    BY <1>1, <1>3 DEF Loop
  <2>7. Put(c, s, 0, c)
    BY <2>1, <2>2, <2>3, <2>4, <2>5 DEF Put
  <2> QED
    BY <2>6, <2>7
<1>5. ASSUME NEW k \in 0 .. n - 1, k \in T
      PROVE  k + 1 \in T
  <2>1. k + 1 \in 1 .. n /\ k + 1 \in 0 .. n /\ (k + 1) - 1 = k /\ k \in Nat
    BY <1>1
  <2>2. r[k + 1] = Handle(Written, r[k], s[k + 1])
    BY <1>3, <2>1 DEF Loop
  <2>3. Handle(Written, r[k], s[k + 1]) = Packet(r[k], s[k + 1])
    BY DEF Handle, Written
  <2>4. PICK j, i \in Nat : j > 0 /\ Knows(c, j, i) /\ s[k + 1] = Event(j, i)
    BY <1>2, <2>1
  <2>5. Put(c, s, k, r[k]) /\ k + 1 \in DOMAIN s
    BY <1>1, <1>5, <2>1
  <2>6. Put(c, s, k + 1, Packet(r[k], s[k + 1]))
    BY <2>1, <2>4, <2>5, PutNext
  <2> QED
    BY <2>1, <2>2, <2>3, <2>6
<1>6. 0 .. n \subseteq T
  <2> HIDE DEF T
  <2> QED
    BY <1>1, <1>4, <1>5, Induction
<1>7. Put(c, s, n, r[n])
  <2>1. n \in 0 .. n
    BY <1>1
  <2> QED
    BY <1>6, <2>1
<1> QED
  BY <1>3, <1>7 DEF s, n

(* What is known while a connected Socket has not yet emptied its buffers. *)
Sending(c, em, dn) ==
  /\ em \in Nat /\ dn \in Nat
  /\ AcksOK(c, em) /\ LogsOK(c) /\ DownsOK(c, dn) /\ EndsOK(c)
  /\ HeardOK(c, dn) /\ Waits(c) /\ (Hearing(c) => Follows(c, dn))
  /\ ~c.io.aborted => OrderOK(c) /\ GivenOK(c, em)

(* Data is Sending with what being connected means.                        *)
LEMMA SendingData ==
  ASSUME NEW c, NEW em, NEW dn
  PROVE  /\ Data(c, em, dn) => Sending(c, em, dn)
         /\ /\ Sending(c, em, dn) /\ (c.io.connected => Running(c))
            /\ c.io.connected /\ ~c.io.aborted =>
                  c.io.sendBuffer = <<>> /\ c.io.receiveBuffer = <<>>
            => Data(c, em, dn)
  BY DEF Data, Sending, PhaseOK

(* A list that goes on with another, each rising, one before the other.    *)
LEMMA NumbersJoined ==
  ASSUME NEW s, IsSequence(s), NEW t, IsSequence(t), NEW u, IsSequence(u),
         Longer(s, t, u, Len(u)), Rises(s), Rises(u), Before(NumbersOf(s), NumbersOf(u))
  PROVE  Rises(t) /\ NumbersOf(t) \subseteq NumbersOf(s) \cup NumbersOf(u)
<1>1. /\ DOMAIN s = 1 .. Len(s) /\ DOMAIN t = 1 .. Len(t) /\ DOMAIN u = 1 .. Len(u)
      /\ Len(s) \in Nat /\ Len(t) \in Nat /\ Len(u) \in Nat
  BY SequenceAppend
<1>2. /\ Len(t) = Len(s) + Len(u) /\ \A i \in 1 .. Len(s) : t[i] = s[i]
  BY DEF Longer
<1>3. \A i \in 1 .. Len(u) : t[Len(s) + i] = u[i]
  BY DEF Longer
<1>4. ASSUME NEW i \in 1 .. Len(t), ~(i <= Len(s))
      PROVE  i - Len(s) \in 1 .. Len(u) /\ t[i] = u[i - Len(s)]
  <2>1. i - Len(s) \in 1 .. Len(u) /\ i = Len(s) + (i - Len(s))
    BY <1>1, <1>2, <1>4
  <2> QED
    BY <1>3, <2>1
<1>5. ASSUME NEW i \in 1 .. Len(t), i <= Len(s)
      PROVE  i \in 1 .. Len(s) /\ t[i] = s[i]
  BY <1>1, <1>2, <1>5
<1>6. ASSUME NEW i \in 1 .. Len(t)
      PROVE  Number(t[i]) \in NumbersOf(s) \cup NumbersOf(u)
  BY <1>1, <1>4, <1>5 DEF NumbersOf
<1>7. ASSUME NEW i \in 1 .. Len(t), NEW j \in 1 .. Len(t), i < j
      PROVE  Number(t[i]) < Number(t[j])
  <2>1. CASE j <= Len(s)
    <3>1. i <= Len(s)
      BY <1>1, <1>7, <2>1
    <3>2. /\ i \in DOMAIN s /\ t[i] = s[i] /\ j \in DOMAIN s /\ t[j] = s[j]
      BY <1>1, <1>5, <2>1, <3>1
    <3> QED
      BY <1>7, <3>2 DEF Rises
  <2>2. CASE ~(j <= Len(s)) /\ i <= Len(s)
    <3>1. i \in DOMAIN s /\ t[i] = s[i] /\ j - Len(s) \in DOMAIN u /\ t[j] = u[j - Len(s)]
      BY <1>1, <1>4, <1>5, <2>2
    <3>2. Number(s[i]) \in NumbersOf(s) /\ Number(u[j - Len(s)]) \in NumbersOf(u)
      BY <3>1 DEF NumbersOf
    <3> QED
      BY <3>1, <3>2 DEF Before
  <2>3. CASE ~(i <= Len(s))
    <3>1. ~(j <= Len(s))
      BY <1>1, <1>7, <2>3
    <3>2. /\ i - Len(s) \in DOMAIN u /\ t[i] = u[i - Len(s)]
          /\ j - Len(s) \in DOMAIN u /\ t[j] = u[j - Len(s)]
      BY <1>1, <1>4, <2>3, <3>1
    <3>3. i - Len(s) < j - Len(s)
      BY <1>1, <1>7
    <3> QED
      BY <3>2, <3>3 DEF Rises
  <2> QED
    BY <2>1, <2>2, <2>3
<1>8. Rises(t)
  BY <1>1, <1>7 DEF Rises
<1>9. NumbersOf(t) \subseteq NumbersOf(s) \cup NumbersOf(u)
  BY <1>1, <1>6 DEF NumbersOf
<1> QED
  BY <1>8, <1>9

(* A listener threw an exception: the buffers stay as they are.            *)
LEMMA AbortedData ==
  ASSUME NEW c, NEW em, NEW dn, Shape(c), Sending(c, em, dn), Running(c), Len(c.engines) > 0,
         NEW r, Told(c, c.io.receiveBuffer, Len(c.io.receiveBuffer), dn, r), Quiet(c, r),
         NEW d, d = [r EXCEPT !.io.aborted = TRUE], Quiet(c, d)
  PROVE  Data(d, em, dn)
<1>1. Shape(r) /\ Spoken(c, r) /\ AllNews(r.io.heard, dn)
  BY DEF Told
<1>2. /\ d.engines = c.engines
      /\ d.io.ids = c.io.ids /\ d.io.acks = c.io.acks /\ d.io.acked = c.io.acked
      /\ d.io.sendBuffer = c.io.sendBuffer /\ d.io.receiveBuffer = c.io.receiveBuffer
      /\ d.io.misread = c.io.misread /\ d.io.reconstructor = c.io.reconstructor
      /\ d.io.heard = r.io.heard /\ d.io.aborted = TRUE
  BY <1>1 DEF Shape, IoFields, Spoken
<1>3. em \in Nat /\ dn \in Nat /\ AcksOK(d, em) /\ StillKnows(c, d)
  BY <1>2, AcksSame DEF Sending
<1>4. LogsOK(d)
  <2>1. \A e \in DOMAIN c.engines : UpLog(d, c.engines[e].log)
    BY <1>3, UpLogKept DEF Sending, LogsOK
  <2> QED
    BY <1>2, <2>1 DEF Sending, LogsOK
<1>5. DownsOK(d, dn)
  <2>1. dn <= dn
    BY <1>3
  <2>2. \A e \in DOMAIN c.engines : DownList(d, c.engines[e].down, dn)
    BY <1>3, <2>1, DownListKept DEF Sending, DownsOK
  <2> QED
    BY <1>2, <2>2 DEF DownsOK
<1>6. EndsOK(d)
  BY <1>2 DEF EndsOK, Sending
<1>7. HeardOK(d, dn)
  BY <1>1, <1>2 DEF Sending, HeardOK, AllNews
<1>8. Waits(d)
  BY <1>2, <1>3, WaitsKept DEF Sending
<1>9. Hearing(d) => Follows(d, dn)
  BY <1>2 DEF Sending, Hearing, Follows, Newest
<1>10. Running(d)
  BY QuietPhase
<1>11. Sending(d, em, dn)
  BY <1>2, <1>3, <1>4, <1>5, <1>6, <1>7, <1>8, <1>9 DEF Sending
<1> QED
  BY <1>2, <1>10, <1>11, SendingData

(* The buffers when they have been gone through.                           *)
AllHeard(r) == [r EXCEPT !.io.receiveBuffer = <<>>]
AllSent(q) == [q EXCEPT !.io.sendBuffer = <<>>]

(* All was told and all was written: both buffers are empty.               *)
LEMMA EmptiedData ==
  ASSUME NEW c, NEW em, NEW dn, Shape(c), Sending(c, em, dn), Running(c), Len(c.engines) > 0,
         NEW r, Told(c, c.io.receiveBuffer, Len(c.io.receiveBuffer), dn, r), ~r.io.threw,
         NEW p, p = AllHeard(r),
         NEW q, Put(p, c.io.sendBuffer, Len(c.io.sendBuffer), q),
         NEW d, d = AllSent(q), Quiet(c, d)
  PROVE  Data(d, em, dn)
<1> DEFINE n == Len(c.engines)
           sb == c.io.sendBuffer
           rb == c.io.receiveBuffer
<1>1. /\ Shape(r) /\ Spoken(c, r) /\ AllNews(r.io.heard, dn)
      /\ Longer(c.io.heard, r.io.heard, rb, Len(rb))
  BY DEF Told
<1>2. /\ p.engines = c.engines
      /\ p.io.ids = c.io.ids /\ p.io.acks = c.io.acks /\ p.io.acked = c.io.acked
      /\ p.io.sendBuffer = sb /\ p.io.receiveBuffer = <<>> /\ p.io.aborted = c.io.aborted
      /\ p.io.misread = c.io.misread /\ p.io.reconstructor = c.io.reconstructor
      /\ p.io.connected = c.io.connected
      /\ p.io.heard = r.io.heard
  BY <1>1, SMTT(30) DEF Shape, IoFields, Spoken, AllHeard
<1>3. /\ Shape(q) /\ q.io = p.io /\ LinesBut(c, q)
      /\ UpLog(p, q.engines[n].log) /\ Len(c.engines[n].log) <= Len(q.engines[n].log)
      /\ IsSequence(Carried(q.engines[n].log))
      /\ Longer(Carried(c.engines[n].log), Carried(q.engines[n].log), DataOf(sb), Len(sb))
  <2>1. p.engines = c.engines
    BY <1>2, Zenon
  <2>2. /\ Shape(q) /\ q.io = p.io /\ LinesBut(p, q)
        /\ UpLog(p, q.engines[n].log) /\ Len(c.engines[n].log) <= Len(q.engines[n].log)
        /\ IsSequence(Carried(q.engines[n].log))
        /\ Longer(Carried(c.engines[n].log), Carried(q.engines[n].log), DataOf(sb), Len(sb))
    BY <2>1, Zenon DEF Put
  <2>3. LinesBut(c, q)
    BY <2>1, <2>2, LinesOfSame, Zenon
  <2> QED
    BY <2>2, <2>3, Zenon
<1>4. /\ d.engines = q.engines
      /\ d.io.ids = c.io.ids /\ d.io.acks = c.io.acks /\ d.io.acked = c.io.acked
      /\ d.io.sendBuffer = <<>> /\ d.io.receiveBuffer = <<>> /\ d.io.aborted = c.io.aborted
      /\ d.io.misread = c.io.misread /\ d.io.reconstructor = c.io.reconstructor
      /\ d.io.heard = r.io.heard
  BY <1>2, <1>3 DEF Shape, IoFields, AllSent
<1>5. em \in Nat /\ dn \in Nat /\ AcksOK(d, em) /\ StillKnows(c, d) /\ StillKnows(p, d)
  <2>1. em \in Nat /\ dn \in Nat /\ AcksOK(d, em) /\ StillKnows(c, d)
    BY <1>4, AcksSame DEF Sending
  <2> QED
    BY <1>2, <1>4, <2>1 DEF StillKnows, Knows
<1>6. LinesBut(c, d) /\ UpLog(d, d.engines[n].log)
      /\ Len(Newest(c).log) <= Len(d.engines[n].log)
  <2>1. UpLog(d, q.engines[n].log)
    BY <1>3, <1>5, UpLogKept
  <2> QED
    BY <1>3, <1>4, <2>1 DEF LinesBut, Newest
<1>7. /\ LogsOK(d) /\ DownsOK(d, dn) /\ EndsOK(d) /\ Len(d.engines) = n
      /\ Newest(d).down = Newest(c).down /\ Newest(d).state = "open"
      /\ Newest(d).hears = Newest(c).hears
  <2>1. LogsOK(c) /\ DownsOK(c, dn) /\ EndsOK(c) /\ Newest(c).state = "open" /\ Shape(d)
    BY DEF Sending, Running, Quiet
  <2>2. UpLog(d, d.engines[Len(c.engines)].log)
        /\ Len(Newest(c).log) <= Len(d.engines[Len(c.engines)].log)
    BY <1>6
  <2>3. StillKnows(c, d) /\ LinesBut(c, d) /\ dn \in Nat
    BY <1>5, <1>6
  <2>4. /\ LogsOK(d) /\ DownsOK(d, dn) /\ EndsOK(d) /\ Len(d.engines) = Len(c.engines)
        /\ Newest(d).down = Newest(c).down /\ Newest(d).state = "open"
        /\ Newest(d).hears = Newest(c).hears
    BY <2>1, <2>2, <2>3, LinesGrown
  <2> QED
    BY <2>4
<1>8. HeardOK(d, dn)
  <2>1. DOMAIN d.io.receiveBuffer = {}
    BY <1>4
  <2> QED
    BY <1>1, <1>4, <2>1 DEF Sending, HeardOK, AllNews
<1>9. Waits(d) /\ Len(d.io.sendBuffer) = 0 /\ DOMAIN d.io.sendBuffer = {}
  BY <1>4 DEF Waits
<1>10. (Hearing(d) <=> Hearing(c)) /\ (Hearing(d) => Follows(d, dn))
  <2>1. Hearing(d) <=> Hearing(c)
    BY <1>7 DEF Hearing, Running
  <2> QED
    BY <1>4, <1>7, <2>1 DEF Sending, Follows
<1>11. Running(d)
  BY QuietPhase
<1>12. ASSUME ~d.io.aborted
       PROVE  OrderOK(d)
  <2>1. OrderOK(c)
    BY <1>4, <1>12 DEF Sending
  <2> DEFINE h == c.io.heard
             t == r.io.heard
             down == Newest(c).down
  <2>2. Rises(t) /\ NumbersOf(t) \subseteq NumbersOf(h) \cup NumbersOf(rb)
    <3>1. /\ IsSequence(h) /\ IsSequence(t) /\ IsSequence(rb)
          /\ Rises(h) /\ Rises(rb) /\ Before(NumbersOf(h), NumbersOf(rb))
      BY <1>1, <2>1 DEF OrderOK, Sending, HeardOK, AllNews, Shape
    <3>2. Longer(h, t, rb, Len(rb))
      BY <1>1
    <3> HIDE DEF h, t, rb
    <3> QED
      BY <3>1, <3>2, NumbersJoined
  <2>3. HalfRead(d) = HalfRead(c)
    BY <1>4, <1>10 DEF HalfRead
  <2>4. /\ NewsRises(down) /\ Before(NumbersOf(h), HalfRead(c))
        /\ Before(NumbersOf(h), Coming(down)) /\ Before(NumbersOf(rb), HalfRead(c))
        /\ Before(NumbersOf(rb), Coming(down)) /\ Before(HalfRead(c), Coming(down))
    BY <2>1 DEF OrderOK
  <2>5. Rises(d.io.receiveBuffer) /\ NumbersOf(d.io.receiveBuffer) = {}
    BY <1>4 DEF Rises, NumbersOf
  <2>6. d.io.heard = t /\ Newest(d).down = down
    BY <1>4, <1>7
  <2> HIDE DEF h, t, rb, down
  <2>7. Before(NumbersOf(t), HalfRead(c)) /\ Before(NumbersOf(t), Coming(down))
    BY <2>2, <2>4 DEF Before
  <2> QED
    BY <2>2, <2>3, <2>4, <2>5, <2>6, <2>7 DEF OrderOK, Before
<1>13. ASSUME ~d.io.aborted
       PROVE  GivenOK(d, em)
  <2>1. GivenOK(c, em)
    BY <1>4, <1>13 DEF Sending
  <2>2. PICK base \in [1 .. n + 1 -> Nat] :
          /\ Tally(c, base) /\ base[n + 1] + Len(sb) = em
          /\ \A k \in DOMAIN sb : \E i \in Nat : sb[k] = Event(base[n + 1] + k, i)
    BY <2>1 DEF GivenOK
  <2> DEFINE s == Carried(Newest(c).log)
             t == Carried(Newest(d).log)
             m == Len(sb)
             done == base[n + 1]
  <2>3. DOMAIN sb = 1 .. m /\ m \in Nat
    <3>1. IsSequence(sb)
      BY DEF Shape
    <3> HIDE DEF sb
    <3> QED
      BY <3>1, SequenceAppend
  <2>4. \A k \in 1 .. m : DataOf(sb)[k] = EventData(done + k)
    <3>1. \A x, i : Event(x, i).data = EventData(x)
      BY DEF Event, PacketOf
    <3> QED
      BY <2>2, <2>3, <3>1 DEF DataOf
  <2>5. IsSequence(t) /\ Longer(s, t, DataOf(sb), m)
    <3>1. Newest(d).log = q.engines[n].log /\ Newest(c).log = c.engines[n].log
      BY <1>4, <1>7 DEF Newest
    <3> QED
      BY <1>3, <3>1
  <2>6. Numbers(s, t, m, done)
    <3> HIDE DEF s, t, m, done, sb
    <3> QED
      BY <2>4, <2>5 DEF Numbers, Longer
  <2>7. \E next \in [1 .. Len(d.engines) + 1 -> Nat] :
           Tally(d, next) /\ next[Len(d.engines) + 1] = base[n + 1] + m
    <3>1. /\ base \in [1 .. Len(c.engines) + 1 -> Nat] /\ Tally(c, base) /\ m \in Nat
          /\ Len(d.engines) = Len(c.engines) /\ LinesBut(c, d)
          /\ Numbers(Carried(Newest(c).log), Carried(Newest(d).log), m,
                     base[Len(c.engines) + 1])
      BY <1>6, <1>7, <2>2, <2>3, <2>6
    <3> HIDE DEF m
    <3>2. \E next \in [1 .. Len(d.engines) + 1 -> Nat] :
             Tally(d, next) /\ next[Len(d.engines) + 1] = base[Len(c.engines) + 1] + m
      BY <3>1, TallyMore, ZenonT(60)
    <3> QED
      BY <3>2
  <2>8. PICK next \in [1 .. Len(d.engines) + 1 -> Nat] :
           Tally(d, next) /\ next[Len(d.engines) + 1] = em
    BY <2>2, <2>7
  <2>9. em + 0 = em
    BY <1>5
  <2> QED
    BY <1>9, <2>8, <2>9 DEF GivenOK
<1>14. Sending(d, em, dn)
  BY <1>5, <1>7, <1>8, <1>9, <1>10, <1>12, <1>13 DEF Sending
<1> QED
  BY <1>4, <1>11, <1>14, SendingData

(* Socket.emitBuffered: the two buffers are emptied, or a listener has     *)
(* thrown.                                                                 *)
LEMMA EmitBufferedData ==
  ASSUME NEW c, NEW em, NEW dn, Shape(c), Sending(c, em, dn), Running(c), Len(c.engines) > 0
  PROVE  Data(EmitBuffered(c), em, dn) /\ EmitBuffered(c).io.connected = c.io.connected
<1> DEFINE r == FoldLeft(EmitEvent, c, c.io.receiveBuffer)
           p == [r EXCEPT !.io.receiveBuffer = <<>>]
           q == FoldLeft(Packet, p, r.io.sendBuffer)
           a == [r EXCEPT !.io.aborted = TRUE]
           b == [q EXCEPT !.io.sendBuffer = <<>>]
           d == EmitBuffered(c)
<1>1. d = IF r.io.threw THEN a ELSE b
  BY DEF EmitBuffered
<1>2. Quiet(c, d) /\ Quiet(c, r)
  BY EmitBufferedQuiet, FoldQuiet DEF Shape
<1> HIDE DEF d
<1>3. Told(c, c.io.receiveBuffer, Len(c.io.receiveBuffer), dn, r)
  <2>1. AllNews(c.io.heard, dn) /\ AllNews(c.io.receiveBuffer, dn)
    BY DEF Sending, HeardOK, AllNews, Shape
  <2> QED
    BY <2>1, BufferTold
<1> HIDE DEF r
<1>4. Shape(r) /\ Spoken(c, r)
  BY <1>3 DEF Told
<1>5. CASE r.io.threw
  <2>1. d = a /\ d.io.connected = c.io.connected
    BY <1>1, <1>4, <1>5 DEF Shape, IoFields, Spoken
  <2> QED
    BY <1>2, <1>3, <2>1, AbortedData DEF d
<1>6. CASE ~r.io.threw
  <2>1. /\ Shape(p) /\ p.engines = c.engines /\ p.io.sendBuffer = c.io.sendBuffer
        /\ p.io.ids = c.io.ids /\ p.io.acks = c.io.acks /\ p.io.connected = c.io.connected
        /\ r.io.sendBuffer = c.io.sendBuffer
    <3>1. IsSequence(<<>>)
      BY NothingComes
    <3> QED
      BY <1>4, <3>1 DEF Shape, IoFields, Spoken
  <2>2. p = AllHeard(r) /\ q = FoldLeft(Packet, p, p.io.sendBuffer)
    BY <2>1 DEF AllHeard
  <2> HIDE DEF p, q
  <2>3. StillKnows(c, p)
    BY <2>1 DEF StillKnows, Knows
  <2>4. LogsOK(p) /\ Waits(p) /\ Len(p.engines) > 0 /\ Newest(p).state = "open"
    <3>1. Waits(p)
      BY <2>1, <2>3, WaitsKept DEF Sending
    <3>2. \A e \in DOMAIN c.engines : UpLog(p, c.engines[e].log)
      BY <2>3, UpLogKept DEF Sending, LogsOK
    <3> QED
      BY <2>1, <3>1, <3>2 DEF Sending, LogsOK, Newest, Running
  <2>5. Put(p, c.io.sendBuffer, Len(c.io.sendBuffer), q)
    BY <2>1, <2>2, <2>4, BufferPut
  <2>6. d = b /\ d.io.connected = c.io.connected
    <3>1. q.io = p.io /\ Shape(q)
      BY <2>5 DEF Put
    <3> QED
      BY <1>1, <1>6, <2>1, <3>1 DEF Shape, IoFields
  <2> HIDE DEF b
  <2>7. d = AllSent(q)
    BY <2>6 DEF b, AllSent
  <2> QED
    BY <1>2, <1>3, <1>6, <2>2, <2>5, <2>6, <2>7, EmptiedData DEF d
<1> QED
  BY <1>5, <1>6

(* Sending depends on the data alone.                                      *)
LEMMA SendingKept ==
  ASSUME NEW c, NEW d, NEW em, NEW dn, Sending(c, em, dn), d.engines = c.engines,
         SameData(c, d), d.io.reconstructor = c.io.reconstructor
  PROVE  Sending(d, em, dn)
<1>1. /\ em \in Nat /\ dn \in Nat /\ dn <= dn
      /\ AcksOK(c, em) /\ LogsOK(c) /\ DownsOK(c, dn) /\ EndsOK(c)
      /\ HeardOK(c, dn) /\ Waits(c) /\ (Hearing(c) => Follows(c, dn))
      /\ ~c.io.aborted => OrderOK(c) /\ GivenOK(c, em)
  BY DEF Sending
<1>2. AcksOK(d, em) /\ StillKnows(c, d)
  BY <1>1, AcksSame DEF SameData
<1>3. LogsOK(d)
  <2>1. \A e \in DOMAIN c.engines : UpLog(d, c.engines[e].log)
    BY <1>1, <1>2, UpLogKept DEF LogsOK
  <2> QED
    BY <1>1, <2>1 DEF LogsOK
<1>4. DownsOK(d, dn)
  <2>1. \A e \in DOMAIN c.engines : DownList(d, c.engines[e].down, dn)
    BY <1>1, <1>2, DownListKept DEF DownsOK
  <2> QED
    BY <2>1 DEF DownsOK
<1>5. EndsOK(d)
  BY <1>1 DEF EndsOK
<1>6. HeardOK(d, dn)
  BY <1>1, HeardKept DEF SameData
<1>7. Waits(d)
  BY <1>1, <1>2, WaitsKept DEF SameData
<1>8. Newest(d) = Newest(c)
  BY DEF Newest
<1>9. (Hearing(d) => Follows(d, dn)) /\ HalfRead(d) = HalfRead(c)
  BY <1>1, <1>8 DEF Hearing, Follows, HalfRead
<1>10. ASSUME ~d.io.aborted
       PROVE  OrderOK(d) /\ GivenOK(d, em)
  <2>1. OrderOK(c) /\ GivenOK(c, em)
    BY <1>1, <1>10, SMTT(30) DEF SameData
  <2> QED
    <3>1. OrderOK(d)
      BY <1>8, <1>9, <2>1 DEF SameData, OrderOK
    <3>2. GivenOK(d, em)
      BY <2>1, GivenKept DEF SameData
    <3> QED
      BY <3>1, <3>2
<1> QED
  BY <1>1, <1>2, <1>3, <1>4, <1>5, <1>6, <1>7, <1>9, <1>10 DEF Sending

(* The handshake that the page's listener of "connect" emits.              *)
LEMMA HandshakeData ==
  ASSUME NEW c, NEW em, NEW dn, Shape(c), Len(c.engines) > 0, Sending(c, em, dn), Running(c),
         c.io.connected
  PROVE  LET d == Emit(c, 0) IN
         Shape(d) /\ Sending(d, em, dn) /\ Running(d) /\ Quiet(c, d)
         /\ Len(d.engines) > 0 /\ d.io.connected
<1> DEFINE none == 0
           d == Emit(c, none)
<1>1. /\ em \in Nat /\ dn \in Nat /\ dn <= dn /\ em <= em
      /\ AcksOK(c, em) /\ LogsOK(c) /\ DownsOK(c, dn) /\ EndsOK(c)
      /\ HeardOK(c, dn) /\ Waits(c) /\ (Hearing(c) => Follows(c, dn))
      /\ ~c.io.aborted => OrderOK(c) /\ GivenOK(c, em)
  BY DEF Sending
<1>2. Newest(c).state = "open" /\ none = 0 /\ none \in Nat
  BY SMTT(30) DEF Running
<1> HIDE DEF none
<1>3. /\ Quiet(c, d) /\ SameHearing(c, d)
      /\ d.io.ids = c.io.ids + 1
      /\ d.io.acks = c.io.acks \cup {[id |-> c.io.ids, n |-> none]}
      /\ LinesBut(c, d) /\ d.io.sendBuffer = c.io.sendBuffer
      /\ d.engines[Len(c.engines)].log =
            c.engines[Len(c.engines)].log \o Encode(Event(none, c.io.ids))
  BY <1>2, EmitSame
<1> HIDE DEF d
<1>4. AcksOK(d, em) /\ StillKnows(c, d) /\ Knows(d, none, c.io.ids) /\ c.io.ids \in Nat
  BY <1>1, <1>2, <1>3, NewAck DEF SameHearing
<1>5. /\ LogsOK(d) /\ DownsOK(d, dn) /\ EndsOK(d) /\ Len(d.engines) = Len(c.engines)
      /\ Newest(d).down = Newest(c).down /\ Newest(d).state = "open"
      /\ Newest(d).hears = Newest(c).hears
      /\ Carried(Newest(d).log) = IF none > 0
                                  THEN Append(Carried(Newest(c).log), EventData(none))
                                  ELSE Carried(Newest(c).log)
      /\ IsSequence(Carried(Newest(c).log))
  <2>1. /\ LogsOK(c) /\ DownsOK(c, dn) /\ EndsOK(c) /\ Newest(c).state = "open"
        /\ none \in Nat /\ dn \in Nat
    BY <1>1, <1>2
  <2>2. /\ Quiet(c, d) /\ StillKnows(c, d) /\ Knows(d, none, c.io.ids) /\ c.io.ids \in Nat
        /\ LinesBut(c, d)
        /\ d.engines[Len(c.engines)].log =
              c.engines[Len(c.engines)].log \o Encode(Event(none, c.io.ids))
    BY <1>3, <1>4
  <2> QED
    BY <2>1, <2>2, EmitWrites
<1>6. Carried(Newest(d).log) = Carried(Newest(c).log)
  <2>1. ~(none > 0)
    BY <1>2, SMTT(30)
  <2> QED
    BY <1>5, <2>1
<1>7. Waits(d)
  <2>1. StillKnows(c, d) /\ d.io.sendBuffer = c.io.sendBuffer /\ Waits(c)
    BY <1>1, <1>3, <1>4, Zenon
  <2> QED
    BY <2>1, WaitsKept, Zenon
<1>8. HeardOK(d, dn)
  BY <1>1, <1>3, HeardKept DEF SameHearing
<1>9. (Hearing(d) => Follows(d, dn)) /\ HalfRead(d) \subseteq HalfRead(c)
  <2>1. (Hearing(d) <=> Hearing(c)) /\ d.io.reconstructor = c.io.reconstructor
    BY <1>2, <1>3, <1>5 DEF Hearing, SameHearing
  <2> QED
    BY <1>1, <1>5, <2>1 DEF Follows, HalfRead
<1>10. ASSUME ~d.io.aborted
       PROVE  OrderOK(d) /\ GivenOK(d, em)
  <2>1. OrderOK(c) /\ GivenOK(c, em)
    BY <1>1, <1>3, <1>10 DEF SameHearing
  <2>2. OrderOK(d)
    <3>1. /\ Coming(Newest(d).down) \subseteq Coming(Newest(c).down)
          /\ NewsRises(Newest(d).down)
      BY <1>5, <2>1, SMTT(30) DEF OrderOK
    <3>2. d.io.heard = c.io.heard /\ d.io.receiveBuffer = c.io.receiveBuffer
      BY <1>3, Zenon DEF SameHearing
    <3> QED
      BY <1>9, <2>1, <3>1, <3>2, OrderKept
  <2>3. GivenOK(d, em)
    <3>1. DOMAIN c.engines = 1 .. Len(c.engines)
      BY Lengths
    <3>2. ASSUME NEW e \in 1 .. Len(c.engines)
          PROVE  Carried(d.engines[e].log) = Carried(c.engines[e].log)
      <4>1. CASE e = Len(c.engines)
        BY <1>5, <1>6, <4>1, SMTT(30) DEF Newest
      <4>2. CASE e # Len(c.engines)
        BY <1>3, <3>1, <4>2 DEF LinesBut
      <4> QED
        BY <4>1, <4>2
    <3> QED
      BY <1>3, <1>5, <2>1, <3>2, GivenKept
  <2> QED
    BY <2>2, <2>3, SMTT(30)
<1>11. Sending(d, em, dn)
  BY <1>1, <1>4, <1>5, <1>7, <1>8, <1>9, <1>10, SMTT(30) DEF Sending
<1>12. Running(d) /\ Shape(d) /\ d.io.connected
  BY <1>3, QuietPhase DEF Quiet, SameHearing
<1> QED
  BY <1>3, <1>5, <1>11, <1>12, <1>2 DEF d

(* Socket.onconnect.                                                       *)
LEMMA OnConnectData ==
  ASSUME NEW c, NEW em, NEW dn, Shape(c), Len(c.engines) > 0, Sending(c, em, dn), Running(c)
  PROVE  Data(OnConnect(c), em, dn) /\ OnConnect(c).io.connected \in BOOLEAN
<1> DEFINE k == [c EXCEPT !.io.connected = TRUE]
           d == Emit(k, 0)
<1>1. /\ Shape(k) /\ k.engines = c.engines /\ SameData(c, k) /\ k.io.connected = TRUE
      /\ k.io.reconstructor = c.io.reconstructor /\ Quiet(c, k)
  BY DEF Shape, IoFields, SameData, Quiet
<1>2. OnConnect(c) = EmitBuffered(d)
  BY DEF OnConnect
<1> HIDE DEF k
<1>3. Sending(k, em, dn)
  BY <1>1, SendingKept
<1>4. Running(k)
  BY <1>1, QuietPhase
<1>5. Shape(d) /\ Sending(d, em, dn) /\ Running(d) /\ Quiet(k, d) /\ Len(d.engines) > 0
      /\ d.io.connected = k.io.connected
  <2>1. Shape(d) /\ Sending(d, em, dn) /\ Running(d) /\ Quiet(k, d) /\ Len(d.engines) > 0
    BY <1>1, <1>3, <1>4, HandshakeData
  <2>2. SameHearing(k, d)
    BY <1>1, <1>4, EmitSame DEF Running
  <2> QED
    BY <2>1, <2>2 DEF SameHearing
<1> HIDE DEF d
<1> QED
  BY <1>1, <1>2, <1>5, EmitBufferedData

(* What follows in a list that was cut behind its first frame.             *)
LEMMA FollowsNext ==
  ASSUME NEW c, NEW dn \in Nat, NEW s, DownList(c, s, dn), s # <<>>
  PROVE  /\ (\A n : s[1] # NewsHead(n)) /\ Tail(s) # <<>> => ~Tail(s)[1].binary
         /\ \A n : s[1] = NewsHead(n) =>
               n \in WithBuffer /\ n \in 1 .. dn /\ Tail(s) # <<>> /\ Tail(s)[1] = BufferFrame(n)
<1>1. /\ Len(s) \in Nat /\ Len(s) > 0 /\ Len(Tail(s)) = Len(s) - 1
      /\ \A i \in 1 .. Len(s) - 1 : Tail(s)[i] = s[i + 1]
  BY TailFacts DEF DownList
<1>2. DownFrame(c, s, 1, dn) /\ (1 < Len(s) => DownFrame(c, s, 2, dn))
  BY <1>1 DEF DownList
<1>3. 1 < Len(s) => Tail(s)[1] = s[2]
  BY <1>1
<1>4. Tail(s) # <<>> => 1 < Len(s)
  <2>1. IsSequence(Tail(s)) /\ DOMAIN Tail(s) = 1 .. Len(s) - 1
    BY TailFacts DEF DownList
  <2>2. ASSUME ~(1 < Len(s))
        PROVE  Tail(s) = <<>>
    <3>1. Len(s) - 1 = 0 /\ 1 .. 0 = {}
      BY <1>1, <2>2
    <3> DEFINE t == Tail(s)
    <3>2. DOMAIN t = {} /\ IsSequence(t)
      BY <2>1, <3>1
    <3>3. Len(t) = 0
      BY <1>1, <3>1
    <3> QED
      BY <1>1, <3>1, <3>2, <3>3
  <2> QED
    BY <2>2
<1>5. 1 < Len(s) => Tail(s) # <<>>
  <2>1. ASSUME 1 < Len(s), Tail(s) = <<>>
        PROVE  FALSE
    <3> DEFINE t == Tail(s)
    <3>1. Len(t) = Len(s) - 1 /\ t = <<>>
      BY <1>1, <2>1
    <3> HIDE DEF t
    <3>2. Len(t) = 0
      BY <3>1
    <3>3. 1 < Len(s) /\ Len(s) \in Nat
      BY <1>1, <2>1
    <3>4. Len(t) = Len(s) - 1
      BY <3>1
    <3> DEFINE a == Len(s)
               b == Len(t)
    <3>5. a \in Nat /\ 1 < a /\ b = a - 1 /\ b = 0
      BY <3>2, <3>3, <3>4
    <3> HIDE DEF a, b
    <3> QED
      BY <3>5
  <2> QED
    BY <2>1
<1>6. ASSUME \A n : s[1] # NewsHead(n), 1 < Len(s)
      PROVE  ~s[2].binary
  <2>1. \/ s[2] = ConnectedFrame \/ s[2] = DisconnectFrame
        \/ \E n, i \in Nat : s[2] = AckFrame(n, i)
        \/ \E n \in 1 .. dn : s[2] = NewsFrame(n)
        \/ \E n \in WithBuffer : s[2] = NewsHead(n)
        \/ \E n \in WithBuffer : s[2] = BufferFrame(n) /\ s[1] = NewsHead(n)
    <3>1. DownFrame(c, s, 2, dn) /\ 2 > 1 /\ 2 - 1 = 1
      BY <1>2, <1>6
    <3>2. \/ s[2] = ConnectedFrame \/ s[2] = DisconnectFrame
          \/ \E n, i \in Nat : s[2] = AckFrame(n, i)
          \/ \E n \in 1 .. dn : s[2] = NewsFrame(n)
          \/ \E n \in WithBuffer : s[2] = NewsHead(n)
          \/ \E n \in WithBuffer : s[2] = BufferFrame(n) /\ s[2 - 1] = NewsHead(n)
      BY <3>1 DEF DownFrame
    <3> QED
      BY <3>1, <3>2
  <2> QED
    BY <1>6, <2>1, FrameKinds, ZenonT(60)
<1>7. ASSUME NEW n, s[1] = NewsHead(n)
      PROVE  n \in WithBuffer /\ n \in 1 .. dn /\ 1 < Len(s) /\ s[2] = BufferFrame(n)
  <2>1. /\ s[1] # ConnectedFrame /\ s[1] # DisconnectFrame
        /\ \A m, i : s[1] # AckFrame(m, i) /\ s[1] # NewsFrame(m) /\ s[1] # BufferFrame(m)
    BY <1>7, FrameKinds
  <2>2. PICK m \in WithBuffer : /\ m \in 1 .. dn /\ s[1] = NewsHead(m)
                                /\ 1 < Len(s) /\ s[1 + 1] = BufferFrame(m)
    BY <1>2, <2>1 DEF DownFrame
  <2>3. m = n
    BY <1>7, <2>2, NewsNumbers
  <2> QED
    BY <2>2, <2>3
<1> QED
  BY <1>3, <1>4, <1>5, <1>6, <1>7

(* One frame less is on its way; nothing else is different in d.           *)
TailLines(d) ==
  /\ DOMAIN d.engines = DOMAIN engines
  /\ \A e \in DOMAIN engines :
        /\ d.engines[e].log = engines[e].log /\ d.engines[e].at = engines[e].at
        /\ d.engines[e].srv = engines[e].srv /\ d.engines[e].state = engines[e].state
        /\ d.engines[e].hears = engines[e].hears
        /\ e # Current => d.engines[e].down = engines[e].down
  /\ d.engines[Current].down = Tail(engines[Current].down)

(* A frame less is on its way.                                             *)
LEMMA TailData ==
  ASSUME Good(c0), Data(c0, emitted, downs), Alive(Current), engines[Current].down # <<>>,
         NEW d, Shape(d), SameData(c0, d), TailLines(d)
  PROVE  /\ emitted \in Nat /\ downs \in Nat
         /\ AcksOK(d, emitted) /\ StillKnows(c0, d)
         /\ LogsOK(d) /\ DownsOK(d, downs) /\ EndsOK(d)
         /\ HeardOK(d, downs) /\ Waits(d)
         /\ Len(d.engines) = Current
         /\ Newest(d).down = Tail(engines[Current].down)
         /\ Newest(d).state = engines[Current].state
         /\ Newest(d).hears = engines[Current].hears
         /\ DownList(c0, engines[Current].down, downs)
         /\ ~d.io.aborted => GivenOK(d, emitted) /\ OrderOK(c0)
<1>1. /\ Shape(c0) /\ c0.io = io /\ c0.engines = engines /\ Len(c0.engines) = Current
      /\ Current \in Nat /\ Current > 0 /\ DOMAIN engines = 1 .. Current
      /\ Current \in 1 .. Current
  BY GoodHere DEF Current
<1>2. /\ emitted \in Nat /\ downs \in Nat /\ downs <= downs
      /\ AcksOK(c0, emitted) /\ LogsOK(c0) /\ DownsOK(c0, downs) /\ EndsOK(c0)
      /\ PhaseOK(c0, downs) /\ HeardOK(c0, downs) /\ Waits(c0)
      /\ ~io.aborted => OrderOK(c0) /\ GivenOK(c0, emitted)
  BY <1>1 DEF Data
<1>3. AcksOK(d, emitted) /\ StillKnows(c0, d)
  BY <1>2, AcksSame DEF SameData
<1>4. Len(d.engines) = Current
  <2>1. DOMAIN d.engines = 1 .. Len(d.engines) /\ Len(d.engines) \in Nat
    BY Lengths
  <2> QED
    BY <1>1, <2>1 DEF TailLines
<1>5. LogsOK(d)
  <2>1. \A e \in 1 .. Current : UpLog(d, engines[e].log)
    BY <1>1, <1>2, <1>3, UpLogKept DEF LogsOK
  <2> QED
    BY <1>1, <1>2, <2>1 DEF LogsOK, TailLines
<1>6. DownList(c0, engines[Current].down, downs)
  BY <1>1, <1>2 DEF DownsOK
<1>7. DownsOK(d, downs)
  <2>1. ASSUME NEW e \in 1 .. Current
        PROVE  DownList(d, d.engines[e].down, downs)
    <3>1. CASE e # Current
      <4>1. DownList(c0, engines[e].down, downs)
        BY <1>1, <1>2 DEF DownsOK
      <4>2. DownList(d, engines[e].down, downs)
        BY <1>2, <1>3, <4>1, DownListKept
      <4> QED
        BY <1>1, <3>1, <4>2 DEF TailLines
    <3>2. CASE e = Current
      <4> DEFINE s == engines[Current].down
                 t == Tail(s)
      <4>1. DownList(c0, t, downs)
        <5> HIDE DEF s
        <5>1. DownList(c0, s, downs) /\ s # <<>>
          BY <1>6 DEF s
        <5> QED
          BY <1>2, <5>1, DownListTail
      <4> HIDE DEF t
      <4>2. DownList(d, t, downs)
        BY <1>2, <1>3, <4>1, DownListKept
      <4> QED
        BY <3>2, <4>2 DEF TailLines, t
    <3> QED
      BY <3>1, <3>2
  <2> QED
    BY <1>1, <2>1 DEF DownsOK, TailLines
<1>8. EndsOK(d)
  <2>1. \A e \in 1 .. Current :
          /\ engines[e].state = "opening" => engines[e].log = <<>>
          /\ engines[e].state \in {"opening", "closed"} =>
                engines[e].down = <<>> /\ engines[e].srv = "none"
    BY <1>1, <1>2 DEF EndsOK
  <2>2. engines[Current].state \notin {"opening", "closed"}
    BY <1>1, <2>1
  <2>3. ASSUME NEW e \in 1 .. Current
        PROVE  /\ d.engines[e].state = "opening" => d.engines[e].log = <<>>
               /\ d.engines[e].state \in {"opening", "closed"} =>
                     d.engines[e].down = <<>> /\ d.engines[e].srv = "none"
    <3>1. CASE e = Current
      BY <1>1, <2>2, <3>1 DEF TailLines
    <3>2. CASE e # Current
      BY <1>1, <2>1, <3>2 DEF TailLines
    <3> QED
      BY <3>1, <3>2
  <2> QED
    BY <1>1, <2>3 DEF EndsOK, TailLines
<1>9. HeardOK(d, downs) /\ Waits(d)
  BY <1>2, <1>3, HeardKept, WaitsKept DEF SameData
<1>10. ASSUME ~d.io.aborted
       PROVE  GivenOK(d, emitted) /\ OrderOK(c0)
  <2>1. GivenOK(c0, emitted) /\ OrderOK(c0)
    BY <1>1, <1>2, <1>10 DEF SameData
  <2>2. \A e \in 1 .. Current : Carried(d.engines[e].log) = Carried(engines[e].log)
    BY <1>1 DEF TailLines
  <2>3. GivenOK(d, emitted)
    BY <1>1, <1>4, <2>1, <2>2, GivenKept DEF SameData
  <2> QED
    BY <2>1, <2>3
<1>11. /\ Newest(d).down = Tail(engines[Current].down)
       /\ Newest(d).state = engines[Current].state
       /\ Newest(d).hears = engines[Current].hears
  BY <1>1, <1>4 DEF Newest, TailLines
<1> QED
  BY <1>2, <1>3, <1>4, <1>5, <1>6, <1>7, <1>8, <1>9, <1>10, <1>11

(* What the decoder makes of the first frame of a list.                    *)
Outcome(c, s, rec, r, dn) ==
  \/ /\ r.packets = <<>> /\ rec = <<>>
     /\ \E n \in 1 .. dn : s[1] = NewsHead(n) /\ r.reconstructor = <<Half(n)>>
  \/ /\ r.packets # <<>> /\ r.reconstructor = <<>> /\ \A n : s[1] # NewsHead(n)
     /\ \/ r.packets[1].type \in {"connect", "disconnect"}
        \/ /\ r.packets[1].type = "ack"
           /\ \E n, i \in Nat : /\ Knows(c, n, i) /\ r.packets[1].id = <<i>>
                                /\ Number(r.packets[1].data) = n
        \/ /\ r.packets[1].type \in {"event", "binary_event"}
           /\ \E n \in 1 .. dn : /\ r.packets[1].data = EventData(n)
                                 /\ \/ s[1] = NewsFrame(n)
                                    \/ rec = <<Half(n)>>

(* Each frame that arrives is one of these.                                *)
LEMMA FrameFacts ==
  ASSUME NEW c, NEW dn \in Nat, NEW s, DownList(c, s, dn), s # <<>>, NEW rec,
         \/ rec = <<>> /\ ~s[1].binary
         \/ \E n \in WithBuffer : n \in 1 .. dn /\ rec = <<Half(n)>> /\ s[1] = BufferFrame(n),
         NEW r, r = DecoderAdd(rec, s[1])
  PROVE  ~r.threw /\ Outcome(c, s, rec, r, dn)
<1>0. \A n, i : ReadsAs(rec, s[1], r, n, i)
  BY FramesDecoded
<1>1. DownFrame(c, s, 1, dn)
  <2>1. Len(s) \in Nat /\ Len(s) > 0
    BY TailFacts DEF DownList
  <2> QED
    BY <2>1 DEF DownList
<1>2. CASE \E n \in WithBuffer : n \in 1 .. dn /\ rec = <<Half(n)>> /\ s[1] = BufferFrame(n)
  <2>1. PICK n \in WithBuffer : n \in 1 .. dn /\ rec = <<Half(n)>> /\ s[1] = BufferFrame(n)
    BY <1>2
  <2>2. \A m : s[1] # NewsHead(m)
    <3> DEFINE f == s[1]
    <3>1. f = BufferFrame(n)
      BY <2>1
    <3> HIDE DEF f
    <3>2. f.binary
      BY <3>1, FrameKinds
    <3>3. \A m : f # NewsHead(m)
      BY <3>2, FrameKinds
    <3> QED
      BY <3>3 DEF f
  <2>3. /\ r.packets # <<>> /\ r.reconstructor = <<>> /\ ~r.threw
        /\ r.packets[1].type = "binary_event" /\ r.packets[1].data = EventData(n)
    BY <2>1, <1>0 DEF ReadsAs
  <2> HIDE DEF Half
  <2> QED
    BY <2>1, <2>2, <2>3 DEF Outcome
<1>3. CASE rec = <<>> /\ ~s[1].binary
  <2>1. /\ \A n : s[1] # BufferFrame(n)
    BY <1>3, FrameKinds
  <2>2. CASE s[1] = ConnectedFrame
    <3>1. \A m : s[1] # NewsHead(m)
      BY <2>2, FrameKinds
    <3>2. r.packets # <<>> /\ r.reconstructor = rec /\ ~r.threw /\ r.packets[1].type = "connect"
      BY <2>2, <1>0 DEF ReadsAs
    <3> QED
      BY <1>3, <3>1, <3>2 DEF Outcome
  <2>3. CASE s[1] = DisconnectFrame
    <3>1. \A m : s[1] # NewsHead(m)
      BY <2>3, FrameKinds
    <3>2. /\ r.packets # <<>> /\ r.reconstructor = rec /\ ~r.threw
          /\ r.packets[1].type = "disconnect"
      BY <2>3, <1>0 DEF ReadsAs
    <3> QED
      BY <1>3, <3>1, <3>2 DEF Outcome
  <2>4. CASE \E n, i \in Nat : Knows(c, n, i) /\ s[1] = AckFrame(n, i)
    <3>0. PICK n \in Nat, i \in Nat : Knows(c, n, i) /\ s[1] = AckFrame(n, i)
      BY <2>4
    <3>1. \A m : s[1] # NewsHead(m)
      BY <3>0, FrameKinds
    <3>2. /\ r.packets # <<>> /\ r.reconstructor = rec /\ ~r.threw
          /\ r.packets[1].type = "ack" /\ r.packets[1].id = <<i>>
          /\ Number(r.packets[1].data) = n
      BY <3>0, <1>0 DEF ReadsAs
    <3> QED
      BY <1>3, <3>0, <3>1, <3>2 DEF Outcome
  <2>5. CASE \E n \in 1 .. dn : s[1] = NewsFrame(n)
    <3>0. PICK n \in 1 .. dn : s[1] = NewsFrame(n)
      BY <2>5
    <3>1. \A m : s[1] # NewsHead(m)
      BY <3>0, FrameKinds, SMTT(30)
    <3>2. /\ r.packets # <<>> /\ r.reconstructor = rec /\ ~r.threw
          /\ r.packets[1].type = "event" /\ r.packets[1].data = EventData(n)
      BY <3>0, <1>0 DEF ReadsAs
    <3> QED
      BY <1>3, <3>0, <3>1, <3>2 DEF Outcome
  <2>6. CASE \E n \in WithBuffer : n \in 1 .. dn /\ s[1] = NewsHead(n)
    <3>0. PICK n \in WithBuffer : n \in 1 .. dn /\ s[1] = NewsHead(n)
      BY <2>6
    <3>2. r.packets = <<>> /\ r.reconstructor = <<Half(n)>> /\ ~r.threw
      BY <3>0, <1>0 DEF ReadsAs
    <3> QED
      BY <1>3, <3>0, <3>2 DEF Outcome
  <2> QED
    BY <1>1, <2>1, <2>2, <2>3, <2>4, <2>5, <2>6 DEF DownFrame
<1> QED
  BY <1>2, <1>3

(* The next event fits behind those that came before it.                   *)
Fits(d, n) ==
  /\ Before(NumbersOf(d.io.heard), {n}) /\ Before(NumbersOf(d.io.receiveBuffer), {n})
  /\ Before({n}, Coming(Newest(d).down))

(* A frame leaves the line: what it numbers follows what was heard and     *)
(* waits.                                                                  *)
LEMMA OrderArrives ==
  ASSUME NEW c, OrderOK(c), NEW s, s = Newest(c).down, IsSequence(s), s # <<>>,
         NEW d, d.io.heard = c.io.heard, d.io.receiveBuffer = c.io.receiveBuffer,
         Newest(d).down = Tail(s)
  PROVE  /\ IsNews(s[1]) => Fits(d, NewsNumber(s[1]))
         /\ \A n : HalfRead(c) = {n} => Fits(d, n)
         /\ HalfRead(d) = {} => OrderOK(d)
         /\ IsNews(s[1]) /\ HalfRead(d) = {NewsNumber(s[1])} => OrderOK(d)
<1> DEFINE t == Tail(s)
           x == NewsNumber(s[1])
           came == NumbersOf(c.io.heard)
           waits == NumbersOf(c.io.receiveBuffer)
<1>1. /\ Rises(c.io.heard) /\ Rises(c.io.receiveBuffer) /\ NewsRises(s)
      /\ Before(came, waits) /\ Before(came, HalfRead(c)) /\ Before(came, Coming(s))
      /\ Before(waits, HalfRead(c)) /\ Before(waits, Coming(s))
      /\ Before(HalfRead(c), Coming(s))
  BY DEF OrderOK
<1>2. /\ Coming(t) \subseteq Coming(s) /\ NewsRises(t)
      /\ IsNews(s[1]) => x \in Coming(s) /\ Before({x}, Coming(t))
  BY <1>1, ComingTail
<1>3. /\ NumbersOf(d.io.heard) = came /\ NumbersOf(d.io.receiveBuffer) = waits
      /\ Newest(d).down = t /\ Rises(d.io.heard) /\ Rises(d.io.receiveBuffer)
  BY <1>1
<1> HIDE DEF t, x, came, waits
<1>4. Before(came, Coming(t)) /\ Before(waits, Coming(t))
  BY <1>1, <1>2 DEF Before
<1>5. IsNews(s[1]) => Before(came, {x}) /\ Before(waits, {x}) /\ Before({x}, Coming(t))
  BY <1>1, <1>2 DEF Before
<1>6. IsNews(s[1]) => Fits(d, x)
  BY <1>3, <1>5 DEF Fits
<1>7. ASSUME NEW n, HalfRead(c) = {n}
      PROVE  Fits(d, n)
  <2>1. Before(came, {n}) /\ Before(waits, {n}) /\ Before({n}, Coming(t))
    BY <1>1, <1>2, <1>7 DEF Before
  <2> QED
    BY <1>3, <2>1 DEF Fits
<1>8. ASSUME HalfRead(d) = {}
      PROVE  OrderOK(d)
  <2>1. /\ Before(came, {}) /\ Before(waits, {}) /\ Before({}, Coming(t))
    BY DEF Before
  <2> QED
    BY <1>1, <1>2, <1>3, <1>4, <1>8, <2>1 DEF OrderOK
<1>9. ASSUME IsNews(s[1]), HalfRead(d) = {x}
      PROVE  OrderOK(d)
  BY <1>1, <1>2, <1>3, <1>4, <1>5, <1>9 DEF OrderOK
<1> QED
  BY <1>6, <1>7, <1>8, <1>9 DEF x

(* The next frame of the newest connection is one the decoder can place.   *)
LEMMA FrameArrives ==
  ASSUME Good(c0), Data(c0, emitted, downs), Alive(Current), engines[Current].down # <<>>,
         engines[Current].hears = "data",
         NEW r, r = DecoderAdd(io.reconstructor, engines[Current].down[1])
  PROVE  ~r.threw /\ Outcome(c0, engines[Current].down, io.reconstructor, r, downs)
<1> DEFINE s == engines[Current].down
           rec == io.reconstructor
<1>1. Newest(c0) = engines[Current] /\ c0.io = io /\ c0.engines = engines
  BY DEF Newest, c0, Current
<1>2. Hearing(c0)
  BY <1>1 DEF Hearing, Alive
<1>3. Follows(c0, downs) /\ DownsOK(c0, downs) /\ downs \in Nat
  BY <1>2 DEF Data, PhaseOK
<1>4. DownList(c0, s, downs)
  <2>1. Current \in DOMAIN engines
    BY GoodHere DEF Alive
  <2> QED
    BY <1>1, <1>3, <2>1 DEF DownsOK
<1>5. \/ rec = <<>> /\ ~s[1].binary
      \/ \E n \in WithBuffer : n \in 1 .. downs /\ rec = <<Half(n)>> /\ s[1] = BufferFrame(n)
  BY <1>1, <1>3 DEF Follows
<1> HIDE DEF s, rec
<1>6. s # <<>> /\ r = DecoderAdd(rec, s[1])
  BY DEF s, rec
<1>7. ~r.threw /\ Outcome(c0, s, rec, r, downs)
  BY <1>3, <1>4, <1>5, <1>6, FrameFacts
<1> QED
  BY <1>7 DEF s, rec

(* The client in which that frame was decoded.                             *)
LEMMA ArrivesData ==
  ASSUME Good(c0), Data(c0, emitted, downs), Alive(Current), engines[Current].down # <<>>,
         engines[Current].hears = "data", NEW r,
         Outcome(c0, engines[Current].down, io.reconstructor, r, downs),
         NEW d, Shape(d), SameData(c0, d), TailLines(d), d.io.reconstructor = r.reconstructor
  PROVE  /\ Sending(d, emitted, downs)
         /\ r.packets # <<>> => HalfRead(d) = {}
         /\ r.packets # <<>> /\ r.packets[1].type \in {"event", "binary_event"} =>
              \E n \in 1 .. downs : /\ r.packets[1].data = EventData(n)
                                    /\ ~d.io.aborted => Fits(d, n)
<1> DEFINE s == engines[Current].down
           rec == io.reconstructor
<1>1. /\ Newest(c0) = engines[Current] /\ c0.io = io /\ c0.engines = engines
      /\ Newest(c0).down = s
  BY DEF Newest, c0, Current
<1>2. /\ emitted \in Nat /\ downs \in Nat
      /\ AcksOK(d, emitted) /\ LogsOK(d) /\ DownsOK(d, downs) /\ EndsOK(d)
      /\ HeardOK(d, downs) /\ Waits(d)
      /\ Newest(d).down = Tail(s)
      /\ DownList(c0, s, downs)
      /\ ~d.io.aborted => GivenOK(d, emitted) /\ OrderOK(c0)
  BY TailData
<1>3. d.io.heard = c0.io.heard /\ d.io.receiveBuffer = c0.io.receiveBuffer
  BY DEF SameData
<1>4. s # <<>> /\ IsSequence(s)
  BY <1>2 DEF DownList
<1>5. Outcome(c0, s, rec, r, downs)
  OBVIOUS
<1>6. Hearing(c0)
  BY <1>1 DEF Hearing, Alive
<1> HIDE DEF s, rec
<1>7. /\ (\A n : s[1] # NewsHead(n)) /\ Tail(s) # <<>> => ~Tail(s)[1].binary
      /\ \A n : s[1] = NewsHead(n) =>
            n \in WithBuffer /\ n \in 1 .. downs /\ Tail(s) # <<>> /\ Tail(s)[1] = BufferFrame(n)
  BY <1>2, <1>4, FollowsNext, ZenonT(60)
<1>8. ~d.io.aborted =>
        /\ IsNews(s[1]) => Fits(d, NewsNumber(s[1]))
        /\ \A n : HalfRead(c0) = {n} => Fits(d, n)
        /\ HalfRead(d) = {} => OrderOK(d)
        /\ IsNews(s[1]) /\ HalfRead(d) = {NewsNumber(s[1])} => OrderOK(d)
  <2> HAVE ~d.io.aborted
  <2>1. OrderOK(c0) /\ s = Newest(c0).down /\ Newest(d).down = Tail(s)
    BY <1>1, <1>2
  <2> QED
    BY <1>3, <1>4, <2>1, OrderArrives
<1>9. CASE r.packets = <<>>
  <2>1. PICK n \in 1 .. downs : s[1] = NewsHead(n) /\ r.reconstructor = <<Half(n)>>
    BY <1>5, <1>9 DEF Outcome
  <2>2. n \in WithBuffer /\ n \in 1 .. downs /\ Tail(s) # <<>> /\ Tail(s)[1] = BufferFrame(n)
    BY <1>7, <2>1
  <2>3. Follows(d, downs)
    BY <1>2, <2>1, <2>2 DEF Follows
  <2>4. IsNews(s[1]) /\ NewsNumber(s[1]) = n /\ Number(Half(n).packet.data) = n
    BY <2>1, NewsNumbers
  <2>5. HalfRead(d) = {n} \/ HalfRead(d) = {}
    <3>1. <<Half(n)>>[1] = Half(n)
      OBVIOUS
    <3> HIDE DEF Half
    <3>2. Number(d.io.reconstructor[1].packet.data) = n
      BY <2>1, <2>4, <3>1
    <3> QED
      BY <3>2 DEF HalfRead
  <2>6. ~d.io.aborted => OrderOK(d)
    BY <1>8, <2>4, <2>5
  <2> QED
    BY <1>2, <1>9, <2>3, <2>6 DEF Sending
<1>10. CASE r.packets # <<>>
  <2>1. /\ r.reconstructor = <<>> /\ \A n : s[1] # NewsHead(n)
    BY <1>5, <1>10 DEF Outcome
  <2>2. Follows(d, downs) /\ HalfRead(d) = {}
    BY <1>2, <1>7, <2>1 DEF Follows, HalfRead
  <2>3. ~d.io.aborted => OrderOK(d)
    BY <1>8, <2>2
  <2>4. ASSUME r.packets[1].type \in {"event", "binary_event"}
        PROVE  \E n \in 1 .. downs : /\ r.packets[1].data = EventData(n)
                                     /\ ~d.io.aborted => Fits(d, n)
    <3>1. PICK n \in 1 .. downs : /\ r.packets[1].data = EventData(n)
                                  /\ s[1] = NewsFrame(n) \/ rec = <<Half(n)>>
      <4> HIDE DEF Half
      <4> QED
        BY <1>5, <1>10, <2>4 DEF Outcome
    <3>2. CASE s[1] = NewsFrame(n)
      <4>1. IsNews(s[1]) /\ NewsNumber(s[1]) = n
        BY <3>2, NewsNumbers
      <4> QED
        BY <1>8, <3>1, <4>1
    <3>3. CASE rec = <<Half(n)>>
      <4>1. <<Half(n)>>[1] = Half(n) /\ <<Half(n)>> # <<>> /\ Number(Half(n).packet.data) = n
        BY NewsNumbers
      <4> HIDE DEF Half
      <4>2. HalfRead(c0) = {n}
        BY <1>1, <1>6, <3>3, <4>1 DEF HalfRead, rec
      <4> QED
        BY <1>8, <3>1, <4>2
    <3> QED
      BY <3>1, <3>2, <3>3
  <2> QED
    BY <1>2, <1>10, <2>2, <2>3, <2>4 DEF Sending
<1> QED
  BY <1>9, <1>10

(* The numbers in a list with one more.                                    *)
LEMMA NumbersAppend ==
  ASSUME NEW s, IsSequence(s), NEW x
  PROVE  /\ NumbersOf(Append(s, x)) = NumbersOf(s) \cup {Number(x)}
         /\ Rises(s) /\ Before(NumbersOf(s), {Number(x)}) => Rises(Append(s, x))
<1> DEFINE t == Append(s, x)
           k == Len(s)
<1>1. /\ DOMAIN s = 1 .. k /\ k \in Nat /\ DOMAIN t = 1 .. k + 1
      /\ \A i \in 1 .. k : t[i] = s[i]
      /\ t[k + 1] = x
  BY SequenceAppend
<1> HIDE DEF t, k
<1>2. /\ \A i \in 1 .. k + 1 : i \in 1 .. k \/ i = k + 1
      /\ k + 1 \in 1 .. k + 1 /\ \A i \in 1 .. k : i \in 1 .. k + 1
  BY <1>1
<1>3. NumbersOf(t) = NumbersOf(s) \cup {Number(x)}
  BY <1>1, <1>2 DEF NumbersOf
<1>4. ASSUME Rises(s), Before(NumbersOf(s), {Number(x)}), NEW i \in 1 .. k + 1,
             NEW j \in 1 .. k + 1, i < j
      PROVE  Number(t[i]) < Number(t[j])
  <2>1. i \in 1 .. k
    BY <1>1, <1>4
  <2>2. CASE j \in 1 .. k
    BY <1>1, <1>4, <2>1, <2>2 DEF Rises
  <2>3. CASE j = k + 1
    <3>1. Number(s[i]) \in NumbersOf(s)
      BY <1>1, <2>1 DEF NumbersOf
    <3> QED
      BY <1>1, <1>4, <2>1, <2>3, <3>1 DEF Before
  <2> QED
    BY <1>2, <2>2, <2>3
<1>5. Rises(s) /\ Before(NumbersOf(s), {Number(x)}) => Rises(t)
  BY <1>1, <1>4 DEF Rises
<1> QED
  BY <1>3, <1>5 DEF t

(* What is acknowledged, and what the listeners hear, changes nothing else.*)
LEMMA SendingHeard ==
  ASSUME NEW c, NEW d, NEW em, NEW dn, Sending(c, em, dn), d.engines = c.engines,
         AcksOK(d, em), StillKnows(c, d),
         d.io.sendBuffer = c.io.sendBuffer, d.io.aborted = c.io.aborted,
         d.io.misread = c.io.misread, d.io.reconstructor = c.io.reconstructor,
         AllNews(d.io.heard, dn), AllNews(d.io.receiveBuffer, dn),
         ~d.io.aborted => OrderOK(d)
  PROVE  Sending(d, em, dn)
<1>1. /\ em \in Nat /\ dn \in Nat /\ dn <= dn
      /\ AcksOK(c, em) /\ LogsOK(c) /\ DownsOK(c, dn) /\ EndsOK(c)
      /\ HeardOK(c, dn) /\ Waits(c) /\ (Hearing(c) => Follows(c, dn))
      /\ ~c.io.aborted => OrderOK(c) /\ GivenOK(c, em)
  BY DEF Sending
<1>2. AcksOK(d, em) /\ StillKnows(c, d)
  OBVIOUS
<1>3. LogsOK(d)
  <2>1. \A e \in DOMAIN c.engines : UpLog(d, c.engines[e].log)
    BY <1>1, <1>2, UpLogKept DEF LogsOK
  <2> QED
    BY <1>1, <2>1 DEF LogsOK
<1>4. DownsOK(d, dn)
  <2>1. \A e \in DOMAIN c.engines : DownList(d, c.engines[e].down, dn)
    BY <1>1, <1>2, DownListKept DEF DownsOK
  <2> QED
    BY <2>1 DEF DownsOK
<1>5. EndsOK(d)
  BY <1>1 DEF EndsOK
<1>6. HeardOK(d, dn)
  BY <1>1 DEF HeardOK, AllNews
<1>7. Waits(d)
  BY <1>1, <1>2, WaitsKept
<1>8. Newest(d) = Newest(c)
  BY DEF Newest
<1>9. Hearing(d) => Follows(d, dn)
  BY <1>1, <1>8 DEF Hearing, Follows
<1>10. ~d.io.aborted => GivenOK(d, em)
  <2> HAVE ~d.io.aborted
  <2>1. GivenOK(c, em)
    BY <1>1
  <2> QED
    BY <2>1, GivenKept
<1> QED
  BY <1>1, <1>2, <1>3, <1>4, <1>5, <1>6, <1>7, <1>9, <1>10 DEF Sending

(* Socket.onevent: the event is heard, or waits to be.                     *)
LEMMA OnEventData ==
  ASSUME NEW c, NEW em, NEW dn, Shape(c), Sending(c, em, dn), c.io.connected => Running(c),
         c.io.connected /\ ~c.io.aborted => c.io.sendBuffer = <<>> /\ c.io.receiveBuffer = <<>>,
         HalfRead(c) = {}, Len(c.engines) > 0,
         NEW n \in 1 .. dn, ~c.io.aborted => Fits(c, n), NEW data, data = EventData(n)
  PROVE  Data(OnEvent(c, data), em, dn) /\ OnEvent(c, data).io.connected = c.io.connected
<1> DEFINE d == OnEvent(c, data)
           comes == Coming(Newest(c).down)
           came == NumbersOf(c.io.heard)
           waits == NumbersOf(c.io.receiveBuffer)
<1>1. Number(data) = n /\ IsNewsData(data, dn)
  BY EventValues DEF IsNewsData
<1>2. /\ IsSequence(c.io.heard) /\ IsSequence(c.io.receiveBuffer)
      /\ AllNews(c.io.heard, dn) /\ AllNews(c.io.receiveBuffer, dn)
  BY DEF Sending, HeardOK, AllNews, Shape
<1>3. ~c.io.aborted =>
        /\ Rises(c.io.heard) /\ Rises(c.io.receiveBuffer) /\ NewsRises(Newest(c).down)
        /\ Before(came, waits) /\ Before(came, comes) /\ Before(waits, comes)
        /\ Before(came, {n}) /\ Before(waits, {n}) /\ Before({n}, comes)
  <2> HAVE ~c.io.aborted
  <2>1. OrderOK(c) /\ Fits(c, n)
    BY DEF Sending
  <2> QED
    BY <2>1 DEF OrderOK, Fits
<1>4. /\ AllNews(Append(c.io.heard, data), dn) /\ AllNews(Append(c.io.receiveBuffer, data), dn)
      /\ NumbersOf(Append(c.io.heard, data)) = came \cup {n}
      /\ NumbersOf(Append(c.io.receiveBuffer, data)) = waits \cup {n}
      /\ Rises(c.io.heard) /\ Before(came, {n}) => Rises(Append(c.io.heard, data))
      /\ Rises(c.io.receiveBuffer) /\ Before(waits, {n}) =>
            Rises(Append(c.io.receiveBuffer, data))
  <2>1. AllNews(Append(c.io.heard, data), dn) /\ AllNews(Append(c.io.receiveBuffer, data), dn)
    BY <1>1, <1>2, NewsAppend
  <2>2. /\ NumbersOf(Append(c.io.heard, data)) = came \cup {Number(data)}
        /\ Rises(c.io.heard) /\ Before(came, {Number(data)}) => Rises(Append(c.io.heard, data))
    BY <1>2, NumbersAppend
  <2>3. /\ NumbersOf(Append(c.io.receiveBuffer, data)) = waits \cup {Number(data)}
        /\ Rises(c.io.receiveBuffer) /\ Before(waits, {Number(data)}) =>
              Rises(Append(c.io.receiveBuffer, data))
    BY <1>2, NumbersAppend
  <2> HIDE DEF came, waits
  <2> QED
    BY <1>1, <2>1, <2>2, <2>3
<1>5. ASSUME NEW f, f.engines = c.engines, f.io.reconstructor = c.io.reconstructor
      PROVE  Newest(f) = Newest(c) /\ HalfRead(f) = {}
  <2>1. Newest(f) = Newest(c)
    BY <1>5 DEF Newest
  <2>2. Hearing(f) = Hearing(c)
    BY <2>1 DEF Hearing
  <2>3. HalfRead(f) = HalfRead(c)
    BY <1>5, <2>2 DEF HalfRead
  <2> QED
    BY <2>1, <2>3
<1>6. CASE c.io.connected
  <2>1. CASE c.io.threw
    <3>1. d = c
      BY <1>6, <2>1 DEF OnEvent, EmitEvent
    <3> QED
      BY <3>1, SendingData
  <2>2. CASE ~c.io.threw
    <3> DEFINE more == Append(c.io.heard, data)
               t == Number(data) \in c.io.throwing
    <3>1. d = [c EXCEPT !.io.heard = more, !.io.threw = t]
      BY <1>6, <2>2 DEF OnEvent, EmitEvent
    <3> HIDE DEF d, more, t
    <3>2. /\ d.engines = c.engines /\ d.io.heard = more
          /\ d.io.ids = c.io.ids /\ d.io.acks = c.io.acks /\ d.io.acked = c.io.acked
          /\ d.io.sendBuffer = c.io.sendBuffer /\ d.io.receiveBuffer = c.io.receiveBuffer
          /\ d.io.aborted = c.io.aborted /\ d.io.misread = c.io.misread
          /\ d.io.reconstructor = c.io.reconstructor /\ d.io.connected = c.io.connected
          /\ d.io.readyState = c.io.readyState /\ d.io.timers = c.io.timers
          /\ d.io.skipReconnect = c.io.skipReconnect /\ d.io.subscribed = c.io.subscribed
          /\ d.io.reconnecting = c.io.reconnecting
      BY <3>1 DEF Shape, IoFields
    <3>3. Newest(d) = Newest(c) /\ HalfRead(d) = {}
      BY <1>5, <3>2
    <3>4. AllNews(d.io.heard, dn) /\ AllNews(d.io.receiveBuffer, dn)
      BY <1>2, <1>4, <3>2 DEF more
    <3>5. ASSUME ~d.io.aborted
          PROVE  OrderOK(d)
      <4>1. waits = {}
        BY <1>6, <3>2, <3>5 DEF NumbersOf
      <4>2. Rises(d.io.heard) /\ NumbersOf(d.io.heard) = came \cup {n}
        BY <1>3, <1>4, <3>2, <3>5 DEF more
      <4>3. /\ NumbersOf(d.io.receiveBuffer) = waits /\ Coming(Newest(d).down) = comes
            /\ Rises(d.io.receiveBuffer) /\ NewsRises(Newest(d).down)
        BY <1>3, <3>2, <3>3, <3>5
      <4>4. Before(came, comes) /\ Before({n}, comes)
        BY <1>3, <3>2, <3>5
      <4> HIDE DEF came, comes, waits
      <4>5. /\ Before(came \cup {n}, waits) /\ Before(came \cup {n}, {})
            /\ Before(came \cup {n}, comes) /\ Before(waits, {}) /\ Before(waits, comes)
            /\ Before({}, comes)
        BY <4>1, <4>4 DEF Before
      <4> QED
        BY <3>3, <4>2, <4>3, <4>5 DEF OrderOK
    <3>6. Sending(d, em, dn)
      <4>1. AcksOK(d, em) /\ StillKnows(c, d)
        BY <3>2, AcksSame DEF Sending
      <4> QED
        BY <3>2, <3>4, <3>5, <4>1, SendingHeard
    <3>7. Running(d)
      BY <1>6, <3>2, <3>3 DEF Running
    <3>8. d.io.connected /\ ~d.io.aborted => d.io.sendBuffer = <<>> /\ d.io.receiveBuffer = <<>>
      BY <3>2
    <3> QED
      BY <3>2, <3>6, <3>7, <3>8, SendingData DEF d
  <2> QED
    BY <2>1, <2>2
<1>7. CASE ~c.io.connected
  <2> DEFINE more == Append(c.io.receiveBuffer, data)
  <2>1. d = [c EXCEPT !.io.receiveBuffer = more]
    BY <1>7 DEF OnEvent
  <2> HIDE DEF d, more
  <2>2. /\ d.engines = c.engines /\ d.io.heard = c.io.heard
        /\ d.io.ids = c.io.ids /\ d.io.acks = c.io.acks /\ d.io.acked = c.io.acked
        /\ d.io.sendBuffer = c.io.sendBuffer /\ d.io.receiveBuffer = more
        /\ d.io.aborted = c.io.aborted /\ d.io.misread = c.io.misread
        /\ d.io.reconstructor = c.io.reconstructor /\ d.io.connected = c.io.connected
    BY <2>1 DEF Shape, IoFields
  <2>3. Newest(d) = Newest(c) /\ HalfRead(d) = {}
    BY <1>5, <2>2
  <2>4. AllNews(d.io.heard, dn) /\ AllNews(d.io.receiveBuffer, dn)
    BY <1>2, <1>4, <2>2 DEF more
  <2>5. ASSUME ~d.io.aborted
        PROVE  OrderOK(d)
    <3>1. /\ Rises(d.io.receiveBuffer) /\ NumbersOf(d.io.receiveBuffer) = waits \cup {n}
      BY <1>3, <1>4, <2>2, <2>5 DEF more
    <3>2. /\ NumbersOf(d.io.heard) = came /\ Coming(Newest(d).down) = comes
          /\ Rises(d.io.heard) /\ NewsRises(Newest(d).down)
      BY <1>3, <2>2, <2>3, <2>5
    <3>3. /\ Before(came, waits) /\ Before(came, comes) /\ Before(waits, comes)
          /\ Before(came, {n}) /\ Before({n}, comes)
      BY <1>3, <2>2, <2>5
    <3> HIDE DEF came, comes, waits
    <3>4. /\ Before(came, waits \cup {n}) /\ Before(came, {}) /\ Before(waits \cup {n}, {})
          /\ Before(waits \cup {n}, comes) /\ Before({}, comes)
      BY <3>3 DEF Before
    <3> QED
      BY <2>3, <3>1, <3>2, <3>3, <3>4 DEF OrderOK
  <2>6. Sending(d, em, dn)
    <3>1. AcksOK(d, em) /\ StillKnows(c, d)
      BY <2>2, AcksSame DEF Sending
    <3> QED
      BY <2>2, <2>4, <2>5, <3>1, SendingHeard
  <2> QED
    BY <1>7, <2>2, <2>6, SendingData DEF d
<1> QED
  BY <1>6, <1>7

(* Socket.onack with the id of an event: what waited for it is called.     *)
LEMMA OnAckAcks ==
  ASSUME NEW c, NEW em, Shape(c), AcksOK(c, em), NEW n \in Nat, NEW i \in Nat, Knows(c, n, i),
         NEW packet, packet.id[1] = i, Number(packet.data) = n
  PROVE  AcksOK(OnAck(c, packet), em) /\ StillKnows(c, OnAck(c, packet))
<1> DEFINE d == OnAck(c, packet)
           called == {b \in c.io.acks : b.id = i}
           both == <<n, n>>
           more == Append(c.io.acked, both)
           first == CHOOSE b \in called : TRUE
           now == IF \E b \in called : b.n > 0
                  THEN Append(c.io.acked, <<first.n, Number(packet.data)>>) ELSE c.io.acked
<1>1. d = [c EXCEPT !.io.acks = c.io.acks \ called, !.io.acked = now]
  BY DEF OnAck
<1>2. \A b \in called : b \in c.io.acks /\ b.n = n /\ b.id = i
  BY DEF Knows
<1>3. both[1] = n /\ both[2] = n
  OBVIOUS
<1>4. \/ now = c.io.acked
      \/ /\ now = more /\ n > 0 /\ \E b \in c.io.acks : b.n = n /\ b.id = i
  <2>1. CASE \E b \in called : b.n > 0
    <3>1. first \in called
      BY <2>1
    <3> HIDE DEF first, called
    <3>2. first.n = n /\ n > 0 /\ \E b \in c.io.acks : b.n = n /\ b.id = i
      BY <1>2, <2>1, <3>1
    <3>3. now = Append(c.io.acked, <<first.n, n>>)
      BY <2>1
    <3> QED
      BY <3>2, <3>3
  <2>2. CASE ~\E b \in called : b.n > 0
    BY <2>2
  <2> QED
    BY <2>1, <2>2
<1> DEFINE left == c.io.acks \ called
<1>5. /\ \A b \in left : b \in c.io.acks /\ b.id # i
      /\ d = [c EXCEPT !.io.acks = left, !.io.acked = now]
  BY <1>1
<1> HIDE DEF called, first, now, left, d, both
<1>6. d.io.acks = left /\ d.io.acked = now /\ d.io.ids = c.io.ids
  BY <1>5 DEF Shape, IoFields
<1>7. StillKnows(c, d)
  BY <1>5, <1>6 DEF StillKnows, Knows
<1>8. /\ c.io.ids \in Nat
      /\ \A b \in c.io.acks : b.id \in Nat /\ b.id < c.io.ids /\ b.n \in 0 .. em
      /\ \A a, b \in c.io.acks : a.id = b.id \/ (a.n = b.n /\ a.n > 0) => a = b
      /\ IsSequence(c.io.acked)
      /\ \A j \in DOMAIN c.io.acked :
            /\ c.io.acked[j][1] = c.io.acked[j][2] /\ c.io.acked[j][1] \in 1 .. em
            /\ \A b \in c.io.acks : b.n # c.io.acked[j][1]
      /\ \A j, k \in DOMAIN c.io.acked : c.io.acked[j][1] = c.io.acked[k][1] => j = k
  BY DEF AcksOK
<1>9. /\ IsSequence(now)
      /\ \A j \in DOMAIN now :
            /\ now[j][1] = now[j][2] /\ now[j][1] \in 1 .. em
            /\ \A b \in left : b.n # now[j][1]
      /\ \A j, k \in DOMAIN now : now[j][1] = now[k][1] => j = k
  <2>1. CASE now = c.io.acked
    BY <1>5, <1>8, <2>1
  <2>2. CASE now = more /\ n > 0 /\ \E b \in c.io.acks : b.n = n /\ b.id = i
    <3>1. PICK b \in c.io.acks : b.n = n /\ b.id = i
      BY <2>2
    <3> DEFINE s == c.io.acked
    <3>2. /\ IsSequence(more) /\ DOMAIN s = 1 .. Len(s) /\ Len(s) \in Nat
          /\ DOMAIN more = 1 .. Len(s) + 1 /\ \A j \in 1 .. Len(s) : more[j] = s[j]
          /\ more[Len(s) + 1] = both
      BY <1>8, SequenceAppend
    <3> HIDE DEF more, s
    <3>3. n \in 1 .. em
      BY <1>8, <2>2, <3>1
    <3>4. \A a \in left : a.n # n
      BY <1>5, <1>8, <2>2, <3>1
    <3>5. \A j \in 1 .. Len(s) : s[j][1] # n
      BY <1>8, <3>1, <3>2, SMTT(30) DEF s
    <3>6. \A j \in 1 .. Len(s) + 1 : j \in 1 .. Len(s) \/ j = Len(s) + 1
      BY <3>2
    <3>7. ASSUME NEW j \in DOMAIN more
          PROVE  /\ more[j][1] = more[j][2] /\ more[j][1] \in 1 .. em
                 /\ \A a \in left : a.n # more[j][1]
      <4>1. CASE j \in 1 .. Len(s)
        BY <1>5, <1>8, <3>2, <4>1, SMTT(30) DEF s
      <4>2. CASE j = Len(s) + 1
        BY <1>3, <3>2, <3>3, <3>4, <4>2
      <4> QED
        BY <3>2, <3>6, <4>1, <4>2
    <3>8. ASSUME NEW j \in DOMAIN more, NEW k \in DOMAIN more, more[j][1] = more[k][1]
          PROVE  j = k
      <4>1. CASE j \in 1 .. Len(s) /\ k \in 1 .. Len(s)
        <5>1. s[j][1] = s[k][1]
          BY <3>2, <3>8, <4>1
        <5>2. j \in DOMAIN s /\ k \in DOMAIN s
          BY <1>8, <4>1 DEF s
        <5>3. \A x, y \in DOMAIN s : s[x][1] = s[y][1] => x = y
          BY <1>8 DEF s
        <5> QED
          BY <5>1, <5>2, <5>3, Zenon
      <4>2. CASE j \in 1 .. Len(s) /\ k = Len(s) + 1
        BY <1>3, <3>2, <3>5, <3>8, <4>2
      <4>3. CASE j = Len(s) + 1 /\ k \in 1 .. Len(s)
        BY <1>3, <3>2, <3>5, <3>8, <4>3
      <4>4. CASE j = Len(s) + 1 /\ k = Len(s) + 1
        BY <4>4
      <4> QED
        BY <3>2, <3>6, <4>1, <4>2, <4>3, <4>4
    <3> QED
      BY <2>2, <3>2, <3>7, <3>8
  <2> QED
    BY <1>4, <2>1, <2>2
<1>10. /\ \A b \in left : b.id \in Nat /\ b.id < c.io.ids /\ b.n \in 0 .. em
       /\ \A a, b \in left : a.id = b.id \/ (a.n = b.n /\ a.n > 0) => a = b
  BY <1>5, <1>8
<1>11. AcksOK(d, em)
  BY <1>6, <1>8, <1>9, <1>10 DEF AcksOK
<1> QED
  BY <1>7, <1>11 DEF d

(* Socket.onack: the callback is called with its own event, and forgotten. *)
LEMMA OnAckData ==
  ASSUME NEW c, NEW em, NEW dn, Shape(c), Sending(c, em, dn), c.io.connected => Running(c),
         c.io.connected /\ ~c.io.aborted => c.io.sendBuffer = <<>> /\ c.io.receiveBuffer = <<>>,
         NEW n \in Nat, NEW i \in Nat, Knows(c, n, i),
         NEW packet, packet.id[1] = i, Number(packet.data) = n
  PROVE  Data(OnAck(c, packet), em, dn) /\ OnAck(c, packet).io.connected = c.io.connected
<1> DEFINE d == OnAck(c, packet)
<1>1. AcksOK(c, em) /\ HeardOK(c, dn) /\ (~c.io.aborted => OrderOK(c))
  BY DEF Sending
<1>2. AcksOK(d, em) /\ StillKnows(c, d)
  BY <1>1, OnAckAcks
<1>3. /\ d.engines = c.engines /\ d.io.heard = c.io.heard
      /\ d.io.sendBuffer = c.io.sendBuffer /\ d.io.receiveBuffer = c.io.receiveBuffer
      /\ d.io.aborted = c.io.aborted /\ d.io.misread = c.io.misread
      /\ d.io.reconstructor = c.io.reconstructor /\ d.io.connected = c.io.connected
      /\ d.io.readyState = c.io.readyState /\ d.io.timers = c.io.timers
      /\ d.io.skipReconnect = c.io.skipReconnect /\ d.io.subscribed = c.io.subscribed
      /\ d.io.reconnecting = c.io.reconnecting
  BY DEF OnAck, Shape, IoFields
<1> HIDE DEF d
<1>4. AllNews(d.io.heard, dn) /\ AllNews(d.io.receiveBuffer, dn)
  BY <1>1, <1>3 DEF HeardOK, AllNews, Shape
<1>5. Newest(d) = Newest(c)
  BY <1>3 DEF Newest
<1>6. Hearing(d) = Hearing(c)
  BY <1>5 DEF Hearing
<1>7. HalfRead(d) = HalfRead(c)
  BY <1>3, <1>6 DEF HalfRead
<1>8. ~d.io.aborted => OrderOK(d)
  BY <1>1, <1>3, <1>5, <1>7 DEF OrderOK
<1>9. Sending(d, em, dn)
  BY <1>2, <1>3, <1>4, <1>8, SendingHeard
<1>10. d.io.connected => Running(d)
  BY <1>3, <1>5 DEF Running
<1> QED
  BY <1>3, <1>9, <1>10, SendingData DEF d

(* ondisconnect gives up with all that the Socket has kept.                *)
LEMMA OnDisconnectData ==
  ASSUME NEW c, Good(c), Running(c), NEW em, NEW dn, Sending(c, em, dn),
         NEW state \in {"closing", "closed"}
  PROVE  Known(OnDisconnect(c, state), em, dn)
<1> DEFINE a == [c EXCEPT !.io.connected = FALSE]
           b == [a EXCEPT !.io.subscribed = FALSE]
           m == [BackoffReset(b) EXCEPT !.io.skipReconnect = TRUE, !.io.reconnecting = FALSE,
                                        !.io.readyState = "closed"]
           e == Len(c.engines)
           f == OnDisconnect(c, state)
<1>1. /\ Shape(c) /\ DOMAIN c.engines = 1 .. e /\ e \in Nat /\ e \in 1 .. MaxEngines
      /\ DOMAIN c.io = IoFields /\ e > 0 /\ e \in DOMAIN c.engines
  BY Lengths DEF Good, Shape
<1>2. Shape(a) /\ a.engines = c.engines /\ a.io = [c.io EXCEPT !.connected = FALSE]
  BY <1>1 DEF Shape, IoFields
<1>3. SameData(c, a) /\ a.io.reconstructor = c.io.reconstructor /\ ~a.io.connected
  BY <1>1, <1>2 DEF SameData, IoFields
<1>4. Data(a, em, dn)
  <2>1. Sending(a, em, dn)
    BY <1>2, <1>3, SendingKept
  <2> HIDE DEF a
  <2> QED
    BY <1>3, <2>1, SendingData
<1>5. f = Close(b, state)
  BY DEF OnDisconnect, Destroy
<1> HIDE DEF a, f
<1>6. Shape(b) /\ b.engines = c.engines /\ b.io = [a.io EXCEPT !.subscribed = FALSE]
  BY <1>2 DEF Shape, IoFields
<1>7. Close(b, state) = IF state = "closed" THEN OnClose(Ended(m, Len(b.engines)))
                        ELSE [m EXCEPT !.engines[Len(b.engines)].state = state]
  BY DEF Close
<1> HIDE DEF b
<1>8. Shape(m) /\ m.engines = c.engines
      /\ m.io = [b.io EXCEPT !.attempts = 0, !.skipReconnect = TRUE, !.reconnecting = FALSE,
                             !.readyState = "closed"]
  BY <1>6 DEF BackoffReset, Shape, IoFields
<1> HIDE DEF m
<1>9. /\ m.io.skipReconnect /\ ~m.io.subscribed /\ ~m.io.reconnecting
      /\ m.io.reconnecting \in BOOLEAN /\ m.io.attempts = 0 /\ m.io.connected = FALSE
      /\ m.io.reconstructor = a.io.reconstructor /\ SameData(a, m)
  BY <1>1, <1>2, <1>6, <1>8 DEF IoFields, SameData
<1>10. EndsOK(c) /\ (Hearing(c) => Follows(c, dn))
  BY DEF Sending
<1>11. CASE state = "closed"
  <2> DEFINE g == Ended(m, e)
  <2>1. /\ Shape(g) /\ g.io = m.io /\ DOMAIN g.engines = DOMAIN c.engines
        /\ g.engines[e].state = "closed" /\ g.engines[e].down = <<>>
        /\ g.engines[e].srv = "none" /\ g.engines[e].log = c.engines[e].log
        /\ g.engines[e].at = Len(c.engines[e].log)
        /\ \A k \in DOMAIN c.engines : k # e => g.engines[k] = c.engines[k]
    BY <1>1, <1>8, EndedSame, SMTT(30)
  <2>2. f = OnClose(g)
    BY <1>5, <1>6, <1>7, <1>11
  <2> HIDE DEF g
  <2>3. /\ Shape(f) /\ SameData(g, f) /\ SameLines(g, f) /\ f.io.reconstructor = <<>>
        /\ f.io.connected = FALSE /\ f.io.reconnecting \in BOOLEAN /\ f.io.attempts = 0
        /\ f.io.subscribed = m.io.subscribed
    <3>1. Shape(g) /\ ~g.io.reconnecting /\ g.io.reconnecting \in BOOLEAN
          /\ ~g.io.subscribed /\ g.io.skipReconnect /\ g.io.connected = FALSE
      BY <1>9, <2>1
    <3>2. LET d == OnClose(g) IN
          /\ Shape(d) /\ SameData(g, d) /\ SameLines(g, d) /\ d.io.reconstructor = <<>>
          /\ d.io.connected = IF g.io.subscribed THEN FALSE ELSE g.io.connected
          /\ d.io.reconnecting \in BOOLEAN
          /\ ~g.io.subscribed => d.io.attempts = 0
          /\ d.io.subscribed = g.io.subscribed
      BY <3>1, OnCloseSame
    <3> QED
      BY <2>1, <2>2, <3>1, <3>2
  <2>4. /\ DOMAIN f.engines = DOMAIN c.engines
        /\ \A k \in DOMAIN c.engines :
              /\ f.engines[k].log = c.engines[k].log
              /\ f.engines[k].at \in {c.engines[k].at, Len(c.engines[k].log)}
              /\ f.engines[k].down \in {c.engines[k].down, <<>>}
              /\ k # e => /\ f.engines[k].state = c.engines[k].state
                          /\ f.engines[k].down = c.engines[k].down
                          /\ f.engines[k].srv = c.engines[k].srv
        /\ f.engines[e].state = "closed" /\ f.engines[e].down = <<>> /\ f.engines[e].srv = "none"
    BY <1>1, <2>1, <2>3, SMTT(30) DEF SameLines
  <2>5. SameData(a, f)
    BY <1>9, <2>1, <2>3 DEF SameData
  <2>6. Len(f.engines) = e
    <3>1. DOMAIN f.engines = 1 .. Len(f.engines) /\ Len(f.engines) \in Nat
      BY <2>3, Lengths
    <3> QED
      BY <1>1, <2>4, <3>1
  <2>7. EndsOK(f)
    <3>1. ASSUME NEW k \in DOMAIN f.engines
          PROVE  /\ f.engines[k].state = "opening" => f.engines[k].log = <<>>
                 /\ f.engines[k].state \in {"opening", "closed"} =>
                       f.engines[k].down = <<>> /\ f.engines[k].srv = "none"
      <4>1. CASE k = e
        BY <2>4, <4>1
      <4>2. CASE k # e
        BY <1>10, <2>4, <4>2 DEF EndsOK
      <4> QED
        BY <4>1, <4>2
    <3> QED
      BY <3>1 DEF EndsOK
  <2>8. ~Hearing(f)
    BY <2>4, <2>6 DEF Hearing, Newest
  <2>9. PhaseOK(f, dn) /\ HalfRead(f) \subseteq HalfRead(a)
    BY <2>3, <2>8 DEF PhaseOK, HalfRead
  <2>10. Data(f, em, dn)
    BY <1>1, <1>2, <1>4, <2>3, <2>4, <2>5, <2>7, <2>9, SettledData, SMTT(30)
  <2>11. Bounds(f)
    <3>1. ~f.io.subscribed /\ f.io.attempts = 0 /\ f.io.connected = FALSE
          /\ f.io.reconnecting \in BOOLEAN
      BY <1>9, <2>3
    <3>2. ~Opening(f) /\ ~Waiting(f)
      BY <3>1 DEF Opening, Waiting
    <3>3. f.io.attempts \in Nat
      BY <3>1
    <3>4. f.io.connected \in BOOLEAN
      BY <3>1, Zenon
    <3> QED
      BY <3>1, <3>2, <3>3, <3>4 DEF Bounds
  <2> QED
    BY <2>10, <2>11 DEF Known, f
<1>12. CASE state = "closing"
  <2>1. f = [m EXCEPT !.engines[e].state = "closing"]
    BY <1>5, <1>6, <1>7, <1>12
  <2>2. /\ DOMAIN m = {"io", "engines"} /\ m.engines = c.engines
        /\ \A k \in 1 .. e : DOMAIN c.engines[k] = EngineFields
    BY <1>1, <1>8 DEF Shape
  <2>3. /\ DOMAIN f = {"io", "engines"} /\ f.io = m.io
        /\ f.engines = [c.engines EXCEPT ![e].state = "closing"]
    BY <2>1, <2>2
  <2>4. /\ DOMAIN f.engines = 1 .. e
        /\ \A k \in 1 .. e : DOMAIN f.engines[k] = EngineFields
        /\ \A k \in 1 .. e :
              /\ f.engines[k].log = c.engines[k].log /\ f.engines[k].at = c.engines[k].at
              /\ f.engines[k].down = c.engines[k].down /\ f.engines[k].srv = c.engines[k].srv
              /\ f.engines[k].hears = c.engines[k].hears
              /\ k # e => f.engines[k].state = c.engines[k].state
        /\ f.engines[e].state = "closing"
    BY <1>1, <2>2, <2>3 DEF EngineFields
  <2>5. Shape(f)
    BY <1>1, <1>8, <2>2, <2>3, <2>4 DEF Shape, IsSequence
  <2>6. Len(f.engines) = e
    <3>1. DOMAIN f.engines = 1 .. Len(f.engines) /\ Len(f.engines) \in Nat
      BY <2>5, Lengths
    <3> QED
      BY <1>1, <2>4, <3>1
  <2>7. EndsOK(f)
    <3>1. ASSUME NEW k \in 1 .. e
          PROVE  /\ f.engines[k].state = "opening" => f.engines[k].log = <<>>
                 /\ f.engines[k].state \in {"opening", "closed"} =>
                       f.engines[k].down = <<>> /\ f.engines[k].srv = "none"
      <4>1. CASE k = e
        BY <2>4, <4>1
      <4>2. CASE k # e
        BY <1>1, <1>10, <2>4, <4>2 DEF EndsOK
      <4> QED
        BY <4>1, <4>2
    <3> QED
      BY <2>4, <3>1 DEF EndsOK
  <2>8. /\ Newest(f).hears = Newest(c).hears /\ Newest(f).down = Newest(c).down
        /\ Newest(f).state = "closing" /\ Newest(c).state = "open" /\ Newest(a) = Newest(c)
    BY <1>1, <1>2, <2>4, <2>6 DEF Newest, Running
  <2>9. Hearing(f) = Hearing(c) /\ Hearing(a) = Hearing(c)
    BY <2>8 DEF Hearing
  <2>10. SameData(a, f) /\ f.io.reconstructor = a.io.reconstructor /\ f.io.connected = FALSE
    BY <1>9, <2>3 DEF SameData
  <2>11. PhaseOK(f, dn) /\ HalfRead(f) \subseteq HalfRead(a)
    BY <1>3, <1>10, <2>8, <2>9, <2>10 DEF PhaseOK, HalfRead, Follows
  <2>12. \A k \in DOMAIN a.engines :
            /\ f.engines[k].log = a.engines[k].log
            /\ f.engines[k].at \in {a.engines[k].at, Len(a.engines[k].log)}
            /\ f.engines[k].down \in {a.engines[k].down, <<>>}
    BY <1>1, <1>2, <2>4
  <2>13. Data(f, em, dn)
    BY <1>1, <1>2, <1>4, <2>4, <2>5, <2>7, <2>10, <2>11, <2>12, SettledData
  <2>14. Bounds(f)
    <3>1. ~f.io.subscribed /\ f.io.attempts = 0 /\ f.io.connected = FALSE
          /\ f.io.reconnecting \in BOOLEAN
      BY <1>9, <2>3
    <3>2. ~Opening(f) /\ ~Waiting(f)
      BY <3>1 DEF Opening, Waiting
    <3>3. f.io.attempts \in Nat
      BY <3>1
    <3>4. f.io.connected \in BOOLEAN
      BY <3>1, Zenon
    <3> QED
      BY <3>1, <3>2, <3>3, <3>4 DEF Bounds
  <2> QED
    BY <2>13, <2>14 DEF Known, f
<1> QED
  BY <1>11, <1>12

(* The client that was given a frame, and the one whose decoder took it.   *)
Handed(e) == [c0 EXCEPT !.engines[e].down = Tail(@)]
Parsed(n, r) == [n EXCEPT !.io.threw = FALSE, !.io.reconstructor = r.reconstructor,
                          !.io.misread = @ \/ r.threw]

(* The engine emits "data": nothing but the frame and the decoder changes. *)
LEMMA Arrives ==
  ASSUME Good(c0), Alive(Current), NEW r
  PROVE  LET n == Handed(Current)
             d == Parsed(n, r)
         IN  /\ Quiet(c0, n) /\ TailLines(n) /\ n.io = io
             /\ Quiet(c0, d) /\ TailLines(d) /\ d.io.connected = io.connected
             /\ d.io.reconstructor = r.reconstructor
             /\ ~r.threw /\ io.misread = FALSE => SameData(c0, d)
<1> DEFINE n == Handed(Current)
           d == Parsed(n, r)
           cut == Tail(engines[Current].down)
<1>1. /\ Shape(c0) /\ c0.io = io /\ c0.engines = engines /\ DOMAIN c0 = {"io", "engines"}
      /\ DOMAIN engines = 1 .. Current /\ Current \in Nat /\ Current \in 1 .. Current
      /\ \A e \in 1 .. Current : DOMAIN engines[e] = EngineFields
      /\ DOMAIN io = IoFields
  BY GoodHere DEF Shape
<1>2. n.io = io /\ n.engines = [engines EXCEPT ![Current].down = cut] /\ DOMAIN n = {"io", "engines"}
  BY <1>1 DEF Handed
<1> HIDE DEF n, cut
<1>3. /\ DOMAIN n.engines = 1 .. Current /\ n.engines[Current].down = cut
      /\ \A e \in 1 .. Current :
            /\ DOMAIN n.engines[e] = EngineFields
            /\ n.engines[e].log = engines[e].log /\ n.engines[e].at = engines[e].at
            /\ n.engines[e].srv = engines[e].srv /\ n.engines[e].state = engines[e].state
            /\ n.engines[e].hears = engines[e].hears
            /\ e # Current => n.engines[e].down = engines[e].down
  BY <1>1, <1>2 DEF EngineFields
<1>4. Shape(n)
  BY <1>1, <1>2, <1>3 DEF Shape, IsSequence
<1>5. Quiet(c0, n)
  BY <1>1, <1>2, <1>3, <1>4 DEF Quiet
<1>6. TailLines(n)
  BY <1>1, <1>3 DEF TailLines, cut
<1>7. /\ d.engines = n.engines /\ DOMAIN d = {"io", "engines"} /\ DOMAIN d.io = IoFields
      /\ d.io.reconstructor = r.reconstructor
      /\ \A f \in IoFields \ {"threw", "reconstructor", "misread"} : d.io[f] = io[f]
      /\ ~r.threw /\ io.misread = FALSE => d.io.misread = FALSE
  <2>1. d.engines = n.engines /\ DOMAIN d = {"io", "engines"}
        /\ d.io = [io EXCEPT !.threw = FALSE, !.reconstructor = r.reconstructor,
                             !.misread = io.misread \/ r.threw]
    BY <1>2 DEF Parsed
  <2> DEFINE m == io.misread \/ r.threw
  <2>2. ~r.threw /\ io.misread = FALSE => m = FALSE
    OBVIOUS
  <2>3. d.io = [io EXCEPT !.threw = FALSE, !.reconstructor = r.reconstructor, !.misread = m]
    BY <2>1
  <2> HIDE DEF d, m
  <2> QED
    BY <1>1, <2>1, <2>2, <2>3 DEF IoFields
<1> HIDE DEF d
<1>8. Shape(d)
  BY <1>1, <1>3, <1>4, <1>7 DEF Shape, IoFields
<1>9. Quiet(c0, d)
  BY <1>1, <1>3, <1>7, <1>8 DEF Quiet, IoFields
<1>10. TailLines(d)
  BY <1>6, <1>7 DEF TailLines
<1>11. ~r.threw /\ io.misread = FALSE => SameData(c0, d)
  BY <1>1, <1>7 DEF SameData, IoFields
<1>12. d.io.connected = io.connected
  BY <1>7 DEF IoFields
<1> QED
  BY <1>2, <1>5, <1>6, <1>7, <1>9, <1>10, <1>11, <1>12 DEF n, d

(* A frame that nobody listens to is gone.                                 *)
LEMMA UnheardData ==
  ASSUME Good(c0), Known(c0, emitted, downs), Alive(Current), engines[Current].down # <<>>,
         engines[Current].hears # "data"
  PROVE  Known(Handed(Current), emitted, downs)
<1> DEFINE n == Handed(Current)
<1>1. Quiet(c0, n) /\ TailLines(n) /\ n.io = io
  BY Arrives
<1> HIDE DEF n
<1>2. /\ Shape(c0) /\ c0.io = io /\ c0.engines = engines /\ Newest(c0) = engines[Current]
      /\ Len(c0.engines) = Current /\ Current > 0 /\ DOMAIN io = IoFields
  BY GoodHere DEF Current
<1>3. Shape(n) /\ SameData(c0, n)
  BY <1>1, <1>2 DEF Quiet, SameData
<1>4. Data(c0, emitted, downs) /\ Bounds(c0)
  BY DEF Known
<1>5. /\ emitted \in Nat /\ downs \in Nat
      /\ AcksOK(n, emitted) /\ LogsOK(n) /\ DownsOK(n, downs) /\ EndsOK(n)
      /\ HeardOK(n, downs) /\ Waits(n)
      /\ Newest(n).down = Tail(engines[Current].down)
      /\ Newest(n).hears = engines[Current].hears
      /\ DownList(c0, engines[Current].down, downs)
      /\ ~n.io.aborted => GivenOK(n, emitted) /\ OrderOK(c0)
  BY <1>1, <1>3, <1>4, TailData
<1>6. ~Hearing(n) /\ HalfRead(n) = {}
  BY <1>5 DEF Hearing, HalfRead
<1>7. ~n.io.aborted => OrderOK(n)
  <2> HAVE ~n.io.aborted
  <2> DEFINE s == engines[Current].down
  <2>1. /\ s = Newest(c0).down /\ IsSequence(s) /\ s # <<>> /\ Newest(n).down = Tail(s)
        /\ OrderOK(c0)
    BY <1>2, <1>5 DEF DownList
  <2>2. n.io.heard = c0.io.heard /\ n.io.receiveBuffer = c0.io.receiveBuffer
    BY <1>3 DEF SameData
  <2> HIDE DEF s
  <2> QED
    BY <1>6, <2>1, <2>2, OrderArrives
<1>8. Sending(n, emitted, downs)
  BY <1>5, <1>6, <1>7 DEF Sending
<1>9. (Running(n) <=> Running(c0)) /\ Bounds(n)
  <2>1. n.io.connected \in BOOLEAN
    BY <1>1, <1>2, <1>4 DEF Bounds
  <2> QED
    BY <1>1, <1>2, <1>4, <2>1, QuietPhase
<1>10. Data(n, emitted, downs)
  <2>1. n.io.connected => Running(n)
    BY <1>1, <1>2, <1>4, <1>9 DEF Data, PhaseOK
  <2>2. n.io.connected /\ ~n.io.aborted => n.io.sendBuffer = <<>> /\ n.io.receiveBuffer = <<>>
    BY <1>1, <1>2, <1>4 DEF Data, PhaseOK
  <2> QED
    BY <1>8, <2>1, <2>2, SendingData
<1> QED
  BY <1>9, <1>10 DEF Known, n

(* Socket.onpacket with a packet of the server.                            *)
LEMMA OnPacketData ==
  ASSUME NEW d, NEW em, NEW dn, Shape(d), Sending(d, em, dn), Len(d.engines) > 0,
         Bounds(d), d.io.connected => Running(d), d.io.subscribed => Running(d),
         d.io.connected /\ ~d.io.aborted => d.io.sendBuffer = <<>> /\ d.io.receiveBuffer = <<>>,
         HalfRead(d) = {}, NEW packet,
         \/ packet.type \in {"connect", "disconnect"}
         \/ /\ packet.type = "ack"
            /\ \E n, i \in Nat : Knows(d, n, i) /\ packet.id = <<i>> /\ Number(packet.data) = n
         \/ /\ packet.type \in {"event", "binary_event"}
            /\ \E n \in 1 .. dn : packet.data = EventData(n) /\ (~d.io.aborted => Fits(d, n))
  PROVE  Known(OnPacket(d, packet), em, dn)
<1> DEFINE f == OnPacket(d, packet)
<1>1. Quiet(d, f)
  BY OnPacketQuiet
<1>2. /\ ~d.io.subscribed => f = d
      /\ d.io.subscribed /\ packet.type = "connect" => f = OnConnect(d)
      /\ d.io.subscribed /\ packet.type \in {"event", "binary_event"} => f = OnEvent(d, packet.data)
      /\ d.io.subscribed /\ packet.type = "ack" => f = OnAck(d, packet)
      /\ packet.type = "disconnect" => f = d
  BY DEF OnPacket
<1> HIDE DEF f
<1>3. d.io.connected \in BOOLEAN
  BY DEF Bounds
<1>4. CASE f = d
  BY <1>3, <1>4, SendingData DEF Known, f
<1>5. ASSUME Data(f, em, dn), f.io.connected \in BOOLEAN
      PROVE  Known(f, em, dn)
  BY <1>1, <1>5, QuietPhase DEF Known
<1>6. CASE d.io.subscribed /\ packet.type = "connect"
  <2>1. f = OnConnect(d) /\ Running(d)
    BY <1>2, <1>6
  <2>2. Data(f, em, dn) /\ f.io.connected \in BOOLEAN
    BY <2>1, OnConnectData
  <2> QED
    BY <1>5, <2>2 DEF f
<1>7. CASE d.io.subscribed /\ packet.type \in {"event", "binary_event"}
  <2>1. PICK n \in 1 .. dn : packet.data = EventData(n) /\ (~d.io.aborted => Fits(d, n))
    BY <1>7
  <2> DEFINE x == packet.data
  <2>2. f = OnEvent(d, x) /\ x = EventData(n)
    BY <1>2, <1>7, <2>1
  <2> HIDE DEF x
  <2>3. Data(f, em, dn) /\ f.io.connected \in BOOLEAN
    BY <1>3, <2>1, <2>2, OnEventData
  <2> QED
    BY <1>5, <2>3 DEF f
<1>8. CASE d.io.subscribed /\ packet.type = "ack"
  <2>1. PICK n \in Nat, i \in Nat : /\ Knows(d, n, i) /\ packet.id = <<i>>
                                    /\ Number(packet.data) = n
    BY <1>8
  <2>2. packet.id[1] = i /\ f = OnAck(d, packet)
    BY <1>2, <1>8, <2>1
  <2>3. Data(f, em, dn) /\ f.io.connected \in BOOLEAN
    BY <1>3, <2>1, <2>2, OnAckData
  <2> QED
    BY <1>5, <2>3 DEF f
<1> QED
  BY <1>2, <1>4, <1>6, <1>7, <1>8 DEF f

(* A frame that the decoder takes, and what comes of it.                   *)
LEMMA HeardData ==
  ASSUME Good(c0), Known(c0, emitted, downs), Alive(Current), engines[Current].down # <<>>,
         engines[Current].hears = "data",
         NEW r, r = DecoderAdd(io.reconstructor, Head(engines[Current].down)),
         NEW d, d = Parsed(Handed(Current), r)
  PROVE  /\ r.packets = <<>> => Known(d, emitted, downs)
         /\ r.packets # <<>> /\ r.packets[1].type = "disconnect" /\ io.subscribed =>
              \A state \in {"closing", "closed"} : Known(OnDisconnect(d, state), emitted, downs)
         /\ r.packets # <<>> => Known(OnPacket(d, r.packets[1]), emitted, downs)
<1> DEFINE s == engines[Current].down
           rec == io.reconstructor
<1>1. /\ Shape(c0) /\ c0.io = io /\ c0.engines = engines /\ Newest(c0) = engines[Current]
      /\ Len(c0.engines) = Current /\ Current > 0 /\ Current \in 1 .. Current
      /\ DOMAIN engines = 1 .. Current
  BY GoodHere DEF Current
<1>2. Data(c0, emitted, downs) /\ Bounds(c0)
  BY DEF Known
<1>3. Head(s) = s[1] /\ io.misread = FALSE
  <2>1. DownList(c0, s, downs) /\ HeardOK(c0, downs)
    BY <1>1, <1>2 DEF Data, DownsOK
  <2>2. IsSequence(s) /\ s # <<>>
    BY <2>1 DEF DownList
  <2> HIDE DEF s
  <2> QED
    BY <1>1, <2>1, <2>2, TailFacts DEF HeardOK
<1>4. ~r.threw /\ Outcome(c0, s, rec, r, downs)
  <2>1. r = DecoderAdd(io.reconstructor, engines[Current].down[1])
    BY <1>3
  <2> QED
    BY <1>2, <2>1, FrameArrives
<1>5. /\ Quiet(c0, d) /\ TailLines(d) /\ d.io.connected = io.connected
      /\ d.io.reconstructor = r.reconstructor /\ SameData(c0, d) /\ Shape(d)
  <2>1. Shape(d)
    BY Arrives DEF Quiet
  <2> QED
    BY <1>3, <1>4, <2>1, Arrives
<1>6. /\ Sending(d, emitted, downs)
      /\ r.packets # <<>> => HalfRead(d) = {}
      /\ r.packets # <<>> /\ r.packets[1].type \in {"event", "binary_event"} =>
           \E n \in 1 .. downs : /\ r.packets[1].data = EventData(n)
                                 /\ ~d.io.aborted => Fits(d, n)
  BY <1>2, <1>4, <1>5, ArrivesData
<1>7. AcksOK(d, emitted) /\ StillKnows(c0, d) /\ Len(d.engines) = Current
  BY <1>2, <1>5, TailData
<1> HIDE DEF s, rec
<1>8. (Running(d) <=> Running(c0)) /\ Bounds(d)
  <2>1. d.io.connected \in BOOLEAN
    BY <1>1, <1>2, <1>5 DEF Bounds
  <2> QED
    BY <1>1, <1>2, <1>5, <2>1, QuietPhase
<1>9. /\ d.io.connected => Running(d)
      /\ d.io.connected /\ ~d.io.aborted => d.io.sendBuffer = <<>> /\ d.io.receiveBuffer = <<>>
  BY <1>1, <1>2, <1>5, <1>8 DEF Data, PhaseOK, SameData
<1>10. io.subscribed => Running(c0)
  BY <1>1, ZenonT(60) DEF Good, Opening, Running, Waiting, Finished, Alive
<1>11. d.io.subscribed = io.subscribed
  BY <1>1, <1>5 DEF Quiet
<1>12. Data(d, emitted, downs)
  BY <1>6, <1>9, SendingData
<1>13. ASSUME r.packets # <<>>
       PROVE  Known(OnPacket(d, r.packets[1]), emitted, downs)
  <2> DEFINE packet == r.packets[1]
  <2>1. \/ packet.type \in {"connect", "disconnect"}
        \/ /\ packet.type = "ack"
           /\ \E n, i \in Nat : Knows(d, n, i) /\ packet.id = <<i>> /\ Number(packet.data) = n
        \/ /\ packet.type \in {"event", "binary_event"}
           /\ \E n \in 1 .. downs : packet.data = EventData(n) /\ (~d.io.aborted => Fits(d, n))
    <3>1. \/ packet.type \in {"connect", "disconnect"}
          \/ /\ packet.type = "ack"
             /\ \E n, i \in Nat : /\ Knows(c0, n, i) /\ packet.id = <<i>>
                                  /\ Number(packet.data) = n
          \/ packet.type \in {"event", "binary_event"}
      BY <1>4, <1>13, Zenon DEF Outcome
    <3>2. CASE packet.type \in {"event", "binary_event"}
      BY <1>6, <1>13, <3>2, Zenon
    <3>3. CASE packet.type = "ack"
      <4>1. PICK n \in Nat, i \in Nat : /\ Knows(c0, n, i) /\ packet.id = <<i>>
                                        /\ Number(packet.data) = n
        BY <3>1, <3>3, Zenon
      <4>2. Knows(d, n, i)
        BY <1>7, <4>1 DEF StillKnows
      <4> QED
        BY <3>3, <4>1, <4>2, Zenon
    <3> QED
      BY <3>1, <3>2, <3>3, Zenon
  <2>2. HalfRead(d) = {} /\ (d.io.subscribed => Running(d)) /\ Len(d.engines) > 0
    BY <1>1, <1>6, <1>7, <1>8, <1>10, <1>11, <1>13
  <2> HIDE DEF packet
  <2>3. Known(OnPacket(d, packet), emitted, downs)
    BY <1>5, <1>6, <1>8, <1>9, <2>1, <2>2, OnPacketData, Zenon
  <2> QED
    BY <2>3, Zenon DEF packet
<1>14. ASSUME io.subscribed, NEW state \in {"closing", "closed"}
       PROVE  Known(OnDisconnect(d, state), emitted, downs)
  <2>1. Running(d)
    BY <1>8, <1>10, <1>14
  <2>2. Good(d)
    BY <1>5, QuietKeeps DEF Keeps
  <2> QED
    BY <1>6, <2>1, <2>2, OnDisconnectData
<1> QED
  BY <1>8, <1>12, <1>13, <1>14 DEF Known

(* A frame arrives, on a connection whose data is heard or not.            *)
LEMMA EngineDataData ==
  ASSUME Good(c0), Known(c0, emitted, downs), EngineData
  PROVE  \E d : Step(d) /\ Known(d, emitted', downs')
<1>1. PICK e \in 1 .. Current :
        /\ Alive(e) /\ engines[e].down # <<>>
        /\ \E r \in {DecoderAdd(io.reconstructor, Head(engines[e].down))},
             n \in {[c0 EXCEPT !.engines[e].down = Tail(@)]} :
           \E d \in {[n EXCEPT !.io.threw = FALSE, !.io.reconstructor = r.reconstructor,
                               !.io.misread = @ \/ r.threw]} :
             CASE engines[e].hears # "data" -> Step(n)
               [] engines[e].hears = "data" /\ r.packets = <<>> -> Step(d)
               [] engines[e].hears = "data" /\ r.packets # <<>> ->
                     IF r.packets[1].type = "disconnect" /\ io.subscribed
                     THEN \E state \in {"closing", "closed"} : Step(OnDisconnect(d, state))
                     ELSE Step(OnPacket(d, r.packets[1]))
  BY ZenonT(60) DEF EngineData
<1>2. PICK r \in {DecoderAdd(io.reconstructor, Head(engines[e].down))}, n \in {Handed(e)} :
         \E d \in {Parsed(n, r)} :
             CASE engines[e].hears # "data" -> Step(n)
               [] engines[e].hears = "data" /\ r.packets = <<>> -> Step(d)
               [] engines[e].hears = "data" /\ r.packets # <<>> ->
                     IF r.packets[1].type = "disconnect" /\ io.subscribed
                     THEN \E state \in {"closing", "closed"} : Step(OnDisconnect(d, state))
                     ELSE Step(OnPacket(d, r.packets[1]))
  BY <1>1 DEF Handed, Parsed
<1>3. PICK d \in {Parsed(n, r)} :
         CASE engines[e].hears # "data" -> Step(n)
           [] engines[e].hears = "data" /\ r.packets = <<>> -> Step(d)
           [] engines[e].hears = "data" /\ r.packets # <<>> ->
                 IF r.packets[1].type = "disconnect" /\ io.subscribed
                 THEN \E state \in {"closing", "closed"} : Step(OnDisconnect(d, state))
                 ELSE Step(OnPacket(d, r.packets[1]))
  BY <1>2
<1>4. e = Current /\ Alive(Current) /\ engines[Current].down # <<>>
  BY <1>1, LastEnds
<1>5. /\ r = DecoderAdd(io.reconstructor, Head(engines[Current].down))
      /\ n = Handed(Current) /\ d = Parsed(Handed(Current), r)
  BY <1>2, <1>3, <1>4, SMTT(30)
<1>6. emitted' = emitted /\ downs' = downs
  BY DEF EngineData
<1>7. CASE engines[e].hears # "data"
  <2>1. Step(n)
    BY <1>3, <1>7
  <2>2. Known(n, emitted, downs)
    BY <1>4, <1>5, <1>7, UnheardData
  <2> QED
    BY <1>6, <2>1, <2>2
<1>8. CASE engines[e].hears = "data"
  <2>1. /\ r.packets = <<>> => Known(d, emitted, downs)
        /\ r.packets # <<>> /\ r.packets[1].type = "disconnect" /\ io.subscribed =>
             \A state \in {"closing", "closed"} : Known(OnDisconnect(d, state), emitted, downs)
        /\ r.packets # <<>> => Known(OnPacket(d, r.packets[1]), emitted, downs)
    BY <1>4, <1>5, <1>8, HeardData
  <2>2. CASE r.packets = <<>>
    <3>1. Step(d)
      BY <1>3, <1>8, <2>2
    <3> QED
      BY <1>6, <2>1, <2>2, <3>1
  <2>3. CASE r.packets # <<>>
    <3>1. IF r.packets[1].type = "disconnect" /\ io.subscribed
          THEN \E state \in {"closing", "closed"} : Step(OnDisconnect(d, state))
          ELSE Step(OnPacket(d, r.packets[1]))
      BY <1>3, <1>8, <2>3
    <3>2. CASE r.packets[1].type = "disconnect" /\ io.subscribed
      <4>1. PICK state \in {"closing", "closed"} : Step(OnDisconnect(d, state))
        BY <3>1, <3>2
      <4> QED
        BY <1>6, <2>1, <2>3, <3>2, <4>1
    <3>3. CASE ~(r.packets[1].type = "disconnect" /\ io.subscribed)
      <4>1. Step(OnPacket(d, r.packets[1]))
        BY <3>1, <3>3
      <4> QED
        BY <1>6, <2>1, <2>3, <4>1
    <3> QED
      BY <3>2, <3>3
  <2> QED
    BY <2>2, <2>3
<1> QED
  BY <1>7, <1>8, Zenon

(* A list s that was continued to t with events above m, n at most.        *)
LineOK(s, t, m, n) ==
  /\ s # <<>> => t # <<>> /\ t[1] = s[1]
  /\ s = <<>> /\ t # <<>> => ~t[1].binary
  /\ Coming(t) \subseteq Coming(s) \cup (m + 1 .. n)
  /\ NewsRises(s) => NewsRises(t)

(* A line that stays as it is.                                             *)
LEMMA LineSame ==
  ASSUME NEW s, NEW m, NEW n
  PROVE  LineOK(s, s, m, n)
  BY DEF LineOK

(* A line that goes on with a packet of numbers that are new.              *)
LEMMA LineMore ==
  ASSUME NEW c, NEW m \in Nat, NEW n \in Nat, NEW s, DownList(c, s, m), NEW u, IsSequence(u),
         u # <<>>, ~u[1].binary, Coming(u) \subseteq m + 1 .. n, NewsRises(u)
  PROVE  LineOK(s, s \o u, m, n)
<1> DEFINE t == s \o u
<1>1. IsSequence(s) /\ Coming(s) \subseteq 1 .. m
  BY ComingBounded DEF DownList
<1>2. /\ Coming(t) \subseteq Coming(s) \cup Coming(u)
      /\ NewsRises(s) /\ NewsRises(u) /\ Before(Coming(s), Coming(u)) => NewsRises(t)
  BY <1>1, ComingJoined
<1>3. Before(Coming(s), Coming(u))
  <2> DEFINE A == Coming(s)
             B == Coming(u)
  <2>1. A \subseteq 1 .. m /\ B \subseteq m + 1 .. n
    BY <1>1
  <2> HIDE DEF A, B
  <2>2. Before(A, B)
    BY <2>1 DEF Before
  <2> QED
    BY <2>2 DEF A, B
<1>4. /\ Len(s) \in Nat /\ Len(u) \in Nat /\ Len(u) > 0
      /\ \A k \in 1 .. Len(s) + Len(u) : t[k] = IF k <= Len(s) THEN s[k] ELSE u[k - Len(s)]
  <2>1. Len(u) > 0
    BY TailFacts
  <2> HIDE DEF t
  <2> QED
    BY <1>1, <2>1, JoinedAt DEF t
<1>5. DOMAIN t = 1 .. Len(s) + Len(u)
  BY <1>1, Joined
<1>6. t # <<>>
  <2>1. 1 \in DOMAIN t
    BY <1>4, <1>5
  <2> HIDE DEF t
  <2> QED
    BY <2>1
<1> HIDE DEF t
<1>7. s # <<>> => t[1] = s[1]
  <2> HAVE s # <<>>
  <2>1. Len(s) > 0
    BY <1>1, TailFacts
  <2> QED
    BY <1>4, <2>1
<1>8. s = <<>> => t[1] = u[1]
  <2> HAVE s = <<>>
  <2>1. Len(s) = 0
    OBVIOUS
  <2> QED
    BY <1>4, <2>1
<1>9. LineOK(s, t, m, n)
  BY <1>2, <1>3, <1>6, <1>7, <1>8 DEF LineOK
<1> QED
  BY <1>9 DEF t

(* What the server writes begins with a frame of text.                     *)
LEMMA FirstFrames ==
  ASSUME NEW n, NEW i
  PROVE  /\ Encode(Connected) # <<>> /\ ~Encode(Connected)[1].binary
         /\ Encode(Disconnect) # <<>> /\ ~Encode(Disconnect)[1].binary
         /\ Encode(Ack(n, i)) # <<>> /\ ~Encode(Ack(n, i))[1].binary
         /\ Encode(Broadcast(n)) # <<>> /\ ~Encode(Broadcast(n))[1].binary
<1>1. \A a, b : <<a>> # <<>> /\ <<a>>[1] = a /\ <<a, b>> # <<>> /\ <<a, b>>[1] = a
  OBVIOUS
<1>2. /\ ~ConnectedFrame.binary /\ ~DisconnectFrame.binary /\ ~AckFrame(n, i).binary
      /\ ~NewsFrame(n).binary /\ ~NewsHead(n).binary
  BY FrameKinds
<1> QED
  BY <1>1, <1>2, EncodeOthers, EncodeBroadcast

(* The numbers that are known are of events that the server has emitted.   *)
LEMMA NumbersBounded ==
  ASSUME Good(c0), Data(c0, emitted, downs)
  PROVE  /\ NumbersOf(io.heard) \subseteq 1 .. downs
         /\ NumbersOf(io.receiveBuffer) \subseteq 1 .. downs
         /\ HalfRead(c0) \subseteq 1 .. downs
<1>1. c0.io = io /\ HeardOK(c0, downs) /\ (Hearing(c0) => Follows(c0, downs))
  BY GoodHere DEF Data, PhaseOK
<1>2. \A x : IsNewsData(x, downs) => Number(x) \in 1 .. downs
  BY EventValues DEF IsNewsData
<1>3. NumbersOf(io.heard) \subseteq 1 .. downs /\ NumbersOf(io.receiveBuffer) \subseteq 1 .. downs
  BY <1>1, <1>2 DEF HeardOK, NumbersOf
<1>4. HalfRead(c0) \subseteq 1 .. downs
  <2>1. CASE Hearing(c0) /\ io.reconstructor # <<>>
    <3>1. PICK n \in 1 .. downs : io.reconstructor = <<Half(n)>>
      BY <1>1, <2>1 DEF Follows
    <3>2. <<Half(n)>>[1] = Half(n) /\ Number(Half(n).packet.data) = n
      BY NewsNumbers
    <3> HIDE DEF Half
    <3>3. HalfRead(c0) = {n}
      BY <1>1, <2>1, <3>1, <3>2 DEF HalfRead
    <3> QED
      BY <3>3
  <2>2. CASE ~(Hearing(c0) /\ io.reconstructor # <<>>)
    BY <1>1, <2>2 DEF HalfRead
  <2> QED
    BY <2>1, <2>2
<1> QED
  BY <1>3, <1>4

(* The connections after the server has read and written.                  *)
Served(d, dn) ==
  /\ Shape(d) /\ d.io = io /\ DOMAIN d.engines = DOMAIN engines
  /\ \A e \in DOMAIN engines :
        /\ d.engines[e].log = engines[e].log /\ d.engines[e].state = engines[e].state
        /\ d.engines[e].hears = engines[e].hears
        /\ d.engines[e].at \in 0 .. Len(engines[e].log)
        /\ engines[e].state \in {"opening", "closed"} =>
              d.engines[e].down = <<>> /\ d.engines[e].srv = "none"
        /\ DownList(c0, d.engines[e].down, dn)
        /\ LineOK(engines[e].down, d.engines[e].down, downs, dn)

(* The server has read or written, on any connection.                      *)
LEMMA ServedData ==
  ASSUME Good(c0), Known(c0, emitted, downs), NEW dn \in Nat, downs <= dn, NEW d, Served(d, dn)
  PROVE  Known(d, emitted, dn)
<1>1. /\ Shape(c0) /\ c0.io = io /\ c0.engines = engines /\ Newest(c0) = engines[Current]
      /\ Len(c0.engines) = Current /\ Current > 0 /\ Current \in DOMAIN engines
      /\ DOMAIN engines = 1 .. Current /\ Current \in Nat
  BY GoodHere DEF Current
<1>2. /\ Data(c0, emitted, downs) /\ Bounds(c0) /\ emitted \in Nat /\ downs \in Nat
      /\ AcksOK(c0, emitted) /\ LogsOK(c0) /\ EndsOK(c0) /\ PhaseOK(c0, downs)
      /\ HeardOK(c0, downs) /\ Waits(c0)
      /\ ~io.aborted => OrderOK(c0) /\ GivenOK(c0, emitted)
  BY <1>1 DEF Known, Data
<1>3. /\ Shape(d) /\ d.io = io /\ DOMAIN d.engines = DOMAIN engines
      /\ \A e \in DOMAIN engines :
            /\ d.engines[e].log = engines[e].log /\ d.engines[e].state = engines[e].state
            /\ d.engines[e].hears = engines[e].hears
            /\ d.engines[e].at \in 0 .. Len(engines[e].log)
            /\ engines[e].state \in {"opening", "closed"} =>
                  d.engines[e].down = <<>> /\ d.engines[e].srv = "none"
            /\ DownList(c0, d.engines[e].down, dn)
            /\ LineOK(engines[e].down, d.engines[e].down, downs, dn)
  BY DEF Served
<1>4. Len(d.engines) = Current
  <2>1. DOMAIN d.engines = 1 .. Len(d.engines) /\ Len(d.engines) \in Nat
    BY <1>3, Lengths
  <2> QED
    BY <1>1, <1>3, <2>1
<1>5. AcksOK(d, emitted) /\ StillKnows(c0, d)
  BY <1>1, <1>2, <1>3, AcksSame
<1>6. LogsOK(d)
  <2>1. \A e \in DOMAIN engines : UpLog(d, engines[e].log)
    BY <1>1, <1>2, <1>5, UpLogKept DEF LogsOK
  <2> QED
    BY <1>3, <2>1 DEF LogsOK
<1>7. DownsOK(d, dn)
  <2>1. ASSUME NEW e \in DOMAIN engines
        PROVE  DownList(d, d.engines[e].down, dn)
    <3>1. DownList(c0, d.engines[e].down, dn) /\ dn <= dn
      BY <1>3
    <3> QED
      BY <1>5, <3>1, DownListKept
  <2> QED
    BY <1>3, <2>1 DEF DownsOK
<1>8. EndsOK(d)
  BY <1>1, <1>2, <1>3 DEF EndsOK
<1>9. HeardOK(d, dn)
  BY <1>1, <1>2, <1>3, HeardKept
<1>10. Waits(d)
  BY <1>1, <1>2, <1>3, <1>5, WaitsKept
<1> DEFINE s == engines[Current].down
           t == d.engines[Current].down
<1>11. /\ Newest(c0).down = s /\ Newest(d).down = t /\ LineOK(s, t, downs, dn)
       /\ Newest(d).state = Newest(c0).state /\ Newest(d).hears = Newest(c0).hears
  BY <1>1, <1>3, <1>4 DEF Newest
<1> HIDE DEF s, t
<1>12. (Hearing(d) <=> Hearing(c0)) /\ HalfRead(d) = HalfRead(c0)
  BY <1>1, <1>3, <1>11 DEF Hearing, HalfRead
<1>13. ASSUME Hearing(d)
       PROVE  Follows(d, dn)
  <2>1. Follows(c0, downs)
    BY <1>2, <1>12, <1>13 DEF PhaseOK
  <2>2. CASE io.reconstructor = <<>> /\ (s # <<>> => ~s[1].binary)
    <3>1. t # <<>> => ~t[1].binary
      BY <1>11, <2>2 DEF LineOK
    <3> QED
      BY <1>3, <1>11, <2>2, <3>1 DEF Follows
  <2>3. CASE \E n \in WithBuffer : /\ n \in 1 .. downs /\ io.reconstructor = <<Half(n)>>
                                   /\ s # <<>> /\ s[1] = BufferFrame(n)
    <3>1. PICK n \in WithBuffer : /\ n \in 1 .. downs /\ io.reconstructor = <<Half(n)>>
                                  /\ s # <<>> /\ s[1] = BufferFrame(n)
      BY <2>3
    <3>2. n \in 1 .. dn /\ t # <<>> /\ t[1] = BufferFrame(n)
      BY <1>2, <1>11, <3>1 DEF LineOK
    <3> HIDE DEF Half
    <3> QED
      BY <1>3, <1>11, <3>1, <3>2 DEF Follows
  <2> HIDE DEF Half
  <2> QED
    BY <1>1, <1>11, <2>1, <2>2, <2>3 DEF Follows
<1>14. Quiet(c0, d)
  BY <1>1, <1>3 DEF Quiet
<1>15. (Running(d) <=> Running(c0)) /\ Bounds(d)
  <2>1. d.io.connected \in BOOLEAN
    BY <1>1, <1>2, <1>3 DEF Bounds
  <2> QED
    BY <1>1, <1>2, <1>14, <2>1, QuietPhase
<1>16. PhaseOK(d, dn)
  BY <1>1, <1>2, <1>3, <1>13, <1>15 DEF PhaseOK
<1>17. ASSUME ~io.aborted
       PROVE  OrderOK(d)
  <2> DEFINE came == NumbersOf(io.heard)
             waits == NumbersOf(io.receiveBuffer)
             half == HalfRead(c0)
             old == Coming(s)
             new == Coming(t)
  <2>1. /\ Rises(io.heard) /\ Rises(io.receiveBuffer) /\ NewsRises(s)
        /\ Before(came, waits) /\ Before(came, half) /\ Before(came, old)
        /\ Before(waits, half) /\ Before(waits, old) /\ Before(half, old)
    BY <1>1, <1>2, <1>11, <1>17 DEF OrderOK
  <2>2. came \subseteq 1 .. downs /\ waits \subseteq 1 .. downs /\ half \subseteq 1 .. downs
    BY <1>2, NumbersBounded
  <2>3. new \subseteq old \cup (downs + 1 .. dn) /\ NewsRises(t)
    BY <1>11, <2>1 DEF LineOK
  <2> HIDE DEF came, waits, half, old, new
  <2>4. \A A : A \subseteq 1 .. downs /\ Before(A, old) => Before(A, new)
    BY <1>2, <2>3 DEF Before
  <2>5. Before(came, new) /\ Before(waits, new) /\ Before(half, new)
    BY <2>1, <2>2, <2>4
  <2>6. /\ NumbersOf(d.io.heard) = came /\ NumbersOf(d.io.receiveBuffer) = waits
        /\ HalfRead(d) = half /\ Coming(Newest(d).down) = new
        /\ Rises(d.io.heard) /\ Rises(d.io.receiveBuffer) /\ NewsRises(Newest(d).down)
    BY <1>3, <1>11, <1>12, <2>1, <2>3 DEF came, waits, half, new
  <2> QED
    BY <2>1, <2>5, <2>6 DEF OrderOK
<1>18. ASSUME ~io.aborted
       PROVE  GivenOK(d, emitted)
  <2>1. GivenOK(c0, emitted)
    BY <1>2, <1>18
  <2>2. \A e \in 1 .. Len(c0.engines) : Carried(d.engines[e].log) = Carried(c0.engines[e].log)
    BY <1>1, <1>3
  <2> QED
    BY <1>1, <1>3, <1>4, <2>1, <2>2, GivenKept
<1>19. Data(d, emitted, dn)
  BY <1>2, <1>3, <1>5, <1>6, <1>7, <1>8, <1>9, <1>10, <1>16, <1>17, <1>18 DEF Data
<1> QED
  BY <1>15, <1>19 DEF Known

(* The server has read from one connection, or written to it.              *)
OneWritten(e, at, srv, t) == [engines EXCEPT ![e].at = at, ![e].srv = srv, ![e].down = t]

(* It did on one.                                                          *)
LEMMA OneServed ==
  ASSUME Good(c0), Known(c0, emitted, downs), NEW e \in 1 .. Current,
         engines[e].state \notin {"opening", "closed"},
         NEW at \in 0 .. Len(engines[e].log), NEW srv, NEW t, DownList(c0, t, downs),
         LineOK(engines[e].down, t, downs, downs),
         NEW d, Shape(d), d.io = io,
         d.engines = OneWritten(e, at, srv, t)
  PROVE  Known(d, emitted, downs)
<1>1. /\ c0.engines = engines /\ DOMAIN engines = 1 .. Current
      /\ \A k \in 1 .. Current : DOMAIN engines[k] = EngineFields
  BY GoodHere
<1>2. /\ downs \in Nat /\ downs <= downs
      /\ \A k \in DOMAIN engines :
            /\ DownList(c0, engines[k].down, downs)
            /\ engines[k].at \in 0 .. Len(engines[k].log)
            /\ engines[k].state \in {"opening", "closed"} =>
                  engines[k].down = <<>> /\ engines[k].srv = "none"
  BY <1>1 DEF Known, Data, DownsOK, LogsOK, EndsOK
<1>3. /\ DOMAIN d.engines = DOMAIN engines
      /\ \A k \in DOMAIN engines : k # e => d.engines[k] = engines[k]
      /\ d.engines[e].log = engines[e].log /\ d.engines[e].state = engines[e].state
      /\ d.engines[e].hears = engines[e].hears /\ d.engines[e].at = at
      /\ d.engines[e].srv = srv /\ d.engines[e].down = t
  BY <1>1 DEF EngineFields, OneWritten
<1>4. \A k \in DOMAIN engines :
         /\ d.engines[k].log = engines[k].log /\ d.engines[k].state = engines[k].state
         /\ d.engines[k].hears = engines[k].hears
         /\ d.engines[k].at \in 0 .. Len(engines[k].log)
         /\ engines[k].state \in {"opening", "closed"} =>
               d.engines[k].down = <<>> /\ d.engines[k].srv = "none"
         /\ DownList(c0, d.engines[k].down, downs)
         /\ LineOK(engines[k].down, d.engines[k].down, downs, downs)
  <2>1. ASSUME NEW k \in DOMAIN engines, k # e
        PROVE  LineOK(engines[k].down, d.engines[k].down, downs, downs)
    BY <1>3, <2>1, LineSame
  <2> QED
    BY <1>1, <1>2, <1>3, <2>1
<1>5. Served(d, downs)
  BY <1>3, <1>4 DEF Served
<1> QED
  BY <1>2, <1>5, ServedData

(* The packet that ends with a frame of the page.                          *)
LEMMA PacketRead ==
  ASSUME NEW c, NEW s, UpLog(c, s), NEW at \in 1 .. Len(s), NEW k \in 1 .. at, EndsAt(s, k, at),
         PacketAt(s, k).type # "connect"
  PROVE  \E n, i \in Nat : /\ Knows(c, n, i) /\ PacketAt(s, k).id[1] = i
                           /\ Number(PacketAt(s, k).data) = n
<1> DEFINE p == PacketAt(s, k)
<1>1. UpFrame(c, s, k) /\ k \in Nat
  <2>1. Len(s) \in Nat
    BY DEF UpLog, IsSequence
  <2> QED
    BY <2>1 DEF UpLog
<1>2. \A i : <<i>>[1] = i
  OBVIOUS
<1>3. \A n : Number(EventData(n)) = n
  BY EventValues
<1> HIDE DEF p
<1>4. s[k] # ConnectFrame
  BY <1>1, PacketsFound
<1>5. \A n : s[k] # BufferFrame(n)
  BY FramesEnd
<1>6. ASSUME NEW n \in Nat, NEW i \in Nat, Knows(c, n, i), s[k] = EventFrame(n, i)
      PROVE  p.id[1] = i /\ Number(p.data) = n
  <2>1. p.id = <<i>> /\ p.data = EventData(n)
    BY <1>1, <1>6, PacketsFound DEF p
  <2> QED
    BY <1>2, <1>3, <2>1
<1>7. ASSUME NEW n \in WithBuffer, NEW i \in Nat, Knows(c, n, i), s[k] = HeadFrame(n, i),
             s[k + 1] = BufferFrame(n)
      PROVE  p.id[1] = i /\ Number(p.data) = n
  <2>1. p.id = <<i>> /\ p.data = EventData(n)
    BY <1>1, <1>7, PacketsFound DEF p
  <2> QED
    BY <1>2, <1>3, <2>1
<1>8. WithBuffer \subseteq Nat
  BY SocketIOAssumption
<1>9. CASE \E n, i \in Nat : Knows(c, n, i) /\ s[k] = EventFrame(n, i)
  BY <1>6, <1>9 DEF p
<1>10. CASE \E n \in WithBuffer, i \in Nat :
              /\ Knows(c, n, i) /\ s[k] = HeadFrame(n, i)
              /\ k < Len(s) /\ s[k + 1] = BufferFrame(n)
  BY <1>7, <1>8, <1>10 DEF p
<1> QED
  BY <1>1, <1>4, <1>5, <1>9, <1>10 DEF UpFrame

(* The server reads a frame.                                               *)
LEMMA ServerReadsData ==
  ASSUME Good(c0), Known(c0, emitted, downs), ServerReads
  PROVE  Known([io |-> io', engines |-> engines'], emitted', downs')
<1> DEFINE d == [io |-> io', engines |-> engines']
<1>1. PICK e \in 1 .. Current :
       LET at == engines[e].at + 1
           start == {k \in 1 .. at : EndsAt(engines[e].log, k, at)}
       IN
       /\ Alive(e) /\ at <= Len(engines[e].log)
       /\ \/ engines' = [engines EXCEPT ![e].at = at]
          \/ \E packet \in {PacketAt(engines[e].log, k) : k \in start} :
                engines' = IF packet.type = "connect"
                           THEN [engines EXCEPT ![e].at = at, ![e].srv = "joined"]
                           ELSE [engines EXCEPT ![e].at = at,
                                   ![e].down = @ \o Encode(Ack(Number(packet.data), packet.id[1]))]
  BY DEF ServerReads
<1>2. io' = io /\ emitted' = emitted /\ downs' = downs
  BY DEF ServerReads
<1>3. Shape(d) /\ d.io = io /\ d.engines = engines'
  BY <1>2, ServerReadsKeeps DEF Keeps, Good
<1> HIDE DEF d
<1> DEFINE s == engines[e].log
           down == engines[e].down
           srv == engines[e].srv
           now == engines[e].at
           at == now + 1
<1>4. /\ DOMAIN engines = 1 .. Current /\ DOMAIN engines[e] = EngineFields
      /\ c0.engines = engines
  BY GoodHere
<1>5. /\ UpLog(c0, s) /\ now \in 0 .. Len(s) /\ DownList(c0, down, downs)
      /\ downs \in Nat /\ (engines[e].state = "opening" => s = <<>>)
  BY <1>4 DEF Known, Data, LogsOK, DownsOK, EndsOK
<1>6. Len(s) \in Nat
  BY <1>5 DEF UpLog, IsSequence
<1>7. Alive(e) /\ at <= Len(s)
  BY <1>1
<1> HIDE DEF s, down, srv, now
<1>9. at \in 1 .. Len(s) /\ at \in 0 .. Len(s)
  BY <1>5, <1>6, <1>7
<1>10. engines[e].state \notin {"opening", "closed"}
  <2>1. s # <<>>
    <3>1. Len(s) # 0
      BY <1>6, <1>9
    <3> QED
      BY <3>1
  <2> QED
    BY <1>5, <1>7, <2>1 DEF Alive
<1> HIDE DEF at
<1>11. ASSUME NEW j, NEW t, DownList(c0, t, downs), LineOK(down, t, downs, downs),
              engines' = [engines EXCEPT ![e].at = at, ![e].srv = j, ![e].down = t]
       PROVE  Known(d, emitted, downs)
  <2>1. at \in 0 .. Len(engines[e].log) /\ LineOK(engines[e].down, t, downs, downs)
    BY <1>9, <1>11 DEF s, down
  <2>2. d.engines = OneWritten(e, at, j, t)
    BY <1>3, <1>11 DEF OneWritten
  <2>3. Shape(d) /\ d.io = io /\ engines[e].state \notin {"opening", "closed"}
    BY <1>3, <1>10
  <2> HIDE DEF s, down
  <2> QED
    BY <1>11, <2>1, <2>2, <2>3, OneServed
<1>12. CASE engines' = [engines EXCEPT ![e].at = at]
  <2>1. engines' = [engines EXCEPT ![e].at = at, ![e].srv = srv, ![e].down = down]
    BY <1>4, <1>12 DEF srv, down, EngineFields
  <2> QED
    BY <1>2, <1>5, <1>11, <2>1, LineSame DEF d
<1>13. CASE engines' = [engines EXCEPT ![e].at = at, ![e].srv = "joined"]
  <2>1. engines' = [engines EXCEPT ![e].at = at, ![e].srv = "joined", ![e].down = down]
    BY <1>4, <1>13 DEF down, EngineFields
  <2> QED
    BY <1>2, <1>5, <1>11, <2>1, LineSame DEF d
<1>14. ASSUME NEW k \in 1 .. at, EndsAt(s, k, at), PacketAt(s, k).type # "connect",
              engines' = [engines EXCEPT ![e].at = at,
                            ![e].down = @ \o Encode(Ack(Number(PacketAt(s, k).data),
                                                        PacketAt(s, k).id[1]))]
       PROVE  Known(d, emitted, downs)
  <2>1. PICK n \in Nat, i \in Nat : /\ Knows(c0, n, i) /\ PacketAt(s, k).id[1] = i
                                    /\ Number(PacketAt(s, k).data) = n
    BY <1>5, <1>9, <1>14, PacketRead
  <2> DEFINE u == Encode(Ack(n, i))
             t == down \o u
  <2>2. DownList(c0, t, downs)
    BY <1>5, <2>1, DownListMore
  <2>3. /\ IsSequence(u) /\ u # <<>> /\ ~u[1].binary /\ NewsRises(u)
        /\ Coming(u) \subseteq downs + 1 .. downs
    BY ComingOf, FirstFrames
  <2> HIDE DEF u
  <2>4. LineOK(down, t, downs, downs)
    BY <1>5, <2>3, LineMore
  <2>5. engines' = [engines EXCEPT ![e].at = at, ![e].down = down \o u]
    BY <1>14, <2>1 DEF u, down
  <2> HIDE DEF t
  <2>6. engines' = [engines EXCEPT ![e].at = at, ![e].srv = srv, ![e].down = t]
    BY <1>4, <2>5 DEF srv, EngineFields, t
  <2> QED
    BY <1>11, <2>2, <2>4, <2>6
<1>15. Known(d, emitted, downs)
  <2>1. CASE \E packet \in {PacketAt(s, k) : k \in {j \in 1 .. at : EndsAt(s, j, at)}} :
                engines' = IF packet.type = "connect"
                           THEN [engines EXCEPT ![e].at = at, ![e].srv = "joined"]
                           ELSE [engines EXCEPT ![e].at = at,
                                   ![e].down = @ \o Encode(Ack(Number(packet.data), packet.id[1]))]
    <3>1. PICK k \in 1 .. at :
             /\ EndsAt(s, k, at)
             /\ engines' = IF PacketAt(s, k).type = "connect"
                           THEN [engines EXCEPT ![e].at = at, ![e].srv = "joined"]
                           ELSE [engines EXCEPT ![e].at = at,
                                   ![e].down = @ \o Encode(Ack(Number(PacketAt(s, k).data),
                                                               PacketAt(s, k).id[1]))]
      BY <2>1
    <3>2. CASE PacketAt(s, k).type = "connect"
      <4>1. engines' = [engines EXCEPT ![e].at = at, ![e].srv = "joined"]
        BY <3>1, <3>2
      <4> QED
        BY <1>2, <1>13, <4>1 DEF d
    <3>3. CASE PacketAt(s, k).type # "connect"
      <4>1. engines' = [engines EXCEPT ![e].at = at,
                                   ![e].down = @ \o Encode(Ack(Number(PacketAt(s, k).data),
                                                               PacketAt(s, k).id[1]))]
        BY <3>1, <3>3
      <4> QED
        BY <1>14, <3>1, <3>3, <4>1
    <3> QED
      BY <3>2, <3>3
  <2>2. CASE engines' = [engines EXCEPT ![e].at = at]
    BY <1>2, <1>12, <2>2, SMTT(30) DEF d
  <2>3. \/ engines' = [engines EXCEPT ![e].at = at]
        \/ \E packet \in {PacketAt(s, k) : k \in {j \in 1 .. at : EndsAt(s, j, at)}} :
                engines' = IF packet.type = "connect"
                           THEN [engines EXCEPT ![e].at = at, ![e].srv = "joined"]
                           ELSE [engines EXCEPT ![e].at = at,
                                   ![e].down = @ \o Encode(Ack(Number(packet.data), packet.id[1]))]
    BY <1>1 DEF s, at, now
  <2> QED
    BY <2>1, <2>2, <2>3
<1> QED
  BY <1>2, <1>15, SMTT(30) DEF d

(* What the server writes of its own behind what is on its way.            *)
LEMMA SessionWritten ==
  ASSUME NEW c, NEW n \in Nat, NEW s, DownList(c, s, n)
  PROVE  /\ LineOK(s, s \o Encode(Connected), n, n)
         /\ LineOK(s, s \o Encode(Disconnect), n, n)
<1> DEFINE u == Encode(Connected)
           v == Encode(Disconnect)
<1>1. /\ IsSequence(u) /\ u # <<>> /\ ~u[1].binary /\ NewsRises(u)
      /\ Coming(u) \subseteq n + 1 .. n
      /\ IsSequence(v) /\ v # <<>> /\ ~v[1].binary /\ NewsRises(v)
      /\ Coming(v) \subseteq n + 1 .. n
  BY ComingOf, FirstFrames
<1> HIDE DEF u, v
<1>2. LineOK(s, s \o u, n, n) /\ LineOK(s, s \o v, n, n)
  BY <1>1, LineMore
<1> QED
  BY <1>2 DEF u, v

(* The server connects or disconnects the Socket.                          *)
LEMMA ServerConnectsData ==
  ASSUME Good(c0), Known(c0, emitted, downs), ServerConnects \/ ServerDisconnects
  PROVE  Known([io |-> io', engines |-> engines'], emitted', downs')
<1> DEFINE d == [io |-> io', engines |-> engines']
<1>1. PICK e \in 1 .. Current :
        /\ Alive(e) /\ engines[e].srv \in {"joined", "connected"}
        /\ \/ engines' = [engines EXCEPT ![e].srv = "connected",
                                         ![e].down = @ \o Encode(Connected)]
           \/ engines' = [engines EXCEPT ![e].srv = "none", ![e].down = @ \o Encode(Disconnect)]
  BY DEF ServerConnects, ServerDisconnects
<1>2. io' = io /\ emitted' = emitted /\ downs' = downs
  BY DEF ServerConnects, ServerDisconnects
<1>3. Shape(d) /\ d.io = io /\ d.engines = engines'
  BY <1>2, ServerConnectsKeeps DEF Keeps, Good
<1> HIDE DEF d
<1> DEFINE down == engines[e].down
           at == engines[e].at
<1>4. /\ DOMAIN engines = 1 .. Current /\ DOMAIN engines[e] = EngineFields
      /\ c0.engines = engines
  BY GoodHere
<1>5. /\ at \in 0 .. Len(engines[e].log) /\ DownList(c0, down, downs)
      /\ downs \in Nat /\ engines[e].state \notin {"opening", "closed"}
  BY <1>1, <1>4 DEF Known, Data, LogsOK, DownsOK, EndsOK
<1>6. /\ DownList(c0, down \o Encode(Connected), downs)
      /\ DownList(c0, down \o Encode(Disconnect), downs)
      /\ LineOK(down, down \o Encode(Connected), downs, downs)
      /\ LineOK(down, down \o Encode(Disconnect), downs, downs)
  BY <1>5, DownListMore, SessionWritten
<1>7. ASSUME NEW j, NEW t, DownList(c0, t, downs), LineOK(down, t, downs, downs),
             engines' = [engines EXCEPT ![e].srv = j, ![e].down = t]
      PROVE  Known(d, emitted, downs)
  <2>1. d.engines = OneWritten(e, at, j, t)
    BY <1>3, <1>4, <1>7, ZenonT(60) DEF OneWritten, EngineFields
  <2> HIDE DEF at
  <2>2. LineOK(engines[e].down, t, downs, downs)
    BY <1>7
  <2>3. at \in 0 .. Len(engines[e].log)
    BY <1>5
  <2> QED
    BY <1>3, <1>5, <1>7, <2>1, <2>2, <2>3, OneServed
<1> HIDE DEF at
<1>8. CASE engines' = [engines EXCEPT ![e].srv = "connected", ![e].down = @ \o Encode(Connected)]
  <2> DEFINE t == down \o Encode(Connected)
  <2>1. engines' = [engines EXCEPT ![e].srv = "connected", ![e].down = t]
    BY <1>8
  <2>2. DownList(c0, t, downs) /\ LineOK(down, t, downs, downs)
    BY <1>6
  <2> HIDE DEF t, down
  <2>3. Known(d, emitted, downs)
    BY <1>7, <2>1, <2>2
  <2> QED
    BY <1>2, <2>3 DEF d
<1>9. CASE engines' = [engines EXCEPT ![e].srv = "none", ![e].down = @ \o Encode(Disconnect)]
  <2> DEFINE t == down \o Encode(Disconnect)
  <2>1. engines' = [engines EXCEPT ![e].srv = "none", ![e].down = t]
    BY <1>9
  <2>2. DownList(c0, t, downs) /\ LineOK(down, t, downs, downs)
    BY <1>6
  <2> HIDE DEF t, down
  <2>3. Known(d, emitted, downs)
    BY <1>7, <2>1, <2>2
  <2> QED
    BY <1>2, <2>3 DEF d
<1> QED
  BY <1>1, <1>8, <1>9

(* The server emits to all.                                                *)
LEMMA ServerBroadcastsData ==
  ASSUME Good(c0), Known(c0, emitted, downs), ServerBroadcasts
  PROVE  Known([io |-> io', engines |-> engines'], emitted', downs')
<1> DEFINE d == [io |-> io', engines |-> engines']
           n == downs + 1
           u == Encode(Broadcast(n))
<1>1. /\ io' = io /\ emitted' = emitted /\ downs' = n
      /\ engines' = [e \in DOMAIN engines |->
                       IF engines[e].srv = "none" THEN engines[e]
                       ELSE [engines[e] EXCEPT !.down = @ \o u]]
  BY DEF ServerBroadcasts
<1>2. Shape(d) /\ d.io = io /\ d.engines = engines'
  BY <1>1, ServerBroadcastsKeeps DEF Keeps, Good
<1>3. /\ DOMAIN engines = 1 .. Current /\ c0.engines = engines
      /\ \A e \in DOMAIN engines : DOMAIN engines[e] = EngineFields
  BY GoodHere
<1>4. /\ downs \in Nat /\ n \in Nat /\ downs <= n /\ n \in 1 .. n
      /\ \A e \in DOMAIN engines :
            /\ DownList(c0, engines[e].down, downs)
            /\ engines[e].at \in 0 .. Len(engines[e].log)
            /\ engines[e].state \in {"opening", "closed"} =>
                  engines[e].down = <<>> /\ engines[e].srv = "none"
  BY <1>3 DEF Known, Data, DownsOK, LogsOK, EndsOK
<1>5. IsSequence(u) /\ u # <<>> /\ ~u[1].binary /\ Coming(u) = {n} /\ NewsRises(u)
  BY ComingOf, FirstFrames
<1>6. Coming(u) \subseteq downs + 1 .. n
  BY <1>4, <1>5
<1>7. \A e \in DOMAIN engines : DownList(c0, engines[e].down, n)
  <2>1. StillKnows(c0, c0)
    BY DEF StillKnows
  <2> HIDE DEF n
  <2> QED
    BY <1>4, <2>1, DownListKept
<1>8. \A e \in DOMAIN engines : DownList(c0, engines[e].down \o u, n)
  BY <1>4, <1>7, DownListMore
<1> HIDE DEF d, n, u
<1>9. \A e \in DOMAIN engines : /\ LineOK(engines[e].down, engines[e].down, downs, n)
                                /\ LineOK(engines[e].down, engines[e].down \o u, downs, n)
  BY <1>4, <1>5, <1>6, LineSame, LineMore
<1>10. ASSUME NEW e \in DOMAIN engines
       PROVE  /\ d.engines[e].log = engines[e].log /\ d.engines[e].state = engines[e].state
              /\ d.engines[e].hears = engines[e].hears /\ d.engines[e].at = engines[e].at
              /\ \/ d.engines[e].down = engines[e].down /\ d.engines[e].srv = engines[e].srv
                 \/ d.engines[e].down = engines[e].down \o u /\ engines[e].srv # "none"
  BY <1>1, <1>2, <1>3 DEF EngineFields
<1>11. Served(d, n)
  <2>1. DOMAIN d.engines = DOMAIN engines
    BY <1>1, <1>2
  <2>2. ASSUME NEW e \in DOMAIN engines
        PROVE  /\ d.engines[e].at \in 0 .. Len(engines[e].log)
               /\ engines[e].state \in {"opening", "closed"} =>
                     d.engines[e].down = <<>> /\ d.engines[e].srv = "none"
               /\ DownList(c0, d.engines[e].down, n)
               /\ LineOK(engines[e].down, d.engines[e].down, downs, n)
    BY <1>4, <1>7, <1>8, <1>9, <1>10
  <2> QED
    BY <1>2, <1>10, <2>1, <2>2 DEF Served
<1>12. Known(d, emitted, n)
  BY <1>4, <1>11, ServedData
<1> QED
  BY <1>1, <1>12 DEF d

(* Nothing was emitted, nothing carried, nothing heard at first.           *)
LEMMA InitData ==
  ASSUME Init
  PROVE  Known(c0, emitted, downs)
<1>1. /\ NewEngine.state = "opening" /\ NewEngine.hears = "open" /\ NewEngine.log = <<>>
      /\ NewEngine.at = 0 /\ NewEngine.down = <<>> /\ NewEngine.srv = "none"
  BY DEF NewEngine
<1>2. \A e \in DOMAIN c0.engines : c0.engines[e] = NewEngine
  BY InitFacts
<1>3. emitted \in Nat /\ downs \in Nat
  BY InitFacts
<1>4. DOMAIN <<>> = {} /\ Len(<<>>) = 0 /\ IsSequence(<<>>)
  BY NothingComes
<1>5. AcksOK(c0, emitted)
  BY <1>4, InitFacts DEF AcksOK
<1>6. LogsOK(c0)
  <2>1. UpLog(c0, <<>>)
    BY <1>4 DEF UpLog
  <2> QED
    BY <1>1, <1>2, <1>4, <2>1 DEF LogsOK
<1>7. DownsOK(c0, downs)
  <2>1. DownList(c0, <<>>, downs)
    BY <1>4 DEF DownList
  <2> QED
    BY <1>1, <1>2, <2>1 DEF DownsOK
<1>8. EndsOK(c0)
  BY <1>1, <1>2 DEF EndsOK
<1>9. ~Hearing(c0) /\ HalfRead(c0) = {}
  BY <1>1, InitFacts DEF Hearing, HalfRead
<1>10. PhaseOK(c0, downs)
  BY <1>9, InitFacts DEF PhaseOK
<1>11. HeardOK(c0, downs)
  BY <1>4, InitFacts DEF HeardOK
<1>12. Waits(c0)
  BY <1>4, InitFacts DEF Waits
<1>13. OrderOK(c0)
  <2>1. NumbersOf(<<>>) = {} /\ Rises(<<>>)
    BY <1>4 DEF NumbersOf, Rises
  <2> QED
    BY <1>1, <1>9, <2>1, InitFacts, NothingComes DEF OrderOK, Before
<1>14. GivenOK(c0, emitted)
  <2> DEFINE base == [k \in 1 .. 1 + 1 |-> 0]
  <2>1. base \in [1 .. 1 + 1 -> Nat] /\ base[1] = 0 /\ base[1 + 1] = 0
    OBVIOUS
  <2> HIDE DEF base
  <2>2. IsSequence(Carried(<<>>)) /\ Len(Carried(<<>>)) = 0
    BY <1>4, CarriedNothing
  <2> DEFINE s == Carried(<<>>)
  <2>3. IsSequence(s) /\ base[1 + 1] = base[1] + Len(s) /\ \A i \in 1 .. Len(s) : FALSE
    BY <2>1, <2>2
  <2> HIDE DEF s
  <2>4. \A e \in 1 .. 1 : e = 1
    OBVIOUS
  <2>5. c0.engines[1].log = <<>> /\ Carried(c0.engines[1].log) = s
    BY <1>1, InitFacts DEF s
  <2>6. Tally(c0, base)
    BY <2>1, <2>3, <2>4, <2>5, InitFacts DEF Tally
  <2>7. Len(c0.io.sendBuffer) = 0 /\ DOMAIN c0.io.sendBuffer = {}
    BY <1>4, InitFacts
  <2>8. base[Len(c0.engines) + 1] + Len(c0.io.sendBuffer) = emitted
    <3>1. base[1 + 1] + 0 = 0
      BY <2>1
    <3> QED
      BY <2>7, <3>1, InitFacts
  <2>9. base \in [1 .. Len(c0.engines) + 1 -> Nat]
    BY <2>1, InitFacts
  <2> QED
    BY <2>6, <2>7, <2>8, <2>9 DEF GivenOK
<1>15. Data(c0, emitted, downs)
  BY <1>3, <1>5, <1>6, <1>7, <1>8, <1>10, <1>11, <1>12, <1>13, <1>14 DEF Data
<1>16. Bounds(c0)
  <2>1. 0 < 1 /\ 0 <= 1 /\ 0 \in Nat
    OBVIOUS
  <2> QED
    BY <2>1, InitFacts DEF Bounds
<1> QED
  BY <1>15, <1>16 DEF Known

-----------------------------------------------------------------------------
(* A step to d.                                                            *)
LEMMA StepKnown ==
  ASSUME NEW d, Step(d), NEW em, NEW dn, Known(d, em, dn)
  PROVE  Known([io |-> io', engines |-> engines'], em, dn)
<1>1. io' = d.io /\ engines' = d.engines
  BY DEF Step
<1> DEFINE f == [io |-> io', engines |-> engines']
<1>2. f.io = d.io /\ f.engines = d.engines
  BY <1>1
<1> HIDE DEF f
<1>3. \A n, i : Knows(f, n, i) <=> Knows(d, n, i)
  BY <1>2 DEF Knows
<1>4. AcksOK(f, em)
  BY <1>2 DEF Known, Data, AcksOK
<1>5. LogsOK(f)
  BY <1>2, <1>3 DEF Known, Data, LogsOK, UpLog, UpFrame
<1>6. DownsOK(f, dn)
  BY <1>2, <1>3 DEF Known, Data, DownsOK, DownList, DownFrame
<1>7. EndsOK(f)
  BY <1>2 DEF Known, Data, EndsOK
<1>8. PhaseOK(f, dn)
  BY <1>2 DEF Known, Data, PhaseOK, Follows, Hearing, Newest, Running
<1>9. HeardOK(f, dn)
  BY <1>2 DEF Known, Data, HeardOK
<1>10. Waits(f)
  BY <1>2, <1>3, SMTT(30) DEF Known, Data, Waits
<1>11. OrderOK(d) => OrderOK(f)
  BY <1>2 DEF OrderOK, HalfRead, Hearing, Newest
<1>12. GivenOK(d, em) => GivenOK(f, em)
  <2>1. \A base : Tally(d, base) <=> Tally(f, base)
    BY <1>2 DEF Tally
  <2> QED
    BY <1>2, <2>1, ZenonT(60) DEF GivenOK
<1>13. Data(f, em, dn)
  BY <1>2, <1>4, <1>5, <1>6, <1>7, <1>8, <1>9, <1>10, <1>11, <1>12 DEF Known, Data
<1>14. Bounds(f)
  BY <1>2 DEF Known, Bounds, Running, Finished, Opening, Waiting, Newest
<1> QED
  BY <1>13, <1>14 DEF Known, f

(* Every step keeps what is known.                                         *)
LEMMA NextKnown ==
  ASSUME Good(c0), Known(c0, emitted, downs), [Next]_vars
  PROVE  Known([io |-> io', engines |-> engines'], emitted', downs')
<1>1. CASE \E d : Step(d) /\ Known(d, emitted', downs')
  BY <1>1, StepKnown
<1>2. CASE UNCHANGED vars
  BY <1>2 DEF vars, c0
<1>3. CASE PageEmits
  BY <1>1, <1>3, PageEmitsData
<1>4. CASE EngineOpens
  BY <1>1, <1>4, EngineOpensData
<1>5. CASE EngineFails
  BY <1>1, <1>5, EngineFailsData
<1>6. CASE EngineCloses
  BY <1>1, <1>6, EngineClosesData
<1>7. CASE EngineData
  BY <1>1, <1>7, EngineDataData
<1>8. CASE ConnectTimeout
  BY <1>1, <1>8, ConnectTimeoutData
<1>9. CASE ReconnectTimer
  BY <1>1, <1>9, ReconnectTimerData
<1>10. CASE ServerReads
  BY <1>10, ServerReadsData
<1>11. CASE ServerConnects \/ ServerDisconnects
  BY <1>11, ServerConnectsData, Zenon
<1>12. CASE ServerBroadcasts
  BY <1>12, ServerBroadcastsData
<1> QED
  BY <1>2, <1>3, <1>4, <1>5, <1>6, <1>7, <1>8, <1>9, <1>10, <1>11, <1>12 DEF Next

(* The numbers stay within their bounds.                                   *)
LEMMA NextBounded ==
  ASSUME emitted \in 0 .. MaxEmits, downs \in 0 .. MaxDown, [Next]_vars
  PROVE  emitted' \in 0 .. MaxEmits /\ downs' \in 0 .. MaxDown
<1>1. MaxEmits \in Nat /\ MaxDown \in Nat
  BY SocketIOAssumption
<1>2. CASE emitted' = emitted /\ downs' = downs
  BY <1>2
<1>3. CASE PageEmits
  BY <1>1, <1>3 DEF PageEmits
<1>4. CASE ServerBroadcasts
  BY <1>1, <1>4 DEF ServerBroadcasts
<1> QED
  BY <1>2, <1>3, <1>4, Zenon DEF Next, vars, EngineOpens, EngineFails, EngineCloses, EngineData,
     ConnectTimeout, ReconnectTimer, ServerReads, ServerConnects, ServerDisconnects

(* The inductive invariant: the phases of the client, what is known of     *)
(* every event and packet, and the bounds.                                 *)
DataInv ==
  /\ Good(c0) /\ Known(c0, emitted, downs)
  /\ emitted \in 0 .. MaxEmits /\ downs \in 0 .. MaxDown

(* The inductive invariant holds from the start, and every step keeps it.  *)
LEMMA AlwaysKnown == Spec => []DataInv
<1>1. Init => DataInv
  <2> SUFFICES ASSUME Init PROVE DataInv
    OBVIOUS
  <2>1. emitted \in 0 .. MaxEmits /\ downs \in 0 .. MaxDown
    BY InitFacts, SocketIOAssumption
  <2> QED
    BY <2>1, InitGood, InitData DEF DataInv
<1>2. DataInv /\ [Next]_vars => DataInv'
  <2> SUFFICES ASSUME DataInv, [Next]_vars PROVE DataInv'
    OBVIOUS
  <2> DEFINE After == [io |-> io', engines |-> engines']
  <2>1. Good(After) /\ Known(After, emitted', downs')
    BY NextKeeps, NextKnown DEF DataInv
  <2>2. Good(c0)' <=> Good(After)
    BY DEF c0, Good, Shape, IsSequence, Opening, Running, Waiting, Finished, Newest
  <2>3. Known(c0, emitted, downs)' <=> Known(After, emitted', downs')
    BY DEF c0, Known, Data, Bounds, AcksOK, LogsOK, UpLog, UpFrame, Knows, DownsOK, DownList,
       DownFrame, EndsOK, PhaseOK, Follows, Hearing, Newest, Running, Finished, Opening,
       Waiting, HeardOK, IsNewsData, Waits, OrderOK, Rises, NumbersOf, Coming, NewsRises,
       NewsNumber, IsNews, Before, HalfRead, GivenOK, Tally, Carried, IsSequence
  <2> QED
    BY <2>1, <2>2, <2>3, NextBounded DEF DataInv
<1> QED
  BY <1>1, <1>2, PTL DEF Spec

-----------------------------------------------------------------------------
(* The theorems about events.                                              *)

(* The acknowledgement of an event calls the callback of that event, and   *)
(* calls it once: ids are not used again, and a callback is forgotten when *)
(* it is called (Socket.emit, onack).                                      *)
THEOREM AcksAlwaysMatch == Spec => []AcksMatch
<1>1. DataInv => AcksMatch
  <2> SUFFICES ASSUME DataInv PROVE AcksMatch
    OBVIOUS
  <2>1. AcksOK(c0, emitted) /\ c0.io = io
    BY DEF DataInv, Known, Data, c0
  <2> QED
    BY <2>1 DEF AcksOK, AcksMatch
<1> QED
  BY <1>1, AlwaysKnown, PTL

(* The listeners hear what the server emits once, whole and in order, and  *)
(* the decoder is never given what it cannot place, over all connections   *)
(* (Manager.ondata, cleanup, Decoder.add, Socket.onevent, emitBuffered).   *)
THEOREM AlwaysHeardOnce == Spec => []HeardOnce
<1>1. DataInv => HeardOnce
  <2> SUFFICES ASSUME DataInv PROVE HeardOnce
    OBVIOUS
  <2>1. HeardOK(c0, downs) /\ (~io.aborted => OrderOK(c0)) /\ c0.io = io
    BY DEF DataInv, Known, Data, c0
  <2>2. ~io.misread
    BY <2>1 DEF HeardOK
  <2>3. ASSUME ~io.aborted, NEW i \in DOMAIN io.heard, NEW j \in DOMAIN io.heard, i < j
        PROVE  Number(io.heard[i]) < Number(io.heard[j])
    BY <2>1, <2>3 DEF OrderOK, Rises
  <2>4. ASSUME NEW i \in DOMAIN io.heard
        PROVE  io.heard[i] = EventData(Number(io.heard[i]))
    <3>1. PICK n \in 1 .. downs : io.heard[i] = EventData(n)
      BY <2>1 DEF HeardOK, IsNewsData
    <3>2. Number(EventData(n)) = n
      BY EventValues
    <3> QED
      BY <3>1, <3>2
  <2> QED
    BY <2>2, <2>3, <2>4 DEF HeardOnce
<1> QED
  BY <1>1, AlwaysKnown, PTL

(* The variables of the client keep their types: the attempts are counted  *)
(* from the last connection that opened (Backoff), and no connection has   *)
(* handed over more than it was given.                                     *)
THEOREM SocketIOTyped == Spec => []TypeOK
<1>1. DataInv => TypeOK
  <2> SUFFICES ASSUME DataInv PROVE TypeOK
    OBVIOUS
  <2>1. Good(c0) /\ Known(c0, emitted, downs) /\ emitted \in 0 .. MaxEmits /\ downs \in 0 .. MaxDown
    BY DEF DataInv
  <2>2. /\ c0.io = io /\ c0.engines = engines /\ DOMAIN engines = 1 .. Current
        /\ Current \in 1 .. MaxEngines /\ Current \in Nat /\ Len(c0.engines) = Current
    BY <2>1, GoodHere DEF Current
  <2>3. /\ io.readyState \in {"closed", "opening", "open"}
        /\ io.timers \subseteq {"timeout", "reconnect"}
    BY <2>1, <2>2 DEF Good, Opening, Running, Waiting, Finished
  <2>4. io.reconnecting \in BOOLEAN /\ io.connected \in BOOLEAN /\ io.attempts \in Nat
    BY <2>1, <2>2 DEF Known, Bounds
  <2>5. \A e \in 1 .. Current : engines[e].at \in 0 .. Len(engines[e].log)
    BY <2>1, <2>2 DEF Known, Data, LogsOK
  <2>6. io.attempts \in 0 .. (IF io.readyState = "open" THEN 0 ELSE MaxEngines)
    <3>1. MaxEngines \in Nat /\ Current <= MaxEngines
      BY <2>2, SocketIOAssumption
    <3>2. CASE Running(c0) \/ Finished(c0)
      <4>1. io.attempts = 0
        BY <2>1, <2>2, <3>2 DEF Known, Bounds
      <4> QED
        BY <3>1, <4>1
    <3>3. CASE Opening(c0) \/ Waiting(c0)
      <4>1. io.readyState # "open"
        BY <2>2, <3>3 DEF Opening, Waiting
      <4>2. CASE Opening(c0)
        <5>1. io.attempts < Current
          BY <2>1, <2>2, <4>2 DEF Known, Bounds
        <5> QED
          BY <2>2, <2>4, <3>1, <4>1, <5>1
      <4>3. CASE Waiting(c0)
        <5>1. io.attempts <= Current
          BY <2>1, <2>2, <4>3 DEF Known, Bounds
        <5> QED
          BY <2>2, <2>4, <3>1, <4>1, <5>1
      <4> QED
        BY <3>3, <4>2, <4>3
    <3> QED
      BY <2>1, <3>2, <3>3 DEF Good
  <2> QED
    BY <2>1, <2>2, <2>3, <2>4, <2>5, <2>6 DEF TypeOK
<1> QED
  BY <1>1, AlwaysKnown, PTL

-----------------------------------------------------------------------------
(* The first n events.                                                     *)
FirstEvents(n) == [i \in 1 .. n |-> EventData(i)]

AreEvents(m, s) ==
  /\ s \in Seq({EventData(n) : n \in Nat})
  /\ \A i \in 1 .. Len(s) : s[i] = EventData(m + i)

(* Lists that number on from each other, put together.                     *)
LEMMA EventsJoined ==
  ASSUME NEW m \in Nat, NEW s, AreEvents(m, s)
  PROVE  FirstEvents(m) \o s = FirstEvents(m + Len(s))
<1> DEFINE S == {EventData(n) : n \in Nat}
           a == FirstEvents(m)
           n == Len(s)
           f == FirstEvents(m + n)
           t == a \o s
<1>1. s \in Seq(S) /\ n \in Nat /\ \A i \in 1 .. n : s[i] = EventData(m + i)
  BY DEF AreEvents
<1>2. a \in Seq(S) /\ Len(a) = m /\ \A i \in 1 .. m : a[i] = EventData(i)
  <2>1. \A i \in 1 .. m : EventData(i) \in S
    OBVIOUS
  <2> HIDE DEF S
  <2> QED
    BY <2>1 DEF FirstEvents
<1>3. f \in Seq(S) /\ Len(f) = m + n /\ \A i \in 1 .. m + n : f[i] = EventData(i)
  <2>1. (\A i \in 1 .. m + n : EventData(i) \in S) /\ m + n \in Nat
    BY <1>1
  <2> HIDE DEF S, n
  <2> QED
    BY <2>1 DEF FirstEvents
<1>4. Len(s) = n
  OBVIOUS
<1> HIDE DEF S, a, n, f
<1>5. /\ t \in Seq(S) /\ Len(t) = m + n
      /\ \A i \in 1 .. m + n : t[i] = IF i <= m THEN a[i] ELSE s[i - m]
  BY <1>1, <1>2, <1>4, ConcatProperties, ZenonT(60)
<1> HIDE DEF t
<1>6. ASSUME NEW i \in 1 .. m + n
      PROVE  t[i] = f[i]
  <2>1. CASE i <= m
    BY <1>2, <1>3, <1>5, <2>1
  <2>2. CASE i > m
    <3>1. i - m \in 1 .. n /\ m + (i - m) = i /\ ~(i <= m)
      BY <1>1, <2>2
    <3> QED
      BY <1>1, <1>3, <1>5, <3>1
  <2> QED
    BY <1>1, <2>1, <2>2
<1>7. t = f
  BY <1>3, <1>5, <1>6, SeqEqual
<1> QED
  BY <1>7 DEF t, a, n, f

(* The lists of all connections put together, where each numbers on from   *)
(* the one before.                                                         *)
LEMMA EventsFlattened ==
  ASSUME NEW n \in Nat, n > 0, NEW seqs, DOMAIN seqs = 1 .. n, Len(seqs) = n,
         NEW base \in [1 .. n + 1 -> Nat], base[1] = 0,
         \A e \in 1 .. n :
            AreEvents(base[e], seqs[e]) /\ base[e + 1] = base[e] + Len(seqs[e])
  PROVE  FlattenSeq(seqs) = FirstEvents(base[n + 1])
<1> DEFINE IsFlat(f) == f = [i \in 1 .. n |-> IF i = 1 THEN seqs[i] ELSE f[i - 1] \o seqs[i]]
           g == [i \in 1 .. n |-> FirstEvents(base[i + 1])]
           flat == CHOOSE f : IsFlat(f)
<1>1. \A e \in 1 .. n : base[e] \in Nat /\ FirstEvents(base[e]) \o seqs[e] = FirstEvents(base[e + 1])
  <2> TAKE e \in 1 .. n
  <2>1. base[e] \in Nat /\ base[e + 1] = base[e] + Len(seqs[e]) /\ AreEvents(base[e], seqs[e])
    OBVIOUS
  <2>2. FirstEvents(base[e]) \o seqs[e] = FirstEvents(base[e] + Len(seqs[e]))
    BY <2>1, EventsJoined, Zenon
  <2> QED
    BY <2>1, <2>2, Zenon
<1>2. seqs[1] = FirstEvents(base[1 + 1])
  <2>1. /\ seqs[1] \in Seq({EventData(k) : k \in Nat})
        /\ FirstEvents(0) \o seqs[1] = FirstEvents(base[1 + 1])
    <3>1. 1 \in 1 .. n
      OBVIOUS
    <3> QED
      BY <1>1, <3>1 DEF AreEvents
  <2>2. FirstEvents(0) = <<>>
    BY DEF FirstEvents
  <2>3. <<>> \o seqs[1] = seqs[1]
    BY <2>1, ConcatEmptySeq
  <2> QED
    BY <2>1, <2>2, <2>3
<1>3. IsFlat(g)
  <2>1. ASSUME NEW i \in 1 .. n, i # 1
        PROVE  g[i - 1] \o seqs[i] = g[i]
    <3>1. i - 1 \in 1 .. n /\ (i - 1) + 1 = i
      BY <2>1
    <3> QED
      BY <1>1, <3>1
  <2>2. g[1] = seqs[1]
    BY <1>2
  <2>3. g = [i \in 1 .. n |-> g[i]]
    OBVIOUS
  <2> HIDE DEF g
  <2> QED
    BY <2>1, <2>2, <2>3
<1>4. IsFlat(flat)
  <2> HIDE DEF IsFlat, g
  <2> QED
    BY <1>3
<1>5. flat[n] = FirstEvents(base[n + 1])
  <2> DEFINE T == {k \in 0 .. n : k > 0 => flat[k] = FirstEvents(base[k + 1])}
  <2>1. 0 \in T
    OBVIOUS
  <2>2. ASSUME NEW k \in 0 .. n - 1, k \in T
        PROVE  k + 1 \in T
    <3>1. k + 1 \in 1 .. n /\ k + 1 > 0 /\ k + 1 \in 0 .. n
      OBVIOUS
    <3>2. flat[k + 1] = IF k + 1 = 1 THEN seqs[k + 1] ELSE flat[(k + 1) - 1] \o seqs[k + 1]
      <4> HIDE DEF flat
      <4> QED
        BY <1>4, <3>1
    <3> HIDE DEF flat
    <3>3. CASE k = 0
      BY <1>2, <3>1, <3>2, <3>3
    <3>4. CASE k > 0
      <4>1. flat[k] = FirstEvents(base[k + 1]) /\ k + 1 # 1 /\ (k + 1) - 1 = k
        BY <2>2, <3>4
      <4>2. flat[k + 1] = flat[k] \o seqs[k + 1]
        BY <3>2, <4>1
      <4> QED
        BY <1>1, <3>1, <4>1, <4>2
    <3> QED
      BY <3>3, <3>4
  <2> HIDE DEF T, flat
  <2>3. 0 .. n \subseteq T
    BY <2>1, <2>2, Induction
  <2>4. n \in T
    BY <2>3
  <2> QED
    BY <2>4 DEF T
<1>6. FlattenSeq(seqs) = flat[n]
  BY DEF FlattenSeq
<1> QED
  BY <1>5, <1>6

(* The packets of frames are a list.                                       *)
LEMMA PacketsAreList ==
  ASSUME NEW s, IsSequence(s)
  PROVE  IsSequence(PacketsOf(s))
<1> DEFINE n == Len(s)
           z == <<>>
           places == [k \in 1 .. n |-> k]
<1>1. n \in Nat /\ DOMAIN s = 1 .. n /\ z = <<>> /\ IsSequence(z)
  BY DEF IsSequence
<1> HIDE DEF n, z
<1>2. PICK r : Loop(r, Read(s), z, places, n) /\ PacketsOf(s) = r[n]
  BY <1>1, PacketsLoop
<1> HIDE DEF places
<1>3. \A a, x : IsSequence(a) => IsSequence(Handle(Read(s), a, x))
  <2> TAKE a, x
  <2>1. IsSequence(a) => IsSequence(Append(a, PacketAt(s, x)))
    BY SequenceAppend DEF IsSequence
  <2>2. Handle(Read(s), a, x) \in {a, Append(a, PacketAt(s, x))}
    BY DEF Handle, Read
  <2> QED
    BY <2>1, <2>2
<1>4. IsSequence(r[n])
  BY <1>1, <1>2, <1>3, LoopMakesList
<1> QED
  BY <1>2, <1>4

(* The clicks of a list are a list of what it holds.                       *)
LEMMA ClicksAreList ==
  ASSUME NEW s, IsSequence(s), IsSequence(Clicks(s)), NEW S,
         \A i \in 1 .. Len(Clicks(s)) : Clicks(s)[i] \in S
  PROVE  Clicks(s) \in Seq(S)
<1> DEFINE n == Len(s)
           z == <<>>
           U == {s[i].data : i \in 1 .. n}
<1>1. n \in Nat /\ DOMAIN s = 1 .. n /\ z = <<>>
  BY DEF IsSequence
<1>2. z \in Seq(U)
  OBVIOUS
<1>3. \A i \in 1 .. n : s[i].data \in U
  OBVIOUS
<1> HIDE DEF n, z, U
<1>4. PICK r : Loop(r, Clicked, z, s, n) /\ Clicks(s) = r[n]
  BY <1>1, ClicksLoop
<1> DEFINE T == {k \in 0 .. n : r[k] \in Seq(U)}
<1>5. 0 \in T
  <2>1. r[0] = z
    BY <1>4 DEF Loop
  <2>2. r[0] \in Seq(U)
    BY <1>2, <2>1
  <2>3. 0 \in 0 .. n
    BY <1>1
  <2> QED
    BY <2>2, <2>3
<1>6. ASSUME NEW k \in 0 .. n - 1, k \in T
      PROVE  k + 1 \in T
  <2>1. k + 1 \in 1 .. n /\ k + 1 \in 0 .. n /\ (k + 1) - 1 = k
    BY <1>1
  <2>2. r[k + 1] = Handle(Clicked, r[k], s[k + 1])
    BY <1>4, <2>1 DEF Loop
  <2>3. r[k + 1] = IF IsClick(s[k + 1]) THEN Append(r[k], s[k + 1].data) ELSE r[k]
    BY <2>2 DEF Handle, Clicked
  <2>4. r[k] \in Seq(U) /\ s[k + 1].data \in U
    BY <1>3, <1>6, <2>1
  <2>5. Append(r[k], s[k + 1].data) \in Seq(U)
    BY <2>4
  <2> QED
    BY <2>1, <2>3, <2>4, <2>5
<1>7. 0 .. n \subseteq T
  <2> HIDE DEF T
  <2> QED
    BY <1>1, <1>5, <1>6, Induction
<1>8. r[n] \in Seq(U) /\ r[n] = Clicks(s)
  BY <1>1, <1>4, <1>7
<1> DEFINE t == Clicks(s)
<1>9. t \in Seq(U) /\ \A i \in 1 .. Len(t) : t[i] \in S
  BY <1>8
<1> HIDE DEF t
<1>10. t \in Seq(S)
  BY <1>9
<1> QED
  BY <1>10 DEF t

(* The clicks among events that number on from m.                          *)
LEMMA ClicksOfEvents ==
  ASSUME NEW m \in Nat, NEW s, IsSequence(s),
         \A k \in 1 .. Len(s) : \E i : s[k] = Event(m + k, i)
  PROVE  AreEvents(m, Clicks(s)) /\ Len(Clicks(s)) = Len(s)
<1> DEFINE n == Len(s)
           z == <<>>
<1>1. n \in Nat /\ DOMAIN s = 1 .. n /\ z = <<>>
  BY DEF IsSequence
<1>2. z \in Seq({EventData(k) : k \in Nat}) /\ Len(z) = 0
  OBVIOUS
<1>3. ASSUME NEW k \in 1 .. n
      PROVE  IsClick(s[k]) /\ s[k].data = EventData(m + k)
  <2>1. PICK i : s[k] = Event(m + k, i)
    OBVIOUS
  <2>2. s[k].type = "event" /\ s[k].data = EventData(m + k)
    BY <2>1 DEF Event, PacketOf
  <2>3. Number(EventData(m + k)) = m + k /\ m + k > 0
    <3>1. Number(EventData(m + k)) = m + k
      BY EventValues, Zenon
    <3> QED
      BY <1>1, <3>1
  <2> QED
    BY <2>2, <2>3 DEF IsClick
<1> HIDE DEF n, z
<1>4. PICK r : Loop(r, Clicked, z, s, n) /\ Clicks(s) = r[n]
  BY <1>1, ClicksLoop
<1> DEFINE T == {k \in 0 .. n : AreEvents(m, r[k]) /\ Len(r[k]) = k}
<1>5. 0 \in T
  <2>1. r[0] = z
    BY <1>4 DEF Loop
  <2>2. AreEvents(m, z) /\ Len(z) = 0
    BY <1>2 DEF AreEvents
  <2> QED
    BY <1>1, <2>1, <2>2
<1>6. ASSUME NEW k \in 0 .. n - 1, k \in T
      PROVE  k + 1 \in T
  <2>1. k + 1 \in 1 .. n /\ k + 1 \in 0 .. n /\ (k + 1) - 1 = k /\ m + (k + 1) \in Nat
    BY <1>1
  <2>2. r[k + 1] = Handle(Clicked, r[k], s[k + 1])
    BY <1>4, <2>1 DEF Loop
  <2>3. r[k + 1] = Append(r[k], EventData(m + (k + 1)))
    BY <1>3, <2>1, <2>2 DEF Handle, Clicked
  <2> DEFINE S == {EventData(j) : j \in Nat}
             q == r[k]
             x == EventData(m + (k + 1))
  <2>4. q \in Seq(S) /\ Len(q) = k /\ x \in S /\ \A i \in 1 .. k : q[i] = EventData(m + i)
    BY <1>6, <2>1 DEF AreEvents
  <2> HIDE DEF S, q
  <2> DEFINE t == Append(q, x)
  <2>5. t \in Seq(S) /\ Len(t) = k + 1 /\ t[k + 1] = x /\ \A i \in 1 .. k : t[i] = q[i]
    BY <2>1, <2>4
  <2> HIDE DEF t
  <2>6. \A i \in 1 .. k + 1 : t[i] = EventData(m + i)
    BY <2>1, <2>4, <2>5
  <2>7. AreEvents(m, t) /\ Len(t) = k + 1
    BY <2>5, <2>6 DEF AreEvents, S
  <2> QED
    BY <2>1, <2>3, <2>7 DEF t, q
<1>7. 0 .. n \subseteq T
  <2> HIDE DEF T
  <2> QED
    BY <1>1, <1>5, <1>6, Induction
<1>8. n \in T
  BY <1>1, <1>7
<1> QED
  BY <1>4, <1>8 DEF n

(* What the connections were given, one after the other, and what waits in *)
(* the buffer is what the page has emitted: each event once, whole and in  *)
(* order (Socket.emit, onconnect, emitBuffered, packet; Manager._packet).  *)
THEOREM AlwaysGivenOnce == Spec => []GivenOnce
<1>1. DataInv => GivenOnce
  <2> SUFFICES ASSUME DataInv, ~io.aborted
               PROVE  Given \o Clicks(io.sendBuffer) = [n \in 1 .. emitted |-> EventData(n)]
    BY DEF GivenOnce
  <2>1. /\ Shape(c0) /\ GivenOK(c0, emitted) /\ LogsOK(c0) /\ c0.io = io /\ c0.engines = engines
        /\ Len(engines) = Current /\ Current \in Nat /\ Current > 0 /\ DOMAIN engines = 1 .. Current
    BY GoodHere DEF DataInv, Known, Data, Current
  <2>2. PICK base \in [1 .. Current + 1 -> Nat] :
          /\ Tally(c0, base) /\ base[Current + 1] + Len(io.sendBuffer) = emitted
          /\ \A k \in DOMAIN io.sendBuffer :
                \E i \in Nat : io.sendBuffer[k] = Event(base[Current + 1] + k, i)
    BY <2>1 DEF GivenOK
  <2> DEFINE seqs == [e \in 1 .. Current |-> Clicks(PacketsOf(engines[e].log))]
             done == base[Current + 1]
             rest == Clicks(io.sendBuffer)
  <2>3. base[1] = 0 /\ done \in Nat
    BY <2>1, <2>2 DEF Tally
  <2>4. ASSUME NEW e \in 1 .. Current
        PROVE  AreEvents(base[e], seqs[e]) /\ base[e + 1] = base[e] + Len(seqs[e])
    <3> DEFINE s == Carried(engines[e].log)
               b == base[e]
    <3>1. /\ IsSequence(s) /\ base[e + 1] = b + Len(s)
          /\ \A i \in 1 .. Len(s) : s[i] = EventData(b + i)
      BY <2>1, <2>2 DEF Tally
    <3>2. seqs[e] = s
      BY DEF Carried
    <3>3. b \in Nat
      BY <2>1
    <3>4. IsSequence(PacketsOf(engines[e].log))
      <4>1. UpLog(c0, engines[e].log)
        BY <2>1 DEF LogsOK
      <4> QED
        BY <4>1, PacketsAreList DEF UpLog
    <3>5. \A i \in 1 .. Len(s) : s[i] \in {EventData(n) : n \in Nat}
      <4> HIDE DEF s, b
      <4>1. \A i \in 1 .. Len(s) : b + i \in Nat
        BY <3>1, <3>3 DEF IsSequence
      <4> QED
        BY <3>1, <4>1
    <3>6. s \in Seq({EventData(n) : n \in Nat})
      BY <3>1, <3>4, <3>5, ClicksAreList DEF Carried
    <3> HIDE DEF s, b, seqs
    <3>7. AreEvents(b, s)
      BY <3>1, <3>6 DEF AreEvents
    <3> QED
      BY <3>1, <3>2, <3>7 DEF b
  <2>5. Given = FlattenSeq(seqs)
    BY DEF Given
  <2>6. DOMAIN seqs = 1 .. Current /\ Len(seqs) = Current
    BY <2>1
  <2> HIDE DEF seqs
  <2>7. FlattenSeq(seqs) = FirstEvents(done)
    BY <2>1, <2>2, <2>3, <2>4, <2>6, EventsFlattened
  <2>8. IsSequence(io.sendBuffer) /\ DOMAIN io.sendBuffer = 1 .. Len(io.sendBuffer)
    BY <2>1 DEF Shape, IsSequence
  <2> HIDE DEF done
  <2>9. AreEvents(done, rest) /\ Len(rest) = Len(io.sendBuffer)
    <3> DEFINE buffer == io.sendBuffer
    <3>1. \A k \in 1 .. Len(buffer) : \E i : buffer[k] = Event(done + k, i)
      BY <2>2, <2>8 DEF done
    <3>2. IsSequence(buffer)
      BY <2>8
    <3> HIDE DEF buffer
    <3> QED
      BY <2>3, <3>1, <3>2, ClicksOfEvents DEF buffer
  <2> HIDE DEF rest
  <2>10. FirstEvents(done) \o rest = FirstEvents(done + Len(rest))
    BY <2>3, <2>9, EventsJoined
  <2>11. done + Len(rest) = emitted
    BY <2>2, <2>9 DEF done
  <2> QED
    BY <2>5, <2>7, <2>10, <2>11 DEF rest, FirstEvents
<1> QED
  BY <1>1, AlwaysKnown, PTL
=============================================================================
