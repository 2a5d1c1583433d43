------------------------------ MODULE SocketIO ------------------------------
(* The Manager and the Socket of the socket.io client over their           *)
(* connections: events that the page emits, events that the server emits,  *)
(* acknowledgements, reconnection.  Of a connection (engine) this module   *)
(* uses what EngineSocket shows of it: each side is given a beginning of   *)
(* what the other wrote, in order; it may open or fail, end at any time,   *)
(* and what was on its way then may still arrive.  What is written are     *)
(* frames of the parser; a packet may be cut between two of them.          *)
(*                                                                         *)
(* An action is one task of the browser, with all listeners it calls.      *)
EXTENDS Naturals, Sequences, SequencesExt, FiniteSets, Parser

CONSTANTS MaxEmits,     \* events the page may emit (bound)
          MaxDown,      \* events the server may emit (bound)
          MaxEngines,   \* connections; the last one neither fails nor ends (bound)
          WithBuffer    \* events, of either side, that have a binary value

ASSUME SocketIOAssumption ==
    /\ MaxEmits \in Nat /\ MaxDown \in Nat /\ MaxEngines \in Nat \ {0}
    /\ WithBuffer \subseteq Nat \ {0}

VARIABLES io,        \* the Manager and its Socket
          engines,   \* the connections, in the order in which they were created
          emitted,   \* how many events the page has emitted
          downs      \* how many events the server has emitted

vars == <<io, engines, emitted, downs>>

(* Packets.  An event of the page has the id of its callback; "handshake"  *)
(* is event 0.                                                             *)
PacketOf(type, id, data) == [type |-> type, id |-> id, data |-> data, attachments |-> 0]
EventData(n) ==
    Json("array", <<Plain(n)>> \o IF n \in WithBuffer THEN <<Buffer(n)>> ELSE <<>>)

Connect == PacketOf("connect", <<>>, NoData)
Connected == PacketOf("connect", <<>>, Json("object", <<Plain("sid")>>))
Disconnect == PacketOf("disconnect", <<>>, NoData)
Event(n, id) == PacketOf("event", <<id>>, EventData(n))
Ack(n, id) == PacketOf("ack", <<id>>, Json("array", <<Plain(n)>>))
Broadcast(n) == PacketOf("event", <<>>, EventData(n))

Number(data) == data.values[1].v

Current == Len(engines)
Alive(e) == engines[e].state \in {"opening", "open", "closing"}
-----------------------------------------------------------------------------
(* A step of the client has an effect on both: c = [io, engines].          *)

c0 == [io |-> io, engines |-> engines]

(* Manager._packet: each frame is written to the engine; a connection that *)
(* is closing or closed takes nothing.                                     *)
Packet(c, packet) ==
    LET e == Len(c.engines) IN
    IF c.engines[e].state \in {"opening", "open"}
    THEN [c EXCEPT !.engines[e].log = @ \o Encode(packet)]
    ELSE c

(* Manager.cleanup: the subscriptions and timers in subs are destroyed,    *)
(* and a packet that was half decoded.                                     *)
Cleanup(c) ==
    [c EXCEPT !.io.timers = {}, !.io.reconstructor = <<>>,
              !.engines = [e \in DOMAIN @ |-> [@[e] EXCEPT !.hears = "nothing"]]]

(* The engine has ended; what was on its way to the client is lost.        *)
Ended(c, e) ==
    [c EXCEPT !.engines[e] = [@ EXCEPT !.state = "closed", !.down = <<>>,
                                       !.at = Len(c.engines[e].log), !.srv = "none"]]

(* Manager.open: a new engine, listeners of "open" and "error", a timeout. *)
NewEngine == [state |-> "opening", hears |-> "open", log |-> <<>>, at |-> 0,
              down |-> <<>>, srv |-> "none"]

Open(c, fn) ==
    IF c.io.readyState \in {"opening", "open"} THEN c
    ELSE [c EXCEPT !.engines = Append(@, NewEngine),
                   !.io.readyState = "opening", !.io.skipReconnect = FALSE,
                   !.io.fn = fn, !.io.timers = @ \cup {"timeout"}]

(* Backoff.duration and reset: the attempts are counted; how long the      *)
(* delay gets is left out.                                                 *)
BackoffDuration(c) == [c EXCEPT !.io.attempts = @ + 1]
BackoffReset(c) == [c EXCEPT !.io.attempts = 0]

(* Manager.reconnect; as the page sets no limit, the number of attempts    *)
(* never ends it.                                                          *)
Reconnect(c) ==
    IF c.io.reconnecting \/ c.io.skipReconnect THEN c
    ELSE [BackoffDuration(c) EXCEPT !.io.reconnecting = TRUE,
                                    !.io.timers = @ \cup {"reconnect"}]

MaybeReconnectOnOpen(c) ==
    IF ~c.io.reconnecting /\ c.io.attempts = 0 THEN Reconnect(c) ELSE c
-----------------------------------------------------------------------------
(* The Socket.                                                             *)

(* Socket.emit with a callback.                                            *)
Emit(c, n) ==
    LET packet == Event(n, c.io.ids)
        a == [c EXCEPT !.io.acks = @ \cup {[id |-> c.io.ids, n |-> n]}, !.io.ids = @ + 1]
    IN  IF c.io.connected THEN Packet(a, packet)
        ELSE [a EXCEPT !.io.sendBuffer = Append(@, packet)]

(* Socket.emitEvent.  For some events (throwing) the listener throws an     *)
(* exception, which leaves every caller.                                    *)
EmitEvent(c, data) ==
    IF c.io.threw THEN c
    ELSE [c EXCEPT !.io.heard = Append(@, data),
                   !.io.threw = Number(data) \in c.io.throwing]

(* Mistake: the buffer of emitted events is not emptied.                   *)
EmitBuffered_keeps_sent(c) ==
    LET r == FoldLeft(EmitEvent, c, c.io.receiveBuffer) IN
    IF r.io.threw THEN [r EXCEPT !.io.aborted = TRUE]
    ELSE FoldLeft(Packet, [r EXCEPT !.io.receiveBuffer = <<>>], r.io.sendBuffer)

(* Mistake: the buffer of received events is not emptied.                  *)
EmitBuffered_keeps_received(c) ==
    LET r == FoldLeft(EmitEvent, c, c.io.receiveBuffer) IN
    IF r.io.threw THEN [r EXCEPT !.io.aborted = TRUE]
    ELSE [FoldLeft(Packet, r, r.io.sendBuffer) EXCEPT !.io.sendBuffer = <<>>]

(* Mistake: the buffer of emitted events is not looked at.                 *)
EmitBuffered_received_only(c) ==
    LET r == FoldLeft(EmitEvent, c, c.io.receiveBuffer) IN
    IF r.io.threw THEN [r EXCEPT !.io.aborted = TRUE]
    ELSE [r EXCEPT !.io.receiveBuffer = <<>>]

(* Socket.emitBuffered.                                                    *)
EmitBuffered(c) ==
    LET r == FoldLeft(EmitEvent, c, c.io.receiveBuffer) IN
    IF r.io.threw THEN [r EXCEPT !.io.aborted = TRUE]
    ELSE [FoldLeft(Packet, [r EXCEPT !.io.receiveBuffer = <<>>], r.io.sendBuffer)
             EXCEPT !.io.sendBuffer = <<>>]

(* Socket.onconnect; the page's listener of "connect" emits a handshake.   *)
OnConnect(c) == EmitBuffered(Emit([c EXCEPT !.io.connected = TRUE], 0))

OnEvent(c, data) ==
    IF c.io.connected THEN EmitEvent(c, data)
    ELSE [c EXCEPT !.io.receiveBuffer = Append(@, data)]

OnAck(c, packet) ==
    LET called == {b \in c.io.acks : b.id = packet.id[1]} IN
    [c EXCEPT !.io.acks = @ \ called,
              !.io.acked = IF \E b \in called : b.n > 0
                           THEN Append(@, <<(CHOOSE b \in called : TRUE).n, Number(packet.data)>>)
                           ELSE @]

(* Socket.onclose, for a Socket that still listens to the Manager.         *)
SocketOnClose(c) == IF c.io.subscribed THEN [c EXCEPT !.io.connected = FALSE] ELSE c

(* Mistake: every connection starts with callback 0 again.                 *)
OnClose_resets_ids(c) ==
    LET s == SocketOnClose([BackoffReset(Cleanup(c)) EXCEPT !.io.ids = 0,
                                                           !.io.readyState = "closed"])
    IN  IF ~s.io.skipReconnect THEN Reconnect(s) ELSE s

(* Manager.onclose.                                                        *)
OnClose(c) ==
    LET s == SocketOnClose([BackoffReset(Cleanup(c)) EXCEPT !.io.readyState = "closed"])
    IN  IF ~s.io.skipReconnect THEN Reconnect(s) ELSE s

(* Mistake: skipReconnect is not set.                                      *)
Close_without_skip(c, state) ==
    LET m == [BackoffReset(c) EXCEPT !.io.reconnecting = FALSE, !.io.readyState = "closed"]
        e == Len(c.engines)
    IN  IF state = "closed" THEN OnClose(Ended(m, e))
        ELSE [m EXCEPT !.engines[e].state = state]

(* Manager._close; the engine may have to drain first.                     *)
Close(c, state) ==
    LET m == [BackoffReset(c) EXCEPT !.io.skipReconnect = TRUE, !.io.reconnecting = FALSE,
                                     !.io.readyState = "closed"]
        e == Len(c.engines)
    IN  IF state = "closed" THEN OnClose(Ended(m, e))
        ELSE [m EXCEPT !.engines[e].state = state]

(* Socket.destroy: the subscriptions to the Manager end; Manager._destroy  *)
(* closes it, as this is the only Socket.                                  *)
Destroy(c, state) == Close([c EXCEPT !.io.subscribed = FALSE], state)

(* Socket.ondisconnect, which also calls onclose.                          *)
OnDisconnect(c, state) == Destroy([c EXCEPT !.io.connected = FALSE], state)

(* Socket.onpacket for all but DISCONNECT.                                 *)
OnPacket(c, packet) ==
    IF ~c.io.subscribed THEN c
    ELSE CASE packet.type = "connect" -> OnConnect(c)
           [] packet.type \in {"event", "binary_event"} -> OnEvent(c, packet.data)
           [] packet.type \in {"ack", "binary_ack"} -> OnAck(c, packet)
           [] OTHER -> c
-----------------------------------------------------------------------------
(* The Manager's listeners.                                                *)

(* Mistake: the attempts of the reconnection are not set back.             *)
OnReconnect_keeps_attempts(c) == [c EXCEPT !.io.reconnecting = FALSE]

(* Mistake: the reconnection is never over.                                *)
OnReconnect_stays_reconnecting(c) == BackoffReset(c)

(* Manager.onreconnect.                                                    *)
OnReconnect(c) == [BackoffReset(c) EXCEPT !.io.reconnecting = FALSE]

(* Manager.onopen, with Socket.onopen, and what the caller of open wants.  *)
OnOpen(c, e) ==
    LET o == Packet([Cleanup(c) EXCEPT !.io.readyState = "open"], Connect)
        d == [o EXCEPT !.engines[e].hears = "data"]
    IN  IF c.io.fn THEN OnReconnect(d) ELSE d

(* The listener of "error" while an engine opens.                          *)
OnError(c) ==
    LET f == [Cleanup(c) EXCEPT !.io.readyState = "closed"]
    IN  IF c.io.fn THEN Reconnect([f EXCEPT !.io.reconnecting = FALSE])
        ELSE MaybeReconnectOnOpen(f)
-----------------------------------------------------------------------------
Step(c) == \E d \in {c} : io' = d.io /\ engines' = d.engines

(* The Manager as its constructor makes it, before it opens.               *)
NewManager ==
    [readyState |-> "closed", reconnecting |-> FALSE, skipReconnect |-> FALSE,
     attempts |-> 0, timers |-> {}, fn |-> FALSE, reconstructor |-> <<>>, misread |-> FALSE]

(* The Socket.                                                             *)
NewSocket(throwing) ==
    [subscribed |-> FALSE, connected |-> FALSE, ids |-> 0, acks |-> {}, acked |-> <<>>,
     sendBuffer |-> <<>>, receiveBuffer |-> <<>>, heard |-> <<>>,
     throwing |-> throwing, threw |-> FALSE, aborted |-> FALSE]

(* The variables of both, in one record.                                   *)
Both(m, s) ==
    [f \in DOMAIN m \cup DOMAIN s |-> IF f \in DOMAIN m THEN m[f] ELSE s[f]]

(* Socket.subEvents and connect, which its constructor calls.              *)
SocketConnect(c) ==
    LET s == [c EXCEPT !.io.subscribed = TRUE]
        o == IF c.io.reconnecting THEN s ELSE Open(s, FALSE)
    IN  IF c.io.connected THEN c
        ELSE IF o.io.readyState = "open" THEN Packet(o, Connect)
        ELSE o

(* The page calls io(): a Manager, which opens, and a Socket.              *)
Init ==
    \E throwing \in SUBSET (1 .. MaxDown) :
    LET m == Open([io |-> Both(NewManager, NewSocket(throwing)), engines |-> <<>>], FALSE)
        c == SocketConnect(m)
    IN  io = c.io /\ engines = c.engines /\ emitted = 0 /\ downs = 0

(* The page emits an event.                                                *)
PageEmits ==
    /\ emitted < MaxEmits
    /\ emitted' = emitted + 1
    /\ Step(Emit(c0, emitted'))
    /\ UNCHANGED downs

EngineOpens ==
    \E e \in 1 .. Current :
       /\ engines[e].state = "opening"
       /\ LET o == [c0 EXCEPT !.engines[e].state = "open"] IN
          Step(IF engines[e].hears = "open" THEN OnOpen(o, e) ELSE o)
       /\ UNCHANGED <<emitted, downs>>

(* An engine fails while it opens: "error", then "close".                  *)
EngineFails ==
    \E e \in 1 .. Current :
       /\ engines[e].state = "opening" /\ e < MaxEngines
       /\ LET f == Ended(c0, e) IN
          Step(IF engines[e].hears = "open" THEN OnError(f) ELSE f)
       /\ UNCHANGED <<emitted, downs>>

(* The connection is lost, or an engine that was closing is closed.        *)
EngineCloses ==
    \E e \in 1 .. Current :
       /\ engines[e].state \in {"open", "closing"}
       /\ e < MaxEngines \/ engines[e].state = "closing"
       /\ LET f == Ended(c0, e) IN
          Step(IF engines[e].hears = "data" THEN OnClose(f) ELSE f)
       /\ UNCHANGED <<emitted, downs>>

(* Mistake: the engine that took too long is not closed.                   *)
ConnectTimeout_without_close ==
    /\ "timeout" \in io.timers /\ Current < MaxEngines
    /\ LET f == [c0 EXCEPT !.io.timers = @ \ {"timeout"}] IN
       Step(IF engines[Current].hears = "open" THEN OnError(f) ELSE f)
    /\ UNCHANGED <<emitted, downs>>

(* The timer of Manager.open: the engine is closed and "error" emitted.    *)
ConnectTimeout ==
    /\ "timeout" \in io.timers /\ Current < MaxEngines
    /\ LET f == [Ended(c0, Current) EXCEPT !.io.timers = @ \ {"timeout"}] IN
       Step(CASE engines[Current].hears = "open" -> OnError(f)
              [] engines[Current].hears = "data" -> OnClose(f)
              [] OTHER -> f)
    /\ UNCHANGED <<emitted, downs>>

(* The timer of Manager.reconnect.                                         *)
ReconnectTimer ==
    /\ "reconnect" \in io.timers /\ Current < MaxEngines
    /\ LET f == [c0 EXCEPT !.io.timers = @ \ {"reconnect"}] IN
       Step(IF io.skipReconnect THEN f ELSE Open(f, TRUE))
    /\ UNCHANGED <<emitted, downs>>

(* The engine emits "data": Manager.ondata, the decoder and, with a whole  *)
(* packet, Manager.ondecoded and Socket.onpacket.                          *)
EngineData ==
    \E e \in 1 .. Current :
       /\ Alive(e) /\ engines[e].down # <<>>
       /\ \E r \in {DecoderAdd(io.reconstructor, Head(engines[e].down))},
             n \in {[c0 EXCEPT !.engines[e].down = Tail(@)]} :
          \E d \in {[n EXCEPT !.io.threw = FALSE, !.io.reconstructor = r.reconstructor,
                              !.io.misread = @ \/ r.threw]} :
             CASE engines[e].hears # "data" -> Step(n)
               [] engines[e].hears = "data" /\ r.packets = <<>> -> Step(d)
               [] engines[e].hears = "data" /\ r.packets # <<>> ->
                     IF r.packets[1].type = "disconnect" /\ io.subscribed
                     THEN \E state \in {"closing", "closed"} : Step(OnDisconnect(d, state))
                     ELSE Step(OnPacket(d, r.packets[1]))
       /\ UNCHANGED <<emitted, downs>>
-----------------------------------------------------------------------------
(* The server, and what is on its way to it.                               *)

(* A frame reaches the server, and with it a whole packet or a part.  (It  *)
(* may also when its connection has ended since; the client would not      *)
(* know.)  From CONNECT on the client is sent what is emitted to all, also *)
(* before it is told that it is connected.                                 *)
ServerReads ==
    \E e \in 1 .. Current :
       LET at == engines[e].at + 1
           start == {k \in 1 .. at : EndsAt(engines[e].log, k, at)}
       IN
       /\ Alive(e) /\ at <= Len(engines[e].log)
       /\ \/ /\ start = {}
             /\ engines' = [engines EXCEPT ![e].at = at]
          \/ \E packet \in {PacketAt(engines[e].log, k) : k \in start} :
                engines' = IF packet.type = "connect"
                           THEN [engines EXCEPT ![e].at = at, ![e].srv = "joined"]
                           ELSE [engines EXCEPT ![e].at = at,
                                   ![e].down = @ \o Encode(Ack(Number(packet.data), packet.id[1]))]
       /\ UNCHANGED <<io, emitted, downs>>

ServerConnects ==
    \E e \in 1 .. Current :
       /\ Alive(e) /\ engines[e].srv = "joined"
       /\ engines' = [engines EXCEPT ![e].srv = "connected",
                                     ![e].down = @ \o Encode(Connected)]
       /\ UNCHANGED <<io, emitted, downs>>

ServerDisconnects ==
    \E e \in 1 .. Current :
       /\ Alive(e) /\ engines[e].srv = "connected"
       /\ engines' = [engines EXCEPT ![e].srv = "none", ![e].down = @ \o Encode(Disconnect)]
       /\ UNCHANGED <<io, emitted, downs>>

ServerBroadcasts ==
    /\ downs < MaxDown
    /\ downs' = downs + 1
    /\ engines' = [e \in DOMAIN engines |->
                      IF engines[e].srv = "none" THEN engines[e]
                      ELSE [engines[e] EXCEPT !.down = @ \o Encode(Broadcast(downs'))]]
    /\ UNCHANGED <<io, emitted>>
-----------------------------------------------------------------------------
Next ==
    \/ PageEmits
    \/ EngineOpens \/ EngineFails \/ EngineCloses \/ EngineData
    \/ ConnectTimeout \/ ReconnectTimer
    \/ ServerReads \/ ServerConnects \/ ServerDisconnects \/ ServerBroadcasts

Spec == Init /\ [][Next]_vars

(* Timers fire, and a connection that does not end does its work.          *)
Fairness ==
    /\ WF_vars(ReconnectTimer) /\ WF_vars(ConnectTimeout)
    /\ WF_vars(EngineOpens) /\ WF_vars(EngineData)
    /\ WF_vars(ServerReads) /\ WF_vars(ServerConnects)

FairSpec == Spec /\ Fairness
-----------------------------------------------------------------------------
TypeOK ==
    /\ io.readyState \in {"closed", "opening", "open"}
    /\ io.timers \subseteq {"timeout", "reconnect"}
    /\ io.reconnecting \in BOOLEAN /\ io.connected \in BOOLEAN
    /\ io.attempts \in 0 .. (IF io.readyState = "open" THEN 0 ELSE MaxEngines)
    /\ Current \in 1 .. MaxEngines
    /\ \A e \in 1 .. Current : engines[e].at \in 0 .. Len(engines[e].log)
    /\ emitted \in 0 .. MaxEmits /\ downs \in 0 .. MaxDown

IsClick(packet) == packet.type \notin {"connect", "disconnect"} /\ Number(packet.data) > 0
Clicks(packets) ==
    FoldLeft(LAMBDA found, p : IF IsClick(p) THEN Append(found, p.data) ELSE found,
             <<>>, packets)

Given == FlattenSeq([e \in 1 .. Current |-> Clicks(PacketsOf(engines[e].log))])

(* There is one connection at most, and none while the client waits to     *)
(* reconnect: a failed attempt, a timeout and a close that report the same *)
(* end start one loop of attempts, not two.                                *)
OneConnection ==
    /\ Cardinality({e \in 1 .. Current : Alive(e)}) <= 1
    /\ "reconnect" \in io.timers => \A e \in 1 .. Current : ~Alive(e)

(* Over all connections, each event of the page is given to one of them    *)
(* once, whole, in the order in which they were emitted, or waits in the   *)
(* buffer behind the others; unless a listener threw an exception into     *)
(* emitBuffered, which leaves the buffer for the next connection.          *)
GivenOnce ==
    ~io.aborted => Given \o Clicks(io.sendBuffer) = [n \in 1 .. emitted |-> EventData(n)]

(* The listeners hear what the server emits once, whole and in order, what *)
(* came before the socket was connected included, with the same exception; *)
(* and the decoder is never given what it cannot place, also when the      *)
(* connection before was lost in the middle of a packet.                   *)
HeardOnce ==
    /\ ~io.misread
    /\ ~io.aborted => \A i, j \in DOMAIN io.heard :
                         i < j => Number(io.heard[i]) < Number(io.heard[j])
    /\ \A i \in DOMAIN io.heard : io.heard[i] = EventData(Number(io.heard[i]))

(* A callback is called with the acknowledgement of its own event, once.   *)
AcksMatch ==
    /\ \A i \in DOMAIN io.acked : io.acked[i][1] = io.acked[i][2]
    /\ \A i, j \in DOMAIN io.acked : io.acked[i] = io.acked[j] => i = j

(* Once the server has disconnected the socket no connection is made, no   *)
(* matter which timers were pending.                                       *)
StaysDisconnected == [][~io.subscribed => Len(engines') = Len(engines)]_vars

(* A client that is not connected will be, unless the server does not want *)
(* it.                                                                     *)
Reconnects == ~io.connected ~> (io.connected \/ ~io.subscribed)

(* What waits in the buffer does not wait for ever (and, by GivenOnce, is  *)
(* given to a connection), with the same exceptions.                       *)
BufferIsSent ==
    io.sendBuffer # <<>> ~> (io.sendBuffer = <<>> \/ ~io.subscribed \/ io.aborted)
=============================================================================
