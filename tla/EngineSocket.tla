---------------------------- MODULE EngineSocket ----------------------------
(* One connection of the engine.io client that the web page is built on:   *)
(* the socket, its polling transport (a GET that the server answers when   *)
(* it has something, and POSTs), the websocket that is probed beside it    *)
(* and takes over, and, external, the server and the network.              *)
(*                                                                         *)
(* The browser runs one task at a time: an action is one task (an answer,  *)
(* an event of the websocket, a timer, a call from above) with everything  *)
(* it calls.  The methods are operators from the state of the client to    *)
(* the next one, named as in the code.                                     *)
EXTENDS EngineParser

CONSTANTS MaxUp,      \* messages the client may write (bound)
          MaxDown,    \* messages the server may send (bound)
          Binaries,   \* messages, of both sides, that are binary
          Throwing    \* messages whose listener throws an exception

ASSUME EngineAssumption ==
    /\ MaxUp \in Nat \ {0} /\ MaxDown \in Nat
    /\ Binaries \subseteq Nat /\ Throwing \subseteq 1 .. MaxDown

VARIABLES client,     \* the socket, its transports and what they have on the wire
          srv,        \* the server's session
          srvQueue,   \* packets the server holds for the client
          received,   \* messages the server has received
          emitted,    \* how many messages the server has sent
          pinged,     \* the server has sent a ping and waits for the pong
          down,       \* frames on the websocket towards the client
          link        \* "down" when nothing gets through any more, unnoticed

vars == <<client, srv, srvQueue, received, emitted, pinged, down, link>>

(* Packets.  The messages of a side are numbered.                          *)
Packet(type) == [type |-> type, data |-> <<>>]
ProbePacket(type) == [type |-> type, data |-> <<Symbol("probe", 0)>>]
Content(n) == Symbol(IF n \in Binaries THEN "buffer" ELSE "text", n)
Message(n) == [type |-> "message", data |-> <<Content(n)>>]

(* The number of a message, 0 if it has become something else on its way.  *)
Number(packet) ==
    LET n == packet.data[1].v IN IF packet = Message(n) THEN n ELSE 0

ClosePacket == Packet("close")

(* A websocket that is closed tells the server in a frame of its own kind. *)
CloseFrame == <<Symbol("close", 0)>>
-----------------------------------------------------------------------------
(* Transports.                                                             *)

(* XHR.doWrite and doPoll: a POST, a GET.                                  *)
DoWrite(s, data) == [s EXCEPT !.posts = Append(@, [body |-> data, got |-> FALSE])]
DoPoll(s) == [s EXCEPT !.gets = @ + 1]

(* Polling.write: the packets become the body of a POST.                   *)
PollingWrite(s, packets) == DoWrite([s EXCEPT !.pollWritable = FALSE], EncodePayload(packets))

(* WS.write: every packet is a frame; a timer makes the drain.             *)
WebsocketWrite(s, packets) ==
    [s EXCEPT !.wsWritable = FALSE, !.wsTimers = @ + 1,
              !.up = @ \o [i \in DOMAIN packets |-> EncodePacket(packets[i], TRUE)]]

TransportState(s) == IF s.transport = "polling" THEN s.pollState ELSE s.wsState
Writable(s) == IF s.transport = "polling" THEN s.pollWritable ELSE s.wsWritable

(* Transport.send throws when the transport is not open.                   *)
TransportSend(s, packets) ==
    IF TransportState(s) # "open" THEN [s EXCEPT !.sendThrew = TRUE]
    ELSE IF s.transport = "polling" THEN PollingWrite(s, packets)
    ELSE WebsocketWrite(s, packets)

(* WS.doClose.                                                             *)
WebsocketClose(s) ==
    IF s.wsState \in {"opening", "open"}
    THEN [s EXCEPT !.wsState = "closed", !.up = Append(@, CloseFrame)]
    ELSE s

(* Polling.doClose writes a close packet if the transport is open; while   *)
(* it opens it leaves that to a listener of "open", which the socket       *)
(* removes with all others before the handshake can come.                  *)
PollingClose(s) ==
    IF s.pollState = "open"
    THEN [PollingWrite(s, <<ClosePacket>>) EXCEPT !.pollState = "closed"]
    ELSE IF s.pollState = "opening" THEN [s EXCEPT !.pollState = "closed"]
    ELSE s

TransportClose(s) ==
    IF s.transport = "polling" THEN PollingClose(s) ELSE WebsocketClose(s)

Poll(s) == DoPoll([s EXCEPT !.polling = TRUE])
-----------------------------------------------------------------------------
(* The socket: closing.                                                    *)

(* freezeTransport of the probe: the websocket is given up.                *)
FreezeTransport(s) ==
    IF s.probe \in {"opening", "ping", "pausing"}
    THEN [WebsocketClose(s) EXCEPT !.probe = "failed"]
    ELSE s

(* Socket.onClose: the transport is closed, its listeners are removed, the *)
(* probe hears "close", and the buffer is dropped.                         *)
OnClose(s) ==
    IF s.readyState = "closed" THEN s
    ELSE [FreezeTransport(TransportClose(s)) EXCEPT
             !.readyState = "closed", !.closeWait = "no",
             !.writeBuffer = <<>>, !.prevBufferLen = 0, !.pingTimer = FALSE]

(* Socket.close: what is in the buffer goes first, and an upgrade that is  *)
(* under way.                                                              *)
Close(s) ==
    LET c == [s EXCEPT !.readyState = "closing"] IN
    IF s.writeBuffer # <<>> THEN [c EXCEPT !.closeWait = "drain"]
    ELSE IF s.upgrading THEN [c EXCEPT !.closeWait = "upgrade"]
    ELSE OnClose(c)

(* The listeners that close() leaves on "drain", "upgrade", "upgradeError".*)
EmitDrain(s) ==
    IF s.closeWait # "drain" THEN s
    ELSE IF s.upgrading THEN [s EXCEPT !.closeWait = "upgrade"]
    ELSE OnClose(s)

EmitUpgrade(s) == IF s.closeWait = "upgrade" THEN OnClose(s) ELSE s
-----------------------------------------------------------------------------
(* The socket: writing.                                                    *)

(* Mistake: the upgrade does not hold the buffer back.                     *)
Flush_while_upgrading(s) ==
    IF s.readyState # "closed" /\ Writable(s) /\ s.writeBuffer # <<>>
    THEN [TransportSend(s, s.writeBuffer) EXCEPT !.prevBufferLen = Len(s.writeBuffer)]
    ELSE s

(* Socket.flush.                                                           *)
Flush(s) ==
    IF /\ s.readyState # "closed" /\ Writable(s)
       /\ ~s.upgrading /\ s.writeBuffer # <<>>
    THEN [TransportSend(s, s.writeBuffer) EXCEPT !.prevBufferLen = Len(s.writeBuffer)]
    ELSE s

(* Socket.sendPacket.                                                      *)
SendPacket(s, packet) ==
    IF s.readyState \in {"closing", "closed"} THEN s
    ELSE Flush([s EXCEPT !.writeBuffer = Append(@, packet)])

(* Socket.write, called with the next message.                             *)
Write(s) ==
    IF s.sent = MaxUp \/ s.readyState # "open" THEN s
    ELSE [SendPacket(s, Message(s.sent + 1)) EXCEPT !.sent = @ + 1]

(* Mistake: the length of the last flush is not set back.                  *)
OnDrain_keeps_length(s) ==
    LET d == [s EXCEPT !.writeBuffer = SubSeq(@, s.prevBufferLen + 1, Len(@))]
    IN  IF d.writeBuffer = <<>> THEN EmitDrain(d) ELSE Flush(d)

(* Mistake: what was written since the flush is not sent.                  *)
OnDrain_without_flush(s) ==
    EmitDrain([s EXCEPT !.writeBuffer = SubSeq(@, s.prevBufferLen + 1, Len(@)),
                        !.prevBufferLen = 0])

(* Mistake: the buffer is emptied with what was written since the flush.   *)
OnDrain_drops_all(s) == EmitDrain([s EXCEPT !.writeBuffer = <<>>, !.prevBufferLen = 0])

(* Socket.onDrain: the packets of the last flush leave the buffer.         *)
OnDrain(s) ==
    LET d == [s EXCEPT !.writeBuffer = SubSeq(@, s.prevBufferLen + 1, Len(@)),
                       !.prevBufferLen = 0]
    IN  IF d.writeBuffer = <<>> THEN EmitDrain(d) ELSE Flush(d)
-----------------------------------------------------------------------------
(* The socket: the upgrade.                                                *)

(* Socket.probe: a websocket is opened beside the transport in use.        *)
Probe(s) == [s EXCEPT !.probe = "opening", !.wsState = "opening"]

(* The callback given to pause: the websocket becomes the transport, its   *)
(* first packet says so, and the buffer follows.                           *)
SwitchTransport(s) ==
    IF s.probe = "failed" \/ s.readyState = "closed" THEN s
    ELSE LET t == TransportSend([s EXCEPT !.probe = "done", !.transport = "websocket"],
                                <<Packet("upgrade")>>)
         IN  Flush([EmitUpgrade(t) EXCEPT !.upgrading = FALSE])

(* Polling.pause: waits for the GET and the POST that are under way.       *)
PausedBy(s, event) ==
    LET w == [s EXCEPT !.pauseFor = @ \ {event}] IN
    IF event \in s.pauseFor /\ w.pauseFor = {}
    THEN SwitchTransport([w EXCEPT !.pollState = "paused"])
    ELSE w

(* Mistake: pause does not wait for a POST that is under way.              *)
Pause_for_poll(s) ==
    LET p == [s EXCEPT !.pollState = "pausing", !.pauseFor = {"pollComplete"}]
    IN  IF s.polling THEN p ELSE SwitchTransport([p EXCEPT !.pollState = "paused"])

Pause(s) ==
    LET wait == (IF s.polling THEN {"pollComplete"} ELSE {})
                    \cup (IF s.pollWritable THEN {} ELSE {"drain"})
        p == [s EXCEPT !.pollState = "pausing", !.pauseFor = wait]
    IN  IF wait = {} THEN SwitchTransport([p EXCEPT !.pollState = "paused"]) ELSE p

(* The pong of the probe.                                                  *)
ProbePong(s) == Pause([s EXCEPT !.probe = "pausing", !.upgrading = TRUE])
-----------------------------------------------------------------------------
(* The socket: packets.                                                    *)

(* Socket.onHandshake and onOpen: the listener of "open" writes the first  *)
(* message (Manager and Socket of socket.io: CONNECT), a probe is started  *)
(* if the server offers the websocket, and the ping timer is set.          *)
OnHandshake(s) ==
    LET o == Flush(Write([s EXCEPT !.readyState = "open"])) IN
    [(IF s.upgrades THEN Probe(o) ELSE o) EXCEPT !.pingTimer = TRUE]

(* Socket.onPacket; a message goes to the listeners.                       *)
OnPacket(s, packet) ==
    IF s.readyState = "closed" THEN s
    ELSE CASE packet.type = "open" -> OnHandshake(s)
           [] packet.type = "ping" -> SendPacket([s EXCEPT !.pingTimer = TRUE], Packet("pong"))
           [] packet.type = "message" -> [s EXCEPT !.heard = Append(@, Number(packet))]
           [] packet.type = "error" -> OnClose(s)
           [] packet.type \in {"pong", "close", "noop", "upgrade"} -> s

(* The callback of Polling.onData for one packet of the payload; after an  *)
(* exception of a listener the rest of the payload is not looked at.       *)
OnPayloadPacket(s, packet) ==
    IF s.threw THEN s
    ELSE LET o == IF s.pollState = "opening" /\ packet.type = "open"
                  THEN [s EXCEPT !.pollState = "open", !.pollWritable = TRUE]
                  ELSE s
         IN  IF packet.type = "close" THEN OnClose([o EXCEPT !.pollState = "closed"])
             ELSE [OnPacket(o, packet) EXCEPT
                      !.threw = /\ o.readyState # "closed" /\ packet.type = "message"
                                /\ Number(packet) \in Throwing]

(* Mistake: no poll while a POST is under way.                             *)
OnData_polls_when_idle(s, payload) ==
    LET d == FoldLeft(OnPayloadPacket, [s EXCEPT !.gets = @ - 1], DecodePayload(payload))
        c == PausedBy([d EXCEPT !.polling = FALSE], "pollComplete")
    IN  IF d.pollState = "closed" \/ d.threw THEN d
        ELSE IF c.pollState = "open" /\ c.pollWritable THEN Poll(c)
        ELSE c

(* Mistake: the packets of a payload are taken from its end.               *)
OnData_last_first(s, payload) ==
    LET d == FoldLeft(OnPayloadPacket, [s EXCEPT !.gets = @ - 1], Reverse(DecodePayload(payload)))
        c == PausedBy([d EXCEPT !.polling = FALSE], "pollComplete")
    IN  IF d.pollState = "closed" \/ d.threw THEN d
        ELSE IF c.pollState = "open" THEN Poll(c)
        ELSE c

(* Polling.onData.  An exception leaves it before the poll is complete: no *)
(* other poll is sent.                                                     *)
OnData(s, payload) ==
    LET d == FoldLeft(OnPayloadPacket, [s EXCEPT !.gets = @ - 1], DecodePayload(payload))
        c == PausedBy([d EXCEPT !.polling = FALSE], "pollComplete")
    IN  IF d.pollState = "closed" \/ d.threw THEN d
        ELSE IF c.pollState = "open" THEN Poll(c)
        ELSE c
-----------------------------------------------------------------------------
(* The socket as its constructor leaves it: open() has created the polling *)
(* transport and sent the first GET.                                       *)
Connecting(upgrades) ==
    [readyState |-> "opening", transport |-> "polling", upgrades |-> upgrades,
     upgrading |-> FALSE, writeBuffer |-> <<>>, prevBufferLen |-> 0,
     pingTimer |-> FALSE, closeWait |-> "no", probe |-> "none",
     pollState |-> "opening", polling |-> TRUE, pollWritable |-> FALSE, pauseFor |-> {},
     wsState |-> "none", wsWritable |-> FALSE, wsTimers |-> 0,
     gets |-> 1, posts |-> <<>>, up |-> <<>>,
     threw |-> FALSE, sendThrew |-> FALSE, sent |-> 0, heard |-> <<>>]

Init ==
    /\ \E upgrades \in BOOLEAN : client = Connecting(upgrades)
    /\ srv = "none" /\ srvQueue = <<>> /\ received = <<>>
    /\ emitted = 0 /\ pinged = FALSE /\ down = <<>> /\ link = "up"

server == <<srv, srvQueue, received, emitted, pinged>>

Live == client.readyState # "closed"
-----------------------------------------------------------------------------
(* Calls from above and timers.                                            *)

(* Manager._packet.                                                        *)
AppWrite ==
    /\ client.readyState = "open" /\ client.sent < MaxUp
    /\ client' = Write(client)
    /\ UNCHANGED <<server, down, link>>

(* Manager._close, and the Manager's timeout of an attempt to connect.     *)
AppClose ==
    /\ client.readyState \in {"opening", "open"}
    /\ client' = Close(client)
    /\ UNCHANGED <<server, down, link>>

PingTimeout ==
    /\ client.pingTimer
    /\ client' = OnClose(client)
    /\ UNCHANGED <<server, down, link>>

(* The timer of WS.write.                                                  *)
WebsocketDrain ==
    /\ client.wsTimers > 0
    /\ LET s == [client EXCEPT !.wsTimers = @ - 1, !.wsWritable = TRUE] IN
       client' = IF s.transport = "websocket" /\ Live THEN OnDrain(s) ELSE s
    /\ UNCHANGED <<server, down, link>>
-----------------------------------------------------------------------------
(* Answers of the server.                                                  *)

(* A GET is answered with what the server held when it answered; while the *)
(* websocket is probed also with a noop.                                   *)
PollAnswered ==
    /\ link = "up" /\ client.gets > 0 /\ srv # "closed"
    /\ \/ \E k \in 1 .. Len(srvQueue) :
             /\ client' = OnData(client, EncodePayload(SubSeq(srvQueue, 1, k)))
             /\ srvQueue' = SubSeq(srvQueue, k + 1, Len(srvQueue))
       \/ /\ srv \in {"upgrading", "upgraded"}
          /\ client' = OnData(client, EncodePayload(<<Packet("noop")>>))
          /\ UNCHANGED srvQueue
    /\ UNCHANGED <<srv, received, emitted, pinged, down, link>>

(* XHR.doPoll's error, of the network or of a server that has no such      *)
(* session.                                                                *)
PollFailed ==
    /\ client.gets > 0
    /\ client' = OnClose([client EXCEPT !.gets = @ - 1])
    /\ UNCHANGED <<server, down, link>>

(* A POST is answered: the callback of XHR.doWrite.                        *)
PostAnswered ==
    /\ link = "up"
    /\ \E i \in 1 .. Len(client.posts) :
          /\ client.posts[i].got
          /\ LET s == [client EXCEPT !.posts = RemoveAt(@, i), !.pollWritable = TRUE] IN
             client' = IF Live THEN PausedBy(OnDrain(s), "drain") ELSE s
    /\ UNCHANGED <<server, down, link>>

(* A POST fails, whether the server had it or not.                         *)
PostFailed ==
    /\ \E i \in 1 .. Len(client.posts) :
          client' = OnClose([client EXCEPT !.posts = RemoveAt(@, i)])
    /\ UNCHANGED <<server, down, link>>

(* The probe's websocket opens: onTransportOpen.                           *)
WebsocketOpen ==
    /\ link = "up" /\ client.wsState = "opening"
    /\ client' = WebsocketWrite([client EXCEPT !.wsState = "open", !.probe = "ping"],
                                <<ProbePacket("ping")>>)
    /\ UNCHANGED <<server, down, link>>

(* A frame arrives: the pong of the probe, or a packet for the socket.     *)
WebsocketMessage ==
    /\ link = "up" /\ client.wsState = "open" /\ down # <<>>
    /\ client' = IF client.probe = "ping" THEN ProbePong(client)
                 ELSE OnPacket(client, DecodePacket(Head(down)))
    /\ down' = Tail(down)
    /\ UNCHANGED <<server, link>>

(* The websocket closes or fails; the server gets a beginning of what was  *)
(* on its way, and the end of the connection.                              *)
WebsocketLost ==
    /\ client.wsState \in {"opening", "open"}
    /\ \E k \in 0 .. Len(client.up) :
          LET s == [client EXCEPT !.wsState = "closed",
                                  !.up = Append(SubSeq(@, 1, k), CloseFrame)]
          IN  client' = IF s.transport = "websocket" THEN OnClose(s)
                        ELSE EmitUpgrade(FreezeTransport(s))
    /\ down' = <<>>
    /\ UNCHANGED <<server, link>>
-----------------------------------------------------------------------------
(* The server.                                                             *)

ServerHandshake ==
    /\ link = "up" /\ srv = "none" /\ client.gets > 0
    /\ srv' = "open"
    /\ srvQueue' = <<Packet("open")>>
    /\ UNCHANGED <<client, received, emitted, pinged, down, link>>

ServerSend ==
    /\ srv \in {"open", "upgrading", "upgraded"}
    /\ emitted < MaxDown
    /\ emitted' = emitted + 1
    /\ srvQueue' = Append(srvQueue, Message(emitted'))
    /\ UNCHANGED <<client, srv, received, pinged, down, link>>

(* The next ping is sent some time after the pong of the last.             *)
ServerPing ==
    /\ srv \in {"open", "upgrading", "upgraded"} /\ ~pinged
    /\ pinged' = TRUE
    /\ srvQueue' = Append(srvQueue, Packet("ping"))
    /\ UNCHANGED <<client, srv, received, emitted, down, link>>

MessagesIn(packets) ==
    FoldLeft(LAMBDA found, p : IF p.type = "message" THEN Append(found, Number(p)) ELSE found,
             <<>>, packets)

(* Requests may reach the server in any order.                             *)
ServerPost ==
    /\ link = "up" /\ srv \in {"open", "upgrading"}
    /\ \E i \in 1 .. Len(client.posts) :
          LET packets == DecodePayload(client.posts[i].body) IN
          /\ ~client.posts[i].got
          /\ client' = [client EXCEPT !.posts[i].got = TRUE]
          /\ received' = received \o MessagesIn(packets)
          /\ srv' = IF ClosePacket \in ToSet(packets) THEN "closed" ELSE srv
          /\ pinged' = (pinged /\ Packet("pong") \notin ToSet(packets))
    /\ UNCHANGED <<srvQueue, emitted, down, link>>

(* A frame of the websocket: the probe, the upgrade, a packet, the end.    *)
ServerFrame ==
    /\ link = "up" /\ client.up # <<>>
    /\ LET frame == Head(client.up)
           probe == frame = EncodePacket(ProbePacket("ping"), TRUE)
           upgrade == frame = EncodePacket(Packet("upgrade"), TRUE)
       IN
       /\ client' = [client EXCEPT !.up = Tail(@)]
       /\ \/ /\ probe /\ srv = "open"
             /\ srv' = "upgrading"
             /\ down' = Append(down, EncodePacket(ProbePacket("pong"), TRUE))
             /\ srvQueue' = Append(srvQueue, Packet("noop"))
             /\ UNCHANGED <<received, pinged>>
          \/ /\ upgrade /\ srv = "upgrading"
             /\ srv' = "upgraded"
             /\ UNCHANGED <<down, srvQueue, received, pinged>>
          \/ /\ frame = CloseFrame
             /\ srv' = CASE srv = "upgrading" -> "open" [] srv = "upgraded" -> "closed"
                          [] OTHER -> srv
             /\ UNCHANGED <<down, srvQueue, received, pinged>>
          \/ /\ frame # CloseFrame /\ srv = "upgraded" /\ ~probe /\ ~upgrade
             /\ received' = received \o MessagesIn(<<DecodePacket(frame)>>)
             /\ pinged' = (pinged /\ DecodePacket(frame) # Packet("pong"))
             /\ UNCHANGED <<srv, down, srvQueue>>
          \/ /\ frame # CloseFrame /\ srv # "upgraded"
             /\ ~(probe /\ srv = "open") /\ ~(upgrade /\ srv = "upgrading")
             /\ UNCHANGED <<srv, down, srvQueue, received, pinged>>
    /\ UNCHANGED <<emitted, link>>

(* After the upgrade the server writes its queue to the websocket.         *)
ServerWrite ==
    /\ link = "up" /\ srv = "upgraded" /\ srvQueue # <<>> /\ client.wsState = "open"
    /\ down' = Append(down, EncodePacket(Head(srvQueue), TRUE))
    /\ srvQueue' = Tail(srvQueue)
    /\ UNCHANGED <<client, srv, received, emitted, pinged, link>>

(* The server ends the session: with a close packet in the answer to a     *)
(* poll, or by being gone.                                                 *)
ServerClose ==
    /\ srv \in {"open", "upgrading", "upgraded"}
    /\ srv' = "closed" /\ srvQueue' = <<>>
    /\ client' = IF link = "up" /\ client.gets > 0 THEN OnData(client, EncodePayload(<<ClosePacket>>))
                 ELSE client
    /\ UNCHANGED <<received, emitted, pinged, down, link>>

(* From some moment nothing gets through and nobody is told.               *)
LinkDown == link = "up" /\ link' = "down" /\ UNCHANGED <<client, server, down>>
-----------------------------------------------------------------------------
Next ==
    \/ AppWrite \/ AppClose \/ PingTimeout \/ WebsocketDrain
    \/ PollAnswered \/ PollFailed \/ PostAnswered \/ PostFailed
    \/ WebsocketOpen \/ WebsocketMessage \/ WebsocketLost
    \/ ServerHandshake \/ ServerSend \/ ServerPing \/ ServerPost \/ ServerFrame
    \/ ServerWrite \/ ServerClose \/ LinkDown

Spec == Init /\ [][Next]_vars
-----------------------------------------------------------------------------
TypeOK ==
    /\ client.readyState \in {"opening", "open", "closing", "closed"}
    /\ client.transport \in {"polling", "websocket"}
    /\ client.probe \in {"none", "opening", "ping", "pausing", "done", "failed"}
    /\ client.pollState \in {"opening", "open", "pausing", "paused", "closed"}
    /\ client.wsState \in {"none", "opening", "open", "closed"}
    /\ client.closeWait \in {"no", "drain", "upgrade"}
    /\ client.gets \in 0 .. 1 /\ client.wsTimers \in Nat
    /\ client.prevBufferLen \in 0 .. Len(client.writeBuffer)
    /\ srv \in {"none", "open", "upgrading", "upgraded", "closed"}

(* The socket never sends on a transport that is opening, pausing, paused  *)
(* or closed: Transport.send would throw out of whatever called it.        *)
SendFindsOpenTransport == ~client.sendThrew

(* While the polling transport is the one in use the client has a GET at   *)
(* the server, or it would hear nothing, pings included.  A listener that  *)
(* throws is the one thing that ends it.                                   *)
AlwaysPolling ==
    /\ Live /\ client.transport = "polling"
    /\ client.pollState \in {"opening", "open"} /\ ~client.threw
    => client.gets = 1

(* Nothing is forgotten: while something waits in the buffer, or close()   *)
(* waits for the buffer or for an upgrade, an event is to come that will   *)
(* look at it again: the answer to a POST, the timer of the websocket, or, *)
(* during an upgrade, the ping timer, which is what ends an upgrade whose  *)
(* websocket fails while pause waits.                                      *)
NoLostWakeup ==
    Live /\ (client.writeBuffer # <<>> \/ client.readyState = "closing")
    => \/ client.posts # <<>>
       \/ client.wsTimers > 0
       \/ client.upgrading /\ client.pingTimer

(* The websocket takes over when nothing of the polling transport is under *)
(* way any more.                                                           *)
SwitchIsQuiet ==
    [][client'.transport # client.transport
          => client'.gets = 0 /\ client'.posts = <<>>]_vars

Up == INSTANCE Channel WITH sent <- client.sent, delivered <- received
Down == INSTANCE Channel WITH sent <- emitted, delivered <- client.heard

(* Over polling, the upgrade and the websocket, whatever is lost: the      *)
(* server gets a beginning of what the client wrote, in order, once.       *)
DeliversUp == Up!Spec

(* And the listeners a beginning of what the server sent, also when one of *)
(* them throws in the middle of a payload.                                 *)
DeliversDown == Down!Spec
=============================================================================
