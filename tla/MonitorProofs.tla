---------------------------- MODULE MonitorProofs ----------------------------
(* That a run can always be stopped, for any number of pages, clicks,      *)
(* spills and lost connections.  The invariant says what the pages may     *)
(* send, since a handler is chosen by the event.                           *)
EXTENDS Monitor, TLAPS

States == {"Disconnected", "Connected", "Running", "Paused", "Stopped"}
Toggles == {"autopilot_enable", "autopilot_disable"}
Events == Buttons \cup Toggles \cup {"spill_start", "spill_end"}

Status == [event : Events \cup {"update"}, enabled : SUBSET Buttons, autopilot : BOOLEAN]

Client == [state : States, connected : BOOLEAN, spill : BOOLEAN, autopilot : BOOLEAN,
           autorestart : BOOLEAN, timer : 0 .. (RunLength + 1),
           enabled : SUBSET Buttons, hung : BOOLEAN]

Page == [enabled : SUBSET Buttons, pilotReady : BOOLEAN, pilot : Toggles,
         online : BOOLEAN, buffer : Seq(Events)]

Doing == [daq : Client, out : Seq(Status)]

(* What holds of a client.                                                 *)
ClientOK(d) ==
    /\ d.connected => d.state # "Disconnected"
    /\ d.hung => d.spill
    /\ d.state \in {"Running", "Paused"} /\ ~d.autopilot => "stop" \in d.enabled

IInv ==
    /\ daq \in Client /\ ClientOK(daq)
    /\ page \in [Pages -> Page]
    /\ up \in [Pages -> Seq(Events)]
    /\ down \in [Pages -> Seq(Status)]
-----------------------------------------------------------------------------
Good(s) == s \in Doing /\ ClientOK(s.daq)

(* A state that the client may be in before it responds to an event: its   *)
(* run may still lack the button that the response will give it.           *)
Ready(s, event) ==
    /\ s \in Doing
    /\ s.daq.connected => s.daq.state # "Disconnected"
    /\ ~s.daq.hung
    /\ s.daq.state \in {"Running", "Paused"} /\ ~s.daq.autopilot
          => \/ event \in {"start", "pause"}
             \/ "stop" \in s.daq.enabled /\ event \in {"spill_start", "spill_end"}

(* What emitting adds to what a handler has put out so far.                *)
LEMMA EmitsAppends ==
    ASSUME NEW d, NEW o, NEW event
    PROVE  Emits([daq |-> d, out |-> o], event) =
              [daq |-> d, out |-> Append(o, [event |-> event, enabled |-> d.enabled,
                                             autopilot |-> d.autopilot])]
<1> DEFINE m == [event |-> event, enabled |-> d.enabled, autopilot |-> d.autopilot]
<1>1. Emits([daq |-> d, out |-> o], event) = [[daq |-> d, out |-> o] EXCEPT !.out = Append(o, m)]
  BY DEF Emits
<1> HIDE DEF m
<1>2. [[daq |-> d, out |-> o] EXCEPT !.out = Append(o, m)] = [daq |-> d, out |-> Append(o, m)]
  OBVIOUS
<1> QED
  BY <1>1, <1>2 DEF m

(* The response gives a run without the autopilot its button.              *)
LEMMA RespondGood ==
    ASSUME NEW event \in Events, NEW s, Ready(s, event)
    PROVE  Good(respond(s, event)) /\ ~respond(s, event).daq.hung
<1> DEFINE d == s.daq
           e == update_button_status(d, event)
<1>1. d \in Client /\ s \in Doing
  BY DEF Ready, Doing
<1>2. Enabled(d, event) \in SUBSET Buttons
  BY <1>1 DEF Client, Enabled, Buttons
<1>3. d.state \in {"Running", "Paused"} /\ ~d.autopilot => "stop" \in Enabled(d, event)
  BY <1>1 DEF Ready, Enabled, Client
<1>4. e \in Client /\ ClientOK(e) /\ ~e.hung
  BY <1>1, <1>2, <1>3 DEF update_button_status, Client, ClientOK, Ready
<1>5. [event |-> event, enabled |-> e.enabled, autopilot |-> e.autopilot] \in Status
  BY <1>4 DEF Status, Client
<1>6. respond(s, event) =
         [daq |-> e, out |-> Append(s.out, [event |-> event, enabled |-> e.enabled,
                                            autopilot |-> e.autopilot])]
  <2>1. [s EXCEPT !.daq = e] = [daq |-> e, out |-> s.out]
    BY <1>1 DEF Doing
  <2>2. respond(s, event) = Emits([daq |-> e, out |-> s.out], event)
    BY <2>1 DEF respond
  <2> QED
    BY <2>2, EmitsAppends
<1> QED
  BY <1>1, <1>4, <1>5, <1>6 DEF Good, Doing

(* A handler that waits for the spill hangs, or goes on when there is none.*)
LEMMA WaitGood ==
    ASSUME NEW s, Good(s), ~s.daq.hung, NEW then
    PROVE  \/ wait(s, then) = then /\ ~(WaitForSpill /\ s.daq.spill)
           \/ Good(wait(s, then)) /\ wait(s, then).daq.hung
  BY DEF wait, Good, Doing, Client, ClientOK

(* Every handler, with the response it ends in, keeps a run stoppable.     *)
LEMMA HandleGood ==
    ASSUME NEW event \in Events, NEW s, Good(s), ~s.daq.hung
    PROVE  Good(Handle(s, event))
<1>1. s \in Doing /\ s.daq \in Client /\ ClientOK(s.daq)
  BY DEF Good, Doing
<1>2. CASE event = "connect_backend"
  <2>1. Ready(connect_backend(s), event)
    BY <1>1, <1>2 DEF Ready, connect_backend, Doing, Client, States
  <2> QED
    BY <2>1, <1>2, RespondGood DEF Handle, Responded, Ready
<1>3. CASE event = "start"
  <2>1. Ready(start(s), event)
    BY <1>1, <1>3 DEF Ready, start, Doing, Client, States
  <2> QED
    BY <2>1, <1>3, RespondGood DEF Handle, Responded, Ready
<1>4. CASE event \in {"stop", "pause", "reset"}
  <2> DEFINE v == CASE event = "stop" -> "Stopped" [] event = "pause" -> "Paused"
                    [] event = "reset" -> "Connected"
             t == [s EXCEPT !.daq.state = v]
  <2>1. Handle(s, event) = Responded(wait(s, t), event)
    BY <1>4 DEF Handle, stop, pause, reset
  <2>2. CASE WaitForSpill /\ s.daq.spill
    BY <2>1, <2>2, WaitGood DEF Responded, wait
  <2>3. CASE ~(WaitForSpill /\ s.daq.spill)
    <3>1. Ready(t, event)
      BY <1>1, <1>4 DEF Ready, Doing, Client, States
    <3> QED
      BY <2>1, <2>3, <3>1, RespondGood DEF Responded, Ready, wait
  <2> QED
    BY <2>2, <2>3
<1>5. CASE event = "autopilot_enable"
  <2> DEFINE on == [s EXCEPT !.daq.autopilot = TRUE]
  <2>1. Handle(s, event) = autopilot_start(s)
    BY <1>5 DEF Handle
  <2>2. Good(on) /\ ~on.daq.hung /\ on.daq.autopilot
    BY <1>1 DEF Good, Doing, Client, ClientOK
  <2>3. Ready(on, event)
    BY <2>2, <1>5 DEF Good, Ready, ClientOK
  <2>4. Ready(start(on), "start")
    BY <2>2 DEF Good, Ready, ClientOK, start, Doing, Client, States
  <2>5. /\ Good(respond(start(on), "start")) /\ ~respond(start(on), "start").daq.hung
        /\ respond(start(on), "start").daq.autopilot
    <3>1. "start" \in Events
      BY DEF Events, Buttons
    <3>2. respond(start(on), "start").daq.autopilot = on.daq.autopilot
      BY <2>2 DEF Good, respond, Emits, update_button_status, start, Doing, Client
    <3> QED
      BY <3>1, <3>2, <2>2, <2>4, RespondGood
  <2>6. Ready(respond(start(on), "start"), event)
    BY <2>5, <1>5 DEF Good, Ready, ClientOK
  <2> QED
    BY <2>1, <2>2, <2>3, <2>6, <1>5, RespondGood DEF autopilot_start
<1>6. CASE event = "autopilot_disable"
  <2> DEFINE off == [(IF s.daq.state \in {"Running", "Paused"} THEN stop(s) ELSE s)
                        EXCEPT !.daq.autopilot = FALSE]
  <2>1. Handle(s, event) = Responded(wait(s, off), event)
    BY <1>6 DEF Handle, autopilot_stop
  <2>2. CASE WaitForSpill /\ s.daq.spill
    BY <2>1, <2>2, WaitGood DEF Responded, wait
  <2>3. CASE ~(WaitForSpill /\ s.daq.spill)
    <3>1. Ready(off, event)
      <4>1. CASE s.daq.state \in {"Running", "Paused"}
        <5> DEFINE t == [s EXCEPT !.daq = [@ EXCEPT !.state = "Stopped", !.autopilot = FALSE]]
        <5>1. off = t
          BY <4>1, <2>3, <1>1 DEF stop, wait, Doing, Client
        <5>2. Ready(t, event)
          BY <1>1, <4>1 DEF Ready, Doing, Client, States
        <5> HIDE DEF t, off
        <5> QED
          BY <5>1, <5>2
      <4>2. CASE s.daq.state \notin {"Running", "Paused"}
        BY <4>2, <1>1 DEF Ready, Doing, Client, ClientOK
      <4> QED
        BY <4>1, <4>2
    <3> QED
      BY <2>1, <2>3, <3>1, <1>6, RespondGood DEF Responded, Ready, wait
  <2> QED
    BY <2>2, <2>3
<1>7. CASE event \in {"spill_start", "spill_end"}
  <2> DEFINE t == [s EXCEPT !.daq.spill = (event = "spill_start")]
  <2>1. Handle(s, event) = Responded(t, event)
    BY <1>7 DEF Handle
  <2>2. Ready(t, event)
    BY <1>1, <1>7 DEF Ready, Doing, Client, ClientOK
  <2> QED
    BY <2>1, <2>2, RespondGood DEF Responded, Ready
<1> QED
  BY <1>2, <1>3, <1>4, <1>5, <1>6, <1>7 DEF Events, Buttons, Toggles

(* A pass of the background task.                                          *)
LEMMA BackgroundGood ==
    ASSUME NEW s, Good(s), ~s.daq.hung
    PROVE  Good(background_task(s))
<1> DEFINE t == [s EXCEPT !.daq.timer = IF @ > RunLength THEN @ ELSE @ + 1]
<1>1. Good(t) /\ ~t.daq.hung
  BY MonitorAssumption DEF Good, Doing, Client, ClientOK, MonitorAssumption
<1>2. ASSUME NEW u, Good(u), ~u.daq.hung  PROVE Good(update(u))
  <2>1. u = [daq |-> u.daq, out |-> u.out] /\ u.daq \in Client /\ u.out \in Seq(Status)
    BY <1>2 DEF Good, Doing
  <2>2. [event |-> "update", enabled |-> u.daq.enabled, autopilot |-> u.daq.autopilot] \in Status
    BY <2>1 DEF Status, Client
  <2>3. update(u) = [daq |-> u.daq, out |-> Append(u.out, [event |-> "update",
                        enabled |-> u.daq.enabled, autopilot |-> u.daq.autopilot])]
    BY <2>1, EmitsAppends DEF update
  <2> QED
    BY <1>2, <2>1, <2>2, <2>3 DEF Good, Doing
<1>0. ASSUME NEW u, Good(u)  PROVE Good([u EXCEPT !.daq.timer = 0])
  <2>1. 0 \in 0 .. (RunLength + 1)
    BY MonitorAssumption DEF MonitorAssumption
  <2> QED
    BY <1>0, <2>1 DEF Good, Doing, Client, ClientOK
<1>3. ASSUME t.daq.autopilot  PROVE Good([autopilot_restart(t) EXCEPT !.daq.timer = 0])
  <2>1. CASE WaitForSpill /\ t.daq.spill
    <3>1. autopilot_restart(t) = [t EXCEPT !.daq.hung = TRUE]
      BY <2>1 DEF autopilot_restart, wait
    <3>2. Good([t EXCEPT !.daq.hung = TRUE])
      <4> HIDE DEF t
      <4> QED
        BY <2>1, <1>1 DEF Good, Doing, Client, ClientOK
    <3> QED
      BY <3>1, <3>2, <1>0
  <2>2. CASE ~(WaitForSpill /\ t.daq.spill)
    <3>1. autopilot_restart(t) = [[t EXCEPT !.daq.state = "Stopped"] EXCEPT !.daq.state = "Running"]
      BY <2>2 DEF autopilot_restart, wait, stop, start
    <3>2. Good([[t EXCEPT !.daq.state = "Stopped"] EXCEPT !.daq.state = "Running"])
      <4> HIDE DEF t
      <4>1. /\ Good([t EXCEPT !.daq.state = "Stopped"])
            /\ [t EXCEPT !.daq.state = "Stopped"].daq.autopilot
        BY <1>1, <1>3 DEF Good, Doing, Client, ClientOK, States
      <4> QED
        BY <4>1 DEF Good, Doing, Client, ClientOK, States
    <3> QED
      BY <3>1, <3>2, <1>0
  <2> QED
    BY <2>1, <2>2
<1>4. Good(autopilot_stop(t))
  <2> HIDE DEF t
  <2>1. CASE WaitForSpill /\ t.daq.spill
    BY <2>1, <1>1 DEF autopilot_stop, wait, Good, Doing, Client, ClientOK
  <2>2. CASE ~(WaitForSpill /\ t.daq.spill)
    <3>1. CASE t.daq.state \in {"Running", "Paused"}
      <4>1. autopilot_stop(t) = [[t EXCEPT !.daq.state = "Stopped"] EXCEPT !.daq.autopilot = FALSE]
        BY <2>2, <3>1 DEF autopilot_stop, wait, stop
      <4>2. Good([[t EXCEPT !.daq.state = "Stopped"] EXCEPT !.daq.autopilot = FALSE])
        BY <1>1 DEF Good, Doing, Client, ClientOK, States
      <4> QED
        BY <4>1, <4>2
    <3>2. CASE t.daq.state \notin {"Running", "Paused"}
      <4>1. autopilot_stop(t) = [t EXCEPT !.daq.autopilot = FALSE]
        BY <2>2, <3>2 DEF autopilot_stop, wait
      <4>2. Good([t EXCEPT !.daq.autopilot = FALSE])
        BY <1>1, <3>2 DEF Good, Doing, Client, ClientOK, States
      <4> QED
        BY <4>1, <4>2
    <3> QED
      BY <3>1, <3>2
  <2> QED
    BY <2>1, <2>2
<1> DEFINE late == t.daq.timer > RunLength
           e == CASE ~s.daq.autopilot -> s
                  [] s.daq.autopilot /\ ~late -> t
                  [] s.daq.autopilot /\ late /\ s.daq.autorestart ->
                         [autopilot_restart(t) EXCEPT !.daq.timer = 0]
                  [] s.daq.autopilot /\ late /\ ~s.daq.autorestart -> autopilot_stop(t)
<1>5. t.daq.autopilot = s.daq.autopilot /\ s.daq.autopilot \in BOOLEAN /\ s.daq.autorestart \in BOOLEAN
  BY DEF Good, Doing, Client
<1>6. Good(e)
  <2> HIDE DEF t, late
  <2> QED
    BY <1>1, <1>3, <1>4, <1>5
<1>7. background_task(s) = IF e.daq.hung THEN e ELSE update(e)
  BY DEF background_task
<1> HIDE DEF e
<1> QED
  BY <1>2, <1>6, <1>7
-----------------------------------------------------------------------------
(* And so does the step of the server that runs it: what it put out is on  *)
(* the way to every page.                                                  *)
LEMMA ServerStepGood ==
    ASSUME NEW s, Good(s), IInv, ServerStep(s)
    PROVE  daq' \in Client /\ ClientOK(daq)' /\ down' \in [Pages -> Seq(Status)]
<1>1. s.daq \in Client /\ ClientOK(s.daq) /\ s.out \in Seq(Status)
  BY DEF Good, Doing
<1>2. \A p \in Pages : down[p] \in Seq(Status) /\ down[p] \o s.out \in Seq(Status)
  BY <1>1 DEF IInv
<1> QED
  BY <1>1, <1>2 DEF ServerStep, ClientOK

(* The invariant holds when the server starts.                             *)
LEMMA InitIInv == Init => IInv
<1> SUFFICES ASSUME Init PROVE IInv
  OBVIOUS
<1>1. daq \in Client /\ ClientOK(daq)
  BY MonitorAssumption DEF Init, Client, ClientOK, States, Buttons, MonitorAssumption
<1>2. Loaded(TRUE) \in Page
  BY DEF Loaded, Page, Toggles, Buttons
<1>3. <<>> \in Seq(Events) /\ <<>> \in Seq(Status)
  OBVIOUS
<1>4. /\ page = [p \in Pages |-> Loaded(TRUE)]
      /\ up = [p \in Pages |-> <<>>] /\ down = [p \in Pages |-> <<>>]
  BY DEF Init
<1> QED
  BY <1>1, <1>2, <1>3, <1>4 DEF IInv

(* One step per action of Next.                                            *)
LEMMA NextIInv == IInv /\ [Next]_vars => IInv'
<1> SUFFICES ASSUME IInv, [Next]_vars PROVE IInv'
  OBVIOUS
<1> DEFINE s0 == [daq |-> daq, out |-> <<>>]
<1>1. Good(s0) /\ s0.daq = daq
  BY DEF IInv, Good, Doing
<1>2. ASSUME Spill  PROVE IInv'
  <2> DEFINE event == IF daq.spill THEN "spill_end" ELSE "spill_start"
  <2>1. event \in Events /\ ~daq.hung
    BY <1>2 DEF Spill, Idle, Events
  <2>2. ServerStep(Handle(s0, event)) /\ UNCHANGED <<page, up>>
    BY <1>2 DEF Spill
  <2> HIDE DEF s0, event
  <2>3. Good(Handle(s0, event))
    BY <1>1, <2>1, HandleGood
  <2> QED
    BY <2>2, <2>3, ServerStepGood DEF IInv
<1>3. ASSUME BackgroundTask  PROVE IInv'
  <2>1. ~daq.hung /\ ServerStep(background_task(s0)) /\ UNCHANGED <<page, up>>
    BY <1>3 DEF BackgroundTask, Idle
  <2> HIDE DEF s0
  <2>2. Good(background_task(s0))
    BY <1>1, <2>1, BackgroundGood
  <2> QED
    BY <2>1, <2>2, ServerStepGood DEF IInv
<1>4. ASSUME NEW p \in Pages, HandleEvent(p)  PROVE IInv'
  <2>1. ~daq.hung /\ up[p] \in Seq(Events) /\ up[p] # <<>> /\ UNCHANGED page
    BY <1>4 DEF HandleEvent, Idle, IInv
  <2>2. Head(up[p]) \in Events /\ Tail(up[p]) \in Seq(Events)
    BY <2>1
  <2>3. ServerStep(Handle(s0, Head(up[p]))) /\ up' = [up EXCEPT ![p] = Tail(@)]
    BY <1>4 DEF HandleEvent
  <2>4. up' \in [Pages -> Seq(Events)]
    BY <2>2, <2>3 DEF IInv
  <2> HIDE DEF s0
  <2>5. Good(Handle(s0, Head(up[p])))
    BY <1>1, <2>1, <2>2, HandleGood
  <2> QED
    BY <2>1, <2>3, <2>4, <2>5, ServerStepGood DEF IInv
<1>5. ASSUME NEW p \in Pages, Click(p)  PROVE IInv'
  <2> DEFINE clicked(event) == Clicked(page[p], event)
             kept(event) == [clicked(event) EXCEPT !.buffer = Append(@, event)]
  <2>1. PICK event \in Clickable(page[p]) :
           \/ /\ page' = [page EXCEPT ![p] = clicked(event)]
              /\ up' = [up EXCEPT ![p] = Append(@, event)]
           \/ /\ page' = [page EXCEPT ![p] = kept(event)]
              /\ up' = up
    BY <1>5 DEF Click
  <2>2. page[p] \in Page /\ event \in Events
    BY <2>1 DEF IInv, Clickable, Page, Events
  <2>3. clicked(event) \in Page
    BY <2>2 DEF Clicked, update_autopilot_button, Page, Toggles
  <2>4. kept(event) \in Page
    <3>1. \A u \in Page, b \in Seq(Events) : [u EXCEPT !.buffer = b] \in Page
      BY DEF Page
    <3>2. Append(clicked(event).buffer, event) \in Seq(Events)
      BY <2>2, <2>3 DEF Page
    <3> QED
      BY <2>3, <3>1, <3>2
  <2>5. page' \in [Pages -> Page] /\ up' \in [Pages -> Seq(Events)]
    <3>1. up[p] \in Seq(Events) /\ Append(up[p], event) \in Seq(Events)
      BY <2>2 DEF IInv
    <3>2. up' \in [Pages -> Seq(Events)]
      BY <2>1, <3>1 DEF IInv
    <3>3. page' \in [Pages -> Page]
      <4> HIDE DEF clicked, kept
      <4> QED
        BY <2>1, <2>3, <2>4 DEF IInv
    <3> QED
      BY <3>2, <3>3
  <2> QED
    BY <1>5, <2>5 DEF Click, IInv, ClientOK
<1>6. ASSUME NEW p \in Pages, PageReceives(p)  PROVE IInv'
  <2>1. /\ page[p] \in Page /\ down[p] \in Seq(Status) /\ down[p] # <<>>
        /\ UNCHANGED <<daq, up>> /\ down' = [down EXCEPT ![p] = Tail(@)]
    BY <1>6 DEF PageReceives, IInv
  <2> DEFINE msg == Head(down[p])
  <2>2. msg \in Status /\ Tail(down[p]) \in Seq(Status)
    BY <2>1
  <2> HIDE DEF msg
  <2>3. OnUpdate(page[p], msg) \in Page /\ OnResponse(page[p], msg) \in Page
    BY <2>1, <2>2 DEF OnUpdate, OnResponse, update_buttons, update_autopilot_button,
                      Page, Status, Toggles
  <2>4. page' \in [Pages -> Page] /\ down' \in [Pages -> Seq(Status)]
    <3>1. page' = [page EXCEPT ![p] = IF msg.event = "update" THEN OnUpdate(@, msg)
                                      ELSE OnResponse(@, msg)]
      BY <1>6 DEF PageReceives, msg
    <3> QED
      BY <2>1, <2>2, <2>3, <3>1 DEF IInv
  <2> QED
    BY <2>1, <2>4 DEF IInv, ClientOK
<1>7. ASSUME NEW p \in Pages, ConnectionLost(p)  PROVE IInv'
  <2>1. PICK kept \in 0 .. Len(up[p]) : up' = [up EXCEPT ![p] = SubSeq(@, 1, kept)]
    BY <1>7 DEF ConnectionLost
  <2>2. up[p] \in Seq(Events) /\ page[p] \in Page
    BY DEF IInv
  <2>3. SubSeq(up[p], 1, kept) \in Seq(Events)
    BY <2>1, <2>2
  <2>4. Loaded(FALSE) \in Page /\ [page[p] EXCEPT !.online = FALSE] \in Page
    <3>1. <<>> \in Seq(Events)
      OBVIOUS
    <3>2. Loaded(FALSE) \in Page
      BY <3>1 DEF Loaded, Page, Toggles, Buttons
    <3> QED
      BY <2>2, <3>2 DEF Page
  <2>5. <<>> \in Seq(Status)
    OBVIOUS
  <2>6. /\ up' \in [Pages -> Seq(Events)] /\ page' \in [Pages -> Page]
        /\ down' \in [Pages -> Seq(Status)] /\ UNCHANGED daq
    BY <1>7, <2>1, <2>3, <2>4, <2>5 DEF ConnectionLost, IInv
  <2> QED
    BY <2>6 DEF IInv, ClientOK
<1>8. ASSUME NEW p \in Pages, Reconnected(p)  PROVE IInv'
  <2>1. up[p] \in Seq(Events) /\ page[p] \in Page /\ page[p].buffer \in Seq(Events)
    BY DEF IInv, Page
  <2>2. up[p] \o page[p].buffer \in Seq(Events)
    BY <2>1
  <2>3. <<>> \in Seq(Events)
    OBVIOUS
  <2>4. [[page[p] EXCEPT !.online = TRUE] EXCEPT !.buffer = <<>>] \in Page
    BY <2>1, <2>3 DEF Page
  <2>5. /\ up' \in [Pages -> Seq(Events)] /\ page' \in [Pages -> Page]
        /\ UNCHANGED <<daq, down>>
    BY <1>8, <2>1, <2>2, <2>3, <2>4 DEF Reconnected, IInv, Page
  <2> QED
    BY <2>5 DEF IInv, ClientOK
<1>9. CASE UNCHANGED vars
  BY <1>9 DEF vars, IInv, ClientOK
<1> QED
  BY <1>2, <1>3, <1>4, <1>5, <1>6, <1>7, <1>8, <1>9 DEF Next

(* Types, what pages and queues may hold, and that a run can be stopped,   *)
(* together: none of them is inductive alone (Client.py, WebClient.py,     *)
(* main.js).                                                               *)
THEOREM Invariance == Spec => []IInv
  BY InitIInv, NextIInv, PTL DEF Spec
-----------------------------------------------------------------------------
(* Client and pages keep their types; a handler hangs in a spill only      *)
(* (Monitor's TypeOK).                                                     *)
THEOREM TypeCorrect == Spec => []TypeOK
<1>1. IInv => TypeOK
  BY DEF IInv, TypeOK, Client, ClientOK, States, Page, Buttons
<1> QED
  BY <1>1, Invariance, PTL

(* Whatever any number of operators click, a run that the autopilot does   *)
(* not have can be stopped (Monitor's RunCanBeStopped, WebClient.py        *)
(* 180-219 with Client.py 338-350).                                        *)
THEOREM RunsCanBeStopped == Spec => []RunCanBeStopped
<1>1. IInv => RunCanBeStopped
  BY DEF IInv, ClientOK, RunCanBeStopped
<1> QED
  BY <1>1, Invariance, PTL
=============================================================================
