------------------------------ MODULE Monitor ------------------------------
(* Run control: the DAQ client with its web server, and the pages in       *)
(* browsers that show its buttons and send their clicks.                   *)
(*                                                                         *)
(* The server runs event handlers and the background task as green threads *)
(* that only a socketio.sleep interrupts: a handler is one action, and one *)
(* pass of the background task.  time.sleep interrupts nothing: a handler  *)
(* that waits for the end of a spill keeps the process, and with it the    *)
(* event that would end the spill.                                         *)
(*                                                                         *)
(* A page is what SocketIO shows of it: clicks arrive once and in order,   *)
(* those of a lost connection up to some point, those made while there is  *)
(* none when there is one again.  Run numbers, logs, the graph and the     *)
(* fields of the autopilot's form are left out; the backend is the generic *)
(* one of run.py, which has no preparation events.                         *)
EXTENDS Naturals, Sequences

CONSTANTS Pages,         \* pages that are open
          WaitForSpill,  \* wait_for_spill of config.yaml
          RunLength,     \* passes of the background task in a run of the autopilot
          MaxClicks,     \* clicks in all (bound)
          MaxTroubles,   \* spills, lost connections and reloads in all (bound)
          MaxQueue       \* statuses on the way to a page (bound)

ASSUME MonitorAssumption ==
    /\ WaitForSpill \in BOOLEAN
    /\ RunLength \in Nat \ {0} /\ MaxQueue \in Nat \ {0}
    /\ MaxClicks \in Nat /\ MaxTroubles \in Nat

VARIABLES daq,     \* the client
          page,    \* per page: what its buttons do
          up,      \* per page: events on the way to the server
          down,    \* per page: responses and updates on the way to it
          spent    \* how much of each bound is used up

vars == <<daq, page, up, down, spent>>

Buttons == {"connect_backend", "start", "pause", "stop", "reset"}
-----------------------------------------------------------------------------
(* The client.  A handler maps s = [daq, out], where out is what it has    *)
(* emitted to all pages.                                                   *)

Enabled(d, event) ==
    CASE event = "reset" -> {"start", "reset"}
      [] event # "reset" /\ (event = "autopilot_enable" \/ d.autopilot) -> {}
      [] event = "autopilot_disable" /\ ~d.autopilot -> d.enabled \cup {"start"}
      [] event = "connect_backend" /\ ~d.autopilot -> {"reset", "start"}
      [] event = "start" /\ ~d.autopilot -> {"reset", "pause", "stop"}
      [] event = "pause" /\ ~d.autopilot -> {"reset", "start", "stop"}
      [] event = "stop" /\ ~d.autopilot -> {"reset", "start"}
      [] OTHER -> d.enabled

(* WebClient.update_button_status.                                         *)
update_button_status(d, event) == [d EXCEPT !.enabled = Enabled(d, event)]

(* WebClient.status and emit.                                              *)
Emits(s, event) ==
    [s EXCEPT !.out = Append(@, [event |-> event, enabled |-> s.daq.enabled,
                                 autopilot |-> s.daq.autopilot])]

(* WebClient.respond and update.                                           *)
respond(s, event) == Emits([s EXCEPT !.daq = update_button_status(@, event)], event)
update(s) == Emits(s, "update")

(* Client.wait: a loop that nothing can end, or nothing.                   *)
wait(s, then) == IF WaitForSpill /\ s.daq.spill THEN [s EXCEPT !.daq.hung = TRUE] ELSE then

connect_backend(s) == [s EXCEPT !.daq.state = "Connected", !.daq.connected = TRUE]
start(s) == [s EXCEPT !.daq.state = "Running"]
stop(s) == wait(s, [s EXCEPT !.daq.state = "Stopped"])
pause(s) == wait(s, [s EXCEPT !.daq.state = "Paused"])

(* Mistake: a reset says that the client is not connected.                 *)
reset_forgets_backend(s) == wait(s, [s EXCEPT !.daq.state = "Disconnected"])
reset(s) == wait(s, [s EXCEPT !.daq.state = "Connected"])

(* The wrapper of set_event_handler: the handler, then the response.       *)
Responded(s, event) == IF s.daq.hung THEN s ELSE respond(s, event)

(* Client.autopilot_start and the wrapper.  Without automatic restart the  *)
(* formatting of the log entry throws an exception, and there is neither a *)
(* start nor a response.                                                   *)
autopilot_start(s) ==
    LET on == [s EXCEPT !.daq.autopilot = TRUE] IN
    IF ~s.daq.autorestart THEN on
    ELSE respond(IF s.daq.state = "Running" THEN on ELSE respond(start(on), "start"),
                 "autopilot_enable")

(* Mistake: the flag is cleared before the wait.                           *)
autopilot_stop_flag_first(s) ==
    LET off == [s EXCEPT !.daq.autopilot = FALSE] IN
    wait(off, IF s.daq.state \in {"Running", "Paused"} THEN stop(off) ELSE off)

(* Client.autopilot_stop.                                                  *)
autopilot_stop(s) ==
    wait(s, [(IF s.daq.state \in {"Running", "Paused"} THEN stop(s) ELSE s)
                EXCEPT !.daq.autopilot = FALSE])

(* Client.autopilot_restart.                                               *)
autopilot_restart(s) == wait(s, start(stop(s)))

(* What an event does.                                                     *)
Handle(s, event) ==
    CASE event = "connect_backend" -> Responded(connect_backend(s), event)
      [] event = "start" -> Responded(start(s), event)
      [] event = "stop" -> Responded(stop(s), event)
      [] event = "pause" -> Responded(pause(s), event)
      [] event = "reset" -> Responded(reset(s), event)
      [] event = "autopilot_enable" -> autopilot_start(s)
      [] event = "autopilot_disable" -> Responded(autopilot_stop(s), event)
      [] event = "spill_start" -> Responded([s EXCEPT !.daq.spill = TRUE], event)
      [] event = "spill_end" -> Responded([s EXCEPT !.daq.spill = FALSE], event)

(* Mistake: the timer starts anew at each pass.                            *)
background_task_timer_in_loop(s) ==
    update([s EXCEPT !.daq.timer = IF s.daq.autopilot THEN 1 ELSE 0])

(* One pass of Client.background_task.  Its timer counts while the         *)
(* autopilot is on; only a restart sets it back.                           *)
background_task(s) ==
    LET t == [s EXCEPT !.daq.timer = IF @ > RunLength THEN @ ELSE @ + 1]
        late == t.daq.timer > RunLength
        e == CASE ~s.daq.autopilot -> s
               [] s.daq.autopilot /\ ~late -> t
               [] s.daq.autopilot /\ late /\ s.daq.autorestart ->
                      [autopilot_restart(t) EXCEPT !.daq.timer = 0]
               [] s.daq.autopilot /\ late /\ ~s.daq.autorestart -> autopilot_stop(t)
    IN  IF e.daq.hung THEN e ELSE update(e)
-----------------------------------------------------------------------------
(* A page.                                                                 *)

(* monitor.html as it is loaded.                                           *)
Loaded(online) ==
    [enabled |-> {"connect_backend"}, pilotReady |-> FALSE, pilot |-> "autopilot_enable",
     online |-> online, buffer |-> <<>>]

(* Mistake: a button that was disabled by a click is not enabled again.    *)
update_buttons_disable_only(pg, status) == [pg EXCEPT !.enabled = @ \cap status.enabled]

update_buttons(pg, status) == [pg EXCEPT !.enabled = status.enabled]

update_autopilot_button(pg, on) ==
    [pg EXCEPT !.pilot = IF on THEN "autopilot_disable" ELSE "autopilot_enable"]

(* The listener of "response".  An event that has no element on the page   *)
(* throws an exception before anything is done.                            *)
OnResponse(pg, msg) == IF msg.event \in Buttons THEN update_buttons(pg, msg) ELSE pg

(* The listener of "update".  While the autopilot is on its last statement *)
(* throws an exception.                                                    *)
OnUpdate(pg, msg) ==
    update_autopilot_button(update_buttons([pg EXCEPT !.pilotReady = TRUE], msg), msg.autopilot)

(* send_event, reset, autopilot_enable, autopilot_disable: a click on what *)
(* is not disabled.                                                        *)
Clicked(pg, event) ==
    IF event = "autopilot_enable" THEN update_autopilot_button(pg, TRUE)
    ELSE IF event = "autopilot_disable" THEN update_autopilot_button(pg, FALSE)
    ELSE IF event = "reset" THEN pg
    ELSE [pg EXCEPT !.enabled = @ \ {event}]

Clickable(pg) == pg.enabled \cup (IF pg.pilotReady THEN {pg.pilot} ELSE {})
-----------------------------------------------------------------------------
Init ==
    /\ \E autorestart \in BOOLEAN :
          daq = [state |-> "Disconnected", connected |-> FALSE, spill |-> FALSE,
                 autopilot |-> FALSE, autorestart |-> autorestart, timer |-> 0,
                 enabled |-> {"connect_backend"}, hung |-> FALSE]
    /\ page = [p \in Pages |-> Loaded(TRUE)]
    /\ up = [p \in Pages |-> <<>>] /\ down = [p \in Pages |-> <<>>]
    /\ spent = [clicks |-> 0, troubles |-> 0]

(* The server does something, and all pages that are connected are told.   *)
ServerStep(s) ==
    /\ daq' = s.daq
    /\ down' = [p \in Pages |-> IF page[p].online THEN down[p] \o s.out ELSE down[p]]

Idle == ~daq.hung /\ \A p \in Pages : Len(down[p]) < MaxQueue

HandleEvent(p) ==
    /\ Idle /\ up[p] # <<>>
    /\ ServerStep(Handle([daq |-> daq, out |-> <<>>], Head(up[p])))
    /\ up' = [up EXCEPT ![p] = Tail(@)]
    /\ UNCHANGED <<page, spent>>

(* Whoever watches the accelerator tells the client of spills.             *)
Spill ==
    /\ Idle
    /\ daq.spill \/ spent.troubles < MaxTroubles
    /\ LET event == IF daq.spill THEN "spill_end" ELSE "spill_start" IN
       /\ ServerStep(Handle([daq |-> daq, out |-> <<>>], event))
       /\ spent' = IF daq.spill THEN spent ELSE [spent EXCEPT !.troubles = @ + 1]
    /\ UNCHANGED <<page, up>>

BackgroundTask ==
    /\ Idle /\ daq.connected
    /\ ServerStep(background_task([daq |-> daq, out |-> <<>>]))
    /\ UNCHANGED <<page, up, spent>>

Click(p) ==
    /\ spent.clicks < MaxClicks
    /\ spent' = [spent EXCEPT !.clicks = @ + 1]
    /\ \E event \in Clickable(page[p]) :
          LET pg == Clicked(page[p], event) IN
          \/ /\ pg.online
             /\ page' = [page EXCEPT ![p] = pg]
             /\ up' = [up EXCEPT ![p] = Append(@, event)]
          \/ /\ ~pg.online
             /\ page' = [page EXCEPT ![p] = [pg EXCEPT !.buffer = Append(@, event)]]
             /\ UNCHANGED up
    /\ UNCHANGED <<daq, down>>

PageReceives(p) ==
    /\ down[p] # <<>>
    /\ LET msg == Head(down[p]) IN
       page' = [page EXCEPT ![p] = IF msg.event = "update" THEN OnUpdate(@, msg)
                                   ELSE OnResponse(@, msg)]
    /\ down' = [down EXCEPT ![p] = Tail(@)]
    /\ UNCHANGED <<daq, up, spent>>

(* The connection is lost, or the page is loaded anew.                     *)
ConnectionLost(p) ==
    /\ page[p].online /\ spent.troubles < MaxTroubles
    /\ spent' = [spent EXCEPT !.troubles = @ + 1]
    /\ \E kept \in 0 .. Len(up[p]) : up' = [up EXCEPT ![p] = SubSeq(@, 1, kept)]
    /\ page' \in {[page EXCEPT ![p].online = FALSE], [page EXCEPT ![p] = Loaded(FALSE)]}
    /\ down' = [down EXCEPT ![p] = <<>>]
    /\ UNCHANGED daq

Reconnected(p) ==
    /\ ~page[p].online /\ ~daq.hung
    /\ page' = [page EXCEPT ![p].online = TRUE, ![p].buffer = <<>>]
    /\ up' = [up EXCEPT ![p] = @ \o page[p].buffer]
    /\ UNCHANGED <<daq, down, spent>>

Next ==
    \/ Spill \/ BackgroundTask
    \/ \E p \in Pages : \/ HandleEvent(p) \/ Click(p) \/ PageReceives(p)
                        \/ ConnectionLost(p) \/ Reconnected(p)

(* The server's threads and the pages' connections go on; nobody has to    *)
(* click.                                                                  *)
Fairness ==
    /\ WF_vars(BackgroundTask)
    /\ \A p \in Pages : WF_vars(HandleEvent(p)) /\ WF_vars(PageReceives(p))
                        /\ WF_vars(Reconnected(p))

Spec == Init /\ [][Next]_vars /\ Fairness
-----------------------------------------------------------------------------
(* Types.  A client that has been connected stays so, and counts passes of *)
(* the background task no further than to the end of a run.                *)
TypeOK ==
    /\ daq.state \in {"Disconnected", "Connected", "Running", "Paused", "Stopped"}
    /\ daq.connected => daq.state # "Disconnected"
    /\ daq.enabled \subseteq Buttons
    /\ daq.timer \in 0 .. (RunLength + 1)
    /\ daq.hung => daq.spill
    /\ \A p \in Pages : page[p].enabled \subseteq Buttons

(* A run that the autopilot does not have can be stopped: its button is    *)
(* enabled, whatever sequence of clicks of all pages, toggles of the       *)
(* autopilot and ends of its runs has led there.                           *)
RunCanBeStopped ==
    daq.state \in {"Running", "Paused"} /\ ~daq.autopilot => "stop" \in daq.enabled

(* When nobody clicks any more every page comes to show the buttons as the *)
(* client has them and a toggle that does the opposite of what it is in,   *)
(* whatever statuses were stale, lost or thrown away; unless the server    *)
(* hangs in the wait for a spill.                                          *)
PageCatchesUp ==
    <>[](daq.connected /\ ~daq.hung =>
            \A p \in Pages :
               /\ page[p].enabled = daq.enabled
               /\ page[p].pilot = IF daq.autopilot THEN "autopilot_disable"
                                  ELSE "autopilot_enable")

(* While the autopilot is on, runs are started again and again, also when  *)
(* a late click has stopped, paused or reset one, or else it ends; with    *)
(* the same exception.                                                     *)
AutopilotKeepsRunning ==
    daq.autopilot ~> (daq.state = "Running" \/ ~daq.autopilot \/ daq.hung)
=============================================================================
