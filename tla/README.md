# Verification of the SpinQuest TDC firmware and readout

The repository holds a 64-channel time-to-digital converter (TDC) for an FPGA, the
software that reads it out on the FPGA's processor, a simulator of the data
acquisition (DAQ) behind it, and a run-control client with the web page that operates
it. This directory models two paths: that of a hit from the detector input to the
readout daemon, and that of a click from a page in a browser to the run state and back.
It holds TLA+ modules, the TLC configurations that check them on small instances, and
TLAPS proofs.

Paths below are relative to the repository; `x.vhd` is `sources/src/x.vhd`.

## 1. The system

```
 hit -> TDC_channel --+-> ring_buffer --+
        (sampler,     |   x 4           +-> rr_arbiter_41      x 16   TDC_4ch
         encoder)     |                 |
                                        v
                     ring_buffer x 16 -> rr_arbiter_41 x 4            layer 2
                     ring_buffer x 4  -> rr_arbiter_41                layer 3
                                        v
 trigger ----------> BRAM 1 / BRAM 2 write side and trigger FSM       TDC_64ch_2BRAM
                       | irq_o    ^ read_busy     | which_bram
                       v          |               v
                     UIO driver -> daemon.c (Linux on the processing system, PS)

 page (monitor.html, main.js)                                         Monitor
   | socket.io: Socket, Manager, parser                               SocketIO
   | engine.io: socket, polling transport, websocket                  EngineSocket
   v
 web server (WebClient.py) -> run control (Client.py) -> backend      Monitor
```

The two paths meet behind the backend only, in programs that are not in the repository
(CODA, SODA, Janus; `DAQClient/Backends` holds what talks to them).

| component | state | operations | interacts with |
|---|---|---|---|
| `TDC_channel` (`sampler`, `CoarseCounter`, `encoder`) | 8+8 sampling flip-flops, clock-domain register, fine counter and its lock to the RF clock, coarse counter, encoder FSM | rising edges of clk0/45/90/135 and clk_RF | drives `timestamp`/`valid` for one clk0 edge |
| `ring_buffer` | RAM, head, tail, read register | `wr_en`, `rd_en`, `rst` at an edge | written by a channel or arbiter, read by an arbiter |
| `rr_arbiter_41` | `present_state`, `next_state`, `buffer_state`, `which_fifo`, enables, output register | one case of `present_state` per edge | `empty`/`rd_valid`/`rd_data` of four buffers |
| `TDC_4ch` | reset register, the above | one clk0 edge | next layer's buffer |
| `TDC_64ch_2BRAM` | registered inputs, write port and address per bank, `which_bram_s`, FSM `s_idle`/`s_trigd`/`s_busy`, `missed_trigs` | word, trigger, switch, reset | interrupt and two GPIOs to the PS |
| `daemon.c` | program counter, file descriptors | unmask, wait, raise `read_busy`, read `which_bram`, read the BRAM, lower `read_busy` | UIO devices |
| `TDC_64ch_1BRAM`, `TDC_32ch`, `rr_arbiter_321` | variants: one bank without trigger; 32 channels and a registered 32:1 arbiter | as above | as above |
| `sources/sw/baremetal` | ISR variables | interrupt routine | the same registers without Linux |
| `sources/sw/linux/{uio_test.c,device.py,test*.py}` | none | interactive register access | UIO |
| `DAQ-Simulator` server | client threads, sockets, spill recording per client, `is_running_` | accept, receive, record, `stop()` | simulated FPGA boards over TCP/UDP/UNIX sockets |
| `DAQ-Simulator` FPGA client | connection | send preamble, spill, preamble | server |
| `DAQClient/Client.py` | run state, `active_spill`, autopilot and its timer, log | event handlers, background task | backend (CODA, SODA, Janus), web server |
| `DAQClient/WebClient.py` | enabled buttons | wraps each handler with a response to all pages; updates | socket.io server, pages |
| page (`monitor.html`, `static/js/main.js`) | which buttons are enabled, the autopilot's toggle | clicks, listeners of `response` and `update` | socket.io client |
| socket.io `Manager` and `Socket` (`static/js/socket.io.js`) | `_readyState`, timers, `_reconnecting`, backoff; `connected`, `sendBuffer`, `receiveBuffer`, `acks` | open, reconnect, emit, packets in | parser, engine |
| engine.io socket and transports (same file) | `readyState`, `writeBuffer`, `prevBufferLen`, `upgrading`; each transport's `readyState`, `writable`, `polling` | write, flush, probe and upgrade, poll, close, ping timer | requests and websocket of the browser |
| `static/css`, `BD/`, `IP/`, `kernel/`, `Top/`, `doxygen/`, `scripts/`, `sources/sim`, `sources/xdc` | presentation, generated, vendored, declarative or stimuli | - | - |

What is hard to get right, and what correctness means, per component:

- **Channel.** Eight samples taken by four clocks must be reassembled as one clk0
  period; the fine count must lock to clk_RF from any phase; stored values can be
  overwritten by the next hit. *Correct:* every hit of the required width becomes one
  word, with its own arrival time, held for one edge.
- **Ring buffer.** The RAM is written at every edge, whatever `wr_en` says, and a
  full buffer drops writes. *Correct:* a bounded FIFO.
- **Arbiter and block.** `next_state` is a register, so every state runs twice and
  grants can be changed by the second pass; `s_tx` is left only by a valid read.
  *Correct:* no hit lost, repeated, out of order or stale; no deadlock, no starvation.
- **Bank switch and daemon.** A handshake across two asynchronous sides with a masked
  edge interrupt, a process that can die, and write pipelines one edge deep.
  *Correct:* one readout per trigger, no switch and no write under the reader, the
  bank read is the one that was filled, every trigger served.
- **Engine socket.** The polling transport is replaced by the websocket while it has
  requests under way and the application writes; any of them can fail at any time, and
  the ends of `pause`, of a probe and of `close()` wait for each other's events.
  *Correct:* each side is given a beginning of what the other wrote, once and in order;
  the client always has a poll at the server; nothing in the buffer waits for an event
  that will not come.
- **Manager and Socket.** One lost connection is reported several times over (the
  engine's error, the close that follows, the connect timeout), with two timers pending
  and events of both directions buffered. *Correct:* one connection at a time; an event
  given and heard once and whole; connected again, unless the server does not want it.
- **Run control and pages.** Several pages show the same state, each as it was some
  moment ago; handlers wait for the end of a spill in a loop that keeps the event which
  would end it from being handled. *Correct:* a run can be stopped, pages come to show
  what is so, the autopilot keeps runs going.
- **DAQ server.** Threads blocked in system calls at shutdown; spills over many
  receives. Planned, see section 6.

`PROJECT.json` lists these hazards line by line with the properties that cover them.

## 2. Modules and the code

| module | models | correspondence |
|---|---|---|
| `RingBufferRtl` | `ring_buffer.vhd` | registers are a record; `Edge(b, in)` is one rising edge, `PROC_HEAD`, `PROC_TAIL`, `PROC_RAM` its processes; `Ports` the inputs |
| `Fifo` | what a buffer promises | abstract: a queue, accepted words in, delivered words out |
| `RingBuffer` | one buffer with arbitrary ports | `FifoView` is the refinement mapping: `Contents` reads the queue off RAM, head and tail |
| `RrArbiterRtl` | `rr_arbiter_41.vhd` | registers are a record; `Grant`, `NoGrant`, `Transmit` are the branches; `turn` gives the place in the `elsif` chain of each state |
| `TDC_4ch`, `MCTDC_4ch` | `TDC_4ch.vhd` | functions from channels to buffer records, one arbiter; a channel presents a word or nothing at each edge, as `TDC_channel` is shown to do |
| `sampler`, `encoder`, `TDC_channel` | the files of these names, `CoarseCounter.vhd` | time in ticks of 1/8 clk0 period, the distance between two samples; a tick clocks what has an edge there |
| `TDC_64ch_2BRAM` | lines 301-437 of the file | one action per edge; FSM states and the reset branch are operators |
| `daemon` | `daemon.c` and the UIO interrupt device | one action per device access, `Exit` for `error()` |
| `Readout` | the two joined by irq_o, read_busy, which_bram | `PL`, `DaemonLoop`, `DaemonOpen`, `DaemonExit`, `Interrupt` |
| `Channel` | what a connection promises | abstract: messages numbered as sent, of which a beginning is delivered |
| `EngineParser` | engine.io parser | `EncodePacket` to `DecodePayload` under the names of the code |
| `EngineSocket` | engine socket, `Polling`, `XHR`, `WS`; external: server and network | one action per task of the browser (an answer, a frame, a timer, a call); methods are operators from client to client. `Up` and `Down` are the two refinement mappings to `Channel` |
| `Parser` | socket.io parser: `Encoder`, `Decoder`, `BinaryReconstructor`, `deconstructPacket` | a frame is the sequence of its fields |
| `SocketIO` | `Manager`, `Socket`, `Backoff`, `lookup`; external: the connections as `Channel` has them, and the server | one action per task; `io` is Manager and Socket, `engines` the connections in the order of their creation |
| `Monitor` | `Client.py`, `WebClient.py`, `monitor.html`, `main.js`; external: a connection as `SocketIO` has it | one action per handler and per pass of the background task; handlers are operators from [client, what was emitted] |
| `RingBufferLemmas`, `RingBufferProofs`, `TDC_4chProofs`, `TDC_channelProofs`, `ReadoutProofs`, `EngineSocketProofs`, `SocketIOProofs`, `MonitorProofs` | proofs | section 5 |

The three modules of the web side are layers: each uses the one below by what that
one is shown to do, as `TDC_4ch` does with the channel and the buffer.

The hardware is written as pure functions of registers and inputs (`...Rtl`) where a
design instantiates it several times, and as a state machine otherwise. Operators
commented "Mistake:" are plausible bugs, which no specification uses; each property has
one that it is known to catch (`PROJECT.json`, "mutants").

Modelling decisions a reader should know:

- A **word** is an opaque value. In `TDC_4ch` two hits never have the same word and no
  word is all zeros (assumption `TDC_4chAssumption`; the code breaks it for channel 0
  at coarse 0, fine 0, which is listed as a hazard). In `TDC_64ch_2BRAM` a word is the
  number of its arrival.
- **Power-up** of RAM and data registers without an initial value is any word in
  `RingBuffer`, and what the start-up reset leaves in `TDC_4ch`.
- In `TDC_channel` the input may change **between** any two ticks, never on a sampling
  edge: metastability and unequal routing delays are not modelled. A reset comes only
  while no pulse is under way.
- What a **clk0 flip-flop reads in a register of clk_RF** (the toggle of the sampler,
  the coarse count) at an edge that both clocks have is either what the register held
  before the edge or what the edge leaves in it: `RF_first`, chosen in `Init` and kept.
  The source does not decide it. clk_RF is clk_sys, the input of the MMCM whose outputs
  are clk0 to clk135 (`sim/tb_2BRAM.vhd` 82-93); `sampler.vhd:466` says that the edges are
  aligned, and no constraint in `sources/xdc` says more. Flip-flops on truly
  aligned edges read what was there before; in a simulation, where clk0 follows clk_sys
  by the delay of the MMCM's model, or on a device where clk0 is that much later, they
  read the new value. It decides what the fine time means: section 3.
- The **PS** completes at most one device access per clk0 period (`slot`): an AXI
  access takes several periods of the PL clock. It may take arbitrarily long. Without
  this the PL could miss a `read_busy` that is raised and lowered within one period.
- A failure of the daemon's `read()` on the interrupt device (`daemon.c` 133-136,
  where the code goes on as if a trigger had come) is not modelled.
- The **browser** runs one task at a time and finishes it, so an action is a task with
  all listeners it calls; what a listener may do that the code around it must survive
  (emit, close, throw) is a choice of the action. A GET's answer leaves the server and
  reaches the client in one step; a POST reaches the server and is answered in two, so
  that it can be received and its answer lost.
- A **string** is the sequence of the symbols that the parser tells apart: separators
  and type characters are characters, a text or a base64 block is one symbol that keeps
  which message it was. A message that has become another one arrives as number 0,
  which no `Channel` delivers.
- `Manager` opens the first connection in `Init` (`lookup`); a destroyed
  `reconstructor` is `<<>>`.
- The **server** of the pages runs green threads that give way in `socketio.sleep` and in
  nothing that a handler of these events calls. `time.sleep` gives way to nothing, so a
  handler that waits for the end of a spill stops the server: `hung`. The backend is the
  generic one, which has no preparation events and never fails.
- The **autopilot's** policy (`Autopilot.py`) is whether a run has lasted `RunLength`
  passes of the background task.

## 3. Runs

| run | bounds | result |
|---|---|---|
| `ring_buffer` | 2 words, depth 4 | TypeOK; refinement of `Fifo` |
| `tdc_4ch` | 4 channels, depth 3, 3 hits per channel, 5 in all, 1 reset | TypeOK, NeverWedged, PulseBeginsWithHit, PulsesInOrder, NothingStale |
| `tdc_4ch_traffic` | 3 channels, depth 3, hits without bound | NoStarvation |
| `tdc_4ch_loss` | 2 hits, depth 5 as in the code | violated: `NoHitLost` |
| `readout` | 2 words per bank, 2 words per turn, 1 reset, 1 end of the daemon, 1 read per loop, `missed_trigs` modulo 2; triggers without bound | TypeOK, SelectionHolds, OneReadoutPerTrigger, HandedBankQuiet, FreshBank, HandedBankHoldsWords |
| `readout_served` | no words, 1 reset, 2 ends of the daemon, 2 reads per loop; triggers without bound | TriggerServed |
| `readout_bank` | no words needed, no reset or restart | violated: `ReadsFilledBank` |
| `tdc_channel` | hit widths 23 and 32 ticks, short pulses of 15; gaps from 17 ticks; coarse counter modulo 4; hits without bound | TypeOK, FineCountLocked, NoHitForgotten, FirstEncodingExact, WordAnswersOldestHit, OneEdgeWords |
| `tdc_channel_interval` | the same | violated: `IntervalSent` |
| `engine` | 3 messages up, 2 down, the second of each side binary; the listener of message 1 may throw | TypeOK, SendFindsOpenTransport, AlwaysPolling, NoLostWakeup, SwitchIsQuiet; refinements DeliversUp, DeliversDown of `Channel` |
| `socketio` | 3 connections, 2 events of the page, 1 of the server, the first of each binary | TypeOK, OneConnection, GivenOnce, HeardOnce, AcksMatch, StaysDisconnected, Reconnects, BufferIsSent |
| `monitor` | 2 pages, 4 clicks, 1 spill, lost connection or reload, runs of 1 pass, 1 status on the way, waiting for spills, with and without automatic restart | TypeOK, RunCanBeStopped, PageCatchesUp, AutopilotKeepsRunning |

Why the bounds are enough:

- *ring_buffer*: one slot always stays free, since head = tail means empty: the buffer
  holds `RAM_DEPTH - 1` words. Depth 4 has the wrap of both indices, the empty, full
  and in-between cases, and two different words tell any order apart; the proof covers all depths.
- *tdc_4ch*: depth 3 holds two hits, so the third of a channel meets a full buffer and
  the indices wrap; five hits fill two channels or spread over all four, which lets
  every grant be overtaken by every other. The reset can come at any edge, with hits
  stored, granted or on the output.
- *tdc_4ch_traffic*: the arbiter is the same for any number of requesters; with three
  there is a channel that is neither first nor last. Words are dropped, since no
  control register depends on one.
- *readout*: two words per bank and per turn give writes before, at and after the
  switch and, as the first write goes to address 1, the wrap of the address. The
  handshake has no counter but `missed_trigs`, whose value nothing reads; the bound on
  the daemon's ends lets it die once at each point and start again.
- *readout_served*: no guard of the trigger FSM or the daemon reads a word, an address
  or a bank's content, so leaving the words out changes nothing that could block;
  the daemon may die again while it is serving after a restart.
- *tdc_channel*: 23 ticks is the least width that always gives three saturated
  periods, 17 the least gap after which two pulses are told apart at every phase;
  with shorter ones pulses are merged or dropped. 32 ticks span a whole RF period. The
  pulse may begin at each of the 32 ticks of the RF period; four coarse values show
  the correction by one and the wrap. `AtRest` (48 ticks) exceeds the channel's latency.
  Both values of `RF_first` are checked, and `StartUp` is the least for which the count
  locks (section 5.1).
- *engine*: three messages allow one in the batch that is flushed, one written while
  that is under way and one after the drain; two messages down make a payload in which
  a listener throws before the other. A probe may fail or come to nothing at every
  stage, and requests, the websocket and the network may fail at any step. There is one
  upgrade in the code, and one in the model.
- *socketio*: with three connections one can fail, the next be lost after it was open,
  and the last must do; a client that is wrong after two ends is found by the third.
  The last connection neither fails nor ends, or `Reconnects` could not hold. A binary
  event is two frames, so that a connection can end between them. Two events tell the
  order, one of the server crosses them. For events of the server the run shows that
  they are heard once and whole; that several are heard in order is left to the theorem
  `AlwaysHeardOnce`.
- *monitor*: four clicks of two pages give start, autopilot on, autopilot off and a
  stale click in any order and on any page. With one status on the way a page can act
  on an old one, and two pages can differ. One spill is enough to hang a handler. A
  late click on `connect_backend` sets the state of a run under way to Connected;
  `RunCanBeStopped` speaks of states that say that a run is on, so not of that one.

What the violated runs show (`PROJECT.json`, "findings", quotes the lines):

1. `tdc_4ch_loss`: the arbiter's second pass can replace a grant whose FIFO has
   already been told to read; that hit is read and never sent. The comment at
   `rr_arbiter_41.vhd:220` says that this is avoided.
2. `readout_bank`: which_bram names the bank being written; the daemon reads that one,
   and the PL clears the one that was filled.
3. `tdc_channel_interval`: encoding again in later saturated cycles clears the three
   low bits of the fine time. For the same reason the RF period can be that of the
   last saturated cycle. The first encoding does have the arrival to 1/32 of the RF
   period, up to the constant `LATENCY` of which the next paragraphs tell.

**What the fine time means.** `FirstEncodingExact` is checked for both values of `RF_first`
(section 2) and holds with a different `LATENCY` for each, so the rule by which clk0
reads clk_RF's registers at a shared edge decides whether the comments of the code are
true:

| | clk0 reads what the edge leaves | clk0 reads what was there before |
|---|---|---|
| `LATENCY` | 0 | 8 ticks, one clk0 period |
| fine count of a hit in the first quarter of the RF period | 0 | 3, and the RF period before its own |
| hit on the rising edge of clk_RF (between the last tick of a period and the first of the next) | last pattern `00000000`, count 3: the edge case of `encoder.vhd`, encoded as 0 of the period that begins | last pattern `00000000`, count 2: encoded as 23 of the period that has ended |
| hit that does show `00000000` and count 3 | the same | one just before the second clk0 edge of an RF period, encoded as 0 of that period |
| `encoder.vhd` 147-148 (count 1 to 3 if "hit arrived after 1/4 of RF period", otherwise "use the current RF bucket ID"), 162-171 (a hit on the RF edge shows "11"), `sampler.vhd` 405 and 445 (the count is the fast period in which the hit arrived) | true | not true |

In the second case every time is one clk0 period early: hits of the first quarter but
for its last interval are put down to the RF period before their own, and the edge case
is applied to hits that are not on the edge. Nothing in the repository fixes the rule, so the comments rest on a
relation between the two clocks that no constraint states. `FineCountLocked` and
`WordAnswersOldestHit` use the same `LATENCY`.

Two more places where a text of the repository and its code differ, which no run of
this directory is about: the docstring of `autopilot_start` (`Client.py:325`, "to start/continue a
run") and its log entry at line 306. Without automatic restart the log entry is a
format without a conversion, whose % throws before any run is started. The model has it
so; `AutopilotKeepsRunning` accepts that the autopilot ends by its timer.

## 4. Fairness

Liveness is claimed under weak fairness only, and not at all of `engine`, whose
properties are safety and refinement (`NoLostWakeup` says as an invariant what keeps
it from standing still):

- `TrafficSpec` (`tdc_4ch_traffic`): the clock does not stop. Which channels present a
  hit is not constrained.
- `FairSpec` (`readout_served`): the PL clock does not stop; the daemon, when it can make its
  next access, eventually makes it (the scheduler of the PS runs a runnable process);
  an unmasked pending interrupt is eventually delivered. Nothing obliges a trigger to
  come, the daemon to be started or started again, or it not to die: `TriggerServed`
  excuses exactly the triggers whose interrupt came to no daemon or to one that ended
  (`orphaned`), and a daemon that is not running.
- `FairSpec` (`socketio`): the browser's timers fire (`ReconnectTimer`,
  `ConnectTimeout`), and a connection that does not end opens, delivers and is read by
  the server (`EngineOpens`, `EngineData`, `ServerReads`, `ServerConnects`). Nothing
  obliges a connection to fail or the server to emit. `Reconnects` excuses a client
  that the server has disconnected, after which the code makes no further attempt.
- `Spec` (`monitor`): the server's loop goes on (`BackgroundTask`, `HandleEvent(p)` for
  each page), a page handles what has arrived and connects again (`PageReceives(p)`,
  `Reconnected(p)`, which is what `socketio` shows of it). Nobody has to click and no
  spill has to end. A server that hangs in a wait is excused by name (`hung`).

## 5. Proofs

All theorems hold for every value of the constants that the named assumptions allow,
and for two of them a hypothesis on a constant that the theorem states.

| theorem | statement | argument |
|---|---|---|
| `RingBufferProofs!TypeCorrect` | `[]TypeOK` | inductive as it stands |
| `RingBufferProofs!RingBufferImplementsFifo` | every behaviour of `RingBuffer` is one of `Fifo` with capacity `RAM_DEPTH - 1` | `EdgeRefines`: an edge maps to `Clear`, `Deliver` or `Keep`. The lemma `ContentsStep` gives the queue after an edge: the unconditional write goes to the slot behind the last stored word, which no `Slot` of the contents names, and a pop shifts the slots by one (`SlotShift`, with the wrap of both indices) |
| `TDC_4chProofs!TypeCorrect` | `[]TypeOK` | from the edge lemmas of buffer and arbiter |
| `TDC_4chProofs!ArbiterNeverWedged` | `[]NeverWedged` | needs `GrantsHold`: enables exist only for the granted FIFO while the grant is on its way, and that FIFO holds a word. Not inductive without it: nothing else says why the FIFO answers |
| `TDC_4chProofs!PulsesBeginWithHits`, `PulsesKeepOrder` | `[]PulseBeginsWithHit`, `[]PulsesInOrder` | from `OrderInv`: what the buffers hold are stored hits in the order of their channel (`HeldAreHits`); whatever began a pulse came before all that its buffer still holds (`BegunAreGone`); and in between, the word that will begin the next pulse is the oldest of the granted FIFO or already out of it, and follows every word that began one (`PendingIsNext`). The last is what carries the order across the two passes of `s_tx` |
| `TDC_4chProofs!NothingStaleSent` | `[]NothingStale`, for `RAM_DEPTH > 2` | from `CleanInv`: once the arbiter has left `s_idle`, an empty FIFO shows zeros, since every edge without a reset has written the slot at its head |
| `ReadoutProofs!TypeCorrect` | `[]TypeOK` | inductive |
| `ReadoutProofs!NoSwitchUnderReader`, `ReadoutsAnswerTriggers` | `[]SelectionHolds`, `[]OneReadoutPerTrigger` | both from `Handshake`: at any time a request is in one place only (irq_o, latched, event, daemon), and none is anywhere while the PL waits for a trigger. Through any number of exits of the daemon |
| `ReadoutProofs!SwitchesToFreshBank`, `HandedBankUntouched` | `[]FreshBank`, `[]HandedBankQuiet` | from `BanksApart`: a write to the bank that is not current can only be the one in the pipeline at the switch. Resets included |
| `ReadoutProofs!HandedBankKeepsWords` | `[]HandedBankHoldsWords` | from `TurnsKept`: each bank has, at its own address, every word its address has counted, but the last while the write port still holds it and those a wrap has overwritten; `BanksApart` says that at the hand-over the port holds none. `ModApart`: two words less than a bank apart have different addresses |
| `TDC_channelProofs!WordsLastOneEdge` | `OneEdgeWords` | from `OutputInv`: the output is idle except right after `DONE`, where the state is IDLE, which takes it back |
| `TDC_channelProofs!TypeCorrect` | `[]TypeOK` | with the registers that feed those it names |
| `TDC_channelProofs!LocksFineCount` | `[]FineCountLocked`, for `StartUp >= 8` | for either `RF_first`; from `Shifted`: bit j of the shift register is what the clk0 edge j edges ago read in the toggle (`Past`), as far as there was one, and `shift_lst` the same one edge before; and `Counted`: the count is right from the first place 0 on that comes after the fourth edge. `place` is the quarter as clk0 can know it, and `PlaceStep` says that what clk0 reads in the toggle changes at place 0 under either rule |
| `EngineSocketProofs!PayloadRoundTrip` | `DecodePayload(EncodePayload(q)) = q` for every list of packets | section 5.2 |
| `EngineSocketProofs!TypeCorrect`, `SendsOnOpenTransport`, `PollsAlways`, `NothingForgotten`, `SwitchesQuietly` | `[]TypeOK`, `[]SendFindsOpenTransport`, `[]AlwaysPolling`, `[]NoLostWakeup`, `SwitchIsQuiet` | all from one inductive invariant, section 5.2 |
| `EngineSocketProofs!DeliversDownInOrder`, `DeliversUpInOrder` | `DeliversDown`, `DeliversUp`: every behaviour is one of `Channel` from server to client, and one of `Channel` from client to server | section 5.2 |
| `SocketIOProofs!OneConnectionAtMost`, `StaysDisconnectedAlways`, `NeverForgottenAlways` | `[]OneConnection`, `StaysDisconnected`, and `[]NeverForgotten` | from `Good`, section 5.3 |
| `SocketIOProofs!SocketIOTyped`, `AlwaysGivenOnce`, `AlwaysHeardOnce`, `AcksAlwaysMatch` | `[]TypeOK`, `[]GivenOnce`, `[]HeardOnce`, `[]AcksMatch` | all from `DataInv`, section 5.3 |
| `MonitorProofs!TypeCorrect`, `RunsCanBeStopped` | `[]TypeOK`, `[]RunCanBeStopped` | `IInv` adds what pages and queues may hold, since a handler is chosen by the event. Within a handler a run may lack its button: `Ready` says that the response under way will give it (`RespondGood`), and `HandleGood` and `BackgroundGood` take each handler from `Good` to `Good`; a handler that hangs changes nothing else (`WaitGood`) |

The bounds `MaxHits`, `MaxTotal`, `MaxResets`, `MaxWords`, `MaxExits`, `MaxUp`,
`MaxDown`, `MaxClicks`, `MaxTroubles`, `MaxQueue`, those of `SocketIO` and the number
of pages are constants of the proofs too, so they hold for any of them.
`RingBufferImplementsFifo` and `WordsLastOneEdge` are what entitles `TDC_4ch` to its
environment and to reading a buffer as a FIFO.

### 5.1 The two hypotheses

- `RAM_DEPTH > 2` of `NothingStaleSent`. The code has 5. With two slots the statement
  is false: a buffer of two slots is full with one word, and the hit that it refuses is
  nevertheless written to the slot at `head` (the write of `PROC_RAM` is
  unconditional). When the one word is read the buffer is empty, and its output shows
  that slot: a hit that was never stored is on `data_o` in the second edge of the
  pulse. From three slots on the slot at the head of a buffer that becomes empty has
  been written with the zeros of a quiet input since.
- `StartUp >= 8` of `LocksFineCount`. `StartUp` is the number of clk0 edges before the
  MMCM reports its lock, which takes far longer. Eight is the least for which the
  statement is true: TLC refutes it for 7, where clk0 has begun so that the first
  change of the toggle that the restart logic sees comes after the enable.

### 5.2 The engine socket

A state of the client is a record, and each method an operator from record to record,
so an action is a chain of calls and its proof a chain of lemmas. `IInv` has one
conjunct for the client and one for the session. `Client(s)` says that the client has
its types (`Typed`) and is in one of five phases: `Opening` (before the handshake),
`Polls` (one GET under way; at most one POST, which carries the beginning of the
buffer), `Pauses` (an upgrade waits: `pauseFor` names exactly the requests that are
still under way), `Upgraded` (nothing of the polling transport is left), `Ended`. The
properties alone are not inductive: that a drain will come for what waits in the
buffer (`NoLostWakeup`) rests on the POST being there when `pollWritable` is false, and
that a switch finds no request under way (`SwitchIsQuiet`) on `pauseFor`. For each
method there is a lemma that says from which phase to which it goes (`FlushPolling`,
`OnCloseEnds`, `HandshakeGoes`, `SwitchGoes`, ...), and for each action one.

`PayloadRoundTrip` is about folds: `EncodePayload` joins, `DecodePayload` splits at
separators, both over a list of any length. The folds of the community modules are
recursive functions; the lemma `Iterates` turns one into the chain of its
intermediate results. Induction over that chain is by the least counterexample: a set
of numbers that were not reached would have a least one (the well-founded order on
`Nat`), which the lemma `Induction` states for a set, since a theorem with an operator
parameter cannot be instantiated here. No text, binary, probe or empty packet holds a
separator, so the split finds the joints and nothing else.

`DeliversDownInOrder` is the refinement of `Channel`. `OrderDown` is the invariant it
needs: the client has heard exactly 1 to n, and, while polling is in use, what it has
not heard is in order in the server's queue (`ComesByPoll`), with nothing but pongs in
the websocket's frames; on the websocket, in order in the frames on their way and then
in the server's queue (`ComesByFrame`). The switch is the hard step: as long as the
client polls, the server has not switched, so no frame with a message can overtake
those that wait for a poll. With it each action maps to a step of `Channel` or to a
stutter: writing to `Send`, an answered poll to `Deliver` of a block of messages (the
part of it that comes before the one whose listener throws), a frame to `Deliver` of
one, everything else to no change. TLC checked `OrderDown` on a small instance before
it was proved.

`DeliversUpInOrder` is the other direction, and harder: what the client has sent and
the server has not received is in up to three places at once. `OrderUp` says that the
server has received exactly 1 to n, and that what the client still `Holds` is n + 1 up
to the last message it was given:

- Over polling (`ByPost`) there is at most one POST. While the server has not got it,
  the buffer still begins with what its body encodes (`prevBufferLen`), so the buffer
  alone is n + 1 and on; once the server has it, only the rest of the buffer counts.
  This is where `PayloadRoundTrip` is used: what the server decodes from the body is
  what was flushed. No frame of the websocket is more than a probe or a close.
- Once the socket is closed several POSTs may be at the server, which may take them in
  any order (`LeftPosts`). At most one of them brings messages, and the others are the
  close packet alone, so the order does not matter; the messages in it begin with
  n + 1, and what was left in the buffer is lost, an end of what was sent.
- Over the websocket (`OverWebsocket`, `Told`) there is no POST. The frames on their way
  are those of packets written in order, with no message before the upgrade packet,
  which makes the server listen to this line; behind them comes the rest of the buffer.
  When the line is lost with frames on it, what arrives is a beginning of them
  (`FramesCut`), and the socket is closed.

Every method that touches the buffer has a lemma that it keeps `Holds` (`FlushHolds`,
`OnDrainHolds`, `SwitchHolds`, `OnCloseHolds`, ...), and every action one that it keeps
what is owed (`PostAnsweredOwes`, `WebsocketLostOwes`, ...). The two steps in which the
server receives are `ServerPostUp` and `ServerFrameUp`. Here too TLC checked the
invariant first, with the numbers read off the packets in the place of `Numbers`.

### 5.3 Manager and Socket

`Good(c)` says that client and connections are in one of four phases: `Opening` (the
newest connection opens and the timeout is armed), `Running` (it is open and no timer
is armed), `Waiting` (it has ended and the timer of the next attempt is armed),
`Finished` (the server has disconnected the Socket: no timer, and nothing listens).
All other connections have ended. It is inductive because what an ended connection
still reports (an error, then a close, then the timeout) finds its subscriptions gone:
`Keeps` is proved of every handler, and of the loops over buffered events and packets
of any length by the same chain argument. `NeverForgotten` is the safety half of
`Reconnects`: no path leaves a Socket that listens with nothing armed.

What becomes of every event needs more than phases. `DataInv` is `Good` and `Known`,
whose parts are:

- `LogsOK`, `DownsOK`: each frame on a line is one of a packet that the two sides write,
  a frame with placeholders has its binary behind it, and the callback that an event or
  an acknowledgement names was registered for that event (`Knows`).
- `AcksOK`: callbacks that wait and callbacks that were called are of different events.
- `PhaseOK`, `Follows`: the decoder holds half a packet only if the next frame is its
  other half. Without it `misread` could not be excluded, since a frame that is good
  by itself is an error in the wrong place; it is what `Cleanup` has to restore when
  a connection ends between two frames.
- `HeardOK`, `OrderOK`: the numbers of what was heard, what waits in the receive
  buffer, what is half decoded and what is on its way follow each other.
- `GivenOK`: there is a number for each connection from which its events count on
  without a gap, and the send buffer begins where the newest ends. That is inductive
  where `GivenOnce` is not: the events of a connection are read off its frames
  (`Tally`), and a buffered event keeps its number while it waits.
- `Bounds`: the attempts are bounded by the connections, with a bound of its own
  for each phase.

The second part of the file computes the parser, for each packet that is written: what
`Encode` makes of it, and what `DecodeString` and the decoder read in that
(`EventFrame`, `HeadFrame`, `AckFrame`, `NewsFrame`, ...). The third goes through the
actions (`NextKnown`). The loops of `emitBuffered` are folds over buffers of any length
and go by the chains of section 5.2; an exception of a listener is a case of each
(`aborted`, after which order is claimed no longer, as in the run).

### 5.4 Only model-checked

- Liveness (`NoStarvation`, `TriggerServed`, `Reconnects`, `BufferIsSent`,
  `PageCatchesUp`, `AutopilotKeepsRunning`): beyond the proof system's reach.
- `FirstEncodingExact`, `WordAnswersOldestHit` and `NoHitForgotten` of the channel. They
  are true of widths and gaps that the hardware can keep apart, not of all that
  `ChannelAssumption` allows, and the argument would carry all eight samples through
  the pipeline.

## 6. Plan

Done: the path above, in the order ring buffer, arbiter and block, bank switch and
daemon, channel; then run control and its pages with the connection they depend on,
in the order engine socket, Manager and Socket, pages and server. Next, most important
first:

1. `Fifo`-level composition of two stages (layers 2 and 3 of `TDC_64ch_2BRAM`): what
   the two-edge pulses of `valid_o` do to the next buffer and to the write side.
2. `TDC_32ch` and `rr_arbiter_321`: the registered requests are one edge old when they
   are used, so the question of `NeverWedged` is a new one.
3. An abstract bank hand-over (filled, handed over, released) that `Readout` implements
   by a refinement mapping; `TDC_64ch_1BRAM` and the bare-metal routine beside it.
4. The DAQ server: threads, `stop()`, spill recording over receives, datagrams lost
   and shared sockets; properties: `stop()` returns, a file holds the words between
   its preambles, one file per spill.
5. Proofs left: the timing of the channel for the widths of the code.

## 7. Not modelled, and why

- Metastability, skew and placement (`attribute rloc`): analogue and timing matters;
  of the skew between clk_sys and clk0 only on which side of a shared edge it falls.
- The width in which the daemon reads the bank (`unsigned int *`, `daemon.c:65`, for words
  of 64 bits): a read of the model is of a word, and no property depends on its content.
- Of the labels of words in a bank: they start again with each turn, so in `readout` a
  word that is left from an earlier turn could stand for a lost one of a later. The
  theorem `HandedBankKeepsWords` has turns of any number of words and banks of any size,
  and says it of words that no earlier turn was long enough to have.
- `empty_next`, `full_next`, `heartbeat_o`, the DEBUG ports: nothing uses them.
- The TCP socket that the daemon opens and never uses; printing.
- A reset while a pulse is being sampled: nothing says what the channel should do.
  A reset during a readout is modelled, but the properties that it breaks
  (`SelectionHolds`, `OneReadoutPerTrigger`) are stated for runs without one: lines
  319-333 set `which_bram_s` back and leave `state` alone.
- Of the socket.io client: URLs and query parameters, JSONP polling, values within
  values, namespaces but the default one, the lengths of the delays of `Backoff` (a
  timer may fire at any time), CONNECT_ERROR, volatile events, the application's
  `connect` and `disconnect`, which the page does not call, a limit on attempts (there
  is none), and the debug output.
- Of run control: `Autopilot.py`'s policy and form, the backends, run numbers, logs,
  the graph, and the routes for logs and configuration.
- Other vendored and generated files, block designs, constraints, kernel configuration.

## 8. Running

```
tlc -workers 2 -config TDC_4ch.cfg MCTDC_4ch     # the run's module and cfg are in PROJECT.json
tlapm ReadoutProofs.tla
```
