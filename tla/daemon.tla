------------------------------- MODULE daemon -------------------------------
(***************************************************************************)
(* The readout daemon of sources/sw/linux/daemon.c and the UIO interrupt   *)
(* device it sleeps on.  Each action ends with one access to a device; an  *)
(* open or mmap that fails ends the process (error(), lines 44-48).        *)
(***************************************************************************)
EXTENDS Integers

CONSTANTS READS,      \* iterations of the read loop
          MaxExits    \* bound: how often the daemon ends

ASSUME DaemonAssumption == READS \in Nat \ {0} /\ MaxExits \in Nat

VARIABLES
  pc,         \* where the daemon is
  rd_busy,    \* the read_busy GPIO: it keeps its value when the daemon ends
  which_bram, \* the bank the daemon read from the which_bram GPIO
  i,          \* the loop counter
  latched,    \* an interrupt edge waits at the interrupt controller
  masked,     \* the UIO interrupt is disabled
  event,      \* read() on the UIO device would return
  exits

ps_vars == <<pc, rd_busy, which_bram, i, latched, masked, event, exits>>
uio == <<latched, masked, event>>

PS_Init ==
  /\ pc = "closed" /\ rd_busy = FALSE /\ which_bram = 1 /\ i = 0
  /\ latched = FALSE /\ masked = FALSE /\ event = FALSE /\ exits = 0

(* Start: open the interrupt device.  The kernel starts the new file at    *)
(* the events there have been so far.                                      *)
Open ==
  /\ pc = "closed" /\ pc' = "unmask"
  /\ event' = FALSE
  /\ UNCHANGED <<rd_busy, which_bram, i, latched, masked, exits>>

(* write(1): enable the interrupt.                                         *)
Unmask ==
  /\ pc = "unmask" /\ pc' = "wait"
  /\ masked' = FALSE
  /\ UNCHANGED <<rd_busy, which_bram, i, latched, event, exits>>

(* read(): block until there is an event.                                  *)
Wait ==
  /\ pc = "wait" /\ event /\ pc' = "raise"
  /\ event' = FALSE
  /\ UNCHANGED <<rd_busy, which_bram, i, latched, masked, exits>>

RaiseBusy ==
  /\ pc = "raise" /\ pc' = "select"
  /\ rd_busy' = TRUE
  /\ UNCHANGED <<which_bram, i, uio, exits>>

(* Read the which_bram GPIO; the bank opened next is the one it names.     *)
Select(bramsel) ==
  /\ pc = "select" /\ pc' = "read"
  /\ which_bram' = bramsel /\ i' = 0
  /\ UNCHANGED <<rd_busy, uio, exits>>

bank_read == IF which_bram = 1 THEN 1 ELSE 2

(* Mistake: read_busy goes down with the first word.                       *)
ReadWord_releases ==
  /\ pc = "read" /\ i < READS
  /\ i' = i + 1 /\ rd_busy' = FALSE
  /\ UNCHANGED <<pc, which_bram, uio, exits>>

ReadWord ==
  /\ pc = "read" /\ i < READS
  /\ i' = i + 1
  /\ UNCHANGED <<pc, rd_busy, which_bram, uio, exits>>

(* Mistake: read_busy is never lowered.                                    *)
LowerBusy_forgotten ==
  /\ pc = "read" /\ i = READS /\ pc' = "unmask"
  /\ UNCHANGED <<rd_busy, which_bram, i, uio, exits>>

LowerBusy ==
  /\ pc = "read" /\ i = READS /\ pc' = "unmask"
  /\ rd_busy' = FALSE
  /\ UNCHANGED <<which_bram, i, uio, exits>>

(* The kernel's handler: count an event and disable the interrupt until the*)
(* daemon enables it again.                                                *)
Deliver ==
  /\ latched /\ ~masked
  /\ latched' = FALSE /\ masked' = TRUE /\ event' = TRUE
  /\ UNCHANGED <<pc, rd_busy, which_bram, i, exits>>

(* error(): the process ends.  The GPIO keeps what was last written to it. *)
Exit ==
  /\ exits < MaxExits /\ exits' = exits + 1
  /\ \/ pc \in {"unmask", "raise", "select"}
     \/ pc = "read" /\ i = 0
  /\ pc' = "closed"
  /\ UNCHANGED <<rd_busy, which_bram, i, uio>>

Loop(bramsel) ==
  Unmask \/ Wait \/ RaiseBusy \/ Select(bramsel) \/ ReadWord \/ LowerBusy
=============================================================================
