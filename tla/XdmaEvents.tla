------------------------------- MODULE XdmaEvents -------------------------------
(***************************************************************************)
(* One user interrupt and the processes that read() and poll() its events  *)
(* device.  The handler notes the interrupt in events_irq and wakes; a     *)
(* read sleeps until there is one and takes it.  The flag is set and taken *)
(* under events_lock, so each is one step; the wait tests it without.      *)
(***************************************************************************)
CONSTANT Readers  \* processes that may open the events device

VARIABLES
  events_irq,  \* struct xdma_irq: an interrupt was seen and not yet read
  epc,         \* where each process is
  got          \* what its last call returned

eventsVars == <<events_irq, epc, got>>

Pcs     == {"idle", "wait", "asleep", "take", "poll", "poll_asleep"}
Results == {"none", "event", "no event", "readable", "ERESTARTSYS"}

TypeOK ==
  /\ events_irq \in BOOLEAN
  /\ epc \in [Readers -> Pcs] /\ got \in [Readers -> Results]

Init ==
  /\ events_irq = FALSE
  /\ epc = [r \in Readers |-> "idle"] /\ got = [r \in Readers |-> "none"]

Return(r, value) ==
  /\ epc' = [epc EXCEPT ![r] = "idle"]
  /\ got' = [got EXCEPT ![r] = value]
-------------------------------------------------------------------------------
NobodyWoken == epc \* mutant
\* Sleepers test their condition again.
wake_up == [r \in Readers |->
  IF epc[r] = "asleep" THEN "wait" ELSE IF epc[r] = "poll_asleep" THEN "poll" ELSE epc[r]]

\* It wakes only when the flag was not set.
user_irq_service ==
  /\ events_irq' = TRUE
  /\ epc' = IF events_irq THEN epc ELSE wake_up
  /\ UNCHANGED got

\* char_events_read
ReadStart(r) ==
  /\ epc[r] = "idle"
  /\ epc' = [epc EXCEPT ![r] = "wait"]
  /\ UNCHANGED <<events_irq, got>>

Always == TRUE \* mutant
EventSeen == events_irq

ReadWait(r) ==
  /\ epc[r] = "wait"
  /\ epc' = [epc EXCEPT ![r] = IF EventSeen THEN "take" ELSE "asleep"]
  /\ UNCHANGED <<events_irq, got>>

ReadInterrupted(r) ==
  /\ epc[r] \in {"wait", "asleep"} /\ ~events_irq
  /\ Return(r, "ERESTARTSYS")
  /\ UNCHANGED events_irq

\* Whatever the flag is by now is given to the caller, and reset.
ReadTake(r) ==
  /\ epc[r] = "take"
  /\ Return(r, IF events_irq THEN "event" ELSE "no event")
  /\ events_irq' = FALSE

PollStart(r) ==
  /\ epc[r] = "idle"
  /\ epc' = [epc EXCEPT ![r] = "poll"]
  /\ UNCHANGED <<events_irq, got>>

\* char_events_poll; the kernel calls it again after each wake-up.
Poll(r) ==
  /\ epc[r] = "poll"
  /\ IF events_irq THEN Return(r, "readable")
                   ELSE epc' = [epc EXCEPT ![r] = "poll_asleep"] /\ UNCHANGED got
  /\ UNCHANGED events_irq

ReaderStep(r) == ReadWait(r) \/ ReadTake(r) \/ Poll(r)
-------------------------------------------------------------------------------
(* Properties *)

\* "sleep until any interrupt events have occurred" (char_events_read).
ReadMeansEvent == \A r \in Readers : got[r] # "no event"

\* What char_events_poll calls readable is there when the process comes back.
ReadableStays == \A r \in Readers : got[r] = "readable" /\ epc[r] = "idle" => events_irq
===============================================================================
