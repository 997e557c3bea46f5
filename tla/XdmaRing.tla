-------------------------------- MODULE XdmaRing --------------------------------
(***************************************************************************)
(* The receive ring of an open AXI-Stream C2H channel: the hardware fills  *)
(* the pages of rx_buffer and writes a result for each, the service moves  *)
(* rx_tail over the new results, and the threads in read() move rx_head    *)
(* and copy the pages out.  In interrupt mode the service is a work item,  *)
(* in poll mode each reader runs it.  With enable_credit_mp the hardware   *)
(* needs a credit per page, which the reader gives back after the copy.    *)
(*                                                                         *)
(* The n-th page the hardware fills is block n.  rx_head and the results   *)
(* are moved under engine->lock, but rx_overrun and eop_found are written, *)
(* and the conditions of the wait are read, without it.  The engine's      *)
(* interrupt mask is that of XdmaEngine, without MSI-X; opening and        *)
(* closing the channel is XdmaCyclic.                                      *)
(***************************************************************************)
EXTENDS Integers, Sequences, FiniteSets

CONSTANTS
  Readers,      \* threads that may share the open file
  Worker,       \* the kworker that runs engine->work
  Nobody,       \* engine->lock is free
  Pages,        \* RX_BUF_PAGES
  InitCredits,  \* credits cyclic_transfer_setup writes: 128, of 256 pages
  MaxBlocks,    \* bound: pages the hardware fills
  MaxErrors,    \* bound: errors that halt the engine
  Setups        \* the setups to look at

Slots  == 0 .. Pages - 1
Blocks == 1 .. MaxBlocks

\* How the module was loaded, and what surrounds it.
Setup == [
  poll_mode : BOOLEAN,          \* module parameter
  enable_credit_mp : BOOLEAN,   \* module parameter
  readers : SUBSET Readers,     \* the threads that do read
  signals : BOOLEAN,            \* signals may reach them
  errors : 0 .. MaxErrors,      \* errors that halt the engine
  bad : 0 .. MaxBlocks,         \* results without a valid magic and length
  blocks : 0 .. MaxBlocks,      \* pages the hardware fills
  ahead : Nat]                  \* how far the source runs ahead of the readers, in pages

ASSUME RingAssumption ==
  /\ Worker # Nobody /\ Worker \notin Readers /\ Nobody \notin Readers
  /\ IsFiniteSet(Readers)
  /\ Pages \in Nat \ {0} /\ InitCredits \in 1 .. Pages - 1
  /\ {MaxBlocks, MaxErrors} \subseteq Nat
  /\ Setups \subseteq Setup

VARIABLES
  setup,       \* never changes
  result,      \* the block whose result is in each slot, 0 when cleared
  buffer,      \* the block in each page of rx_buffer
  rx_head, rx_tail, rx_overrun, eop_found, running,  \* struct xdma_engine
  hw_busy, hw_event, wb_err, credits, hw_errors,     \* the hardware
  produced, eops, bads,  \* blocks so far, those with EOP, those with a bad result
  lock,        \* holder of engine->lock
  svc,         \* where the service is
  svc_eop,     \* its eop_count # 0
  svc_busy,    \* BUSY in the engine->status it read
  svc_rc,      \* it returns -1
  irq_enabled, work_pending,
  pc, signal, rc, head, num_credit, eop, fault,  \* the readers and their locals
  got,         \* blocks copied to the user's buffer in this read
  errs,        \* how often -EIO was added to rc_len in this read
  ret,         \* what the last read returned
  copies       \* history: how often each block was copied to a user

ringVars   == <<result, buffer, rx_head, rx_tail, rx_overrun, eop_found, running>>
hwVars     == <<hw_busy, hw_event, wb_err, credits, hw_errors, produced, eops, bads>>
svcVars    == <<lock, svc, svc_eop, svc_busy, svc_rc, irq_enabled, work_pending>>
readerVars == <<pc, signal, rc, head, num_credit, eop, fault, got, errs, ret, copies>>
vars == <<setup, ringVars, hwVars, svcVars, readerVars>>

ReaderPcs == {"idle", "monitor", "asleep", "recheck", "complete", "take", "copy", "release", "more"}
NoRead    == [error |-> "none", blocks |-> <<>>, errs |-> 0]

TypeOK ==
  /\ setup \in Setups
  /\ result \in [Slots -> 0 .. MaxBlocks] /\ buffer \in [Slots -> 0 .. MaxBlocks]
  /\ rx_head \in Slots /\ rx_tail \in Slots
  /\ {rx_overrun, eop_found, running, hw_busy, hw_event, wb_err} \subseteq BOOLEAN
  /\ credits \in Nat /\ hw_errors \in 0 .. MaxErrors
  /\ produced \in 0 .. MaxBlocks /\ eops \subseteq Blocks /\ bads \subseteq Blocks
  /\ lock \in Readers \cup {Worker, Nobody}
  /\ svc \in {"idle", "status", "ring", "wake", "stop", "poll", "leave"}
  /\ {svc_eop, svc_busy, svc_rc, irq_enabled, work_pending} \subseteq BOOLEAN
  /\ pc \in [Readers -> ReaderPcs]
  /\ signal \in [Readers -> BOOLEAN] /\ rc \in [Readers -> BOOLEAN]
  /\ head \in [Readers -> Slots] /\ num_credit \in [Readers -> Nat]
  /\ eop \in [Readers -> BOOLEAN] /\ fault \in [Readers -> BOOLEAN]
  /\ got \in [Readers -> Seq(Blocks)] /\ errs \in [Readers -> Nat]
  /\ ret \in [Readers -> [error : {"none", "ERESTARTSYS"}, blocks : Seq(Blocks), errs : Nat]]
  /\ copies \in [Blocks -> Nat]

Init ==
  /\ setup \in Setups
  /\ result = [s \in Slots |-> 0] /\ buffer = [s \in Slots |-> 0]
  /\ rx_head = 0 /\ rx_tail = 0 /\ rx_overrun = FALSE /\ eop_found = FALSE
  /\ running = TRUE /\ hw_busy = TRUE /\ hw_event = FALSE /\ wb_err = FALSE
  /\ credits = (IF setup.enable_credit_mp THEN InitCredits ELSE 0)
  /\ hw_errors = 0 /\ produced = 0 /\ eops = {} /\ bads = {}
  /\ lock = Nobody /\ svc = "idle" /\ svc_eop = FALSE /\ svc_busy = FALSE /\ svc_rc = FALSE
  /\ irq_enabled = ~setup.poll_mode /\ work_pending = FALSE
  /\ pc = [r \in Readers |-> "idle"]
  /\ signal = [r \in Readers |-> FALSE] /\ rc = [r \in Readers |-> FALSE]
  /\ head = [r \in Readers |-> 0] /\ num_credit = [r \in Readers |-> 0]
  /\ eop = [r \in Readers |-> FALSE] /\ fault = [r \in Readers |-> FALSE]
  /\ got = [r \in Readers |-> <<>>] /\ errs = [r \in Readers |-> 0]
  /\ ret = [r \in Readers |-> NoRead]
  /\ copies = [b \in Blocks |-> 0]

After(slot, n) == (slot + n) % Pages
-------------------------------------------------------------------------------
(* The hardware *)

SlotOf(b) == (b - 1) % Pages
Pending == {b \in 1 .. produced : copies[b] = 0}

\* A page is filled and its result written; every descriptor is COMPLETED, so
\* every page raises an interrupt.
HwBlock ==
  LET b == produced + 1 IN
  /\ hw_busy /\ b <= setup.blocks
  /\ \A p \in Pending : b - p < setup.ahead
  /\ setup.enable_credit_mp => credits > 0
  /\ credits' = IF setup.enable_credit_mp THEN credits - 1 ELSE credits
  /\ result' = [result EXCEPT ![SlotOf(b)] = b]
  /\ buffer' = [buffer EXCEPT ![SlotOf(b)] = b]
  /\ produced' = b
  /\ \/ eops' = eops \cup {b} /\ bads' = bads
     \/ eops' = eops /\ bads' = bads
     \/ eops' = eops /\ bads' = bads \cup {b} /\ Cardinality(bads) < setup.bad
  /\ hw_event' = TRUE
  /\ UNCHANGED <<setup, rx_head, rx_tail, rx_overrun, eop_found, running, hw_busy, wb_err, hw_errors,
                 svcVars, readerVars>>

\* An error halts the engine; in poll mode it is written back.
HwError ==
  /\ hw_busy /\ hw_errors < setup.errors
  /\ hw_errors' = hw_errors + 1
  /\ hw_busy' = FALSE /\ hw_event' = TRUE /\ wb_err' = setup.poll_mode
  /\ UNCHANGED <<setup, ringVars, credits, produced, eops, bads, svcVars, readerVars>>

Isr ==
  /\ hw_event /\ irq_enabled
  /\ irq_enabled' = FALSE /\ work_pending' = TRUE
  /\ UNCHANGED <<setup, ringVars, hwVars, lock, svc, svc_eop, svc_busy, svc_rc, readerVars>>
-------------------------------------------------------------------------------
(* The service: engine_service_cyclic *)

WorkBegin ==
  /\ work_pending /\ lock = Nobody
  /\ work_pending' = FALSE /\ lock' = Worker
  /\ svc' = "status" /\ svc_eop' = FALSE
  /\ UNCHANGED <<setup, ringVars, hwVars, svc_busy, svc_rc, irq_enabled, readerVars>>

\* engine_status_read(engine, 1)
ServiceStatus ==
  /\ svc = "status"
  /\ svc_busy' = hw_busy /\ hw_event' = FALSE
  /\ svc' = "ring"
  /\ UNCHANGED <<setup, ringVars, hw_busy, wb_err, credits, hw_errors, produced, eops, bads,
                 lock, svc_eop, svc_rc, irq_enabled, work_pending, readerVars>>

AnyResult == ~rx_overrun \* mutant
MoreResults == result[rx_tail] # 0 /\ ~rx_overrun

\* One turn of the loop of engine_ring_process.
RingProcess ==
  /\ svc = "ring" /\ MoreResults
  /\ svc_eop' = (svc_eop \/ result[rx_tail] \in eops)
  /\ rx_tail' = After(rx_tail, 1)
  /\ rx_overrun' = (rx_tail' = rx_head)
  /\ UNCHANGED <<setup, result, buffer, rx_head, eop_found, running, hwVars,
                 lock, svc, svc_busy, svc_rc, irq_enabled, work_pending, readerVars>>

\* Its end; engine_service_cyclic_polled tries again until it has seen an EOP.
RingProcessed ==
  /\ svc = "ring" /\ ~MoreResults
  /\ svc' = IF ~setup.poll_mode THEN "wake" ELSE IF svc_eop THEN "leave" ELSE "poll"
  /\ UNCHANGED <<setup, ringVars, hwVars, lock, svc_eop, svc_busy, svc_rc, irq_enabled, work_pending,
                 readerVars>>

NobodyWoken == pc \* mutant
wake_up == [r \in Readers |-> IF pc[r] = "asleep" THEN "monitor" ELSE pc[r]]

\* The readers are woken on EOP, with credits on every interrupt.
RingWake ==
  /\ svc = "wake"
  /\ eop_found' = (eop_found \/ (~setup.enable_credit_mp /\ svc_eop))
  /\ pc' = IF setup.enable_credit_mp \/ svc_eop THEN wake_up ELSE pc
  /\ svc' = "stop"
  /\ UNCHANGED <<setup, result, buffer, rx_head, rx_tail, rx_overrun, running, hwVars,
                 lock, svc_eop, svc_busy, svc_rc, irq_enabled, work_pending,
                 signal, rc, head, num_credit, eop, fault, got, errs, ret, copies>>

\* engine_transfer_dequeue and engine_service_shutdown.
RingStop ==
  /\ svc = "stop"
  /\ IF running /\ ~svc_busy
     THEN running' = FALSE /\ hw_busy' = FALSE
     ELSE UNCHANGED <<running, hw_busy>>
  /\ svc' = "leave"
  /\ UNCHANGED <<setup, result, buffer, rx_head, rx_tail, rx_overrun, eop_found,
                 hw_event, wb_err, credits, hw_errors, produced, eops, bads,
                 lock, svc_eop, svc_busy, svc_rc, irq_enabled, work_pending, readerVars>>

WorkEnd ==
  /\ svc = "leave" /\ lock = Worker
  /\ irq_enabled' = TRUE
  /\ lock' = Nobody /\ svc' = "idle"
  /\ UNCHANGED <<setup, ringVars, hwVars, svc_eop, svc_busy, svc_rc, work_pending, readerVars>>

\* engine_service_poll(engine, 0)
PollBegin(r) ==
  /\ setup.poll_mode /\ pc[r] = "monitor" /\ lock = Nobody
  /\ lock' = r /\ svc' = "poll" /\ svc_eop' = FALSE /\ svc_rc' = FALSE
  /\ UNCHANGED <<setup, ringVars, hwVars, svc_busy, irq_enabled, work_pending, readerVars>>

\* The write-back word is looked at; an error ends the service, and the status
\* is read and the engine shut down.
PollWriteback ==
  /\ svc = "poll"
  /\ IF wb_err
     THEN /\ svc_rc' = TRUE /\ hw_event' = FALSE
          /\ running' = (running /\ hw_busy)
          /\ svc' = "leave"
     ELSE svc' = "ring" /\ UNCHANGED <<svc_rc, hw_event, running>>
  /\ UNCHANGED <<setup, result, buffer, rx_head, rx_tail, rx_overrun, eop_found,
                 hw_busy, wb_err, credits, hw_errors, produced, eops, bads,
                 lock, svc_eop, svc_busy, irq_enabled, work_pending, readerVars>>

PollEnd(r) ==
  /\ svc = "leave" /\ lock = r
  /\ lock' = Nobody /\ svc' = "idle"
  /\ rc' = [rc EXCEPT ![r] = svc_rc]
  /\ pc' = [pc EXCEPT ![r] = "recheck"]
  /\ UNCHANGED <<setup, ringVars, hwVars, svc_eop, svc_busy, svc_rc, irq_enabled, work_pending,
                 signal, head, num_credit, eop, fault, got, errs, ret, copies>>
-------------------------------------------------------------------------------
(* The readers: char_sgdma_read_cyclic *)

ReadStart(r) ==
  /\ r \in setup.readers /\ pc[r] = "idle"
  /\ pc' = [pc EXCEPT ![r] = "monitor"]
  /\ got' = [got EXCEPT ![r] = <<>>]
  /\ errs' = [errs EXCEPT ![r] = 0]
  /\ UNCHANGED <<setup, ringVars, hwVars, svcVars, signal, rc, head, num_credit, eop, fault, ret, copies>>

ReadReturns(r, value) ==
  /\ ret' = [ret EXCEPT ![r] = value]
  /\ signal' = [signal EXCEPT ![r] = FALSE]
  /\ pc' = [pc EXCEPT ![r] = "idle"]

\* A signal stays pending until read() returns.
SignalArrives(r) ==
  /\ setup.signals /\ pc[r] # "idle" /\ ~signal[r]
  /\ signal' = [signal EXCEPT ![r] = TRUE]
  /\ pc' = [pc EXCEPT ![r] = IF @ = "asleep" THEN "monitor" ELSE @]
  /\ UNCHANGED <<setup, ringVars, hwVars, svcVars, rc, head, num_credit, eop, fault, got, errs, ret, copies>>

DataWaits == IF setup.enable_credit_mp THEN rx_head # rx_tail \/ rx_overrun ELSE eop_found

\* wait_event_interruptible of transfer_monitor_cyclic
Monitor(r) ==
  /\ ~setup.poll_mode /\ pc[r] = "monitor"
  /\ rc' = [rc EXCEPT ![r] = ~DataWaits /\ signal[r]]
  /\ pc' = [pc EXCEPT ![r] = IF DataWaits \/ signal[r] THEN "recheck" ELSE "asleep"]
  /\ UNCHANGED <<setup, ringVars, hwVars, svcVars,
                 signal, head, num_credit, eop, fault, got, errs, ret, copies>>

\* Its loop ends when there is a result; rc = 100 is never reached, because each
\* turn sets rc anew.
Recheck(r) ==
  /\ pc[r] = "recheck"
  /\ IF result[rx_head] = 0
     THEN pc' = [pc EXCEPT ![r] = "monitor"] /\ UNCHANGED <<signal, ret>>
     ELSE IF rc[r]
     THEN ReadReturns(r, [error |-> "ERESTARTSYS", blocks |-> <<>>, errs |-> 0])
     ELSE pc' = [pc EXCEPT ![r] = "complete"] /\ UNCHANGED <<signal, ret>>
  /\ UNCHANGED <<setup, ringVars, hwVars, svcVars, rc, head, num_credit, eop, fault, got, errs, copies>>

\* complete_cyclic takes engine->lock.
CompleteBegin(r) ==
  /\ pc[r] = "complete" /\ lock = Nobody
  /\ lock' = r
  /\ head' = [head EXCEPT ![r] = rx_head]
  /\ num_credit' = [num_credit EXCEPT ![r] = 0]
  /\ eop' = [eop EXCEPT ![r] = FALSE] /\ fault' = [fault EXCEPT ![r] = FALSE]
  /\ pc' = [pc EXCEPT ![r] = "take"]
  /\ UNCHANGED <<setup, ringVars, hwVars, svc, svc_eop, svc_busy, svc_rc, irq_enabled, work_pending,
                 signal, rc, got, errs, ret, copies>>

PastEop(r) == ~fault[r] /\ (rx_head # rx_tail \/ rx_overrun) \* mutant
Taking(r) == ~fault[r] /\ ~eop[r] /\ (rx_head # rx_tail \/ rx_overrun)

\* One turn of its loop: the result at rx_head is taken and cleared.
TakeResult(r) ==
  LET b == result[rx_head]
      valid == b # 0 /\ b \notin bads
  IN
  /\ pc[r] = "take" /\ Taking(r)
  /\ num_credit' = [num_credit EXCEPT ![r] = IF valid THEN @ + 1 ELSE @]
  /\ fault' = [fault EXCEPT ![r] = ~valid]
  /\ eop' = [eop EXCEPT ![r] = b \in eops]
  /\ eop_found' = (eop_found \/ b \in eops)
  /\ result' = [result EXCEPT ![rx_head] = 0]
  /\ rx_head' = After(rx_head, 1)
  /\ UNCHANGED <<setup, buffer, rx_tail, rx_overrun, running, hwVars, svcVars,
                 pc, signal, rc, head, got, errs, ret, copies>>

\* Its end; after a fault -EIO is added to the length, the read goes on, and
\* neither the copy nor the credits nor the overrun are seen to.
CompleteEnd(r) ==
  /\ pc[r] = "take" /\ ~Taking(r)
  /\ lock' = Nobody
  /\ errs' = [errs EXCEPT ![r] = IF fault[r] THEN @ + 1 ELSE @]
  /\ pc' = [pc EXCEPT ![r] = IF fault[r] THEN "more" ELSE "copy"]
  /\ UNCHANGED <<setup, ringVars, hwVars, svc, svc_eop, svc_busy, svc_rc, irq_enabled, work_pending,
                 signal, rc, head, num_credit, eop, fault, got, ret, copies>>

FromRxHead(r) == rx_head \* mutant
FirstPage(r) == head[r]

\* copy_cyclic_to_user, without the lock.
CopyOut(r) ==
  LET pages == [i \in 1 .. num_credit[r] |-> buffer[After(FirstPage(r), i - 1)]] IN
  /\ pc[r] = "copy"
  /\ got' = [got EXCEPT ![r] = @ \o pages]
  /\ copies' = [b \in Blocks |-> copies[b] + Cardinality({i \in DOMAIN pages : pages[i] = b})]
  /\ pc' = [pc EXCEPT ![r] = "release"]
  /\ UNCHANGED <<setup, ringVars, hwVars, svcVars, signal, rc, head, num_credit, eop, fault, errs, ret>>

OneCreditMore(r) == num_credit[r] + 1 \* mutant
CreditsBack(r) == num_credit[r]

\* rx_overrun is cleared, without the lock, and the credits are released.
Release(r) ==
  /\ pc[r] = "release"
  /\ rx_overrun' = FALSE
  /\ credits' = IF setup.enable_credit_mp THEN credits + CreditsBack(r) ELSE credits
  /\ pc' = [pc EXCEPT ![r] = "more"]
  /\ UNCHANGED <<setup, result, buffer, rx_head, rx_tail, eop_found, running,
                 hw_busy, hw_event, wb_err, hw_errors, produced, eops, bads, svcVars,
                 signal, rc, head, num_credit, eop, fault, got, errs, ret, copies>>

EopFoundAfterRead == eop_found /\ ~setup.enable_credit_mp

\* while (!engine->eop_found); only with credits is it reset.
MoreToRead(r) ==
  /\ pc[r] = "more"
  /\ IF eop_found
     THEN /\ ReadReturns(r, [error |-> "none", blocks |-> got[r], errs |-> errs[r]])
          /\ eop_found' = EopFoundAfterRead
     ELSE /\ pc' = [pc EXCEPT ![r] = "monitor"]
          /\ UNCHANGED <<signal, ret, eop_found>>
  /\ UNCHANGED <<setup, result, buffer, rx_head, rx_tail, rx_overrun, running, hwVars, svcVars,
                 rc, head, num_credit, eop, fault, got, errs, copies>>
-------------------------------------------------------------------------------
Service ==
  \/ ServiceStatus \/ RingProcess \/ RingProcessed \/ RingWake \/ RingStop \/ PollWriteback

ReaderStep(r) ==
  \/ PollBegin(r) \/ PollEnd(r) \/ Monitor(r) \/ Recheck(r) \/ CompleteBegin(r)
  \/ TakeResult(r) \/ CompleteEnd(r) \/ CopyOut(r) \/ Release(r) \/ MoreToRead(r)

Next ==
  \/ HwBlock \/ HwError \/ Isr \/ WorkBegin \/ Service \/ WorkEnd
  \/ \E r \in Readers : ReadStart(r) \/ SignalArrives(r) \/ ReaderStep(r)

\* The interrupt is delivered, the work queue runs what is scheduled, and a
\* runnable reader is scheduled.  The source need not send anything.
Fairness ==
  /\ WF_vars(Isr) /\ WF_vars(WorkBegin) /\ WF_vars(Service) /\ WF_vars(WorkEnd)
  /\ \A r \in Readers : WF_vars(ReaderStep(r))

Spec == Init /\ [][Next]_vars
FairSpec == Spec /\ Fairness
-------------------------------------------------------------------------------
(* Properties *)

Alone   == Cardinality(setup.readers) = 1
NoFault == setup.bad = 0

\* The source never comes round the ring to a page that was not copied.
KeepsUp == setup.enable_credit_mp \/ setup.ahead < Pages

IsPacket(s) ==
  /\ s # <<>>
  /\ \A i \in 1 .. Len(s) : s[i] = s[1] + i - 1 /\ (s[i] \in eops <=> i = Len(s))
  /\ s[1] = 1 \/ s[1] - 1 \in eops

\* "wake any reader on EOP, as one or more packets are now in the RX buffer"
\* (engine_service_cyclic_interrupt): what read() returns is one whole packet.
EveryReadIsAPacket ==
  \A r \in Readers : ret[r] # NoRead /\ ret[r].error = "none" => IsPacket(ret[r].blocks)

\* With credits or in poll mode it is one, unless a signal, a fault or another
\* reader comes between the blocks of a packet.
PacketsWhole ==
  /\ Alone /\ NoFault /\ KeepsUp /\ ~setup.signals
  /\ setup.enable_credit_mp \/ setup.poll_mode
  => EveryReadIsAPacket

\* "flag to user space that overrun has occurred" (engine_ring_process): as long
\* as there is none, complete_cyclic copies no block out a second time, even
\* after a signal or a fault; and without faults it passes over none and copies
\* them in order.
NoSilentLoss ==
  Alone /\ KeepsUp =>
    \A b \in Blocks : /\ copies[b] <= 1
                     /\ NoFault /\ copies[b] > 0 => \A c \in 1 .. b : copies[c] = 1

\* The credits of half the ring keep the tail from meeting the head
\* (engine_ring_process), however many threads read; "if copy is successful,
\* release credits" (complete_cyclic): a page is not filled again before it was
\* copied out.
KeptUntilCopied ==
  setup.enable_credit_mp =>
    /\ ~rx_overrun
    /\ Alone /\ NoFault => \A b \in 1 .. produced : copies[b] = 0 => buffer[SlotOf(b)] = b

\* WARN_ON(result[engine->rx_head].status == 0) of complete_cyclic.
NoWarn == KeepsUp => \A r \in Readers : pc[r] = "take" /\ Taking(r) => result[rx_head] # 0
===============================================================================
