------------------------------- MODULE XdmaCyclic -------------------------------
(***************************************************************************)
(* Opening and closing an AXI-Stream C2H channel: cyclic_transfer_setup    *)
(* allocates the receive ring and queues a cyclic transfer for it,         *)
(* cyclic_transfer_teardown stops the engine, waits until the service has  *)
(* seen it stop, and frees the ring.  What is in the ring is XdmaRing.     *)
(*                                                                         *)
(* Setup and the freeing run under engine->lock, the stopping does not.    *)
(***************************************************************************)
EXTENDS Integers, Sequences

CONSTANTS
  Users,      \* processes that may open and close the device
  Worker,     \* the kworker that runs engine->work
  Nobody,     \* engine->lock is free
  MaxOpens,   \* bound: cyclic transfers created
  MaxErrors,  \* bound: errors that halt the engine
  Setups      \* the setups to look at

Xfers == 1 .. MaxOpens
NULL  == 0

\* How the module was loaded, and what surrounds it.
Setup == [
  poll_mode : BOOLEAN,      \* module parameter
  users : SUBSET Users,     \* the processes that do open the device
  signals : BOOLEAN,        \* a signal may reach a process waiting in close()
  errors : 0 .. MaxErrors,  \* errors that halt the engine
  fails : SUBSET {"rvmalloc", "transfer_create", "pci_alloc"}]  \* allocations that may fail

ASSUME CyclicAssumption ==
  /\ Worker # Nobody /\ Worker \notin Users /\ Nobody \notin Users
  /\ MaxOpens \in Nat \ {0} /\ MaxErrors \in Nat
  /\ Setups \subseteq Setup

VARIABLES
  setup,                 \* never changes
  rx_buffer, rx_result,  \* engine->rx_buffer and rx_result_buffer_virt are allocated
  rx_transfer_cyclic,    \* engine->rx_transfer_cyclic
  live,                  \* the transfers that are allocated
  opens,                 \* transfers created so far
  transfer_list, running,              \* struct xdma_engine
  hw_busy, hw_run, hw_xfer, hw_event, hw_errors,  \* the hardware; hw_run is RUN
  lock, svc, svc_busy,   \* the lock, where the service is, the BUSY it read
  irq_enabled, work_pending,
  pc,                    \* where each process is
  ret                    \* what its last call returned

memVars    == <<rx_buffer, rx_result, rx_transfer_cyclic, live, opens>>
engineVars == <<transfer_list, running>>
hwVars     == <<hw_busy, hw_run, hw_xfer, hw_event, hw_errors>>
svcVars    == <<lock, svc, svc_busy, irq_enabled, work_pending>>
userVars   == <<pc, ret>>
vars == <<setup, memVars, engineVars, hwVars, svcVars, userVars>>

UserPcs == {"idle", "queue", "open", "stop", "sync", "wait", "asleep", "polling", "free", "oops"}
Returns == {"none", "ok", "EBUSY", "ENOMEM", "ERESTARTSYS"}

TypeOK ==
  /\ setup \in Setups
  /\ {rx_buffer, rx_result, running, hw_busy, hw_run, hw_event} \subseteq BOOLEAN
  /\ rx_transfer_cyclic \in Xfers \cup {NULL} /\ hw_xfer \in Xfers \cup {NULL}
  /\ live \subseteq Xfers /\ opens \in 0 .. MaxOpens
  /\ transfer_list \in Seq(Xfers)
  /\ hw_errors \in 0 .. MaxErrors
  /\ lock \in Users \cup {Worker, Nobody}
  /\ svc \in {"idle", "begin", "stop", "leave", "bug", "oops"}
  /\ {svc_busy, irq_enabled, work_pending} \subseteq BOOLEAN
  /\ pc \in [Users -> UserPcs] /\ ret \in [Users -> Returns]

Init ==
  /\ setup \in Setups
  /\ rx_buffer = FALSE /\ rx_result = FALSE /\ rx_transfer_cyclic = NULL
  /\ live = {} /\ opens = 0 /\ transfer_list = <<>> /\ running = FALSE
  /\ hw_busy = FALSE /\ hw_run = FALSE /\ hw_xfer = NULL /\ hw_event = FALSE /\ hw_errors = 0
  /\ lock = Nobody /\ svc = "idle" /\ svc_busy = FALSE
  /\ irq_enabled = ~setup.poll_mode /\ work_pending = FALSE
  /\ pc = [u \in Users |-> "idle"] /\ ret = [u \in Users |-> "none"]
-------------------------------------------------------------------------------
(* open(): cyclic_transfer_setup *)

\* A second open returns with engine->lock held.
OpenBusy(u) ==
  /\ pc[u] = "idle" /\ lock = Nobody
  /\ rx_buffer
  /\ lock' = u
  /\ ret' = [ret EXCEPT ![u] = "EBUSY"]
  /\ UNCHANGED <<setup, memVars, engineVars, hwVars, svc, svc_busy, irq_enabled, work_pending, pc>>

\* So does one that gets no memory for the ring.
OpenNoBuffer(u) ==
  /\ pc[u] = "idle" /\ lock = Nobody
  /\ ~rx_buffer /\ "rvmalloc" \in setup.fails
  /\ lock' = u
  /\ ret' = [ret EXCEPT ![u] = "ENOMEM"]
  /\ UNCHANGED <<setup, memVars, engineVars, hwVars, svc, svc_busy, irq_enabled, work_pending, pc>>

\* rx_buffer is tested where transfer_create's result is meant: the NULL goes
\* on to transfer_set_result_addresses, or to transfer_destroy.
OpenNoTransfer(u) ==
  /\ pc[u] = "idle" /\ lock = Nobody
  /\ ~rx_buffer /\ "transfer_create" \in setup.fails
  /\ rx_buffer' = TRUE
  /\ rx_result' \in {rx_result, TRUE}
  /\ lock' = u
  /\ pc' = [pc EXCEPT ![u] = "oops"]
  /\ UNCHANGED <<setup, rx_transfer_cyclic, live, opens, engineVars, hwVars,
                 svc, svc_busy, irq_enabled, work_pending, ret>>

\* Mutant: the lock is not released.
OpenNoResultLocked(u) ==
  /\ pc[u] = "idle" /\ lock = Nobody
  /\ ~rx_buffer /\ "pci_alloc" \in setup.fails
  /\ rx_transfer_cyclic' = NULL
  /\ lock' = u
  /\ ret' = [ret EXCEPT ![u] = "ENOMEM"]
  /\ UNCHANGED <<setup, rx_buffer, rx_result, live, opens, engineVars, hwVars,
                 svc, svc_busy, irq_enabled, work_pending, pc>>

\* No memory for the results: everything is given back.
OpenNoResult(u) ==
  /\ pc[u] = "idle" /\ lock = Nobody
  /\ ~rx_buffer /\ "pci_alloc" \in setup.fails
  /\ rx_transfer_cyclic' = NULL
  /\ ret' = [ret EXCEPT ![u] = "ENOMEM"]
  /\ UNCHANGED <<setup, rx_buffer, rx_result, live, opens, engineVars, hwVars, svcVars, pc>>

transfer_create == opens + 1

OpenSetup(u) ==
  /\ pc[u] = "idle" /\ lock = Nobody
  /\ ~rx_buffer /\ opens < MaxOpens
  /\ opens' = opens + 1 /\ live' = live \cup {opens + 1}
  /\ rx_buffer' = TRUE /\ rx_result' = TRUE /\ rx_transfer_cyclic' = transfer_create
  /\ pc' = [pc EXCEPT ![u] = "queue"]
  /\ UNCHANGED <<setup, engineVars, hwVars, svcVars, ret>>

\* transfer_queue: an idle engine is started.
OpenQueue(u) ==
  /\ pc[u] = "queue" /\ lock = Nobody
  /\ transfer_list' = Append(transfer_list, rx_transfer_cyclic)
  /\ IF running
     THEN UNCHANGED <<running, hw_busy, hw_run, hw_xfer>>
     ELSE /\ running' = TRUE /\ hw_busy' = TRUE /\ hw_run' = TRUE
          /\ hw_xfer' = Head(transfer_list')
  /\ pc' = [pc EXCEPT ![u] = "open"]
  /\ ret' = [ret EXCEPT ![u] = "ok"]
  /\ UNCHANGED <<setup, memVars, hw_event, hw_errors, svcVars>>
-------------------------------------------------------------------------------
(* close(): cyclic_transfer_teardown *)

\* engine_cyclic_stop tests the queue ...
CloseLook(u) ==
  /\ pc[u] = "open"
  /\ pc' = [pc EXCEPT ![u] = IF transfer_list = <<>> THEN "sync" ELSE "stop"]
  /\ UNCHANGED <<setup, memVars, engineVars, hwVars, svcVars, ret>>

NoStop == hw_run \* mutant
xdma_engine_stop == FALSE

\* ... then takes its first transfer, without the lock, and clears RUN.  When
\* the queue has become empty that is no transfer.
CloseStop(u) ==
  /\ pc[u] = "stop"
  /\ hw_run' = xdma_engine_stop
  /\ \/ pc' = [pc EXCEPT ![u] = "sync"]
     \/ transfer_list = <<>> /\ pc' = [pc EXCEPT ![u] = "oops"]
  /\ UNCHANGED <<setup, memVars, engineVars, hw_busy, hw_xfer, hw_event, hw_errors, svcVars, ret>>

\* The lock is taken and released.
CloseSync(u) ==
  /\ pc[u] = "sync" /\ lock = Nobody
  /\ pc' = [pc EXCEPT ![u] = "wait"]
  /\ UNCHANGED <<setup, memVars, engineVars, hwVars, svcVars, ret>>

GoToFree(u, value) ==
  /\ pc' = [pc EXCEPT ![u] = "free"]
  /\ ret' = [ret EXCEPT ![u] = value]

NoWait == TRUE \* mutant
Stopped == ~running

\* cyclic_shutdown_interrupt
CloseWait(u) ==
  /\ ~setup.poll_mode /\ pc[u] = "wait"
  /\ IF Stopped THEN GoToFree(u, "ok")
                ELSE pc' = [pc EXCEPT ![u] = "asleep"] /\ UNCHANGED ret
  /\ UNCHANGED <<setup, memVars, engineVars, hwVars, svcVars>>

\* Its return code is kept for the caller of close(), and nothing else.
CloseInterrupted(u) ==
  /\ setup.signals /\ ~setup.poll_mode
  /\ pc[u] \in {"wait", "asleep"} /\ running
  /\ GoToFree(u, "ERESTARTSYS")
  /\ UNCHANGED <<setup, memVars, engineVars, hwVars, svcVars>>

\* cyclic_shutdown_polled takes the lock, and polls until BUSY is clear.
ClosePoll(u) ==
  /\ setup.poll_mode /\ pc[u] = "wait" /\ lock = Nobody
  /\ lock' = u
  /\ pc' = [pc EXCEPT ![u] = "polling"]
  /\ UNCHANGED <<setup, memVars, engineVars, hwVars, svc, svc_busy, irq_enabled, work_pending, ret>>

NoDequeue == transfer_list \* mutant
engine_transfer_dequeue == IF transfer_list = <<>> THEN <<>> ELSE Tail(transfer_list)

\* BUG_ON(transfer != engine->rx_transfer_cyclic) of engine_transfer_dequeue.
WrongTransfer == transfer_list # <<>> /\ Head(transfer_list) # rx_transfer_cyclic

\* engine_transfer_dequeue and engine_service_shutdown, unless the engine is not
\* marked running.
Shutdown ==
  /\ running' = FALSE /\ hw_busy' = FALSE /\ hw_run' = FALSE
  /\ transfer_list' = engine_transfer_dequeue

PolledOnce == TRUE \* mutant
NotBusy == ~hw_busy

ClosePolled(u) ==
  /\ pc[u] = "polling" /\ NotBusy
  /\ hw_event' = FALSE
  /\ IF running /\ ~hw_busy /\ WrongTransfer
     THEN pc' = [pc EXCEPT ![u] = "oops"]
          /\ UNCHANGED <<engineVars, hw_busy, hw_run, lock, ret>>
     ELSE /\ IF running /\ ~hw_busy THEN Shutdown ELSE UNCHANGED <<engineVars, hw_busy, hw_run>>
          /\ lock' = Nobody
          /\ GoToFree(u, "ok")
  /\ UNCHANGED <<setup, memVars, hw_xfer, hw_errors, svc, svc_busy, irq_enabled, work_pending>>

CloseFree(u) ==
  /\ pc[u] = "free" /\ lock = Nobody
  /\ live' = live \ {rx_transfer_cyclic}
  /\ rx_transfer_cyclic' = NULL /\ rx_buffer' = FALSE /\ rx_result' = FALSE
  /\ pc' = [pc EXCEPT ![u] = "idle"]
  /\ UNCHANGED <<setup, opens, engineVars, hwVars, svcVars, ret>>
-------------------------------------------------------------------------------
(* The hardware and its interrupt *)

\* The next page of the ring is filled.
HwPage ==
  /\ hw_busy /\ hw_run
  /\ hw_event' = TRUE
  /\ UNCHANGED <<setup, memVars, engineVars, hw_busy, hw_run, hw_xfer, hw_errors, svcVars, userVars>>

\* RUN was cleared: the engine stops, IDLE_STOPPED.
HwStops ==
  /\ hw_busy /\ ~hw_run
  /\ hw_busy' = FALSE /\ hw_event' = TRUE
  /\ UNCHANGED <<setup, memVars, engineVars, hw_run, hw_xfer, hw_errors, svcVars, userVars>>

HwError ==
  /\ hw_busy /\ hw_errors < setup.errors
  /\ hw_errors' = hw_errors + 1
  /\ hw_busy' = FALSE /\ hw_event' = TRUE
  /\ UNCHANGED <<setup, memVars, engineVars, hw_run, hw_xfer, svcVars, userVars>>

Isr ==
  /\ hw_event /\ irq_enabled
  /\ irq_enabled' = FALSE /\ work_pending' = TRUE
  /\ UNCHANGED <<setup, memVars, engineVars, hwVars, lock, svc, svc_busy, userVars>>
-------------------------------------------------------------------------------
(* engine_service_work *)

WorkBegin ==
  /\ work_pending /\ lock = Nobody
  /\ work_pending' = FALSE /\ lock' = Worker
  /\ svc' = "begin"
  /\ UNCHANGED <<setup, memVars, engineVars, hwVars, svc_busy, irq_enabled, userVars>>

\* engine_service_cyclic_interrupt reads and clears the status.  Without a ring
\* it is engine_service, which does only that when the engine does not run, and
\* otherwise serves the freed transfer of a closed channel.
ServiceStatus ==
  /\ svc = "begin"
  /\ svc_busy' = hw_busy /\ hw_event' = FALSE
  /\ svc' = IF rx_transfer_cyclic # NULL THEN "stop" ELSE IF running THEN "oops" ELSE "leave"
  /\ UNCHANGED <<setup, memVars, engineVars, hw_busy, hw_run, hw_xfer, hw_errors,
                 lock, irq_enabled, work_pending, userVars>>

NoneWoken == pc \* mutant
wake_up == [u \in Users |-> IF pc[u] = "asleep" THEN "wait" ELSE pc[u]]

OnAnyInterrupt == running \* mutant
RanAndStopped == running /\ ~svc_busy

\* The engine was running but is no longer busy: dequeue, shut down, wake close().
ServiceStop ==
  /\ svc = "stop"
  /\ IF RanAndStopped /\ WrongTransfer
     THEN svc' = "bug" /\ UNCHANGED <<engineVars, hw_busy, hw_run, pc>>
     ELSE /\ svc' = "leave"
          /\ IF RanAndStopped THEN Shutdown /\ pc' = wake_up
             ELSE UNCHANGED <<engineVars, hw_busy, hw_run, pc>>
  /\ UNCHANGED <<setup, memVars, hw_xfer, hw_event, hw_errors, lock, svc_busy,
                 irq_enabled, work_pending, ret>>

WorkEnd ==
  /\ svc = "leave"
  /\ irq_enabled' = TRUE
  /\ lock' = Nobody /\ svc' = "idle"
  /\ UNCHANGED <<setup, memVars, engineVars, hwVars, svc_busy, work_pending, userVars>>
-------------------------------------------------------------------------------
OpenStep(u) ==
  \/ OpenBusy(u) \/ OpenNoBuffer(u) \/ OpenNoTransfer(u) \/ OpenNoResult(u) \/ OpenSetup(u)

CloseStep(u) ==
  \/ CloseStop(u) \/ CloseSync(u) \/ CloseWait(u) \/ ClosePoll(u) \/ ClosePolled(u) \/ CloseFree(u)

Next ==
  \/ \E u \in setup.users :
       OpenStep(u) \/ OpenQueue(u) \/ CloseLook(u) \/ CloseStep(u) \/ CloseInterrupted(u)
  \/ HwPage \/ HwStops \/ HwError \/ Isr
  \/ WorkBegin \/ ServiceStatus \/ ServiceStop \/ WorkEnd

\* A process in close() is scheduled, the engine stops when RUN is cleared, and
\* interrupts and work items are delivered and run.
Fairness ==
  /\ WF_vars(HwStops) /\ WF_vars(Isr) /\ WF_vars(WorkBegin)
  /\ WF_vars(ServiceStatus \/ ServiceStop) /\ WF_vars(WorkEnd)
  /\ \A u \in Users : WF_vars(CloseStep(u))

Spec == Init /\ [][Next]_vars
FairSpec == Spec /\ Fairness
-------------------------------------------------------------------------------
(* Properties *)

\* Nothing cuts the wait of close() short.
NotCutShort == setup.poll_mode \/ ~setup.signals

\* "wait for engine to be no longer running", then "obtain spin lock to
\* atomically remove resources" (cyclic_transfer_teardown): while the engine
\* runs, its descriptors, its pages and its results are allocated.
RingUnderDma == hw_busy => rx_buffer /\ rx_result /\ hw_xfer \in live

\* That holds unless a signal ends the wait.
FreedOnlyWhenStopped == NotCutShort => RingUnderDma

\* So does this: a closed channel (cyclic_transfer_teardown) leaves nothing
\* behind, and can be opened again.
ClosedMeansClean ==
  NotCutShort /\ (\A u \in Users : pc[u] = "idle") =>
    ~rx_buffer /\ ~rx_result /\ live = {} /\ transfer_list = <<>> /\ ~running

\* And this: the service meets no transfer of a closed channel, neither at
\* BUG_ON(transfer != engine->rx_transfer_cyclic) nor in freed memory.
ServiceSafe == NotCutShort => svc \notin {"bug", "oops"}

\* "Channel already open, cannot open twice" (cyclic_transfer_setup): a call that
\* has returned does not hold engine->lock.
LockReturned == \A u \in Users : lock = u => pc[u] \in {"polling", "oops"}

\* It does not when one process uses the channel and the allocation of the ring
\* does not fail, whatever interrupts its close.
LockReturnedAlone ==
  (\E u \in Users : setup.users = {u}) /\ "rvmalloc" \notin setup.fails => LockReturned

\* "engine->lock must be taken" (engine_cyclic_stop is called without it): as
\* long as the engine does not halt by itself, the transfer that is stopped is
\* still in the queue.
StopSeesTransfer ==
  setup.errors = 0 => \A u \in Users : pc[u] = "stop" => transfer_list # <<>>

\* close() (cyclic_transfer_teardown) returns, unless it crashed or a failed open
\* has kept the lock.
LockLost == \E u \in Users : lock = u /\ pc[u] # "polling"
CloseReturns ==
  \A u \in Users :
    NotCutShort /\ pc[u] \in {"stop", "sync"} ~> pc[u] \in {"idle", "oops"} \/ LockLost
===============================================================================
