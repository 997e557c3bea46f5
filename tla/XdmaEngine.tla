------------------------------ MODULE XdmaEngine ------------------------------
(***************************************************************************)
(* One SG DMA engine of the XDMA driver and the threads that read or write *)
(* through its character device: transfer_queue, the wait for completion,  *)
(* the interrupt handler and its work item, engine_service, and the        *)
(* hardware that runs the descriptor list at the head of the queue.        *)
(*                                                                         *)
(* engine->lock serialises transfer_queue and engine_service, but a thread *)
(* reads and destroys its own transfer, and stores engine->status on the   *)
(* signal path, without the lock, and the hardware and the interrupt       *)
(* handler run at any time.  So the service is cut into the steps between  *)
(* which those can be seen; transfer_queue is one step.                    *)
(*                                                                         *)
(* CHAIN_MULTIPLE_TRANSFERS is 0 (xdma-core.h:43), so each run of the      *)
(* engine is one transfer.  No code sets ENGINE_SHUTDOWN_REQUEST, so the   *)
(* branches that test it are not taken and engine->shutdown is left out.   *)
(***************************************************************************)
EXTENDS Integers, Sequences

CONSTANTS
  Threads,     \* threads inside read() or write() on this engine
  Worker,      \* the kworker that runs engine->work
  Nobody,      \* engine->lock is free
  MaxXfers,    \* bound: transfers one thread creates
  MaxDesc,     \* bound: descriptors of one transfer
  U32,         \* 2^32 in the driver: the width of desc_count
  PollMode,    \* module parameter poll_mode
  Msix,        \* lro->msix_enabled
  Signals,     \* a signal may reach a waiting thread
  Timeouts,    \* POLL_TIMEOUT_SECONDS may pass before the engine is done
  HwErrors,    \* bound: errors the hardware reports
  CloseWindow  \* a thread never looks at its transfer while it is being completed

Xfers == Threads \X (1 .. MaxXfers)

ASSUME EngineAssumption ==
  /\ Worker # Nobody /\ Worker \notin Threads /\ Nobody \notin Threads
  /\ MaxXfers \in Nat \ {0} /\ MaxDesc \in Nat \ {0} /\ HwErrors \in Nat
  /\ U32 \in Nat /\ U32 > MaxDesc
  /\ {PollMode, Msix, Signals, Timeouts, CloseWindow} \subseteq BOOLEAN

VARIABLES
  state,          \* transfer->state, with "unallocated" and "freed" for its memory
  desc_num,       \* transfer->desc_num
  moved,          \* history: descriptors the hardware executed in the last run
  transfer_list,  \* engine->transfer_list
  running,        \* engine->running
  desc_dequeued,  \* engine->desc_dequeued
  status,         \* engine->status: the bits the code tests
  lock,           \* holder of engine->lock
  svc,            \* where engine_service is
  svc_wb,         \* its argument desc_writeback
  svc_count,      \* its desc_count
  svc_xfer,       \* the transfer it is completing
  svc_rc,         \* its return code is -1
  hw_busy, hw_xfer, hw_count, hw_event,  \* the engine's registers
  hw_left,        \* the descriptor it was executing when RUN was cleared
  hw_wb,          \* the write-back word in host memory
  hw_late,        \* history: it was written by a run whose RUN was cleared before
  hw_errors,      \* errors reported so far
  irq_enabled,    \* this engine's interrupt is not masked
  irq_saved,      \* engine->interrupt_enable_mask_value
  work_pending,   \* engine->work is scheduled
  pc, created, chunks, rc, desc_wb, seen, result, done  \* the threads' locals

xferVars   == <<state, desc_num, moved>>
engineVars == <<transfer_list, running, desc_dequeued, status>>
svcVars    == <<lock, svc, svc_wb, svc_count, svc_xfer, svc_rc>>
hwVars     == <<hw_busy, hw_xfer, hw_count, hw_event, hw_left, hw_wb, hw_late, hw_errors>>
irqVars    == <<irq_enabled, irq_saved, work_pending>>
threadVars == <<pc, created, chunks, rc, desc_wb, seen, result, done>>
vars == <<xferVars, engineVars, svcVars, hwVars, irqVars, threadVars>>

Status    == [busy : BOOLEAN, err : BOOLEAN]
Writeback == [count : 0 .. MaxDesc, err : BOOLEAN]
NoWb      == [count |-> 0, err |-> FALSE]
NoXfer    == <<Nobody, 0>>
NoLeft    == [xfer |-> NoXfer, count |-> 0]
ServicePcs == {"idle", "status", "shutdown", "list", "list_wake", "final",
               "dequeue", "wake", "resume", "leave", "bug", "oops"}
ThreadPcs  == {"idle", "create", "wait", "asleep", "poll", "service", "check",
               "store_status"}

XferType ==
  /\ state \in [Xfers -> {"unallocated", "SUBMITTED", "COMPLETED", "FAILED", "freed"}]
  /\ desc_num \in [Xfers -> 0 .. MaxDesc]
  /\ moved \in [Xfers -> 0 .. MaxDesc]
EngineType ==
  /\ transfer_list \in Seq(Xfers)
  /\ running \in BOOLEAN
  /\ desc_dequeued \in Nat
  /\ status \in Status
SvcType ==
  /\ lock \in Threads \cup {Worker, Nobody}
  /\ svc \in ServicePcs
  /\ svc_wb \in Writeback
  /\ svc_count \in 0 .. U32 - 1
  /\ svc_xfer \in Xfers \cup {NoXfer}
  /\ svc_rc \in BOOLEAN
HwType ==
  /\ hw_busy \in BOOLEAN
  /\ hw_xfer \in Xfers \cup {NoXfer}
  /\ hw_count \in 0 .. MaxDesc
  /\ hw_event \in SUBSET {"stopped", "error"}
  /\ hw_left \in [xfer : Xfers, count : 1 .. MaxDesc] \cup {NoLeft}
  /\ hw_wb \in Writeback
  /\ hw_late \in BOOLEAN
  /\ hw_errors \in 0 .. HwErrors
IrqType ==
  irq_enabled \in BOOLEAN /\ irq_saved \in BOOLEAN /\ work_pending \in BOOLEAN
ThreadType ==
  /\ pc \in [Threads -> ThreadPcs]
  /\ created \in [Threads -> 0 .. MaxXfers]
  /\ chunks \in [Threads -> 0 .. MaxXfers]
  /\ rc \in [Threads -> BOOLEAN]
  /\ desc_wb \in [Threads -> Writeback]
  /\ seen \in [Threads -> Status]
  /\ result \in [Threads -> {"none", "ok", "EIO", "ERESTARTSYS"}]
  /\ done \in [Threads -> SUBSET Xfers]

TypeOK == XferType /\ EngineType /\ SvcType /\ HwType /\ IrqType /\ ThreadType

Init ==
  /\ state = [t \in Xfers |-> "unallocated"]
  /\ desc_num = [t \in Xfers |-> 0]
  /\ moved = [t \in Xfers |-> 0]
  /\ transfer_list = <<>> /\ running = FALSE /\ desc_dequeued = 0
  /\ status = [busy |-> FALSE, err |-> FALSE]
  /\ lock = Nobody /\ svc = "idle" /\ svc_wb = NoWb /\ svc_count = 0
  /\ svc_xfer = NoXfer /\ svc_rc = FALSE
  /\ hw_busy = FALSE /\ hw_xfer = NoXfer /\ hw_count = 0 /\ hw_event = {}
  /\ hw_left = NoLeft /\ hw_wb = NoWb /\ hw_late = FALSE /\ hw_errors = 0
  /\ irq_enabled = ~PollMode /\ irq_saved = FALSE /\ work_pending = FALSE
  /\ pc = [th \in Threads |-> "idle"]
  /\ created = [th \in Threads |-> 0]
  /\ chunks = [th \in Threads |-> 0]
  /\ rc = [th \in Threads |-> FALSE]
  /\ desc_wb = [th \in Threads |-> NoWb]
  /\ seen = [th \in Threads |-> [busy |-> FALSE, err |-> FALSE]]
  /\ result = [th \in Threads |-> "none"]
  /\ done = [th \in Threads |-> {}]
-------------------------------------------------------------------------------
(* Registers *)

StatusRegister ==
  [busy |-> hw_busy \/ hw_left # NoLeft, err |-> "error" \in hw_event]

\* RUN is cleared: the engine finishes the descriptor it is executing, if it is
\* not between two of them.  A run that was to begin after such a descriptor
\* does not begin.
xdma_engine_stop ==
  /\ hw_busy' = FALSE
  /\ \/ hw_left' = hw_left
     \/ /\ hw_busy /\ hw_left = NoLeft
        /\ hw_left' = [xfer |-> hw_xfer, count |-> hw_count + 1]

\* A run of the engine: RUN is set, with the address of the first transfer in
\* list; it begins when what is left of the run before is finished.  (Mutant:
\* desc_dequeued is not reset.)
EngineStartKeepingDequeued(list) ==
  /\ running' = TRUE
  /\ hw_busy' = TRUE
  /\ hw_xfer' = Head(list)
  /\ hw_count' = 0
  /\ moved' = [moved EXCEPT ![Head(list)] = 0]
  /\ UNCHANGED desc_dequeued

engine_start(list) ==
  /\ running' = TRUE
  /\ desc_dequeued' = 0
  /\ hw_busy' = TRUE
  /\ hw_xfer' = Head(list)
  /\ hw_count' = 0
  /\ moved' = [moved EXCEPT ![Head(list)] = 0]

\* The subtraction wraps in u32.
Minus(a, b) == (a - b) % U32

-------------------------------------------------------------------------------
(* The threads: char_sgdma_read_write, transfer_data, transfer_monitor *)

Cur(th) == <<th, created[th]>>

\* A request of k chunks of at most XDMA_TRANSFER_MAX_BYTES.
StartRequest(th) ==
  /\ pc[th] = "idle"
  /\ \E k \in 1 .. (MaxXfers - created[th]) : chunks' = [chunks EXCEPT ![th] = k]
  /\ pc' = [pc EXCEPT ![th] = "create"]
  /\ result' = [result EXCEPT ![th] = "none"]
  /\ UNCHANGED <<xferVars, engineVars, svcVars, hwVars, irqVars, created, rc, desc_wb, seen, done>>

\* transfer_create returns NULL.
CreateFails(th) ==
  /\ pc[th] = "create"
  /\ pc' = [pc EXCEPT ![th] = "idle"]
  /\ result' = [result EXCEPT ![th] = "EIO"]
  /\ chunks' = [chunks EXCEPT ![th] = 0]
  /\ UNCHANGED <<xferVars, engineVars, svcVars, hwVars, irqVars, created, rc, desc_wb, seen, done>>

ListAddHead(t) == <<t>> \o transfer_list \* mutant
list_add_tail(t) == Append(transfer_list, t)

\* transfer_create, of nd descriptors, then transfer_queue under engine->lock.
transfer_queue(th, nd) ==
  LET t == <<th, created[th] + 1>>
      list == list_add_tail(t)
  IN
  /\ pc[th] = "create"
  /\ lock = Nobody
  /\ created[th] < MaxXfers
  /\ created' = [created EXCEPT ![th] = @ + 1]
  /\ desc_num' = [desc_num EXCEPT ![t] = nd]
  /\ state' = [state EXCEPT ![t] = "SUBMITTED"]
  /\ transfer_list' = list
  /\ IF running
     THEN UNCHANGED <<running, desc_dequeued, hw_busy, hw_xfer, hw_count, moved>>
     ELSE engine_start(list)
  /\ pc' = [pc EXCEPT ![th] = IF PollMode THEN "poll" ELSE "wait"]
  /\ UNCHANGED <<status, svcVars, hw_event, hw_left, hw_wb, hw_late, hw_errors, irqVars,
                 chunks, rc, desc_wb, seen, result, done>>

\* The service is between the store of the transfer's state and its last use.
Completing(t) ==
  \/ svc = "dequeue" /\ Head(transfer_list) = t
  \/ svc \in {"list_wake", "wake"} /\ svc_xfer = t

MayLook(th) == CloseWindow => ~Completing(Cur(th))

NoWait(t) == TRUE \* mutant
WaitOver(t) == state[t] # "SUBMITTED"

\* wait_event_interruptible tests its condition, then sleeps.
EnterWait(th) ==
  /\ pc[th] = "wait"
  /\ MayLook(th)
  /\ IF WaitOver(Cur(th))
     THEN /\ pc' = [pc EXCEPT ![th] = "check"]
          /\ rc' = [rc EXCEPT ![th] = FALSE]
     ELSE /\ pc' = [pc EXCEPT ![th] = "asleep"]
          /\ UNCHANGED rc
  /\ UNCHANGED <<xferVars, engineVars, svcVars, hwVars, irqVars,
                 created, chunks, desc_wb, seen, result, done>>

\* A signal ends the wait only when the condition is still false.
Interrupted(th) ==
  /\ Signals
  /\ pc[th] \in {"wait", "asleep"}
  /\ state[Cur(th)] = "SUBMITTED"
  /\ pc' = [pc EXCEPT ![th] = "check"]
  /\ rc' = [rc EXCEPT ![th] = TRUE]
  /\ UNCHANGED <<xferVars, engineVars, svcVars, hwVars, irqVars,
                 created, chunks, desc_wb, seen, result, done>>

\* engine_service_wb_monitor leaves its loop on the expected count or an error.
PollHit(th) ==
  /\ pc[th] = "poll"
  /\ hw_wb.err \/ (hw_wb.count = desc_num[Cur(th)])
  /\ desc_wb' = [desc_wb EXCEPT ![th] = hw_wb]
  /\ pc' = [pc EXCEPT ![th] = "service"]
  /\ UNCHANGED <<xferVars, engineVars, svcVars, hwVars, irqVars,
                 created, chunks, rc, seen, result, done>>

\* The ten seconds are over; a count beyond the expected one is flagged.
PollTimeout(th) ==
  LET expected == desc_num[Cur(th)] IN
  /\ Timeouts
  /\ pc[th] = "poll"
  /\ ~hw_wb.err /\ hw_wb.count # expected
  /\ desc_wb' = [desc_wb EXCEPT ![th] =
       IF hw_wb.count > expected THEN [count |-> expected, err |-> TRUE] ELSE hw_wb]
  /\ pc' = [pc EXCEPT ![th] = "service"]
  /\ UNCHANGED <<xferVars, engineVars, svcVars, hwVars, irqVars,
                 created, chunks, rc, seen, result, done>>

\* Mutant: the loop runs once more than there is left to transfer.
ChunkDoneLoopsOn(th) ==
  /\ done' = [done EXCEPT ![th] = @ \cup {Cur(th)}]
  /\ chunks' = [chunks EXCEPT ![th] = @ - 1]
  /\ pc' = [pc EXCEPT ![th] = IF chunks[th] = 0 THEN "idle" ELSE "create"]
  /\ UNCHANGED result

\* transfer_data after transfer_monitor: this chunk counts as transferred.
ChunkDone(th) ==
  /\ done' = [done EXCEPT ![th] = @ \cup {Cur(th)}]
  /\ chunks' = [chunks EXCEPT ![th] = @ - 1]
  /\ pc' = [pc EXCEPT ![th] = IF chunks[th] = 1 THEN "idle" ELSE "create"]
  /\ result' = [result EXCEPT ![th] = IF chunks[th] = 1 THEN "ok" ELSE @]

\* transfer_data after transfer_monitor: the request ends with an error.
RequestFails(th, error) ==
  /\ chunks' = [chunks EXCEPT ![th] = 0]
  /\ pc' = [pc EXCEPT ![th] = "idle"]
  /\ result' = [result EXCEPT ![th] = error]
  /\ UNCHANGED done

Succeeded(t) == state[t] = "COMPLETED"

\* "transfer was taken off the engine?": it is destroyed, whatever its outcome.
TakeResult(th) ==
  /\ pc[th] = "check"
  /\ MayLook(th)
  /\ state[Cur(th)] # "SUBMITTED"
  /\ state' = [state EXCEPT ![Cur(th)] = "freed"]
  /\ IF Succeeded(Cur(th)) THEN ChunkDone(th) ELSE RequestFails(th, "EIO")
  /\ UNCHANGED <<desc_num, moved, engineVars, svcVars, hwVars, irqVars, created, rc, desc_wb, seen>>

\* Still submitted and rc = 0: counted as done, and not destroyed.
LeaveInFlight(th) ==
  /\ pc[th] = "check"
  /\ state[Cur(th)] = "SUBMITTED"
  /\ ~rc[th]
  /\ ChunkDone(th)
  /\ UNCHANGED <<xferVars, engineVars, svcVars, hwVars, irqVars, created, rc, desc_wb, seen>>

\* "transfer can still be in-flight": engine_status_read(engine, 0) without the
\* lock, a register read, then the store to engine->status.
ReadStatus(th) ==
  /\ pc[th] = "check"
  /\ state[Cur(th)] = "SUBMITTED"
  /\ rc[th]
  /\ seen' = [seen EXCEPT ![th] = StatusRegister]
  /\ pc' = [pc EXCEPT ![th] = "store_status"]
  /\ UNCHANGED <<xferVars, engineVars, svcVars, hwVars, irqVars,
                 created, chunks, rc, desc_wb, result, done>>

StoreStatus(th) ==
  /\ pc[th] = "store_status"
  /\ status' = seen[th]
  /\ RequestFails(th, "ERESTARTSYS")
  /\ UNCHANGED <<xferVars, transfer_list, running, desc_dequeued, svcVars, hwVars,
                 irqVars, created, rc, desc_wb, seen>>
-------------------------------------------------------------------------------
(* The hardware *)

\* A descriptor is executed; the last one carries STOPPED and COMPLETED.
HwDesc ==
  /\ hw_busy /\ hw_left = NoLeft
  /\ hw_count' = hw_count + 1
  /\ moved' = [moved EXCEPT ![hw_xfer] = hw_count + 1]
  /\ IF hw_count + 1 < desc_num[hw_xfer]
     THEN UNCHANGED <<hw_busy, hw_event, hw_wb, hw_late>>
     ELSE /\ hw_busy' = FALSE
          /\ hw_event' = hw_event \cup {"stopped"}
          /\ hw_wb' = IF PollMode THEN [count |-> hw_count + 1, err |-> FALSE] ELSE hw_wb
          /\ hw_late' = FALSE
  /\ UNCHANGED <<state, desc_num, engineVars, svcVars, hw_xfer, hw_left, hw_errors,
                 irqVars, threadVars>>

\* What was left when RUN was cleared is finished, and reported if it is the
\* last descriptor.  The registers already count the next run if RUN is set.
HwFinish ==
  LET t == hw_left.xfer
      n == hw_left.count
  IN
  /\ hw_left # NoLeft
  /\ hw_left' = NoLeft
  /\ hw_count' = IF hw_busy THEN hw_count ELSE n
  /\ moved' = IF hw_busy /\ hw_xfer = t THEN moved ELSE [moved EXCEPT ![t] = n]
  /\ IF n < desc_num[t]
     THEN UNCHANGED <<hw_event, hw_wb, hw_late>>
     ELSE /\ hw_event' = hw_event \cup {"stopped"}
          /\ hw_wb' = IF PollMode THEN [count |-> n, err |-> FALSE] ELSE hw_wb
          /\ hw_late' = PollMode
  /\ UNCHANGED <<state, desc_num, engineVars, svcVars, hw_busy, hw_xfer, hw_errors, irqVars, threadVars>>

\* MAGIC_STOPPED, ALIGN_MISMATCH, READ_ERROR or DESC_ERROR: the engine halts.
HwError ==
  LET n == IF hw_left = NoLeft THEN hw_count ELSE hw_left.count - 1 IN
  /\ hw_busy \/ hw_left # NoLeft
  /\ hw_errors < HwErrors
  /\ hw_errors' = hw_errors + 1
  /\ hw_busy' = FALSE /\ hw_left' = NoLeft
  /\ hw_late' = (PollMode /\ hw_left # NoLeft)
  /\ hw_event' = hw_event \cup {"error"}
  /\ hw_wb' = IF PollMode THEN [count |-> n, err |-> TRUE] ELSE hw_wb
  /\ UNCHANGED <<xferVars, engineVars, svcVars, hw_xfer, hw_count, irqVars, threadVars>>

SavedAfterMasking == FALSE \* mutant
SavedMask == IF Msix THEN irq_enabled ELSE irq_saved

\* xdma_isr or xdma_channel_irq: mask the engine's interrupt, schedule its work.
Isr ==
  /\ hw_event # {}
  /\ irq_enabled
  /\ irq_enabled' = FALSE
  /\ irq_saved' = SavedMask
  /\ work_pending' = TRUE
  /\ UNCHANGED <<xferVars, engineVars, svcVars, hwVars, threadVars>>
-------------------------------------------------------------------------------
(* engine_service, run by the worker or, in poll mode, by a thread *)

WorkBegin ==
  /\ work_pending
  /\ lock = Nobody
  /\ work_pending' = FALSE
  /\ lock' = Worker
  /\ svc' = "status"
  /\ svc_wb' = NoWb
  /\ svc_rc' = FALSE
  /\ UNCHANGED <<xferVars, engineVars, svc_count, svc_xfer, hwVars,
                 irq_enabled, irq_saved, threadVars>>

PollBegin(th) ==
  /\ pc[th] = "service"
  /\ lock = Nobody
  /\ lock' = th
  /\ svc' = "status"
  /\ svc_wb' = desc_wb[th]
  /\ svc_rc' = FALSE
  /\ UNCHANGED <<xferVars, engineVars, svc_count, svc_xfer, hwVars, irqVars, threadVars>>

\* The status register is read and cleared, except on a plain write-back.
ServiceStatus ==
  /\ svc = "status"
  /\ IF IF running THEN svc_wb.count = 0 \/ svc_wb.err ELSE svc_wb = NoWb
     THEN status' = StatusRegister /\ hw_event' = {}
     ELSE UNCHANGED <<status, hw_event>>
  /\ svc' = IF running THEN "shutdown" ELSE "leave"
  /\ svc_rc' = (running /\ svc_wb.err)
  /\ UNCHANGED <<xferVars, transfer_list, running, desc_dequeued, lock, svc_wb, svc_count,
                 svc_xfer, hw_busy, hw_xfer, hw_count, hw_left, hw_wb, hw_late, hw_errors,
                 irqVars, threadVars>>

OnWritebackOnly == svc_wb.count # 0 \* mutant
NoLongerBusy == ~status.busy \/ svc_wb.count # 0

\* engine_service_shutdown when idle or on a write-back, then desc_count: a
\* descriptor finished between the two accesses is as one finished before them.
ServiceShutdown ==
  /\ svc = "shutdown"
  /\ IF NoLongerBusy
     THEN running' = FALSE /\ xdma_engine_stop
     ELSE UNCHANGED <<running, hw_busy, hw_left>>
  /\ svc_count' = Minus(IF svc_wb.count = 0 THEN hw_count ELSE svc_wb.count, desc_dequeued)
  /\ svc' = "list"
  /\ UNCHANGED <<xferVars, transfer_list, desc_dequeued, status, lock, svc_wb, svc_xfer, svc_rc,
                 hw_xfer, hw_count, hw_event, hw_wb, hw_late, hw_errors, irqVars, threadVars>>

\* A transfer keeps its state once its memory is freed.
SetState(t, s) == state' = [state EXCEPT ![t] = IF @ = "freed" THEN @ ELSE s]

\* One turn of the loop of engine_service_transfer_list, or its end.
ServiceList ==
  LET t == Head(transfer_list) IN
  /\ svc = "list"
  /\ IF transfer_list = <<>>
     THEN svc' = "bug" /\ UNCHANGED <<state, transfer_list, desc_dequeued, svc_count, svc_xfer>>
     ELSE IF svc_count > desc_num[t]
     THEN /\ svc_count' = svc_count - desc_num[t]
          /\ transfer_list' = Tail(transfer_list)
          /\ desc_dequeued' = desc_dequeued + desc_num[t]
          /\ SetState(t, "COMPLETED")
          /\ svc_xfer' = t
          /\ svc' = "list_wake"
     ELSE svc' = "final" /\ UNCHANGED <<state, transfer_list, desc_dequeued, svc_count, svc_xfer>>
  /\ UNCHANGED <<desc_num, moved, running, status, lock, svc_wb, svc_rc, hwVars, irqVars, threadVars>>

HalfWayOffByOne(t) == svc_count <= desc_num[t] \* mutant
HalfWay(t) == svc_count < desc_num[t]

\* engine_service_final_transfer up to the list_del; engine_err_handle.
ServiceFinal ==
  LET t == Head(transfer_list) IN
  /\ svc = "final"
  /\ IF status.err
     THEN /\ SetState(t, "FAILED")
          /\ xdma_engine_stop
          /\ svc' = "resume"
     ELSE /\ SetState(t, IF HalfWay(t) THEN "FAILED" ELSE "COMPLETED")
          /\ svc' = "dequeue"
          /\ UNCHANGED <<hw_busy, hw_left>>
  /\ UNCHANGED <<desc_num, moved, engineVars, lock, svc_wb, svc_count, svc_xfer, svc_rc,
                 hw_xfer, hw_count, hw_event, hw_wb, hw_late, hw_errors, irqVars, threadVars>>

NoListDel == transfer_list \* mutant
list_del == Tail(transfer_list)

ServiceDequeue ==
  /\ svc = "dequeue"
  /\ svc_xfer' = Head(transfer_list)
  /\ transfer_list' = list_del
  /\ desc_dequeued' = desc_dequeued + desc_num[Head(transfer_list)]
  /\ svc' = "wake"
  /\ UNCHANGED <<xferVars, running, status, lock, svc_wb, svc_count, svc_rc,
                 hwVars, irqVars, threadVars>>

NoWakeUp(t) == pc \* mutant
wake_up(t) ==
  IF pc[t[1]] = "asleep" /\ Cur(t[1]) = t THEN [pc EXCEPT ![t[1]] = "wait"] ELSE pc

\* engine_transfer_completion: wake the thread asleep on transfer->wq.
ServiceWake ==
  /\ svc \in {"list_wake", "wake"}
  /\ pc' = wake_up(svc_xfer)
  /\ svc' = IF svc = "wake" THEN "resume" ELSE "list"
  /\ UNCHANGED <<xferVars, engineVars, lock, svc_wb, svc_count, svc_xfer, svc_rc, hwVars, irqVars,
                 created, chunks, rc, desc_wb, seen, result, done>>

\* Mutant: the engine is not restarted.
NoResume == UNCHANGED <<running, desc_dequeued, hw_busy, hw_xfer, hw_count, moved>>

engine_service_resume ==
  IF ~running /\ transfer_list # <<>>
  THEN engine_start(transfer_list)
  ELSE UNCHANGED <<running, desc_dequeued, hw_busy, hw_xfer, hw_count, moved>>

KeepWriteback == hw_wb \* mutant
ClearWriteback == IF PollMode THEN NoWb ELSE hw_wb

ServiceResume ==
  /\ svc = "resume"
  /\ hw_wb' = ClearWriteback
  /\ hw_late' = FALSE
  /\ engine_service_resume
  /\ svc' = "leave"
  /\ UNCHANGED <<state, desc_num, transfer_list, status, lock, svc_wb, svc_count, svc_xfer, svc_rc,
                 hw_event, hw_left, hw_errors, irqVars, threadVars>>

\* engine_service_work re-enables the interrupt and unlocks.
WorkEnd ==
  /\ svc = "leave"
  /\ lock = Worker
  /\ irq_enabled' = IF Msix THEN irq_enabled \/ irq_saved ELSE TRUE
  /\ lock' = Nobody
  /\ svc' = "idle"
  /\ UNCHANGED <<xferVars, engineVars, svc_wb, svc_count, svc_xfer, svc_rc, hwVars,
                 irq_saved, work_pending, threadVars>>

\* engine_service_poll unlocks and returns.
PollEnd(th) ==
  /\ svc = "leave"
  /\ lock = th
  /\ lock' = Nobody
  /\ svc' = "idle"
  /\ rc' = [rc EXCEPT ![th] = svc_rc]
  /\ pc' = [pc EXCEPT ![th] = "check"]
  /\ UNCHANGED <<xferVars, engineVars, svc_wb, svc_count, svc_xfer, svc_rc, hwVars, irqVars,
                 created, chunks, desc_wb, seen, result, done>>

\* The transfer the service is about to touch.
Touched ==
  IF svc \in {"list", "final", "dequeue"} /\ transfer_list # <<>> THEN Head(transfer_list)
  ELSE IF svc \in {"list_wake", "wake"} THEN svc_xfer ELSE NoXfer

UsesFreed == Touched # NoXfer /\ state[Touched] = "freed"

\* A use of freed memory either goes unnoticed (the step above) or ends in an
\* oops, with the lock held.
Oops ==
  /\ UsesFreed
  /\ svc' = "oops"
  /\ UNCHANGED <<xferVars, engineVars, lock, svc_wb, svc_count, svc_xfer, svc_rc, hwVars, irqVars,
                 threadVars>>
-------------------------------------------------------------------------------
engine_service ==
  \/ ServiceStatus \/ ServiceShutdown \/ ServiceList \/ ServiceFinal
  \/ ServiceDequeue \/ ServiceWake \/ ServiceResume

\* The steps a thread takes without being asked.
ThreadStep(th) ==
  \/ \E nd \in 1 .. MaxDesc : transfer_queue(th, nd)
  \/ EnterWait(th) \/ PollHit(th) \/ PollBegin(th) \/ PollEnd(th)
  \/ TakeResult(th) \/ LeaveInFlight(th) \/ ReadStatus(th) \/ StoreStatus(th)

Next ==
  \/ \E th \in Threads :
       \/ StartRequest(th) \/ CreateFails(th) \/ ThreadStep(th)
       \/ Interrupted(th) \/ PollTimeout(th)
  \/ HwDesc \/ HwFinish \/ HwError \/ Isr
  \/ WorkBegin \/ engine_service \/ WorkEnd \/ Oops

\* The hardware makes progress, an unmasked interrupt is delivered, the work
\* queue runs scheduled work, and a runnable thread is scheduled.
Fairness ==
  /\ WF_vars(HwDesc) /\ WF_vars(HwFinish) /\ WF_vars(Isr) /\ WF_vars(WorkBegin)
  /\ WF_vars(engine_service) /\ WF_vars(WorkEnd)
  /\ \A th \in Threads : WF_vars(ThreadStep(th))

Spec == Init /\ [][Next]_vars
FairSpec == Spec /\ Fairness
-------------------------------------------------------------------------------
(* Properties *)

\* transfer_queue starts an idle engine and engine_service_resume restarts it:
\* no transfer is left on the queue of an engine that nobody is servicing.
IdleMeansEmpty == ~running /\ lock = Nobody => transfer_list = <<>>

\* "either the engine is still busy and we will end up in the service handler
\* later" (transfer_queue): an engine marked running still has work to do, or
\* an interrupt or a work item on its way to the service.
RunningIsServed ==
  running /\ lock = Nobody => hw_busy \/ hw_event # {} \/ work_pending

\* An interrupt the handler masks is re-enabled by the work it schedules.
InterruptsComeBack == irq_enabled \/ work_pending \/ lock = Worker

\* A chunk that read() or write() reports as transferred was executed to its
\* last descriptor.
SuccessMeansMoved == \A th \in Threads : \A t \in done[th] : moved[t] = desc_num[t]

Executing(t) == (hw_busy /\ hw_xfer = t) \/ hw_left.xfer = t

\* The engine never runs descriptors that transfer_destroy has freed.
NoDmaAfterFree == \A t \in Xfers : Executing(t) => state[t] # "freed"

\* Without a hardware error no transfer fails: engine_service never finds the
\* engine half-way through the transfer at the head of its queue.
NoSpuriousFailure == hw_errors = 0 => \A t \in Xfers : state[t] # "FAILED"

\* BUG_ON(!transfer) of engine_service_transfer_list and of
\* engine_service_final_transfer.
NoBug == svc # "bug"

\* "transfer was taken off the engine?" (transfer_data): when the thread goes
\* on to destroy its transfer, that is neither queued nor being executed.
TakenOffTheEngine ==
  \A th \in Threads : pc[th] = "check" /\ state[Cur(th)] # "SUBMITTED" =>
    /\ \A i \in 1 .. Len(transfer_list) : transfer_list[i] # Cur(th)
    /\ ~Executing(Cur(th))

\* "Before starting engine again, clear the writeback data" (engine_service): a
\* poll-mode thread whose transfer is still being executed does not find the
\* count of an earlier transfer in the write-back word it polls, unless a run
\* that was stopped before its end wrote its count there since.
FreshWriteback ==
  \A th \in Threads :
    pc[th] = "poll" /\ Executing(Cur(th)) => hw_wb = NoWb \/ hw_late

\* A request that was started returns to its caller, unless the completion
\* window has led the service into freed memory.
EveryRequestReturns ==
  \A th \in Threads : pc[th] = "create" ~> pc[th] = "idle" \/ svc = "oops"
===============================================================================
