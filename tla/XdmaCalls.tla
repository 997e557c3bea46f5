------------------------------- MODULE XdmaCalls -------------------------------
(***************************************************************************)
(* The calls on a memory-mapped SG DMA engine that do not wait for their   *)
(* transfers: asynchronous I/O (sg_aio_read_write and the completion of    *)
(* its iocbs) and the performance measurement that the ioctls start and    *)
(* stop, on one engine in interrupt mode.                                  *)
(*                                                                         *)
(* All transfers go through the queue of XdmaEngine.  Here a transfer of   *)
(* asynchronous I/O is one step of the hardware, the handler's masking of  *)
(* interrupts is folded into the state of the work item, and the           *)
(* descriptor count is only compared with the transfer's own.  One thread  *)
(* issues the ioctls.  PERF_START on a running measurement and PERF_STOP   *)
(* or PERF_GET without one return an error and change nothing.             *)
(***************************************************************************)
EXTENDS Integers, SequencesExt

CONSTANTS
  Calls,      \* asynchronous read or write requests, one iocb each
  Ioctl,      \* the thread that measures
  None,       \* no transfer
  MaxChunks,  \* bound: transfers of one request
  MaxStarts,  \* bound: measurements
  Setups      \* what a run lets its users and its hardware do

Xfers == (Calls \X (1 .. MaxChunks)) \cup ({Ioctl} \X (1 .. MaxStarts))

\* The segments of each request, whether a measurement is stopped only while it
\* runs, and what may fail.
Setup == [requests : [Calls -> Seq([chunks : Nat, aligned : BOOLEAN])],
          patient : BOOLEAN, starts : 0 .. MaxStarts, errors : Nat,
          bad_version : BOOLEAN, bad_copy : BOOLEAN]

ASSUME CallsAssumption ==
  /\ Ioctl \notin Calls /\ None \notin Xfers
  /\ MaxChunks \in Nat \ {0} /\ MaxStarts \in Nat
  /\ Setups \subseteq Setup

VARIABLES
  setup,            \* never changes: the requests, and what may go wrong
  seg, done, sent,  \* sg_aio_read_write: segment, chunks done of it, transfers made
  ret,              \* its return value
  completions,      \* history: the sizes AIO_COMPLETE was called with
  state,            \* transfer->state, with "unallocated" and "freed"
  size_of_request,  \* in transfers; 0 unless transfer->last_in_request
  moved,            \* history: asynchronous transfers that were executed
  transfer_list,    \* engine->transfer_list
  running,          \* engine->running
  work,             \* engine->work and where engine_service is
  status,           \* engine->status: the bits the code tests
  xdma_perf,        \* engine->xdma_perf: which allocation, 0 for NULL
  perf,             \* the one engine_service_perf found
  ipc, looked,      \* the ioctl's step, and engine_cyclic_stop's transfer
  starts,           \* measurements allocated
  stop_flag,        \* measurements with STOP on their last descriptor
  hw,               \* the engine: BUSY, RUN, its transfer, all descriptors done
  hw_event,         \* logged status bits
  hw_errors,
  idle_log,         \* XDMA_CTRL_IE_IDLE_STOPPED in the control register
  idle_irq          \* and in the interrupt enable mask

aioVars    == <<seg, done, sent, ret>>
xferVars   == <<state, size_of_request, transfer_list>>
perfVars   == <<xdma_perf, ipc, looked, starts, stop_flag>>
engineVars == <<running, hw, idle_log, idle_irq>>
svcVars    == <<work, status, perf>>
hwVars     == <<moved, hw_event, hw_errors>>
vars == <<setup, aioVars, completions, xferVars, perfVars, engineVars, svcVars, hwVars>>

Init ==
  /\ setup \in Setups
  /\ seg = [c \in Calls |-> 1] /\ done = [c \in Calls |-> 0]
  /\ sent = [c \in Calls |-> 0] /\ ret = [c \in Calls |-> "none"]
  /\ completions = [c \in Calls |-> <<>>]
  /\ state = [t \in Xfers |-> "unallocated"]
  /\ size_of_request = [t \in Xfers |-> 0]
  /\ moved = {} /\ transfer_list = <<>> /\ running = FALSE
  /\ work = "idle" /\ status = {} /\ perf = 0
  /\ xdma_perf = 0 /\ ipc = "idle" /\ looked = None /\ starts = 0 /\ stop_flag = {}
  /\ hw = [busy |-> FALSE, run |-> FALSE, xfer |-> None, complete |-> FALSE]
  /\ hw_event = {} /\ hw_errors = 0 /\ idle_log = FALSE /\ idle_irq = FALSE
-------------------------------------------------------------------------------
(* The engine's control register and its queue *)

cyclic(t) == t[1] = Ioctl

\* Mutant: as for a transfer on a memory-mapped engine.
IdleNotLogged == FALSE
\* "enable IE_IDLE_STOP only for AXI ST C2H and for perf test"
LogsIdle == xdma_perf # 0

xdma_engine_stop ==
  /\ hw' = [hw EXCEPT !.run = FALSE]
  /\ idle_log' = LogsIdle
  /\ UNCHANGED idle_irq

engine_start(list) ==
  /\ hw' = [busy |-> TRUE, run |-> TRUE, xfer |-> Head(list), complete |-> FALSE]
  /\ running' = TRUE
  /\ idle_log' = LogsIdle
  /\ idle_irq' = (idle_irq \/ LogsIdle)

NeverLocked == TRUE \* mutant
\* engine->lock is held from the service's first step to its last.
Unlocked == work \in {"idle", "scheduled"}

transfer_queue(t, size) ==
  LET list == Append(transfer_list, t) IN
  /\ Unlocked
  /\ state' = [state EXCEPT ![t] = "SUBMITTED"]
  /\ size_of_request' = [size_of_request EXCEPT ![t] = size]
  /\ transfer_list' = list
  /\ IF running THEN UNCHANGED engineVars ELSE engine_start(list)
-------------------------------------------------------------------------------
(* sg_aio_read_write: segments of whole chunks of XDMA_TRANSFER_MAX_BYTES *)

Segments(c) == setup.requests[c]
InSegment(c) == ret[c] = "none" /\ seg[c] <= Len(Segments(c))
Segment(c) == Segments(c)[seg[c]]

\* check_transfer_align refuses a segment; those before it stay queued.
AioRefused(c) ==
  /\ InSegment(c) /\ done[c] = 0
  /\ ~Segment(c).aligned
  /\ ret' = [ret EXCEPT ![c] = "EINVAL"]
  /\ UNCHANGED <<setup, seg, done, sent, completions, xferVars, perfVars, engineVars, svcVars, hwVars>>

EveryChunk(c) == TRUE                       \* mutant
NoChunk(c) == done[c] + 1 > Segment(c).chunks  \* mutant
\* "last transfer for the given request?": the last one of a segment.
LastChunk(c) == done[c] + 1 >= Segment(c).chunks

AioChunk(c) ==
  /\ InSegment(c)
  /\ Segment(c).aligned /\ done[c] < Segment(c).chunks
  /\ sent[c] < MaxChunks
  /\ transfer_queue(<<c, sent[c] + 1>>, IF LastChunk(c) THEN done[c] + 1 ELSE 0)
  /\ done' = [done EXCEPT ![c] = @ + 1]
  /\ sent' = [sent EXCEPT ![c] = @ + 1]
  /\ UNCHANGED <<setup, seg, ret, completions, perfVars, svcVars, hwVars>>

\* The segment, which may have been empty, is through.
AioNextSegment(c) ==
  /\ InSegment(c)
  /\ Segment(c).aligned /\ done[c] = Segment(c).chunks
  /\ seg' = [seg EXCEPT ![c] = @ + 1]
  /\ done' = [done EXCEPT ![c] = 0]
  /\ UNCHANGED <<setup, sent, ret, completions, xferVars, perfVars, engineVars, svcVars, hwVars>>

AioReturn(c) ==
  /\ ret[c] = "none" /\ seg[c] > Len(Segments(c))
  /\ ret' = [ret EXCEPT ![c] = "EIOCBQUEUED"]
  /\ UNCHANGED <<setup, seg, done, sent, completions, xferVars, perfVars, engineVars, svcVars, hwVars>>
-------------------------------------------------------------------------------
(* The performance ioctls *)

Measurement(n) == <<Ioctl, n>>
Measuring == \E n \in 1 .. MaxStarts : Contains(transfer_list, Measurement(n))

\* tests/performance.c sleeps before it stops a measurement, so that by then
\* the measurement runs; it neither repeats a stop nor starts another
\* measurement right after it.
GoodTimeToStart == setup.patient => ~Measuring
GoodTimeToStop ==
  setup.patient =>
    transfer_list = <<>> \/ (hw.busy /\ cyclic(hw.xfer) /\ hw.xfer \notin stop_flag)

\* PERF_START; a version it does not know leaves engine->xdma_perf allocated.
PerfStart ==
  /\ ipc = "idle" /\ xdma_perf = 0
  /\ starts < setup.starts /\ GoodTimeToStart
  /\ starts' = starts + 1
  /\ xdma_perf' = starts + 1
  /\ \E known \in {TRUE, ~setup.bad_version} : ipc' = IF known THEN "submit" ELSE "idle"
  /\ UNCHANGED <<setup, aioVars, completions, xferVars, looked, stop_flag, engineVars, svcVars, hwVars>>

\* xdma_performance_submit: a loop of descriptors none of which stops.
PerfSubmit ==
  /\ ipc = "submit"
  /\ transfer_queue(Measurement(xdma_perf), 0)
  /\ ipc' = "idle"
  /\ UNCHANGED <<setup, aioVars, completions, xdma_perf, looked, starts, stop_flag, svcVars, hwVars>>

\* PERF_STOP: engine_cyclic_stop, without the lock, picks the first transfer.
PerfStop ==
  /\ ipc = "idle" /\ xdma_perf # 0
  /\ GoodTimeToStop
  /\ IF transfer_list = <<>>
     THEN ipc' = "stats" /\ UNCHANGED looked
     ELSE ipc' = "stop" /\ looked' = Head(transfer_list)
  /\ UNCHANGED <<setup, aioVars, completions, xferVars, xdma_perf, starts, stop_flag, engineVars, svcVars, hwVars>>

StopEngine ==
  /\ ipc = "stop"
  /\ xdma_engine_stop
  /\ ipc' \in IF state[looked] = "freed" THEN {"stats", "oops"}
              ELSE {IF cyclic(looked) THEN "flag" ELSE "stats"}
  /\ UNCHANGED <<setup, aioVars, completions, xferVars, xdma_perf, looked, starts, stop_flag,
                 running, svcVars, hwVars>>

StopFlag ==
  /\ ipc = "flag"
  /\ stop_flag' = stop_flag \cup {looked}
  /\ ipc' = "stats"
  /\ UNCHANGED <<setup, aioVars, completions, xferVars, xdma_perf, looked, starts, engineVars, svcVars, hwVars>>

\* get_perf_stats, then kfree, unless copy_to_user fails.
StopFree ==
  /\ ipc = "stats"
  /\ ipc' = "idle"
  /\ xdma_perf' \in {0} \cup IF setup.bad_copy THEN {xdma_perf} ELSE {}
  /\ UNCHANGED <<setup, aioVars, completions, xferVars, looked, starts, stop_flag, engineVars, svcVars, hwVars>>
-------------------------------------------------------------------------------
(* The hardware *)

\* An asynchronous transfer is executed, or a measurement comes to a last
\* descriptor that stops it.
HwDone ==
  /\ hw.busy
  /\ cyclic(hw.xfer) => hw.xfer \in stop_flag
  /\ hw' = [hw EXCEPT !.busy = FALSE, !.complete = TRUE]
  /\ moved' = IF cyclic(hw.xfer) THEN moved ELSE moved \cup {hw.xfer}
  /\ hw_event' = hw_event \cup {"stopped"}
  /\ UNCHANGED <<setup, aioVars, completions, xferVars, perfVars, running, idle_log, idle_irq, svcVars, hw_errors>>

\* RUN was cleared under a busy engine.
HwIdle ==
  /\ hw.busy /\ ~hw.run
  /\ hw' = [hw EXCEPT !.busy = FALSE]
  /\ hw_event' = hw_event \cup IF idle_log THEN {"idle"} ELSE {}
  /\ UNCHANGED <<setup, aioVars, completions, xferVars, perfVars, running, idle_log, idle_irq, svcVars, moved, hw_errors>>

HwError ==
  /\ hw.busy /\ hw_errors < setup.errors
  /\ hw' = [hw EXCEPT !.busy = FALSE]
  /\ hw_event' = hw_event \cup {"error"}
  /\ hw_errors' = hw_errors + 1
  /\ UNCHANGED <<setup, aioVars, completions, xferVars, perfVars, running, idle_log, idle_irq, svcVars, moved>>

\* xdma_isr: the engine's interrupt stays masked until the work item ends.
Isr ==
  /\ work = "idle"
  /\ hw_event \cap ({"stopped", "error"} \cup IF idle_irq THEN {"idle"} ELSE {}) # {}
  /\ work' = "scheduled"
  /\ UNCHANGED <<setup, aioVars, completions, xferVars, perfVars, engineVars, status, perf, hwVars>>
-------------------------------------------------------------------------------
(* engine_service_work *)

\* The status is read and cleared; an engine no longer busy is shut down.
WorkBegin ==
  /\ work = "scheduled"
  /\ status' = hw_event \cup IF hw.busy THEN {"busy"} ELSE {}
  /\ hw_event' = {}
  /\ work' = IF running THEN "perf" ELSE "idle"
  /\ IF running /\ ~hw.busy
     THEN running' = FALSE /\ xdma_engine_stop
     ELSE UNCHANGED engineVars
  /\ UNCHANGED <<setup, aioVars, completions, xferVars, perfVars, perf, moved, hw_errors>>

\* engine_service_perf tests the pointer, for a stop that was logged ...
ServicePerf ==
  /\ work = "perf"
  /\ perf' = IF transfer_list # <<>> /\ "stopped" \in status THEN xdma_perf ELSE 0
  /\ work' = IF perf' # 0 THEN "store" ELSE "final"
  /\ UNCHANGED <<setup, aioVars, completions, xferVars, perfVars, engineVars, status, hwVars>>

\* ... and stores through it, perhaps after PERF_STOP has freed it.
ServiceStore ==
  /\ work = "store"
  /\ work' \in {"final"} \cup IF perf = xdma_perf THEN {} ELSE {"oops"}
  /\ UNCHANGED <<setup, aioVars, completions, xferVars, perfVars, engineVars, status, perf, hwVars>>

\* engine_service_resume, given the queue as the service leaves it.
engine_service_resume(stopped, list) ==
  IF ~running /\ list # <<>> THEN engine_start(list)
  ELSE IF stopped THEN xdma_engine_stop /\ UNCHANGED running
  ELSE UNCHANGED engineVars

\* engine_transfer_completion: an iocb is completed with its last transfer, and
\* only that transfer is destroyed.
engine_transfer_completion(t, verdict) ==
  IF size_of_request[t] > 0
  THEN /\ state' = [state EXCEPT ![t] = "freed"]
       /\ completions' = [completions EXCEPT ![t[1]] = Append(@, size_of_request[t])]
  ELSE /\ state' = [state EXCEPT ![t] = verdict]
       /\ UNCHANGED completions

\* engine_service_transfer_list passes over nothing: each run of the engine is
\* one transfer.  engine_err_handle leaves a failed transfer on the queue.
ServiceFinal ==
  LET t == Head(transfer_list) IN
  /\ work = "final"
  /\ IF transfer_list = <<>>
     THEN work' = "bug" /\ UNCHANGED <<state, completions, transfer_list, engineVars>>
     ELSE /\ work' = "idle"
          /\ IF "error" \in status
             THEN /\ state' = [state EXCEPT ![t] = "FAILED"]
                  /\ engine_service_resume(TRUE, transfer_list)
                  /\ UNCHANGED <<completions, transfer_list>>
             ELSE /\ engine_transfer_completion(t, IF hw.complete THEN "COMPLETED" ELSE "FAILED")
                  /\ transfer_list' = Tail(transfer_list)
                  /\ engine_service_resume(FALSE, Tail(transfer_list))
  /\ UNCHANGED <<setup, aioVars, size_of_request, perfVars, status, perf, hwVars>>
-------------------------------------------------------------------------------
AioStep(c) == AioRefused(c) \/ AioChunk(c) \/ AioNextSegment(c) \/ AioReturn(c)
IoctlStep == PerfSubmit \/ StopEngine \/ StopFlag \/ StopFree
Service == WorkBegin \/ ServicePerf \/ ServiceStore \/ ServiceFinal

Next ==
  \/ \E c \in Calls : AioStep(c)
  \/ PerfStart \/ PerfStop \/ IoctlStep
  \/ HwDone \/ HwIdle \/ HwError \/ Isr
  \/ Service

\* A call that has begun goes on, the hardware does what it was given to do,
\* interrupts are delivered and scheduled work runs.  Nobody has to measure.
Fairness ==
  /\ \A c \in Calls : WF_vars(AioStep(c))
  /\ WF_vars(IoctlStep)
  /\ WF_vars(HwDone \/ HwIdle) /\ WF_vars(Isr) /\ WF_vars(Service)

Spec == Init /\ [][Next]_vars
FairSpec == Spec /\ Fairness
-------------------------------------------------------------------------------
(* Properties *)

\* The sizes of the segments of c that have bytes, in their order.
WithBytes(c) == {s \in 1 .. Len(Segments(c)) : Segments(c)[s].chunks > 0}
Rank(c, s) == Cardinality({q \in WithBytes(c) : q <= s})
Nth(c, n) == CHOOSE s \in WithBytes(c) : Rank(c, s) = n
Sizes(c) == [n \in 1 .. Cardinality(WithBytes(c)) |-> Segments(c)[Nth(c, n)].chunks]

\* Their sum: the number of transfers.
Pairs(sizes) == UNION {{n} \X (1 .. sizes[n]) : n \in DOMAIN sizes}
Bytes(sizes) == Cardinality(Pairs(sizes))

\* "pick first transfer on queue (was submitted to the engine)" (engine_service,
\* engine_cyclic_stop): whatever the users do, a busy engine executes the head of
\* the queue, and the service finds a transfer to finish.
HwRunsTheHead ==
  /\ hw.busy => transfer_list # <<>> /\ hw.xfer = Head(transfer_list)
  /\ work # "bug"

\* The requests of which the last transfer of a segment is the last one of the
\* request: no two segments have bytes, and none is refused after one with bytes.
InOnePart(c) ==
  /\ Cardinality(WithBytes(c)) <= 1
  /\ \A s \in 1 .. Len(Segments(c)) : Segments(c)[s].aligned

\* "last transfer for the given request?" (sg_aio_read_write): such a request is
\* completed at most once, with its whole size and not before its transfers were
\* all executed, even after an error of the hardware.
CompletedWhenMoved ==
  setup.patient =>
    \A c \in Calls : InOnePart(c) =>
      \/ completions[c] = <<>>
      \/ /\ completions[c] = Sizes(c)
         /\ \A i \in 1 .. Bytes(Sizes(c)) : <<c, i>> \in moved

\* A request that was accepted is completed to its last segment, unless a
\* measurement has the engine.
EveryIocbCompletes ==
  \A c \in Calls :
    setup.patient /\ ret[c] = "EIOCBQUEUED"
      ~> completions[c] = Sizes(c) \/ Measuring \/ work = "oops"

\* "stop measurement" (ioctl_do_perf_stop): once PERF_STOP has marked its last
\* descriptor, a measurement leaves the engine to the transfers behind it.
MeasurementEnds ==
  \A n \in 1 .. MaxStarts :
    setup.patient /\ Measurement(n) \in stop_flag
      ~> ~Contains(transfer_list, Measurement(n)) \/ work = "oops"
===============================================================================
