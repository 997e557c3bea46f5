---------------------------- MODULE XdmaCallsProofs ----------------------------
(***************************************************************************)
(* What holds of the queue of XdmaCalls for any requests, any number of    *)
(* measurements started and stopped at any time, and any errors; and what  *)
(* a request's iocb is told when measurements are stopped while they run.  *)
(***************************************************************************)
EXTENDS XdmaCalls, FiniteSetTheorems, TLAPS

Entries == (Calls \cup {Ioctl}) \X Nat

QueueType ==
  /\ transfer_list \in Seq(Entries)
  /\ sent \in [Calls -> Nat]
  /\ xdma_perf \in Nat /\ starts \in Nat
  /\ running \in BOOLEAN
  /\ DOMAIN hw = {"busy", "run", "xfer", "complete"} /\ hw.busy \in BOOLEAN
  /\ work \in {"idle", "scheduled", "perf", "store", "final", "oops"}

\* A busy engine executes the head of the queue and has nothing to report.
HeadInv ==
  hw.busy =>
    /\ running /\ work = "idle" /\ hw_event = {}
    /\ hw.xfer = Head(transfer_list)

\* An engine marked running has a transfer; another one has been serviced.
RunInv ==
  /\ running => transfer_list # <<>>
  /\ ~running => hw_event = {}

\* The service shuts an engine down that has a transfer to finish.
ServiceInv ==
  /\ work = "scheduled" => running
  /\ work \in {"perf", "store", "final"} => ~running /\ transfer_list # <<>>

Inv == QueueType /\ HeadInv /\ RunInv /\ ServiceInv

\* What a step does to the queue, the engine and the service decides about Inv.
queueVars == <<transfer_list, sent, xdma_perf, starts, running, hw, hw_event, work>>

LEMMA Frame == Inv /\ UNCHANGED queueVars => Inv'
BY DEF Inv, QueueType, HeadInv, RunInv, ServiceInv, queueVars

LEMMA InvInit == Init => Inv
<1> SUFFICES ASSUME Init PROVE Inv
  OBVIOUS
<1>1. <<>> \in Seq(Entries) /\ sent \in [Calls -> Nat]
  BY DEF Init
<1>2. DOMAIN hw = {"busy", "run", "xfer", "complete"} /\ hw.busy = FALSE
  BY DEF Init
<1> QED
  BY <1>1, <1>2 DEF Init, Inv, QueueType, HeadInv, RunInv, ServiceInv

\* transfer_queue, on an idle engine or behind the transfer it executes.
LEMMA Queueing ==
  ASSUME Inv, NEW t \in Entries, NEW size, transfer_queue(t, size),
         UNCHANGED <<xdma_perf, starts, hw_event, work>>, sent' \in [Calls -> Nat]
  PROVE  Inv'
<1> DEFINE list == Append(transfer_list, t)
<1>1. list \in Seq(Entries) /\ list # <<>> /\ transfer_list' = list
  BY DEF Inv, QueueType, transfer_queue
<1>2. transfer_list # <<>> => Head(list) = Head(transfer_list)
  BY DEF Inv, QueueType
<1>3. CASE running
  <2>1. UNCHANGED <<running, hw>>
    BY <1>3 DEF transfer_queue, engineVars
  <2> QED
    BY <1>1, <1>2, <1>3, <2>1 DEF Inv, QueueType, HeadInv, RunInv, ServiceInv
<1>4. CASE ~running
  <2>1. /\ running' = TRUE
        /\ hw' = [busy |-> TRUE, run |-> TRUE, xfer |-> Head(list), complete |-> FALSE]
    BY <1>4 DEF transfer_queue, engine_start
  <2>2. work = "idle" /\ hw_event = {}
    BY <1>4 DEF transfer_queue, Unlocked, Inv, RunInv, ServiceInv
  <2> QED
    BY <1>1, <2>1, <2>2 DEF Inv, QueueType, HeadInv, RunInv, ServiceInv
<1> QED
  BY <1>3, <1>4

\* xdma_engine_stop and the end of a run change nothing but the registers.
LEMMA Halting ==
  ASSUME Inv, UNCHANGED <<transfer_list, sent, xdma_perf, starts, running, work>>,
         DOMAIN hw' = DOMAIN hw, hw'.xfer = hw.xfer,
         \/ hw'.busy = hw.busy /\ UNCHANGED hw_event
         \/ hw.busy /\ hw'.busy = FALSE
  PROVE  Inv'
BY DEF Inv, QueueType, HeadInv, RunInv, ServiceInv

\* engine_service_resume starts what is left on the queue.
LEMMA Resuming ==
  ASSUME Inv, work = "final", work' = "idle", NEW stopped \in BOOLEAN,
         transfer_list' \in Seq(Entries), engine_service_resume(stopped, transfer_list'),
         UNCHANGED <<sent, xdma_perf, starts, hw_event>>
  PROVE  Inv'
<1>1. ~running /\ ~hw.busy /\ hw_event = {}
  BY DEF Inv, HeadInv, RunInv, ServiceInv
<1>2. CASE transfer_list' # <<>>
  <2>1. /\ running' = TRUE
        /\ hw' = [busy |-> TRUE, run |-> TRUE, xfer |-> Head(transfer_list'), complete |-> FALSE]
    BY <1>1, <1>2 DEF engine_service_resume, engine_start
  <2> QED
    BY <1>1, <1>2, <2>1 DEF Inv, QueueType, HeadInv, RunInv, ServiceInv
<1>3. CASE transfer_list' = <<>>
  <2>1. running' = running /\ hw' \in {hw, [hw EXCEPT !.run = FALSE]}
    BY <1>3 DEF engine_service_resume, xdma_engine_stop, engineVars
  <2>2. DOMAIN hw' = DOMAIN hw /\ hw'.busy = hw.busy
    BY <2>1 DEF Inv, QueueType
  <2> QED
    BY <1>1, <1>3, <2>1, <2>2 DEF Inv, QueueType, HeadInv, RunInv, ServiceInv
<1> QED
  BY <1>2, <1>3

LEMMA InvNext == Inv /\ [Next]_vars => Inv'
<1> SUFFICES ASSUME Inv, [Next]_vars PROVE Inv'
  OBVIOUS
<1>1. ASSUME NEW c \in Calls, AioStep(c) PROVE Inv'
  <2>1. CASE AioRefused(c) \/ AioNextSegment(c) \/ AioReturn(c)
    BY <2>1, Frame DEF AioRefused, AioNextSegment, AioReturn, queueVars, xferVars, perfVars,
       engineVars, svcVars, hwVars
  <2>2. CASE AioChunk(c)
    <3> DEFINE t == <<c, sent[c] + 1>>
    <3>1. t \in Entries /\ sent' \in [Calls -> Nat]
      BY <2>2 DEF AioChunk, Inv, QueueType, Entries
    <3>2. transfer_queue(t, IF LastChunk(c) THEN done[c] + 1 ELSE 0)
      BY <2>2 DEF AioChunk
    <3>3. UNCHANGED <<xdma_perf, starts, hw_event, work>>
      BY <2>2 DEF AioChunk, perfVars, svcVars, hwVars
    <3> QED
      BY <3>1, <3>2, <3>3, Queueing
  <2> QED
    BY <1>1, <2>1, <2>2 DEF AioStep
<1>2. CASE PerfStart
  BY <1>2 DEF PerfStart, Inv, QueueType, HeadInv, RunInv, ServiceInv, aioVars, xferVars,
     engineVars, svcVars, hwVars
<1>3. CASE PerfStop \/ StopFlag
  BY <1>3, Frame DEF PerfStop, StopFlag, queueVars, aioVars, xferVars, engineVars, svcVars, hwVars
<1>4. CASE PerfSubmit
  <2>1. Measurement(xdma_perf) \in Entries
    BY DEF Measurement, Entries, Inv, QueueType
  <2>2. /\ transfer_queue(Measurement(xdma_perf), 0)
        /\ UNCHANGED <<xdma_perf, starts, hw_event, work, sent>>
    BY <1>4 DEF PerfSubmit, aioVars, svcVars, hwVars
  <2> QED
    BY <2>1, <2>2, Queueing DEF Inv, QueueType
<1>5. CASE StopEngine
  <2>1. /\ UNCHANGED <<transfer_list, sent, xdma_perf, starts, running, work, hw_event>>
        /\ hw' = [hw EXCEPT !.run = FALSE]
    BY <1>5 DEF StopEngine, xdma_engine_stop, aioVars, xferVars, svcVars, hwVars
  <2>2. DOMAIN hw' = DOMAIN hw /\ hw'.busy = hw.busy /\ hw'.xfer = hw.xfer
    BY <2>1 DEF Inv, QueueType
  <2> QED
    BY <2>1, <2>2, Halting
<1>6. CASE StopFree
  <2>1. xdma_perf' \in Nat
    BY <1>6 DEF StopFree, Inv, QueueType
  <2> QED
    BY <1>6, <2>1 DEF StopFree, Inv, QueueType, HeadInv, RunInv, ServiceInv, aioVars, xferVars,
       engineVars, svcVars, hwVars
<1>7. CASE HwDone \/ HwIdle \/ HwError
  <2>1. /\ UNCHANGED <<transfer_list, sent, xdma_perf, starts, running, work>>
        /\ hw.busy
        /\ hw' \in {[hw EXCEPT !.busy = FALSE, !.complete = TRUE], [hw EXCEPT !.busy = FALSE]}
    BY <1>7 DEF HwDone, HwIdle, HwError, aioVars, xferVars, perfVars, svcVars
  <2>2. DOMAIN hw' = DOMAIN hw /\ hw'.busy = FALSE /\ hw'.xfer = hw.xfer
    BY <2>1 DEF Inv, QueueType
  <2> QED
    BY <2>1, <2>2, Halting
<1>8. CASE Isr
  <2>1. hw_event # {} /\ work' = "scheduled"
    BY <1>8 DEF Isr
  <2>2. running /\ ~hw.busy
    BY <2>1 DEF Inv, HeadInv, RunInv, QueueType
  <2> QED
    BY <1>8, <2>1, <2>2 DEF Isr, Inv, QueueType, HeadInv, RunInv, ServiceInv, aioVars, xferVars,
       perfVars, engineVars, hwVars
<1>9. CASE WorkBegin
  <2>1. running /\ ~hw.busy /\ transfer_list # <<>>
    BY <1>9 DEF WorkBegin, Inv, HeadInv, RunInv, ServiceInv
  <2>2. /\ running' = FALSE /\ hw' = [hw EXCEPT !.run = FALSE]
        /\ work' = "perf" /\ hw_event' = {}
        /\ UNCHANGED <<transfer_list, sent, xdma_perf, starts>>
    BY <1>9, <2>1 DEF WorkBegin, xdma_engine_stop, aioVars, xferVars, perfVars
  <2>3. DOMAIN hw' = DOMAIN hw /\ hw'.busy = FALSE
    BY <2>1, <2>2 DEF Inv, QueueType
  <2> QED
    BY <2>1, <2>2, <2>3 DEF Inv, QueueType, HeadInv, RunInv, ServiceInv
<1>10. CASE ServicePerf \/ ServiceStore
  <2>1. /\ UNCHANGED <<transfer_list, sent, xdma_perf, starts, running, hw, hw_event>>
        /\ work \in {"perf", "store"} /\ work' \in {"store", "final", "oops"}
    BY <1>10 DEF ServicePerf, ServiceStore, aioVars, xferVars, perfVars, engineVars, hwVars
  <2>2. ~running /\ ~hw.busy
    BY <2>1 DEF Inv, HeadInv, ServiceInv
  <2> QED
    BY <2>1, <2>2 DEF Inv, QueueType, HeadInv, RunInv, ServiceInv
<1>11. CASE ServiceFinal
  <2>1. work = "final" /\ transfer_list # <<>> /\ transfer_list \in Seq(Entries)
    BY <1>11 DEF ServiceFinal, Inv, QueueType, ServiceInv
  <2>2. /\ work' = "idle"
        /\ UNCHANGED <<sent, xdma_perf, starts, hw_event>>
        /\ \/ transfer_list' = transfer_list /\ engine_service_resume(TRUE, transfer_list)
           \/ /\ transfer_list' = Tail(transfer_list)
              /\ engine_service_resume(FALSE, Tail(transfer_list))
    BY <1>11, <2>1 DEF ServiceFinal, aioVars, perfVars, hwVars
  <2>3. transfer_list' \in Seq(Entries)
    <3>1. Tail(transfer_list) \in Seq(Entries)
      BY <2>1
    <3> QED
      BY <2>1, <2>2, <3>1
  <2>4. PICK stopped \in BOOLEAN : engine_service_resume(stopped, transfer_list')
    BY <2>2
  <2> QED
    BY <2>1, <2>2, <2>3, <2>4, Resuming
<1>12. CASE UNCHANGED vars
  BY <1>12, Frame DEF vars, queueVars, aioVars, xferVars, perfVars, engineVars, svcVars, hwVars
<1> QED
  BY <1>1, <1>2, <1>3, <1>4, <1>5, <1>6, <1>7, <1>8, <1>9, <1>10, <1>11, <1>12
     DEF Next, IoctlStep, Service

\* "pick first transfer on queue (was submitted to the engine)" (engine_service):
\* whoever queues, measures, stops or interrupts, a busy engine executes the head
\* of its queue, and engine_service's BUG_ON(!transfer) does not fire.
THEOREM QueueHeadRuns == Spec => []HwRunsTheHead
<1>1. Inv => HwRunsTheHead
  BY DEF Inv, QueueType, HeadInv, RunInv, HwRunsTheHead
<1> QED
  BY <1>1, InvInit, InvNext, PTL DEF Spec
-------------------------------------------------------------------------------
(* The transfers of requests and measurements *)

\* What belongs to a measurement is not freed, nor completes an iocb.
XferInv ==
  /\ setup \in Setup
  /\ transfer_list \in Seq(Xfers)
  /\ size_of_request \in [Xfers -> Nat] /\ DOMAIN state = Xfers /\ DOMAIN completions = Calls
  /\ sent \in [Calls -> 0 .. MaxChunks] /\ done \in [Calls -> Nat] /\ seg \in [Calls -> Nat \ {0}]
  /\ starts <= setup.starts /\ xdma_perf \in 0 .. MaxStarts
  /\ ipc = "submit" => xdma_perf # 0
  /\ \A t \in Xfers : cyclic(t) => size_of_request[t] = 0 /\ state[t] # "freed"

\* transfer_queue appends a transfer, sets its size and, if the engine is idle, starts
\* it; an engine that runs has a head and keeps it.
LEMMA Queued ==
  ASSUME Inv, XferInv, NEW t \in Xfers, NEW size \in Nat, transfer_queue(t, size)
  PROVE  /\ Unlocked /\ transfer_list' = Append(transfer_list, t)
         /\ transfer_list' \in Seq(Xfers) /\ transfer_list' # <<>>
         /\ transfer_list # <<>> => Head(transfer_list') = Head(transfer_list)
         /\ state' = [state EXCEPT ![t] = "SUBMITTED"]
         /\ size_of_request' = [size_of_request EXCEPT ![t] = size]
         /\ running' = TRUE
         /\ IF running THEN hw' = hw ELSE hw'.busy /\ hw'.run
<1> DEFINE list == Append(transfer_list, t)
<1>1. list \in Seq(Xfers) /\ list # <<>> /\ (transfer_list # <<>> => Head(list) = Head(transfer_list))
  <2>1. transfer_list \in Seq(Xfers)
    BY DEF XferInv
  <2>2. list \in Seq(Xfers) /\ Len(list) = Len(transfer_list) + 1
    BY <2>1
  <2>3. transfer_list # <<>> => list[1] = transfer_list[1]
    BY <2>1
  <2> QED
    BY <2>1, <2>2, <2>3
<1>2. Unlocked /\ transfer_list' = list /\ state' = [state EXCEPT ![t] = "SUBMITTED"]
      /\ size_of_request' = [size_of_request EXCEPT ![t] = size]
  BY DEF transfer_queue
<1>3. CASE running
  <2>1. running' = TRUE /\ hw' = hw
    BY <1>3 DEF transfer_queue, engineVars, Inv, QueueType
  <2> QED
    BY <1>1, <1>2, <1>3, <2>1
<1>4. CASE ~running
  <2>1. running' = TRUE /\ hw'.busy /\ hw'.run
    BY <1>4 DEF transfer_queue, engine_start
  <2> QED
    BY <1>1, <1>2, <1>4, <2>1
<1> QED
  BY <1>3, <1>4

\* A chunk is one of the transfers of its request.
LEMMA ChunkQueued ==
  ASSUME Inv, XferInv, NEW c \in Calls, AioChunk(c)
  PROVE  LET size == IF LastChunk(c) THEN done[c] + 1 ELSE 0 IN
           <<c, sent[c] + 1>> \in Xfers /\ size \in Nat /\ transfer_queue(<<c, sent[c] + 1>>, size)
<1>1. sent[c] + 1 \in 1 .. MaxChunks /\ done[c] + 1 \in Nat
  BY CallsAssumption DEF AioChunk, XferInv
<1> QED
  BY <1>1 DEF AioChunk, Xfers

LEMMA MeasurementQueued ==
  ASSUME Inv, XferInv, PerfSubmit
  PROVE  Measurement(xdma_perf) \in Xfers /\ transfer_queue(Measurement(xdma_perf), 0)
BY DEF PerfSubmit, XferInv, Measurement, Xfers

\* The service takes the head off the queue, or leaves it there after an error, and
\* starts what is first then.
LEMMA Finishes ==
  ASSUME Inv, XferInv, ServiceFinal
  PROVE  /\ work = "final" /\ work' = "idle" /\ transfer_list # <<>>
         /\ Head(transfer_list) \in Xfers /\ Tail(transfer_list) \in Seq(Xfers)
         /\ IF "error" \in status
            THEN /\ transfer_list' = transfer_list /\ UNCHANGED completions
                 /\ state' = [state EXCEPT ![Head(transfer_list)] = "FAILED"]
            ELSE /\ transfer_list' = Tail(transfer_list)
                 /\ \E verdict \in {"COMPLETED", "FAILED"} :
                      engine_transfer_completion(Head(transfer_list), verdict)
         /\ IF transfer_list' = <<>> THEN ~running' /\ ~hw'.busy ELSE hw'.busy /\ hw'.run
<1>1. work = "final" /\ transfer_list # <<>> /\ ~running /\ ~hw.busy
  BY DEF ServiceFinal, Inv, ServiceInv, HeadInv
<1>2. Head(transfer_list) \in Xfers /\ Tail(transfer_list) \in Seq(Xfers)
  BY <1>1 DEF XferInv
<1>3. CASE "error" \in status
  BY <1>1, <1>2, <1>3 DEF ServiceFinal, engine_service_resume, engine_start
<1>4. CASE "error" \notin status
  <2>1. /\ transfer_list' = Tail(transfer_list)
        /\ engine_service_resume(FALSE, Tail(transfer_list))
    BY <1>1, <1>4 DEF ServiceFinal
  <2>2. CASE Tail(transfer_list) = <<>>
    BY <1>1, <1>2, <1>4, <2>1, <2>2 DEF ServiceFinal, engine_service_resume, engineVars
  <2>3. CASE Tail(transfer_list) # <<>>
    BY <1>1, <1>2, <1>4, <2>1, <2>3 DEF ServiceFinal, engine_service_resume, engine_start
  <2> QED
    BY <2>2, <2>3
<1> QED
  BY <1>3, <1>4

LEMMA XferInit == Init => XferInv
<1> SUFFICES ASSUME Init PROVE XferInv
  OBVIOUS
<1>1. setup \in Setup /\ setup.starts \in 0 .. MaxStarts
  BY CallsAssumption DEF Init, Setup
<1>2. transfer_list \in Seq(Xfers)
  BY DEF Init
<1>3. sent \in [Calls -> 0 .. MaxChunks] /\ done \in [Calls -> Nat] /\ seg \in [Calls -> Nat \ {0}]
  BY CallsAssumption DEF Init
<1> QED
  BY <1>1, <1>2, <1>3, CallsAssumption DEF Init, XferInv

LEMMA XferNext == Inv /\ XferInv /\ [Next]_vars => XferInv'
<1> SUFFICES ASSUME Inv, XferInv, [Next]_vars PROVE XferInv'
  OBVIOUS
<1> USE DEF aioVars, xferVars, perfVars, engineVars, svcVars, hwVars
<1>1. \A t \in Xfers, c \in Calls : t[1] = c => ~cyclic(t)
  BY CallsAssumption DEF cyclic
<1>2. ASSUME NEW c \in Calls, AioStep(c) PROVE XferInv'
  <2>1. CASE AioRefused(c) \/ AioReturn(c)
    BY <2>1 DEF AioRefused, AioReturn, XferInv
  <2>2. CASE AioNextSegment(c)
    BY <2>2 DEF AioNextSegment, XferInv
  <2>3. CASE AioChunk(c)
    <3> DEFINE t    == <<c, sent[c] + 1>>
               size == IF LastChunk(c) THEN done[c] + 1 ELSE 0
    <3>1. t \in Xfers /\ size \in Nat /\ transfer_queue(t, size) /\ ~cyclic(t)
      BY <1>1, <2>3, ChunkQueued
    <3> HIDE DEF t, size
    <3>2. /\ transfer_list' \in Seq(Xfers)
          /\ state' = [state EXCEPT ![t] = "SUBMITTED"]
          /\ size_of_request' = [size_of_request EXCEPT ![t] = size]
      BY <3>1, Queued
    <3>3. sent' \in [Calls -> 0 .. MaxChunks] /\ done' \in [Calls -> Nat]
      BY <2>3, CallsAssumption DEF AioChunk, XferInv
    <3> QED
      BY <2>3, <3>1, <3>2, <3>3 DEF AioChunk, XferInv
  <2> QED
    BY <1>2, <2>1, <2>2, <2>3 DEF AioStep
<1>3. CASE PerfStart
  <2>1. starts + 1 <= setup.starts /\ starts + 1 \in 0 .. MaxStarts
    <3>1. starts \in Nat /\ setup.starts \in 0 .. MaxStarts /\ MaxStarts \in Nat /\ starts < setup.starts
      BY <1>3, CallsAssumption DEF PerfStart, Inv, QueueType, XferInv, Setup
    <3> QED
      BY <3>1
  <2>2. /\ UNCHANGED <<setup, completions, transfer_list, size_of_request, state, sent, done, seg>>
        /\ starts' = starts + 1 /\ xdma_perf' = starts + 1
    BY <1>3 DEF PerfStart
  <2>3. starts + 1 # 0
    BY DEF Inv, QueueType
  <2> QED
    BY <2>1, <2>2, <2>3 DEF XferInv
<1>4. CASE PerfSubmit
  <2> DEFINE t == Measurement(xdma_perf)
  <2>1. t \in Xfers /\ transfer_queue(t, 0)
    BY <1>4, MeasurementQueued
  <2> HIDE DEF t
  <2>2. /\ transfer_list' \in Seq(Xfers)
        /\ state' = [state EXCEPT ![t] = "SUBMITTED"]
        /\ size_of_request' = [size_of_request EXCEPT ![t] = 0]
    BY <2>1, Queued
  <2> QED
    BY <1>4, <2>2 DEF PerfSubmit, XferInv
<1>5. CASE PerfStop \/ StopEngine \/ StopFlag
  BY <1>5 DEF PerfStop, StopEngine, StopFlag, XferInv
<1>6. CASE StopFree
  <2>1. /\ UNCHANGED <<setup, completions, transfer_list, size_of_request, state, sent, done, seg, starts>>
        /\ xdma_perf' \in {0, xdma_perf} /\ ipc' = "idle"
    BY <1>6 DEF StopFree
  <2> QED
    BY <2>1, CallsAssumption DEF XferInv
<1>7. CASE HwDone \/ HwIdle \/ HwError \/ Isr
  BY <1>7 DEF HwDone, HwIdle, HwError, Isr, XferInv
<1>8. CASE WorkBegin \/ ServicePerf \/ ServiceStore
  BY <1>8 DEF WorkBegin, ServicePerf, ServiceStore, XferInv
<1>9. CASE ServiceFinal
  <2>1. /\ transfer_list' \in Seq(Xfers)
        /\ \/ \E s \in {"FAILED", "COMPLETED"} : state' = [state EXCEPT ![Head(transfer_list)] = s]
           \/ /\ state' = [state EXCEPT ![Head(transfer_list)] = "freed"]
              /\ size_of_request[Head(transfer_list)] > 0
    BY <1>9, Finishes DEF engine_transfer_completion, XferInv
  <2>2. ASSUME NEW t \in Xfers, cyclic(t)
        PROVE  state'[t] # "freed"
    BY <2>1, <2>2 DEF XferInv
  <2>3. DOMAIN state' = Xfers
    BY <2>1 DEF XferInv
  <2>4. DOMAIN completions' = Calls
    BY <1>9, Finishes DEF engine_transfer_completion, XferInv
  <2> QED
    BY <1>9, <2>1, <2>2, <2>3, <2>4 DEF ServiceFinal, XferInv
<1>10. CASE UNCHANGED vars
  BY <1>10 DEF vars, XferInv
<1> QED
  BY <1>2, <1>3, <1>4, <1>5, <1>6, <1>7, <1>8, <1>9, <1>10 DEF Next, IoctlStep, Service
-------------------------------------------------------------------------------
(* Measurements that are stopped only while they run *)

InService == work \in {"perf", "store", "final"}

\* A transfer that the engine has left was executed, or there was an error.
Ran(t, events) == cyclic(t) \/ t \in moved \/ "error" \in events

\* RUN is cleared only under a measurement, which PERF_STOP has found or marked; one
\* that it has found stays at the head until it is marked.
StopInv ==
  /\ hw.busy /\ ~hw.run => cyclic(hw.xfer) /\ (hw.xfer \in stop_flag \/ (ipc = "flag" /\ looked = hw.xfer))
  /\ running /\ ~hw.busy => Ran(Head(transfer_list), hw_event)
  /\ InService => Ran(Head(transfer_list), status)
  /\ ipc = "stop" =>
       /\ transfer_list # <<>> /\ looked = Head(transfer_list)
       /\ cyclic(looked) /\ looked \notin stop_flag
       /\ hw.busy => hw.run
       /\ running /\ ~hw.busy => "error" \in hw_event
       /\ InService => "error" \in status

\* What is queued comes behind, or is started.
LEMMA QueuedStop ==
  ASSUME Inv, XferInv, StopInv, NEW t \in Xfers, NEW size \in Nat, transfer_queue(t, size),
         UNCHANGED <<moved, hw_event, status, work, looked, stop_flag>>, ipc' \in {ipc, "idle"},
         ipc = "flag" => ipc' = "flag"
  PROVE  StopInv'
<1>1. /\ Unlocked /\ transfer_list' # <<>> /\ running' = TRUE
      /\ transfer_list # <<>> => Head(transfer_list') = Head(transfer_list)
      /\ IF running THEN hw' = hw ELSE hw'.busy /\ hw'.run
  BY Queued
<1>2. ~InService /\ ~InService'
  BY <1>1 DEF Unlocked, InService
<1>3. CASE running
  <2>1. transfer_list # <<>>
    BY <1>3 DEF Inv, RunInv
  <2> QED
    BY <1>1, <1>2, <1>3, <2>1 DEF StopInv, Ran
<1>4. CASE ~running
  BY <1>1, <1>2, <1>4 DEF StopInv
<1> QED
  BY <1>3, <1>4

LEMMA StopNext == Inv /\ XferInv /\ setup.patient /\ StopInv /\ [Next]_vars => StopInv'
<1> SUFFICES ASSUME Inv, XferInv, setup.patient, StopInv, [Next]_vars PROVE StopInv'
  OBVIOUS
<1> USE DEF aioVars, xferVars, perfVars, engineVars, svcVars, hwVars
<1>0. /\ hw.busy \in BOOLEAN /\ running \in BOOLEAN
      /\ hw.busy => hw.xfer = Head(transfer_list) /\ running /\ work = "idle"
      /\ DOMAIN hw = {"busy", "run", "xfer", "complete"}
  BY DEF Inv, QueueType, HeadInv
<1>1. ASSUME NEW c \in Calls, AioStep(c) PROVE StopInv'
  <2>1. CASE AioRefused(c) \/ AioNextSegment(c) \/ AioReturn(c)
    BY <2>1 DEF AioRefused, AioNextSegment, AioReturn, StopInv, InService, Ran
  <2>2. CASE AioChunk(c)
    <3>1. UNCHANGED <<moved, hw_event, status, work, looked, stop_flag, ipc>>
      BY <2>2 DEF AioChunk
    <3> QED
      BY <2>2, <3>1, ChunkQueued, QueuedStop
  <2> QED
    BY <1>1, <2>1, <2>2 DEF AioStep
<1>2. CASE PerfStart
  BY <1>2 DEF PerfStart, StopInv, InService, Ran
<1>3. CASE PerfSubmit
  <2>1. UNCHANGED <<moved, hw_event, status, work, looked, stop_flag>> /\ ipc = "submit" /\ ipc' = "idle"
    BY <1>3 DEF PerfSubmit
  <2> QED
    BY <1>3, <2>1, MeasurementQueued, QueuedStop
<1>4. CASE PerfStop
  <2>1. UNCHANGED <<moved, hw_event, status, work, stop_flag, hw, running, transfer_list>> /\ ipc = "idle"
    BY <1>4 DEF PerfStop
  <2>2. CASE transfer_list = <<>>
    <3>1. ipc' = "stats"
      BY <1>4, <2>2 DEF PerfStop
    <3> QED
      BY <2>1, <3>1 DEF StopInv, InService, Ran
  <2>3. CASE transfer_list # <<>>
    <3>1. ipc' = "stop" /\ looked' = Head(transfer_list)
      BY <1>4, <2>3 DEF PerfStop
    <3>2. hw.busy /\ cyclic(hw.xfer) /\ hw.xfer \notin stop_flag
      BY <1>4, <2>3 DEF PerfStop, GoodTimeToStop
    <3>3. hw.run
      BY <2>1, <3>2 DEF StopInv
    <3> QED
      BY <1>0, <2>1, <2>3, <3>1, <3>2, <3>3 DEF StopInv, InService, Ran
  <2> QED
    BY <2>2, <2>3
<1>5. CASE StopEngine
  <2>1. /\ UNCHANGED <<moved, hw_event, status, work, stop_flag, running, transfer_list, looked>>
        /\ ipc = "stop" /\ hw' = [hw EXCEPT !.run = FALSE]
    BY <1>5 DEF StopEngine, xdma_engine_stop
  <2>2. transfer_list # <<>> /\ looked = Head(transfer_list) /\ cyclic(looked)
    BY <2>1 DEF StopInv
  <2>3. state[looked] # "freed"
    BY <2>2 DEF XferInv
  <2>4. ipc' = "flag"
    BY <1>5, <2>2, <2>3 DEF StopEngine
  <2>5. hw'.busy = hw.busy /\ hw'.xfer = hw.xfer
    BY <1>0, <2>1
  <2> QED
    BY <1>0, <2>1, <2>2, <2>4, <2>5 DEF StopInv, InService, Ran
<1>6. CASE StopFlag \/ StopFree
  BY <1>6 DEF StopFlag, StopFree, StopInv, InService, Ran
<1>7. CASE HwDone
  <2>1. /\ UNCHANGED <<status, work, stop_flag, running, transfer_list, looked, ipc>>
        /\ hw' = [hw EXCEPT !.busy = FALSE, !.complete = TRUE] /\ hw.busy
        /\ moved \subseteq moved' /\ (cyclic(hw.xfer) \/ hw.xfer \in moved')
        /\ cyclic(hw.xfer) => hw.xfer \in stop_flag
    BY <1>7 DEF HwDone
  <2>2. ipc # "stop" /\ ~hw'.busy
    BY <1>0, <2>1 DEF StopInv
  <2> QED
    BY <1>0, <2>1, <2>2 DEF StopInv, InService, Ran
<1>8. CASE HwIdle
  <2>1. /\ UNCHANGED <<moved, status, work, stop_flag, running, transfer_list, looked, ipc>>
        /\ hw' = [hw EXCEPT !.busy = FALSE] /\ hw.busy /\ ~hw.run
    BY <1>8 DEF HwIdle
  <2>2. ipc # "stop" /\ ~hw'.busy /\ cyclic(Head(transfer_list))
    BY <1>0, <2>1 DEF StopInv
  <2> QED
    BY <1>0, <2>1, <2>2 DEF StopInv, InService, Ran
<1>9. CASE HwError
  <2>1. /\ UNCHANGED <<moved, status, work, stop_flag, running, transfer_list, looked, ipc>>
        /\ hw' = [hw EXCEPT !.busy = FALSE] /\ hw.busy /\ "error" \in hw_event'
    BY <1>9 DEF HwError
  <2>2. ~hw'.busy
    BY <1>0, <2>1
  <2> QED
    BY <1>0, <2>1, <2>2 DEF StopInv, InService, Ran
<1>10. CASE Isr
  BY <1>10 DEF Isr, StopInv, InService, Ran
<1>11. CASE WorkBegin
  <2>1. running /\ ~hw.busy
    BY <1>11 DEF WorkBegin, Inv, HeadInv, ServiceInv
  <2>2. /\ running' = FALSE /\ hw' = [hw EXCEPT !.run = FALSE]
        /\ status' = hw_event
        /\ UNCHANGED <<moved, stop_flag, transfer_list, looked, ipc>>
    BY <1>11, <2>1 DEF WorkBegin, xdma_engine_stop
  <2>3. ~hw'.busy
    BY <1>0, <2>1, <2>2
  <2> QED
    BY <2>1, <2>2, <2>3 DEF StopInv, InService, Ran
<1>12. CASE ServicePerf \/ ServiceStore
  <2>1. InService /\ UNCHANGED <<hw, hw_event, running, moved, status, stop_flag, transfer_list, looked, ipc>>
    BY <1>12 DEF ServicePerf, ServiceStore, InService
  <2> QED
    BY <2>1 DEF StopInv, Ran, InService
<1>13. CASE ServiceFinal
  <2>1. /\ UNCHANGED <<moved, hw_event, status, stop_flag, looked, ipc>> /\ InService /\ ~InService'
        /\ IF "error" \in status THEN transfer_list' = transfer_list /\ transfer_list # <<>>
           ELSE transfer_list' = Tail(transfer_list)
        /\ IF transfer_list' = <<>> THEN ~running' /\ ~hw'.busy ELSE hw'.busy /\ hw'.run
    BY <1>13, Finishes DEF ServiceFinal, InService
  <2>2. CASE ipc = "stop"
    BY <2>1, <2>2 DEF StopInv
  <2>3. CASE ipc # "stop"
    BY <2>1, <2>3 DEF StopInv
  <2> QED
    BY <2>2, <2>3
<1>14. CASE UNCHANGED vars
  BY <1>14 DEF vars, StopInv, InService, Ran
<1> QED
  BY <1>1, <1>2, <1>3, <1>4, <1>5, <1>6, <1>7, <1>8, <1>9, <1>10, <1>11, <1>12, <1>13, <1>14
     DEF Next, IoctlStep, Service
-------------------------------------------------------------------------------
(* The sizes of the segments and the transfers they take *)

\* The first n sizes, and the number of the last transfer of the n-th.
Upto(c, n) == [i \in 1 .. n |-> Sizes(c)[i]]
End(c, n)  == Bytes(Upto(c, n))

\* The first p sizes are positive.
Positive(c, p) == \A n \in 1 .. p : Sizes(c)[n] \in Nat \ {0}

LEMMA BytesType ==
  ASSUME NEW sizes \in Seq(Nat)
  PROVE  IsFiniteSet(Pairs(sizes)) /\ Bytes(sizes) \in Nat
<1> DEFINE n == Len(sizes)
           S == UNION {1 .. sizes[i] : i \in 1 .. n}
           f == [i \in 1 .. n |-> 1 .. sizes[i]]
<1>1. IsFiniteSet(1 .. n)
  BY FS_Interval
<1>2. f \in Surjection(1 .. n, {1 .. sizes[i] : i \in 1 .. n})
  BY DEF Surjection
<1>3. IsFiniteSet({1 .. sizes[i] : i \in 1 .. n})
  BY <1>1, <1>2, FS_Surjection
<1>4. ASSUME NEW T \in {1 .. sizes[i] : i \in 1 .. n}
      PROVE  IsFiniteSet(T)
  <2>1. PICK i \in 1 .. n : T = 1 .. sizes[i]
    OBVIOUS
  <2>2. sizes[i] \in Int
    OBVIOUS
  <2> QED
    BY <2>1, <2>2, FS_Interval
<1>5. IsFiniteSet(S)
  BY <1>3, <1>4, FS_UNION
<1>6. IsFiniteSet((1 .. n) \X S)
  BY <1>1, <1>5, FS_Product
<1>7. Pairs(sizes) \in SUBSET ((1 .. n) \X S)
  BY DEF Pairs
<1>8. IsFiniteSet(Pairs(sizes))
  BY <1>6, <1>7, FS_Subset
<1> QED
  BY <1>8, FS_CardinalityType DEF Bytes

LEMMA BytesAppend ==
  ASSUME NEW sizes \in Seq(Nat), NEW n \in Nat
  PROVE  Bytes(Append(sizes, n)) = Bytes(sizes) + n
<1> DEFINE k == Len(sizes) + 1
           new == {k} \X (1 .. n)
           more == Append(sizes, n)
<1>1. k \in Nat \ {0} /\ DOMAIN sizes = 1 .. k - 1 /\ DOMAIN more = 1 .. k
  OBVIOUS
<1>2. more[k] = n /\ \A i \in 1 .. k - 1 : more[i] = sizes[i]
  OBVIOUS
<1> HIDE DEF k, more
<1>3. Pairs(more) = Pairs(sizes) \cup new
  <2>1. \A x : x \in Pairs(more) <=> \E i \in 1 .. k : x \in {i} \X (1 .. more[i])
    BY <1>1 DEF Pairs
  <2>2. \A x : x \in Pairs(sizes) <=> \E i \in 1 .. k - 1 : x \in {i} \X (1 .. sizes[i])
    BY <1>1 DEF Pairs
  <2>3. 1 .. k = (1 .. k - 1) \cup {k} /\ k \notin 1 .. k - 1
    BY <1>1
  <2>4. ASSUME NEW x
        PROVE  x \in Pairs(more) <=> x \in Pairs(sizes) \/ x \in new
    BY <1>1, <1>2, <2>1, <2>2, <2>3
  <2> QED
    BY <2>4
<1>4. Pairs(sizes) \cap new = {}
  BY <1>1 DEF Pairs
<1>5. IsFiniteSet({k}) /\ Cardinality({k}) = 1
  BY FS_Singleton
<1>6. IsFiniteSet(1 .. n) /\ Cardinality(1 .. n) = n
  BY FS_Interval
<1>7. IsFiniteSet(new) /\ Cardinality(new) = 1 * n
  BY <1>5, <1>6, FS_Product
<1>8. IsFiniteSet(Pairs(sizes)) /\ Bytes(sizes) \in Nat
  BY BytesType
<1>9. Cardinality(Pairs(sizes) \cup new) = Cardinality(Pairs(sizes)) + Cardinality(new) - Cardinality({})
  BY <1>4, <1>7, <1>8, FS_Union
<1>10. Bytes(more) = Bytes(sizes) + n
  BY <1>3, <1>7, <1>8, <1>9, FS_EmptySet DEF Bytes
<1> QED
  BY <1>10 DEF more

LEMMA UptoType ==
  ASSUME NEW c, NEW p \in Nat, Positive(c, p), NEW n \in 0 .. p
  PROVE  Upto(c, n) \in Seq(Nat) /\ Len(Upto(c, n)) = n /\ End(c, n) \in Nat
<1>1. Upto(c, n) \in [1 .. n -> Nat]
  BY DEF Upto, Positive
<1>2. Upto(c, n) \in Seq(Nat) /\ Len(Upto(c, n)) = n
  BY <1>1
<1> QED
  BY <1>2, BytesType DEF End

LEMMA EndZero == ASSUME NEW c PROVE Upto(c, 0) = <<>> /\ End(c, 0) = 0
<1>1. Upto(c, 0) = <<>>
  BY DEF Upto
<1>2. Pairs(<<>>) = {}
  BY DEF Pairs
<1> QED
  BY <1>1, <1>2, FS_EmptySet DEF End, Bytes

LEMMA EndStep ==
  ASSUME NEW c, NEW p \in Nat, Positive(c, p), NEW n \in 0 .. p - 1
  PROVE  /\ Upto(c, n + 1) = Append(Upto(c, n), Sizes(c)[n + 1])
         /\ End(c, n + 1) = End(c, n) + Sizes(c)[n + 1]
<1>1. n + 1 \in 0 .. p /\ n \in 0 .. p /\ Sizes(c)[n + 1] \in Nat
  BY DEF Positive
<1>2. /\ Upto(c, n) \in Seq(Nat) /\ Len(Upto(c, n)) = n
      /\ Upto(c, n + 1) \in Seq(Nat) /\ Len(Upto(c, n + 1)) = n + 1
  BY <1>1, UptoType
<1>3. \A i \in 1 .. n + 1 : Upto(c, n + 1)[i] = IF i <= n THEN Upto(c, n)[i] ELSE Sizes(c)[n + 1]
  BY <1>1 DEF Upto
<1>4. Upto(c, n + 1) = Append(Upto(c, n), Sizes(c)[n + 1])
  BY <1>1, <1>2, <1>3
<1> QED
  BY <1>1, <1>2, <1>4, BytesAppend DEF End

LEMMA EndGrows ==
  ASSUME NEW c, NEW p \in Nat, Positive(c, p), NEW m \in 0 .. p, NEW n \in 0 .. p, m < n
  PROVE  End(c, m) < End(c, n)
<1>1. Pairs(Upto(c, m)) \in SUBSET Pairs(Upto(c, n))
  BY DEF Pairs, Upto
<1>2. Sizes(c)[n] \in Nat \ {0} /\ n \in 1 .. n /\ n \notin 1 .. m
  BY DEF Positive
<1>3. <<n, 1>> \in Pairs(Upto(c, n)) /\ <<n, 1>> \notin Pairs(Upto(c, m))
  BY <1>2 DEF Pairs, Upto
<1>4. IsFiniteSet(Pairs(Upto(c, n)))
  BY UptoType, BytesType
<1>5. End(c, m) <= End(c, n) /\ End(c, m) # End(c, n)
  BY <1>1, <1>3, <1>4, FS_Subset DEF End, Bytes
<1> QED
  BY <1>5, UptoType

\* The number of segments with bytes before the s-th.
Before(c, s) == Cardinality({q \in WithBytes(c) : q < s})

LEMMA BeforeType ==
  ASSUME NEW c, Len(Segments(c)) \in Nat, NEW s \in Nat
  PROVE  /\ IsFiniteSet(WithBytes(c)) /\ IsFiniteSet({q \in WithBytes(c) : q < s})
         /\ Before(c, s) \in Nat /\ Before(c, s) <= Cardinality(WithBytes(c))
         /\ Cardinality(WithBytes(c)) \in Nat
<1>1. IsFiniteSet(1 .. Len(Segments(c)))
  BY FS_Interval
<1>2. IsFiniteSet(WithBytes(c))
  BY <1>1, FS_Subset DEF WithBytes
<1> QED
  BY <1>2, FS_Subset, FS_CardinalityType DEF Before

\* A segment with bytes is the next one, and its size the next size.
LEMMA NextSize ==
  ASSUME NEW c, Len(Segments(c)) \in Nat, NEW s \in WithBytes(c)
  PROVE  /\ Before(c, s) + 1 <= Cardinality(WithBytes(c))
         /\ Before(c, s + 1) = Before(c, s) + 1
         /\ Sizes(c)[Before(c, s) + 1] = Segments(c)[s].chunks
<1> DEFINE upto(q) == {x \in WithBytes(c) : x <= q}
           below   == {x \in WithBytes(c) : x < s}
<1>1. WithBytes(c) \subseteq Nat
  BY DEF WithBytes
<1>2. IsFiniteSet(WithBytes(c)) /\ IsFiniteSet(below) /\ Cardinality(below) \in Nat
  BY <1>1, BeforeType DEF Before
<1>3. upto(s) = below \cup {s} /\ s \notin below
  BY <1>1
<1>4. Rank(c, s) = Before(c, s) + 1
  BY <1>2, <1>3, FS_AddElement DEF Rank, Before
<1>5. {x \in WithBytes(c) : x < s + 1} = upto(s)
  BY <1>1
<1>6. Before(c, s + 1) = Before(c, s) + 1
  BY <1>4, <1>5 DEF Before, Rank
<1>7. ASSUME NEW q \in WithBytes(c), NEW r \in WithBytes(c), q < r
      PROVE  Rank(c, q) # Rank(c, r)
  <2>1. upto(q) \in SUBSET upto(r) /\ r \in upto(r) /\ r \notin upto(q)
    BY <1>1, <1>7
  <2>2. IsFiniteSet(upto(r))
    BY <1>2, FS_Subset
  <2> QED
    BY <2>1, <2>2, FS_Subset DEF Rank
<1>8. \A q \in WithBytes(c) : Rank(c, q) = Rank(c, s) => q = s
  BY <1>1, <1>7
<1>9. Nth(c, Rank(c, s)) = s
  BY <1>8 DEF Nth
<1>10. Rank(c, s) <= Cardinality(WithBytes(c))
  BY <1>2, FS_Subset DEF Rank
<1>11. Rank(c, s) \in 1 .. Cardinality(WithBytes(c))
  BY <1>2, <1>4, <1>10, FS_CardinalityType DEF Before
<1> QED
  BY <1>4, <1>6, <1>9, <1>10, <1>11 DEF Sizes

\* An empty one adds none.
LEMMA NoSize ==
  ASSUME NEW c, NEW s \in Nat, s \notin WithBytes(c)
  PROVE  Before(c, s + 1) = Before(c, s)
<1>1. \A q \in WithBytes(c) : q < s + 1 <=> q < s
  BY DEF WithBytes
<1>2. {q \in WithBytes(c) : q < s + 1} = {q \in WithBytes(c) : q < s}
  BY <1>1
<1> QED
  BY <1>2 DEF Before
-------------------------------------------------------------------------------
(* What a request has sent *)

\* The segments with bytes of which every transfer was sent.
AllSent(c) == seg[c] <= Len(Segments(c)) /\ done[c] > 0 /\ done[c] = Segment(c).chunks
Issued(c)  == Before(c, seg[c]) + IF AllSent(c) THEN 1 ELSE 0

\* The transfers of c end the segments one after the other, and the last one of each
\* has its size.
RequestInv(c) ==
  /\ seg[c] <= Len(Segments(c)) + 1
  /\ done[c] > 0 => seg[c] <= Len(Segments(c)) /\ done[c] <= Segment(c).chunks
  /\ Issued(c) <= Cardinality(WithBytes(c)) /\ Positive(c, Issued(c))
  /\ sent[c] = End(c, Before(c, seg[c])) + done[c]
  /\ \A i \in 1 .. sent[c] :
       \/ size_of_request[<<c, i>>] = 0 /\ \A n \in 1 .. Issued(c) : End(c, n) # i
       \/ \E n \in 1 .. Issued(c) : size_of_request[<<c, i>>] = Sizes(c)[n] /\ End(c, n) = i

LEMMA SegmentsType ==
  ASSUME XferInv, NEW c \in Calls
  PROVE  /\ Segments(c) \in Seq([chunks : Nat, aligned : BOOLEAN]) /\ Len(Segments(c)) \in Nat
         /\ seg[c] \in Nat \ {0} /\ done[c] \in Nat /\ sent[c] \in Nat /\ Issued(c) \in Nat
         /\ Before(c, seg[c]) \in Nat /\ Before(c, seg[c]) \in 0 .. Issued(c)
<1>1. Segments(c) \in Seq([chunks : Nat, aligned : BOOLEAN])
  BY DEF XferInv, Setup, Segments
<1>2. seg[c] \in Nat \ {0} /\ done[c] \in Nat /\ sent[c] \in Nat
  BY CallsAssumption DEF XferInv
<1>3. Len(Segments(c)) \in Nat
  BY <1>1
<1>4. Before(c, seg[c]) \in Nat
  BY <1>2, <1>3, BeforeType
<1>5. Issued(c) \in Nat /\ Before(c, seg[c]) \in 0 .. Issued(c)
  BY <1>4 DEF Issued
<1> QED
  BY <1>1, <1>2, <1>3, <1>4, <1>5

\* The requests are fixed.
LEMMA SameSizes ==
  ASSUME setup' = setup, NEW c
  PROVE  /\ Segments(c)' = Segments(c) /\ Sizes(c)' = Sizes(c) /\ WithBytes(c)' = WithBytes(c)
         /\ \A s : Before(c, s)' = Before(c, s)
         /\ \A n : End(c, n)' = End(c, n) /\ Upto(c, n)' = Upto(c, n)
<1>1. Segments(c)' = Segments(c)
  BY DEF Segments
<1>2. WithBytes(c)' = WithBytes(c)
  BY <1>1 DEF WithBytes
<1>3. Sizes(c)' = Sizes(c)
  BY <1>1, <1>2 DEF Sizes, Nth, Rank
<1>4. \A n : Upto(c, n)' = Upto(c, n)
  BY <1>3 DEF Upto
<1>5. \A n : End(c, n)' = End(c, n)
  BY <1>4 DEF End
<1> QED
  BY <1>1, <1>2, <1>3, <1>4, <1>5 DEF Before

\* What changes nothing that RequestInv looks at.
LEMMA RequestSame ==
  ASSUME NEW c \in Calls, RequestInv(c), setup' = setup, seg'[c] = seg[c], done'[c] = done[c],
         sent'[c] = sent[c],
         \A i \in 1 .. sent[c] : size_of_request'[<<c, i>>] = size_of_request[<<c, i>>]
  PROVE  RequestInv(c)' /\ Issued(c)' = Issued(c)
<1>1. AllSent(c)' <=> AllSent(c)
  BY SameSizes DEF AllSent, Segment
<1>2. Issued(c)' = Issued(c)
  BY <1>1, SameSizes DEF Issued
<1>3. Segment(c)' = Segment(c)
  BY SameSizes DEF Segment
<1>4. Positive(c, Issued(c))'
  BY <1>2, SameSizes DEF RequestInv, Positive
<1> QED
  BY <1>2, <1>3, <1>4, SameSizes DEF RequestInv

LEMMA ElementOf == ASSUME NEW S, NEW q \in Seq(S), NEW i \in 1 .. Len(q) PROVE q[i] \in S
OBVIOUS

\* The segment c is at.
LEMMA AtSegment ==
  ASSUME XferInv, NEW c \in Calls, InSegment(c)
  PROVE  /\ seg[c] \in 1 .. Len(Segments(c)) /\ Segment(c).chunks \in Nat
         /\ seg[c] \in WithBytes(c) <=> Segment(c).chunks > 0
<1>1. seg[c] \in 1 .. Len(Segments(c))
  BY SegmentsType DEF InSegment
<1>2. Segments(c)[seg[c]] \in [chunks : Nat, aligned : BOOLEAN]
  <2>1. Segments(c) \in Seq([chunks : Nat, aligned : BOOLEAN])
    BY SegmentsType
  <2> QED
    BY <1>1, <2>1, ElementOf
<1> QED
  BY <1>1, <1>2 DEF Segment, WithBytes

LEMMA SegmentDone ==
  ASSUME XferInv, NEW c \in Calls, RequestInv(c), AioNextSegment(c)
  PROVE  RequestInv(c)' /\ Issued(c)' = Issued(c)
<1> PICK s, b : s = seg[c] /\ b = Before(c, s)
  OBVIOUS
<1>1. /\ setup' = setup /\ sent' = sent /\ size_of_request' = size_of_request
      /\ seg'[c] = s + 1 /\ done'[c] = 0 /\ done[c] = Segment(c).chunks /\ InSegment(c)
  BY DEF AioNextSegment, XferInv, xferVars
<1>2. s \in 1 .. Len(Segments(c)) /\ (s \in WithBytes(c) <=> Segment(c).chunks > 0)
  BY <1>1, AtSegment
<1>3. b \in Nat /\ s \in Nat /\ Len(Segments(c)) \in Nat /\ Issued(c) \in Nat
  BY SegmentsType
<1>4. ~AllSent(c)' /\ Issued(c)' = Before(c, s + 1)
  <2>1. ~AllSent(c)'
    BY <1>1 DEF AllSent
  <2>2. Before(c, s + 1)' = Before(c, s + 1)
    BY <1>1, SameSizes
  <2>3. Before(c, s + 1) \in Nat
    <3>1. s + 1 \in Nat
      BY <1>3
    <3> QED
      BY <1>3, <3>1, BeforeType
  <2> QED
    BY <1>1, <2>1, <2>2, <2>3 DEF Issued
<1>5. Before(c, s + 1) = Issued(c) /\ sent[c] = End(c, Before(c, s + 1))
  <2>1. CASE s \in WithBytes(c)
    <3>1. AllSent(c) /\ Issued(c) = b + 1
      BY <1>1, <1>2, <2>1 DEF AllSent, Issued
    <3>2. Before(c, s + 1) = b + 1 /\ Sizes(c)[b + 1] = done[c]
      BY <1>1, <1>3, <2>1, NextSize DEF Segment
    <3>3. End(c, b + 1) = End(c, b) + Sizes(c)[b + 1]
      BY <1>3, <3>1, EndStep DEF RequestInv
    <3> QED
      BY <3>1, <3>2, <3>3 DEF RequestInv
  <2>2. CASE s \notin WithBytes(c)
    <3>1. done[c] = 0
      BY <1>1, <1>2, <2>2, AtSegment
    <3>2. ~AllSent(c) /\ Issued(c) = b
      BY <1>3, <3>1 DEF AllSent, Issued
    <3>3. Before(c, s + 1) = b /\ End(c, b) \in Nat
      BY <1>3, <2>2, <3>2, NoSize, UptoType DEF RequestInv
    <3> QED
      BY <3>1, <3>2, <3>3 DEF RequestInv
  <2> QED
    BY <2>1, <2>2
<1>6. Issued(c)' = Issued(c)
  BY <1>4, <1>5
<1>7. Positive(c, Issued(c))'
  BY <1>1, <1>6, SameSizes DEF RequestInv, Positive
<1>8. sent'[c] = End(c, Before(c, seg[c]))' + done'[c]
  <2>1. End(c, Before(c, s + 1)) \in Nat
    BY <1>3, <1>5, UptoType DEF RequestInv
  <2>2. Before(c, seg[c])' = Before(c, s + 1)
    BY <1>1, SameSizes DEF Before
  <2>3. End(c, Before(c, seg[c]))' = End(c, Before(c, s + 1))
    BY <1>1, <2>2, SameSizes DEF End, Upto
  <2> QED
    BY <1>1, <1>5, <2>1, <2>3
<1>9. seg'[c] <= Len(Segments(c)') + 1
  BY <1>1, <1>2, <1>3, SameSizes
<1> QED
  BY <1>1, <1>6, <1>7, <1>8, <1>9, SameSizes DEF RequestInv

\* A chunk is not the last of its segment, or it ends it and has its size.
LEMMA ChunkSent ==
  ASSUME Inv, XferInv, NEW c \in Calls, RequestInv(c), AioChunk(c)
  PROVE  /\ RequestInv(c)'
         /\ \/ Issued(c)' = Issued(c)
            \/ Issued(c)' = Issued(c) + 1 /\ End(c, Issued(c) + 1) = sent[c] + 1
<1> DEFINE s == seg[c]
           b == Before(c, s)
           i == sent[c] + 1
           size == IF LastChunk(c) THEN done[c] + 1 ELSE 0
<1>1. /\ setup' = setup /\ seg' = seg /\ done'[c] = done[c] + 1 /\ sent'[c] = i /\ InSegment(c)
      /\ done[c] < Segment(c).chunks
  BY DEF AioChunk, XferInv
<1>2. <<c, i>> \in Xfers /\ size_of_request' = [size_of_request EXCEPT ![<<c, i>>] = size]
  BY ChunkQueued, Queued
<1>3. s \in 1 .. Len(Segments(c)) /\ s \in WithBytes(c) /\ Segment(c).chunks \in Nat
  BY <1>1, AtSegment, SegmentsType
<1>4. b \in Nat /\ s \in Nat /\ done[c] \in Nat /\ sent[c] \in Nat /\ Len(Segments(c)) \in Nat
  BY SegmentsType
<1>5. ~AllSent(c) /\ Issued(c) = b
  BY <1>1, <1>3, <1>4 DEF AllSent, Issued
<1>6. /\ b + 1 <= Cardinality(WithBytes(c))
      /\ Sizes(c)[b + 1] = Segment(c).chunks
  BY <1>3, <1>4, NextSize DEF Segment
<1>7. Positive(c, b) /\ Positive(c, b + 1)
  BY <1>1, <1>3, <1>4, <1>5, <1>6 DEF RequestInv, Positive
<1>8. /\ sent[c] = End(c, b) + done[c] /\ End(c, b) \in Nat
      /\ End(c, b + 1) = End(c, b) + Segment(c).chunks
  <2>1. b \in 0 .. b /\ b \in 0 .. (b + 1) - 1 /\ b + 1 \in Nat
    BY <1>4
  <2>2. End(c, b) \in Nat
    BY <1>4, <1>7, <2>1, UptoType
  <2>3. End(c, b + 1) = End(c, b) + Sizes(c)[b + 1]
    BY <1>7, <2>1, EndStep
  <2> QED
    BY <1>6, <2>2, <2>3 DEF RequestInv
<1>9. \A n \in 1 .. b : End(c, n) \in Nat /\ End(c, n) <= sent[c]
  <2> SUFFICES ASSUME NEW n \in 1 .. b
               PROVE  End(c, n) \in Nat /\ End(c, n) <= sent[c]
    OBVIOUS
  <2>1. n = b \/ End(c, n) < End(c, b)
    BY <1>4, <1>7, EndGrows
  <2>2. End(c, n) \in Nat
    BY <1>4, <1>7, UptoType
  <2> QED
    BY <1>4, <1>8, <2>1, <2>2
<1>10. /\ \A j \in 1 .. sent[c] : size_of_request'[<<c, j>>] = size_of_request[<<c, j>>]
       /\ size_of_request'[<<c, i>>] = size
  BY <1>2, <1>4 DEF XferInv
<1>11. \A j \in 1 .. sent[c] :
         \/ size_of_request'[<<c, j>>] = 0 /\ \A n \in 1 .. b : End(c, n) # j
         \/ \E n \in 1 .. b : size_of_request'[<<c, j>>] = Sizes(c)[n] /\ End(c, n) = j
  BY <1>5, <1>10 DEF RequestInv
<1>12. 1 .. i = (1 .. sent[c]) \cup {i}
  BY <1>4
<1>13. /\ Segment(c)' = Segment(c) /\ Sizes(c)' = Sizes(c) /\ WithBytes(c)' = WithBytes(c)
       /\ Before(c, s)' = b /\ Len(Segments(c))' = Len(Segments(c))
       /\ \A n : End(c, n)' = End(c, n) /\ (Positive(c, n)' <=> Positive(c, n))
  <2>1. \A n : Positive(c, n)' <=> Positive(c, n)
    BY <1>1, SameSizes DEF Positive
  <2> QED
    BY <1>1, <2>1, SameSizes DEF Segment
<1>14. AllSent(c)' <=> done[c] + 1 = Segment(c).chunks
  BY <1>1, <1>3, <1>4, <1>13 DEF AllSent
<1>15. CASE LastChunk(c)
  <2>1. done[c] + 1 = Segment(c).chunks /\ size = Segment(c).chunks
    BY <1>1, <1>3, <1>4, <1>15 DEF LastChunk
  <2>2. Issued(c)' = b + 1
    BY <1>1, <1>13, <1>14, <2>1 DEF Issued
  <2>3. End(c, b + 1) = i
    BY <1>4, <1>8, <2>1
  <2>4. 1 .. b + 1 = (1 .. b) \cup {b + 1}
    BY <1>4
  <2>5. \A j \in 1 .. i :
          \/ size_of_request'[<<c, j>>] = 0 /\ \A n \in 1 .. b + 1 : End(c, n) # j
          \/ \E n \in 1 .. b + 1 : size_of_request'[<<c, j>>] = Sizes(c)[n] /\ End(c, n) = j
    <3>1. \A j \in 1 .. sent[c] : j # i
      BY <1>4
    <3>2. size_of_request'[<<c, i>>] = Sizes(c)[b + 1]
      BY <1>6, <1>10, <2>1
    <3> HIDE DEF i, b
    <3> QED
      BY <1>11, <1>12, <2>3, <2>4, <3>1, <3>2
  <2>6. sent'[c] = End(c, b) + done'[c]
    BY <1>1, <1>4, <1>8
  <2> QED
    BY <1>1, <1>3, <1>4, <1>5, <1>6, <1>7, <1>13, <2>1, <2>2, <2>3, <2>5, <2>6 DEF RequestInv
<1>16. CASE ~LastChunk(c)
  <2>1. done[c] + 1 < Segment(c).chunks /\ size = 0
    BY <1>1, <1>3, <1>4, <1>16 DEF LastChunk
  <2>2. Issued(c)' = b
    BY <1>1, <1>3, <1>4, <1>13, <1>14, <2>1 DEF Issued
  <2>3. \A n \in 1 .. b : End(c, n) # i
    BY <1>4, <1>9
  <2>4. \A j \in 1 .. i :
          \/ size_of_request'[<<c, j>>] = 0 /\ \A n \in 1 .. b : End(c, n) # j
          \/ \E n \in 1 .. b : size_of_request'[<<c, j>>] = Sizes(c)[n] /\ End(c, n) = j
    <3>1. size_of_request'[<<c, i>>] = 0
      BY <1>10, <2>1
    <3> HIDE DEF i, b, size
    <3> QED
      BY <1>11, <1>12, <2>3, <3>1
  <2>5. sent'[c] = End(c, b) + done'[c]
    BY <1>1, <1>4, <1>8
  <2> QED
    BY <1>1, <1>3, <1>4, <1>5, <1>6, <1>7, <1>13, <2>1, <2>2, <2>4, <2>5 DEF RequestInv
<1> QED
  BY <1>15, <1>16
-------------------------------------------------------------------------------
(* The order in which a request's transfers are finished *)

\* Those of c that wait are the ones after the k-th, in their order.
Waiting(c, k) ==
  /\ \A i \in 1 .. Len(transfer_list) :
       transfer_list[i][1] = c => transfer_list[i][2] \in k + 1 .. sent[c]
  /\ \A j \in k + 1 .. sent[c] : \E i \in 1 .. Len(transfer_list) : transfer_list[i] = <<c, j>>
  /\ \A i, j \in 1 .. Len(transfer_list) :
       i < j /\ transfer_list[i][1] = c /\ transfer_list[j][1] = c => transfer_list[i][2] < transfer_list[j][2]

\* The first k were executed, and the segments that end among them completed.
Finished(c, k) ==
  /\ Len(completions[c]) \in 0 .. Issued(c)
  /\ completions[c] = Upto(c, Len(completions[c]))
  /\ End(c, Len(completions[c])) <= k
  /\ \A n \in Len(completions[c]) + 1 .. Issued(c) : End(c, n) > k
  /\ \A i \in 1 .. k : <<c, i>> \in moved

CallInv(c) ==
  RequestInv(c) /\ \E k \in Nat : k <= sent[c] /\ Waiting(c, k) /\ Finished(c, k)

\* What changes neither the queue nor what is completed.
LEMMA CallSame ==
  ASSUME NEW c \in Calls, CallInv(c), RequestInv(c)', Issued(c)' = Issued(c), setup' = setup,
         sent'[c] = sent[c], transfer_list' = transfer_list, completions'[c] = completions[c],
         moved \subseteq moved'
  PROVE  CallInv(c)'
<1>1. PICK k \in Nat : k <= sent[c] /\ Waiting(c, k) /\ Finished(c, k)
  BY DEF CallInv
<1>2. Waiting(c, k)'
  BY <1>1 DEF Waiting
<1>3. Finished(c, k)'
  BY <1>1, SameSizes DEF Finished
<1> QED
  BY <1>1, <1>2, <1>3 DEF CallInv

LEMMA LastOrBefore ==
  ASSUME NEW m \in Nat, NEW n \in Nat, NEW j \in m .. n + 1
  PROVE  j \in m .. n \/ j = n + 1
OBVIOUS

\* A transfer comes to the end of the queue.
LEMMA WaitingAppend ==
  ASSUME XferInv, NEW c \in Calls, NEW k \in Nat, k <= sent[c], Waiting(c, k), NEW t \in Xfers,
         transfer_list' = Append(transfer_list, t),
         \/ t[1] # c /\ sent'[c] = sent[c]
         \/ t = <<c, sent[c] + 1>> /\ sent'[c] = sent[c] + 1
  PROVE  Waiting(c, k)'
<1> DEFINE n == Len(transfer_list)
<1>1. transfer_list \in Seq(Xfers) /\ n \in Nat /\ sent[c] \in Nat
  BY SegmentsType DEF XferInv
<1>2. /\ Len(transfer_list') = n + 1 /\ transfer_list'[n + 1] = t
      /\ \A i \in 1 .. n : transfer_list'[i] = transfer_list[i]
  BY <1>1
<1>3. 1 .. n + 1 = (1 .. n) \cup {n + 1} /\ \A i \in 1 .. n : i < n + 1 /\ ~(n + 1 < i)
  BY <1>1
<1> HIDE DEF n
<1>4. CASE t[1] # c /\ sent'[c] = sent[c]
  <2>1. \A i \in 1 .. n + 1 : transfer_list'[i][1] = c =>
          i \in 1 .. n /\ transfer_list'[i] = transfer_list[i]
    BY <1>2, <1>3, <1>4
  <2>2. \A j \in k + 1 .. sent[c] : \E i \in 1 .. n + 1 : transfer_list'[i] = <<c, j>>
    BY <1>2, <1>3, <1>4 DEF Waiting, n
  <2>3. ASSUME NEW i \in 1 .. n + 1, transfer_list'[i][1] = c
        PROVE  transfer_list'[i][2] \in k + 1 .. sent'[c]
    BY <1>4, <2>1, <2>3 DEF Waiting, n
  <2>4. ASSUME NEW i \in 1 .. n + 1, NEW j \in 1 .. n + 1, i < j,
               transfer_list'[i][1] = c, transfer_list'[j][1] = c
        PROVE  transfer_list'[i][2] < transfer_list'[j][2]
    BY <2>1, <2>4 DEF Waiting, n
  <2> QED
    BY <1>2, <1>4, <2>2, <2>3, <2>4 DEF Waiting
<1>5. CASE t = <<c, sent[c] + 1>> /\ sent'[c] = sent[c] + 1
  <2>1. t[1] = c /\ t[2] = sent[c] + 1
    BY <1>5
  <2>2. ASSUME NEW i \in 1 .. n + 1, transfer_list'[i][1] = c
        PROVE  transfer_list'[i][2] \in k + 1 .. sent'[c]
    BY <1>1, <1>2, <1>3, <1>5, <2>1, <2>2 DEF Waiting, n
  <2>3. ASSUME NEW j \in k + 1 .. sent'[c]
        PROVE  \E i \in 1 .. n + 1 : transfer_list'[i] = <<c, j>>
    <3>1. j \in k + 1 .. sent[c] \/ j = sent[c] + 1
      <4>1. j \in k + 1 .. sent[c] + 1 /\ k + 1 \in Nat
        BY <1>5
      <4> QED
        BY <1>1, <4>1, LastOrBefore
    <3> QED
      BY <1>2, <1>3, <1>5, <3>1 DEF Waiting, n
  <2>4. ASSUME NEW i \in 1 .. n + 1, NEW j \in 1 .. n + 1, i < j,
               transfer_list'[i][1] = c, transfer_list'[j][1] = c
        PROVE  transfer_list'[i][2] < transfer_list'[j][2]
    <3>1. i \in 1 .. n
      BY <1>1, <1>3, <2>4
    <3>2. CASE j \in 1 .. n
      BY <1>2, <2>4, <3>1, <3>2 DEF Waiting, n
    <3>3. CASE j = n + 1
      <4>1. transfer_list[i][2] \in k + 1 .. sent[c]
        BY <1>2, <2>4, <3>1 DEF Waiting, n
      <4> QED
        BY <1>1, <1>2, <2>1, <3>1, <3>3, <4>1
    <3> QED
      BY <1>3, <3>2, <3>3
  <2> QED
    BY <1>2, <2>2, <2>3, <2>4 DEF Waiting
<1> QED
  BY <1>4, <1>5

LEMMA ChunkCall ==
  ASSUME Inv, XferInv, NEW c \in Calls, CallInv(c), AioChunk(c)
  PROVE  CallInv(c)'
<1>1. PICK k \in Nat : k <= sent[c] /\ Waiting(c, k) /\ Finished(c, k)
  BY DEF CallInv
<1>2. /\ setup' = setup /\ moved' = moved /\ completions' = completions
      /\ sent'[c] = sent[c] + 1 /\ sent[c] \in Nat /\ Issued(c) \in Nat
  BY SegmentsType DEF AioChunk, XferInv, hwVars
<1>3. <<c, sent[c] + 1>> \in Xfers /\ transfer_list' = Append(transfer_list, <<c, sent[c] + 1>>)
  BY ChunkQueued, Queued
<1>4. Waiting(c, k)'
  BY <1>1, <1>2, <1>3, WaitingAppend
<1>5. /\ RequestInv(c)'
      /\ \/ Issued(c)' = Issued(c)
         \/ Issued(c)' = Issued(c) + 1 /\ End(c, Issued(c) + 1) = sent[c] + 1
  BY ChunkSent DEF CallInv
<1>6. Finished(c, k)'
  <2>1. CASE Issued(c)' = Issued(c)
    BY <1>1, <1>2, <2>1, SameSizes DEF Finished
  <2>2. CASE Issued(c)' = Issued(c) + 1 /\ End(c, Issued(c) + 1) = sent[c] + 1
    <3>1. \A n \in Len(completions[c]) + 1 .. Issued(c) + 1 : End(c, n) > k
      BY <1>1, <1>2, <2>2 DEF Finished
    <3> QED
      <4>1. /\ Len(completions[c]) \in 0 .. Issued(c)
            /\ completions[c] = Upto(c, Len(completions[c])) /\ End(c, Len(completions[c])) <= k
            /\ \A i \in 1 .. k : <<c, i>> \in moved
        BY <1>1 DEF Finished
      <4>2. Len(completions[c]) \in 0 .. Issued(c) + 1
        BY <1>2, <4>1
      <4> QED
        BY <1>2, <2>2, <3>1, <4>1, <4>2, SameSizes DEF Finished
  <2> QED
    BY <1>5, <2>1, <2>2
<1>7. k <= sent'[c]
  BY <1>1, <1>2
<1> QED
  BY <1>4, <1>5, <1>6, <1>7 DEF CallInv

\* A transfer of a measurement, or of another request.
LEMMA OtherQueued ==
  ASSUME Inv, XferInv, NEW c \in Calls, CallInv(c), NEW t \in Xfers, t[1] # c, NEW size \in Nat,
         transfer_queue(t, size), sent'[c] = sent[c], seg'[c] = seg[c], done'[c] = done[c],
         UNCHANGED <<setup, completions, moved>>
  PROVE  CallInv(c)'
<1>1. /\ transfer_list' = Append(transfer_list, t)
      /\ size_of_request' = [size_of_request EXCEPT ![t] = size]
  BY Queued
<1>2. \A i \in 1 .. sent[c] : size_of_request'[<<c, i>>] = size_of_request[<<c, i>>]
  <2> SUFFICES ASSUME NEW i \in 1 .. sent[c]
               PROVE  size_of_request'[<<c, i>>] = size_of_request[<<c, i>>]
    OBVIOUS
  <2>1. <<c, i>> # t
    OBVIOUS
  <2>2. <<c, i>> \in Xfers
    <3>1. sent[c] \in 0 .. MaxChunks
      BY DEF XferInv
    <3> QED
      BY <3>1, CallsAssumption DEF Xfers
  <2> QED
    BY <1>1, <2>1, <2>2 DEF XferInv
<1>3. RequestInv(c)' /\ Issued(c)' = Issued(c)
  BY <1>2, RequestSame DEF CallInv
<1>4. PICK k \in Nat : k <= sent[c] /\ Waiting(c, k) /\ Finished(c, k)
  BY DEF CallInv
<1>5. Waiting(c, k)'
  BY <1>1, <1>4, WaitingAppend
<1>6. Finished(c, k)'
  BY <1>3, <1>4, SameSizes DEF Finished
<1> QED
  BY <1>3, <1>4, <1>5, <1>6 DEF CallInv

\* The service takes the head: the next transfer of its request.
LEMMA HeadIsNext ==
  ASSUME XferInv, NEW c \in Calls, NEW k \in Nat, Waiting(c, k), transfer_list # <<>>,
         transfer_list' = Tail(transfer_list), sent'[c] = sent[c]
  PROVE  /\ Head(transfer_list)[1] = c =>
              Head(transfer_list) = <<c, k + 1>> /\ k + 1 <= sent[c] /\ Waiting(c, k + 1)'
         /\ Head(transfer_list)[1] # c => Waiting(c, k)'
<1> DEFINE n == Len(transfer_list)
           h == Head(transfer_list)
<1>1. /\ transfer_list \in Seq(Xfers) /\ n \in Nat \ {0} /\ h = transfer_list[1] /\ sent[c] \in Nat
      /\ Len(transfer_list') = n - 1 /\ \A i \in 1 .. n - 1 : transfer_list'[i] = transfer_list[i + 1]
  BY SegmentsType DEF XferInv
<1>2. \A i \in 1 .. n : i = 1 \/ (i - 1 \in 1 .. n - 1 /\ i = (i - 1) + 1)
  BY <1>1
<1>3. \A i \in 1 .. n - 1 : i + 1 \in 1 .. n
  BY <1>1
<1>4. \A i \in 1 .. n : transfer_list[i] \in Xfers
  BY <1>1
<1> HIDE DEF n, h
<1>5. ASSUME h[1] = c
      PROVE  h = <<c, k + 1>> /\ k + 1 <= sent[c] /\ Waiting(c, k + 1)'
  <2>1. 1 \in 1 .. n /\ h[2] \in k + 1 .. sent[c]
    BY <1>1, <1>5 DEF Waiting, n
  <2>2. k + 1 \in k + 1 .. sent[c]
    BY <1>1, <2>1
  <2>3. PICK i \in 1 .. n : transfer_list[i] = <<c, k + 1>>
    BY <2>2 DEF Waiting, n
  <2>4. i = 1
    <3>1. ASSUME 1 < i PROVE FALSE
      <4>1. h[2] < transfer_list[i][2]
        BY <1>1, <1>5, <2>1, <2>3, <3>1 DEF Waiting, n
      <4> QED
        BY <1>1, <2>1, <2>3, <4>1
    <3> QED
      BY <1>1, <3>1
  <2>5. h = <<c, k + 1>>
    BY <1>1, <2>3, <2>4
  <2>6. ASSUME NEW j \in 1 .. n - 1, transfer_list'[j][1] = c
        PROVE  transfer_list'[j][2] \in (k + 1) + 1 .. sent[c]
    <3>1. /\ j + 1 \in 1 .. n /\ 1 < j + 1
          /\ transfer_list'[j] = transfer_list[j + 1]
      BY <1>1, <1>3
    <3>2. transfer_list[j + 1][2] \in k + 1 .. sent[c] /\ h[2] < transfer_list[j + 1][2]
      BY <1>1, <1>5, <2>1, <2>6, <3>1 DEF Waiting, n
    <3>3. h[2] = k + 1
      BY <2>5
    <3> QED
      BY <1>1, <3>1, <3>2, <3>3
  <2>7. ASSUME NEW j \in (k + 1) + 1 .. sent[c]
        PROVE  \E x \in 1 .. n - 1 : transfer_list'[x] = <<c, j>>
    <3>1. j \in k + 1 .. sent[c] /\ j # k + 1
      BY <1>1
    <3>2. PICK x \in 1 .. n : transfer_list[x] = <<c, j>>
      BY <3>1 DEF Waiting, n
    <3>3. <<c, j>> # <<c, k + 1>>
      BY <3>1
    <3>4. x # 1
      BY <1>1, <2>5, <3>2, <3>3
    <3> QED
      BY <1>1, <1>2, <3>2, <3>4
  <2>8. ASSUME NEW x \in 1 .. n - 1, NEW y \in 1 .. n - 1, x < y,
               transfer_list'[x][1] = c, transfer_list'[y][1] = c
        PROVE  transfer_list'[x][2] < transfer_list'[y][2]
    <3>1. x + 1 \in 1 .. n /\ y + 1 \in 1 .. n /\ x + 1 < y + 1
      BY <1>3, <2>8
    <3> QED
      BY <1>1, <2>8, <3>1 DEF Waiting, n
  <2>9. Waiting(c, k + 1)'
    BY <1>1, <2>6, <2>7, <2>8 DEF Waiting
  <2> QED
    BY <1>1, <2>1, <2>5, <2>9
<1>6. ASSUME h[1] # c
      PROVE  Waiting(c, k)'
  <2>1. ASSUME NEW j \in 1 .. n - 1, transfer_list'[j][1] = c
        PROVE  transfer_list'[j][2] \in k + 1 .. sent[c]
    BY <1>1, <1>3, <2>1 DEF Waiting, n
  <2>2. ASSUME NEW j \in k + 1 .. sent[c]
        PROVE  \E x \in 1 .. n - 1 : transfer_list'[x] = <<c, j>>
    <3>1. PICK x \in 1 .. n : transfer_list[x] = <<c, j>>
      BY DEF Waiting, n
    <3>2. x # 1
      BY <1>1, <1>6, <3>1
    <3> QED
      BY <1>1, <1>2, <3>1, <3>2
  <2>3. ASSUME NEW x \in 1 .. n - 1, NEW y \in 1 .. n - 1, x < y,
               transfer_list'[x][1] = c, transfer_list'[y][1] = c
        PROVE  transfer_list'[x][2] < transfer_list'[y][2]
    <3>1. x + 1 \in 1 .. n /\ y + 1 \in 1 .. n /\ x + 1 < y + 1
      BY <1>3, <2>3
    <3> QED
      BY <1>1, <2>3, <3>1 DEF Waiting, n
  <2> QED
    BY <1>1, <2>1, <2>2, <2>3 DEF Waiting
<1> QED
  BY <1>5, <1>6 DEF h

\* The next transfer of c is finished: it was executed, and completes the iocb when it
\* ends a segment.
LEMMA NextFinished ==
  ASSUME Inv, XferInv, setup.patient, StopInv, NEW c \in Calls, RequestInv(c), Issued(c)' = Issued(c),
         NEW k \in Nat, k + 1 <= sent[c], Finished(c, k),
         ServiceFinal, "error" \notin status, Head(transfer_list) = <<c, k + 1>>
  PROVE  Finished(c, k + 1)'
<1> DEFINE t == <<c, k + 1>>
           m == Len(completions[c])
           p == Issued(c)
<1>1. setup' = setup /\ moved' = moved
  BY DEF ServiceFinal, hwVars
<1>2. t \in moved
  <2>1. ~cyclic(t) /\ work = "final"
    BY CallsAssumption DEF cyclic, ServiceFinal
  <2> QED
    BY <2>1 DEF StopInv, InService, Ran
<1>3. \A i \in 1 .. k + 1 : <<c, i>> \in moved
  <2> SUFFICES ASSUME NEW i \in 1 .. k + 1 PROVE <<c, i>> \in moved
    OBVIOUS
  <2>1. i \in 1 .. k \/ i = k + 1
    BY LastOrBefore
  <2> QED
    BY <1>2, <2>1 DEF Finished
<1>4. p \in Nat /\ Positive(c, p) /\ sent[c] \in Nat /\ m \in 0 .. p
  BY SegmentsType DEF RequestInv, Finished
<1>5. \A n \in 0 .. p : End(c, n) \in Nat
  BY <1>4, UptoType
<1>6. \A n \in m + 1 .. p : n \in 0 .. p /\ End(c, n) > k
  BY <1>4 DEF Finished
<1>7. /\ completions[c] = Upto(c, m) /\ completions[c] \in Seq(Nat) /\ End(c, m) <= k
      /\ DOMAIN completions = Calls
  BY <1>4, UptoType DEF Finished, XferInv
<1>8. IF size_of_request[t] > 0
      THEN completions'[c] = Append(completions[c], size_of_request[t])
      ELSE completions'[c] = completions[c]
  <2>1. PICK verdict \in {"COMPLETED", "FAILED"} : engine_transfer_completion(t, verdict)
    BY Finishes
  <2>2. CASE size_of_request[t] > 0
    <3>1. completions' = [completions EXCEPT ![c] = Append(@, size_of_request[t])]
      BY <2>1, <2>2 DEF engine_transfer_completion
    <3> QED
      BY <1>7, <2>2, <3>1
  <2>3. CASE ~(size_of_request[t] > 0)
    BY <2>1, <2>3 DEF engine_transfer_completion
  <2> QED
    BY <2>2, <2>3
<1>9. k + 1 \in 1 .. sent[c]
  BY <1>4
<1> HIDE DEF m, p, t
<1>10. CASE size_of_request[t] = 0 /\ \A n \in 1 .. p : End(c, n) # k + 1
  <2>1. completions'[c] = completions[c]
    BY <1>8, <1>10
  <2>2. ASSUME NEW n \in m + 1 .. p
        PROVE  End(c, n) > k + 1
    <3>1. n \in 1 .. p /\ End(c, n) \in Nat /\ End(c, n) > k
      BY <1>4, <1>5, <1>6
    <3> QED
      BY <1>10, <3>1
  <2>3. End(c, m) <= k + 1
    BY <1>4, <1>5, <1>7
  <2> QED
    BY <1>1, <1>3, <1>4, <1>7, <2>1, <2>2, <2>3, SameSizes DEF Finished, m, p
<1>11. ASSUME NEW n \in 1 .. p, size_of_request[t] = Sizes(c)[n], End(c, n) = k + 1
       PROVE  Finished(c, k + 1)'
  <2>1. m < n
    <3>1. ASSUME n < m PROVE FALSE
      <4>1. End(c, n) < End(c, m)
        BY <1>4, <3>1, EndGrows
      <4> QED
        BY <1>4, <1>5, <1>7, <1>11, <4>1
    <3>2. n # m
      BY <1>7, <1>11
    <3> QED
      BY <1>4, <3>1, <3>2
  <2>2. n = m + 1
    <3>1. ASSUME m + 1 < n PROVE FALSE
      <4>1. m + 1 \in m + 1 .. p /\ m + 1 \in 0 .. p /\ n \in 0 .. p
        BY <1>4, <3>1
      <4>2. End(c, m + 1) < End(c, n) /\ End(c, m + 1) > k /\ End(c, m + 1) \in Nat
        BY <1>4, <1>5, <1>6, <3>1, <4>1, EndGrows
      <4> QED
        BY <1>11, <4>2
    <3> QED
      BY <1>4, <2>1, <3>1
  <2>3. m \in 0 .. p - 1 /\ m + 1 \in 0 .. p
    BY <1>4, <2>1, <2>2
  <2>4. Upto(c, m + 1) = Append(completions[c], size_of_request[t])
    BY <1>4, <1>7, <1>11, <2>2, <2>3, EndStep
  <2>5. completions'[c] = Upto(c, m + 1)
    <3>1. size_of_request[t] > 0
      BY <1>4, <1>11 DEF Positive
    <3> QED
      BY <1>8, <2>4, <3>1
  <2>6. Len(completions'[c]) = m + 1
    BY <1>4, <2>3, <2>5, UptoType
  <2>7. ASSUME NEW q \in (m + 1) + 1 .. p
        PROVE  End(c, q) > k + 1
    <3>1. q \in 0 .. p /\ m + 1 < q
      BY <1>4, <2>3
    <3>2. End(c, m + 1) < End(c, q)
      BY <1>4, <2>3, <3>1, EndGrows
    <3> QED
      BY <1>5, <1>11, <2>2, <2>3, <3>1, <3>2
  <2>8. End(c, m + 1) <= k + 1
    BY <1>11, <2>2
  <2> QED
    BY <1>1, <1>3, <2>3, <2>5, <2>6, <2>7, <2>8, SameSizes DEF Finished, p
<1> QED
  BY <1>9, <1>10, <1>11 DEF RequestInv, t, p

LEMMA FinalCall ==
  ASSUME Inv, XferInv, setup.patient, StopInv, NEW c \in Calls, CallInv(c), ServiceFinal
  PROVE  CallInv(c)'
<1>1. /\ UNCHANGED <<setup, moved, seg, done, sent, size_of_request>>
      /\ transfer_list # <<>> /\ Head(transfer_list) \in Xfers
  BY Finishes DEF ServiceFinal, aioVars, hwVars
<1>2. RequestInv(c)' /\ Issued(c)' = Issued(c)
  BY <1>1, RequestSame DEF CallInv
<1>3. CASE "error" \in status
  BY <1>1, <1>2, <1>3, Finishes, CallSame
<1>4. CASE "error" \notin status
  <2>1. PICK k \in Nat : k <= sent[c] /\ Waiting(c, k) /\ Finished(c, k)
    BY DEF CallInv
  <2>2. transfer_list' = Tail(transfer_list)
    BY <1>4, Finishes
  <2>3. CASE Head(transfer_list)[1] = c
    <3>1. Head(transfer_list) = <<c, k + 1>> /\ k + 1 <= sent[c] /\ Waiting(c, k + 1)'
      BY <1>1, <2>1, <2>2, <2>3, HeadIsNext
    <3>2. Finished(c, k + 1)'
      BY <1>2, <1>4, <2>1, <3>1, NextFinished DEF CallInv
    <3> QED
      BY <1>1, <1>2, <3>1, <3>2 DEF CallInv
  <2>4. CASE Head(transfer_list)[1] # c
    <3>1. Waiting(c, k)'
      BY <1>1, <2>1, <2>2, <2>4, HeadIsNext
    <3>2. completions'[c] = completions[c]
      BY <1>4, <2>4, Finishes DEF engine_transfer_completion, XferInv
    <3>3. Finished(c, k)'
      BY <1>1, <1>2, <2>1, <3>2, SameSizes DEF Finished
    <3> QED
      BY <1>1, <1>2, <2>1, <3>1, <3>3 DEF CallInv
  <2> QED
    BY <2>3, <2>4
<1> QED
  BY <1>3, <1>4

LEMMA CallInit ==
  ASSUME Init, XferInv, NEW c \in Calls
  PROVE  CallInv(c)
<1>1. seg[c] = 1 /\ done[c] = 0 /\ sent[c] = 0 /\ completions[c] = <<>> /\ transfer_list = <<>>
  BY DEF Init
<1>2. {q \in WithBytes(c) : q < 1} = {}
  BY DEF WithBytes
<1>3. Before(c, seg[c]) = 0
  BY <1>1, <1>2, FS_EmptySet DEF Before
<1>4. Issued(c) = 0
  BY <1>1, <1>3 DEF Issued, AllSent
<1>5. Len(Segments(c)) \in Nat /\ Cardinality(WithBytes(c)) \in Nat
  BY SegmentsType, BeforeType
<1>6. RequestInv(c)
  BY <1>1, <1>3, <1>4, <1>5, EndZero DEF RequestInv, Positive
<1>7. Waiting(c, 0) /\ Finished(c, 0)
  BY <1>1, <1>4, EndZero DEF Waiting, Finished
<1> QED
  BY <1>1, <1>6, <1>7 DEF CallInv

LEMMA CallNext ==
  ASSUME Inv, XferInv, setup.patient, StopInv, NEW c \in Calls, CallInv(c), [Next]_vars
  PROVE  CallInv(c)'
<1> USE DEF aioVars, xferVars, perfVars, engineVars, svcVars, hwVars
<1>1. ASSUME UNCHANGED <<setup, aioVars, completions, size_of_request, transfer_list>>, moved \subseteq moved'
      PROVE  CallInv(c)'
  <2>1. RequestInv(c)' /\ Issued(c)' = Issued(c)
    BY <1>1, RequestSame DEF CallInv
  <2> QED
    BY <1>1, <2>1, CallSame
<1>2. ASSUME NEW d \in Calls, AioStep(d) PROVE CallInv(c)'
  <2>1. CASE AioRefused(d) \/ AioReturn(d)
    <3>1. /\ UNCHANGED <<setup, seg, done, sent, completions, size_of_request, transfer_list, moved>>
      BY <2>1 DEF AioRefused, AioReturn
    <3>2. RequestInv(c)' /\ Issued(c)' = Issued(c)
      BY <3>1, RequestSame DEF CallInv
    <3> QED
      BY <3>1, <3>2, CallSame
  <2>2. CASE AioNextSegment(d)
    <3>1. UNCHANGED <<setup, sent, completions, size_of_request, transfer_list, moved>>
      BY <2>2 DEF AioNextSegment
    <3>2. d # c => seg'[c] = seg[c] /\ done'[c] = done[c]
      BY <2>2 DEF AioNextSegment, XferInv
    <3>3. RequestInv(c)' /\ Issued(c)' = Issued(c)
      BY <2>2, <3>1, <3>2, RequestSame, SegmentDone DEF CallInv
    <3> QED
      BY <3>1, <3>3, CallSame
  <2>3. CASE AioChunk(d)
    <3>1. CASE d = c
      BY <2>3, <3>1, ChunkCall
    <3>2. CASE d # c
      <4> DEFINE t    == <<d, sent[d] + 1>>
                 size == IF LastChunk(d) THEN done[d] + 1 ELSE 0
      <4>1. t \in Xfers /\ size \in Nat /\ transfer_queue(t, size) /\ t[1] # c
        BY <2>3, <3>2, ChunkQueued
      <4>2. /\ UNCHANGED <<setup, seg, completions, moved>>
            /\ sent'[c] = sent[c] /\ done'[c] = done[c]
        BY <2>3, <3>2 DEF AioChunk, XferInv
      <4> HIDE DEF t, size
      <4> QED
        BY <4>1, <4>2, OtherQueued
    <3> QED
      BY <3>1, <3>2
  <2> QED
    BY <1>2, <2>1, <2>2, <2>3 DEF AioStep
<1>3. CASE PerfSubmit
  <2>1. /\ Measurement(xdma_perf) \in Xfers /\ transfer_queue(Measurement(xdma_perf), 0)
        /\ Measurement(xdma_perf)[1] # c
    BY <1>3, MeasurementQueued, CallsAssumption DEF Measurement
  <2>2. UNCHANGED <<setup, seg, done, sent, completions, moved>>
    BY <1>3 DEF PerfSubmit
  <2> QED
    BY <2>1, <2>2, OtherQueued
<1>4. CASE PerfStart \/ PerfStop \/ StopEngine \/ StopFlag \/ StopFree
  BY <1>1, <1>4 DEF PerfStart, PerfStop, StopEngine, StopFlag, StopFree
<1>5. CASE HwDone \/ HwIdle \/ HwError \/ Isr
  BY <1>1, <1>5 DEF HwDone, HwIdle, HwError, Isr
<1>6. CASE WorkBegin \/ ServicePerf \/ ServiceStore
  BY <1>1, <1>6 DEF WorkBegin, ServicePerf, ServiceStore
<1>7. CASE ServiceFinal
  BY <1>7, FinalCall
<1>8. CASE UNCHANGED vars
  BY <1>1, <1>8 DEF vars
<1> QED
  BY <1>2, <1>3, <1>4, <1>5, <1>6, <1>7, <1>8 DEF Next, IoctlStep, Service

PatientInv == Inv /\ XferInv /\ (setup.patient => StopInv /\ \A c \in Calls : CallInv(c))

LEMMA PatientInit == Init => PatientInv
<1> SUFFICES ASSUME Init PROVE PatientInv
  OBVIOUS
<1>1. Inv /\ XferInv
  BY InvInit, XferInit
<1>2. StopInv
  BY DEF Init, StopInv, InService
<1> QED
  BY <1>1, <1>2, CallInit DEF PatientInv

LEMMA PatientNext == PatientInv /\ [Next]_vars => PatientInv'
<1> SUFFICES ASSUME PatientInv, [Next]_vars PROVE PatientInv'
  OBVIOUS
<1>1. Inv' /\ XferInv'
  BY InvNext, XferNext DEF PatientInv
<1>2. setup' = setup
  BY DEF Next, AioStep, IoctlStep, Service, vars, AioRefused, AioChunk, AioNextSegment, AioReturn, PerfStart,
     PerfStop, PerfSubmit, StopEngine, StopFlag, StopFree, HwDone, HwIdle, HwError, Isr, WorkBegin,
     ServicePerf, ServiceStore, ServiceFinal
<1>3. setup.patient => StopInv' /\ \A c \in Calls : CallInv(c)'
  BY StopNext, CallNext DEF PatientInv
<1> QED
  BY <1>1, <1>2, <1>3 DEF PatientInv

\* An iocb is completed with the sizes of its segments in their order, each once and
\* after its last byte was moved (engine_transfer_completion).
LEMMA CompletedInParts ==
  ASSUME PatientInv, setup.patient, NEW c \in Calls
  PROVE  /\ Cardinality(WithBytes(c)) \in Nat
         /\ Len(completions[c]) \in 0 .. Cardinality(WithBytes(c))
         /\ completions[c] = Upto(c, Len(completions[c]))
         /\ \A i \in 1 .. Bytes(completions[c]) : <<c, i>> \in moved
<1> DEFINE m == Len(completions[c])
           N == Cardinality(WithBytes(c))
<1>1. PICK k \in Nat : Finished(c, k)
  BY DEF PatientInv, CallInv
<1>2. XferInv /\ RequestInv(c)
  BY DEF PatientInv, CallInv
<1>3. Issued(c) \in Nat /\ N \in Nat /\ Issued(c) <= N /\ Positive(c, Issued(c))
  BY <1>2, SegmentsType, BeforeType DEF RequestInv
<1>4. m \in 0 .. Issued(c) /\ completions[c] = Upto(c, m) /\ m \in 0 .. N
  BY <1>1, <1>3 DEF Finished
<1>5. Bytes(completions[c]) \in Nat /\ Bytes(completions[c]) <= k
  BY <1>1, <1>3, <1>4, UptoType DEF Finished, End
<1>6. \A i \in 1 .. Bytes(completions[c]) : <<c, i>> \in moved
  BY <1>1, <1>5 DEF Finished
<1> QED
  BY <1>3, <1>4, <1>6

\* "last transfer for the given request?" (sg_aio_read_write): for any requests and
\* measurements, errors and failing ioctls, an iocb whose bytes are in one segment
\* is completed at most once, with the size of the request and after its last byte
\* was moved, as long as a measurement is stopped only while it runs.
THEOREM CompletedAfterMoved == Spec => []CompletedWhenMoved
<1>1. ASSUME PatientInv, setup.patient, NEW c \in Calls, InOnePart(c), completions[c] # <<>>
      PROVE  /\ completions[c] = Sizes(c)
             /\ \A i \in 1 .. Bytes(Sizes(c)) : <<c, i>> \in moved
  <2> DEFINE m == Len(completions[c])
             N == Cardinality(WithBytes(c))
  <2>1. /\ N \in Nat /\ m \in 0 .. N /\ completions[c] = Upto(c, m)
        /\ \A i \in 1 .. Bytes(completions[c]) : <<c, i>> \in moved
    BY <1>1, CompletedInParts
  <2>2. m # 0
    BY <1>1, <2>1, EndZero
  <2>3. m = N
    BY <1>1, <2>1, <2>2 DEF InOnePart
  <2>4. Upto(c, N) = Sizes(c)
    BY DEF Upto, Sizes
  <2> QED
    BY <2>1, <2>3, <2>4
<1>2. PatientInv => CompletedWhenMoved
  BY <1>1 DEF CompletedWhenMoved
<1> QED
  BY <1>2, PatientInit, PatientNext, PTL DEF Spec
===============================================================================
