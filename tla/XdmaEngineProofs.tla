--------------------------- MODULE XdmaEngineProofs ---------------------------
(***************************************************************************)
(* What holds of XdmaEngine for any number of threads, transfers and       *)
(* descriptors, with signals, hardware errors and the completion window.   *)
(***************************************************************************)
EXTENDS XdmaEngine, TLAPS

\* A transfer that has been created and built.
Made(t) == t \in Xfers /\ t[2] <= created[t[1]] /\ desc_num[t] >= 1

\* A thread that is past "create" has a transfer, and a chunk left to do.
ThreadInv ==
  \A th \in Threads :
    /\ pc[th] # "idle" => chunks[th] >= 1
    /\ pc[th] \notin {"idle", "create"} => Made(Cur(th))
    /\ lock = th => pc[th] = "service"

LockInv == svc = "idle" <=> lock = Nobody

ListInv == \A i \in 1 .. Len(transfer_list) : Made(transfer_list[i])

HwInv == hw_busy => Made(hw_xfer) /\ hw_count < desc_num[hw_xfer]

SvcInv ==
  /\ svc \in {"final", "dequeue"} => transfer_list # <<>>
  /\ svc \in {"list_wake", "wake"} => svc_xfer \in Xfers

\* The invariant behind the type invariant.
TypeInv == TypeOK /\ ThreadInv /\ LockInv /\ ListInv /\ HwInv /\ SvcInv

LEMMA TypeInit == Init => TypeInv
<1> SUFFICES ASSUME Init PROVE TypeInv
  OBVIOUS
<1>1. NoWb \in Writeback /\ 0 \in 0 .. MaxDesc /\ 0 \in 0 .. HwErrors /\ 0 \in 0 .. U32 - 1
  BY EngineAssumption DEF NoWb, Writeback
<1>2. XferType
  BY EngineAssumption DEF Init, XferType
<1>3. EngineType
  <2>1. << >> \in Seq(Xfers)
    OBVIOUS
  <2>2. [busy |-> FALSE, err |-> FALSE] \in Status
    BY DEF Status
  <2> QED
    BY <2>1, <2>2 DEF Init, EngineType
<1>4. SvcType
  BY <1>1, EngineAssumption DEF Init, SvcType, ServicePcs
<1>5. HwType
  BY <1>1, EngineAssumption DEF Init, HwType
<1>6. IrqType
  BY EngineAssumption DEF Init, IrqType
<1>7. ThreadType
  BY <1>1, EngineAssumption DEF Init, ThreadType, ThreadPcs, Status
<1>8. ThreadInv /\ LockInv /\ ListInv /\ HwInv /\ SvcInv
  BY EngineAssumption DEF Init, ThreadInv, LockInv, ListInv, HwInv, SvcInv
<1> QED
  BY <1>2, <1>3, <1>4, <1>5, <1>6, <1>7, <1>8 DEF TypeInv, TypeOK

\* A conjunct whose variables a step leaves alone is preserved.
LEMMA Frame ==
  ASSUME TypeInv
  PROVE  /\ UNCHANGED <<state, desc_num, moved>> => XferType'
         /\ UNCHANGED <<transfer_list, running, desc_dequeued, status>> => EngineType'
         /\ UNCHANGED <<lock, svc, svc_wb, svc_count, svc_xfer, svc_rc>> => SvcType'
         /\ UNCHANGED <<hw_busy, hw_xfer, hw_count, hw_event, hw_left, hw_wb, hw_late, hw_errors>> => HwType'
         /\ UNCHANGED <<irq_enabled, irq_saved, work_pending>> => IrqType'
         /\ UNCHANGED <<pc, created, chunks, rc, desc_wb, seen, result, done>> => ThreadType'
         /\ UNCHANGED <<pc, created, chunks, desc_num, lock>> => ThreadInv'
         /\ UNCHANGED <<svc, lock>> => LockInv'
         /\ UNCHANGED <<transfer_list, created, desc_num>> => ListInv'
         /\ UNCHANGED <<hw_busy, hw_xfer, hw_count, created, desc_num>> => HwInv'
         /\ UNCHANGED <<svc, transfer_list, svc_xfer>> => SvcInv'
<1> USE DEF TypeInv, TypeOK
<1>1. UNCHANGED <<state, desc_num, moved>> => XferType'
  BY DEF XferType
<1>2. UNCHANGED <<transfer_list, running, desc_dequeued, status>> => EngineType'
  BY DEF EngineType
<1>3. UNCHANGED <<lock, svc, svc_wb, svc_count, svc_xfer, svc_rc>> => SvcType'
  BY DEF SvcType
<1>4. UNCHANGED <<hw_busy, hw_xfer, hw_count, hw_event, hw_left, hw_wb, hw_late, hw_errors>> => HwType'
  BY DEF HwType
<1>5. UNCHANGED <<irq_enabled, irq_saved, work_pending>> => IrqType'
  BY DEF IrqType
<1>6. UNCHANGED <<pc, created, chunks, rc, desc_wb, seen, result, done>> => ThreadType'
  BY DEF ThreadType
<1>7. UNCHANGED <<pc, created, chunks, desc_num, lock>> => ThreadInv'
  BY DEF ThreadInv, Made, Cur
<1>8. UNCHANGED <<svc, lock>> => LockInv'
  BY DEF LockInv
<1>9. UNCHANGED <<transfer_list, created, desc_num>> => ListInv'
  BY DEF ListInv, Made
<1>10. UNCHANGED <<hw_busy, hw_xfer, hw_count, created, desc_num>> => HwInv'
  BY DEF HwInv, Made
<1>11. UNCHANGED <<svc, transfer_list, svc_xfer>> => SvcInv'
  BY DEF SvcInv
<1> QED
  BY <1>1, <1>2, <1>3, <1>4, <1>5, <1>6, <1>7, <1>8, <1>9, <1>10, <1>11

\* The values the actions store are of their type.
LEMMA Typed ==
  ASSUME TypeInv
  PROVE  /\ NoWb \in Writeback
         /\ StatusRegister \in Status
         /\ \A a, b \in Nat : Minus(a, b) \in 0 .. U32 - 1
         /\ \A th \in Threads : pc[th] \notin {"idle", "create"} => Cur(th) \in Xfers
         /\ transfer_list # << >> =>
              /\ Made(Head(transfer_list))
              /\ Tail(transfer_list) \in Seq(Xfers)
              /\ \A i \in 1 .. Len(Tail(transfer_list)) : Made(Tail(transfer_list)[i])
<1> USE DEF TypeInv, TypeOK
<1>1. NoWb \in Writeback
  BY EngineAssumption DEF NoWb, Writeback
<1>2. StatusRegister \in Status
  BY DEF StatusRegister, Status, HwType
<1>3. \A a, b \in Nat : Minus(a, b) \in 0 .. U32 - 1
  BY EngineAssumption DEF Minus
<1>4. \A th \in Threads : pc[th] \notin {"idle", "create"} => Cur(th) \in Xfers
  BY DEF ThreadInv, Made
<1>5. ASSUME transfer_list # << >>
      PROVE  /\ Made(Head(transfer_list))
             /\ Tail(transfer_list) \in Seq(Xfers)
             /\ \A i \in 1 .. Len(Tail(transfer_list)) : Made(Tail(transfer_list)[i])
  <2>1. /\ transfer_list \in Seq(Xfers) /\ Len(transfer_list) \in Nat /\ 1 \in 1 .. Len(transfer_list)
        /\ Head(transfer_list) = transfer_list[1]
        /\ Tail(transfer_list) \in Seq(Xfers)
        /\ Len(Tail(transfer_list)) = Len(transfer_list) - 1
        /\ \A i \in 1 .. Len(Tail(transfer_list)) : Tail(transfer_list)[i] = transfer_list[i + 1]
    BY <1>5 DEF EngineType
  <2>2. \A i \in 1 .. Len(Tail(transfer_list)) : i + 1 \in 1 .. Len(transfer_list)
    BY <2>1
  <2> QED
    BY <2>1, <2>2 DEF ListInv
<1> QED
  BY <1>1, <1>2, <1>3, <1>4, <1>5

\* What xdma_engine_stop leaves the engine executing is a descriptor of a
\* transfer (xdma_engine_stop, xdma-core.c:718-748).
LEMMA StopLeaves ==
  ASSUME TypeInv, xdma_engine_stop
  PROVE  hw_left' \in [xfer : Xfers, count : 1 .. MaxDesc] \cup {NoLeft}
<1> USE EngineAssumption
<1>1. CASE hw_left' = hw_left
  BY <1>1 DEF TypeInv, TypeOK, HwType
<1>2. CASE hw_busy /\ hw_left' = [xfer |-> hw_xfer, count |-> hw_count + 1]
  <2>1. hw_xfer \in Xfers /\ hw_count < desc_num[hw_xfer]
    BY <1>2 DEF TypeInv, HwInv, Made
  <2>2. desc_num[hw_xfer] \in 0 .. MaxDesc /\ hw_count \in Nat
    BY <2>1 DEF TypeInv, TypeOK, XferType, HwType
  <2>3. hw_count + 1 \in 1 .. MaxDesc
    BY <2>1, <2>2
  <2> QED
    BY <1>2, <2>1, <2>3
<1> QED
  BY <1>1, <1>2 DEF xdma_engine_stop

LEMMA TypeNext == TypeInv /\ [Next]_vars => TypeInv'
<1> SUFFICES ASSUME TypeInv, [Next]_vars PROVE TypeInv'
  OBVIOUS
<1> USE EngineAssumption DEF TypeInv, TypeOK, xferVars, engineVars, svcVars, hwVars, irqVars, threadVars
<1>1. ASSUME NEW th \in Threads, StartRequest(th) PROVE TypeInv'
  <2>1. ThreadType'
    BY <1>1 DEF StartRequest, ThreadType, ThreadPcs
  <2>2. ThreadInv'
    BY <1>1 DEF StartRequest, ThreadType, ThreadInv, Made, Cur
  <2> QED
    BY <1>1, <2>1, <2>2, Frame DEF StartRequest
<1>2. ASSUME NEW th \in Threads, CreateFails(th) PROVE TypeInv'
  <2>1. ThreadType'
    BY <1>2 DEF CreateFails, ThreadType, ThreadPcs
  <2>2. ThreadInv'
    BY <1>2 DEF CreateFails, ThreadType, ThreadInv, Made, Cur
  <2> QED
    BY <1>2, <2>1, <2>2, Frame DEF CreateFails
<1>3. ASSUME NEW th \in Threads, NEW nd \in 1 .. MaxDesc, transfer_queue(th, nd) PROVE TypeInv'
  <2> DEFINE t == <<th, created[th] + 1>>
  <2>1. t \in Xfers /\ t[1] = th /\ t[2] = created[th] + 1
    BY <1>3 DEF transfer_queue, ThreadType, Xfers
  <2>2. XferType'
    <3>1. state' \in [Xfers -> {"unallocated", "SUBMITTED", "COMPLETED", "FAILED", "freed"}]
      BY <1>3, <2>1 DEF transfer_queue, XferType
    <3>2. desc_num' \in [Xfers -> 0 .. MaxDesc]
      BY <1>3, <2>1 DEF transfer_queue, XferType
    <3>3. moved' \in [Xfers -> 0 .. MaxDesc]
      BY <1>3 DEF transfer_queue, engine_start, XferType
    <3> QED
      BY <3>1, <3>2, <3>3 DEF XferType
  <2>3. \A x : Made(x) => Made(x)' /\ desc_num'[x] = desc_num[x]
    BY <1>3, <2>1, <2>2 DEF transfer_queue, Made, XferType, ThreadType, Xfers
  <2>4. created'[th] = created[th] + 1 /\ t[2] <= created'[t[1]] /\ desc_num'[t] >= 1
    BY <1>3, <2>1 DEF transfer_queue, XferType, ThreadType
  <2>5. /\ transfer_list' \in Seq(Xfers)
        /\ Len(transfer_list') = Len(transfer_list) + 1
        /\ Len(transfer_list) \in Nat
        /\ \A i \in 1 .. Len(transfer_list) : transfer_list'[i] = transfer_list[i]
        /\ transfer_list'[Len(transfer_list) + 1] = t
        /\ Head(transfer_list') = transfer_list'[1]
    BY <1>3, <2>1 DEF transfer_queue, list_add_tail, EngineType
  <2>13. Cur(th)' = t
    BY <2>4 DEF Cur
  <2> HIDE DEF t
  <2>6. ListInv'
    <3> SUFFICES ASSUME NEW i \in 1 .. Len(transfer_list)'
                 PROVE  Made(transfer_list[i])'
      BY DEF ListInv
    <3>1. CASE i \in 1 .. Len(transfer_list)
      BY <2>3, <2>5, <3>1 DEF ListInv, Made
    <3>2. CASE i = Len(transfer_list) + 1
      BY <2>1, <2>4, <2>5, <3>2 DEF Made
    <3> QED
      BY <2>5, <3>1, <3>2
  <2>7. Made(Head(transfer_list))'
    <3>1. 1 \in 1 .. Len(transfer_list')
      BY <2>5
    <3> QED
      BY <2>5, <2>6, <3>1 DEF ListInv, Made
  <2>8. EngineType'
    <3>1. CASE running
      BY <1>3, <2>5, <3>1 DEF transfer_queue, EngineType
    <3>2. CASE ~running
      BY <1>3, <2>5, <3>2 DEF transfer_queue, engine_start, EngineType
    <3> QED
      BY <3>1, <3>2
  <2>9. HwType' /\ HwInv'
    <3>1. CASE running
      <4>1. UNCHANGED <<hw_busy, hw_xfer, hw_count, hw_event, hw_left, hw_wb, hw_late, hw_errors>>
        BY <1>3, <3>1 DEF transfer_queue
      <4>2. HwInv'
        BY <2>3, <4>1 DEF HwInv, Made
      <4> QED
        BY <4>1, <4>2, Frame
    <3>2. CASE ~running
      <4>1. hw_xfer' = Head(transfer_list') /\ hw_count' = 0 /\ hw_busy' = TRUE
        BY <1>3, <3>2 DEF transfer_queue, engine_start, list_add_tail
      <4>2. Head(transfer_list') \in Xfers /\ desc_num'[Head(transfer_list')] >= 1
        BY <2>7 DEF Made
      <4>3. 0 \in 0 .. MaxDesc /\ desc_num'[Head(transfer_list')] \in Nat
        BY <4>2, <2>2 DEF XferType
      <4>4. HwInv'
        BY <2>7, <4>1, <4>2, <4>3 DEF HwInv, Made
      <4> QED
        BY <1>3, <4>1, <4>2, <4>3, <4>4 DEF transfer_queue, HwType
    <3> QED
      BY <3>1, <3>2
  <2>10. ThreadType'
    BY <1>3 DEF transfer_queue, ThreadType, ThreadPcs
  <2>11. ThreadInv'
    <3> SUFFICES ASSUME NEW u \in Threads
                 PROVE  (/\ pc[u] # "idle" => chunks[u] >= 1
                         /\ pc[u] \notin {"idle", "create"} => Made(Cur(u))
                         /\ lock = u => pc[u] = "service")'
      BY DEF ThreadInv
    <3>1. CASE u = th
      <4>1. chunks[th] >= 1 /\ lock = Nobody /\ lock' = lock /\ chunks' = chunks
        BY <1>3 DEF transfer_queue, ThreadInv
      <4>2. Made(Cur(th))'
        BY <2>1, <2>4, <2>13 DEF Made
      <4> QED
        BY <3>1, <4>1, <4>2
    <3>2. CASE u # th
      BY <1>3, <2>3, <3>2 DEF transfer_queue, ThreadInv, ThreadType, Cur
    <3> QED
      BY <3>1, <3>2
  <2>12. SvcInv'
    BY <1>3 DEF transfer_queue, SvcInv, LockInv
  <2> QED
    BY <1>3, <2>2, <2>6, <2>8, <2>9, <2>10, <2>11, <2>12, Frame DEF transfer_queue

<1>4. ASSUME NEW th \in Threads, EnterWait(th) PROVE TypeInv'
  <2>1. ThreadType'
    BY <1>4 DEF EnterWait, WaitOver, ThreadType, ThreadPcs
  <2>2. ThreadInv'
    BY <1>4 DEF EnterWait, WaitOver, ThreadType, ThreadInv, Made, Cur
  <2> QED
    BY <1>4, <2>1, <2>2, Frame DEF EnterWait, WaitOver
<1>5. ASSUME NEW th \in Threads, Interrupted(th) PROVE TypeInv'
  <2>1. ThreadType'
    BY <1>5 DEF Interrupted, ThreadType, ThreadPcs
  <2>2. ThreadInv'
    BY <1>5 DEF Interrupted, ThreadType, ThreadInv, Made, Cur
  <2> QED
    BY <1>5, <2>1, <2>2, Frame DEF Interrupted
<1>6. ASSUME NEW th \in Threads, PollHit(th) PROVE TypeInv'
  <2>1. ThreadType'
    BY <1>6 DEF PollHit, ThreadType, ThreadPcs, HwType
  <2>2. ThreadInv'
    BY <1>6 DEF PollHit, ThreadType, ThreadInv, Made, Cur
  <2> QED
    BY <1>6, <2>1, <2>2, Frame DEF PollHit
<1>7. ASSUME NEW th \in Threads, PollTimeout(th) PROVE TypeInv'
  <2>1. ThreadType'
    BY <1>7, Typed DEF PollTimeout, ThreadType, ThreadPcs, Writeback, HwType, XferType
  <2>2. ThreadInv'
    BY <1>7 DEF PollTimeout, ThreadType, ThreadInv, Made, Cur
  <2> QED
    BY <1>7, <2>1, <2>2, Frame DEF PollTimeout
<1>8. ASSUME NEW th \in Threads, PollBegin(th) PROVE TypeInv'
  <2>1. SvcType'
    BY <1>8 DEF PollBegin, SvcType, ServicePcs, ThreadType
  <2>2. ThreadInv'
    BY <1>8 DEF PollBegin, ThreadType, ThreadInv, Made, Cur
  <2>3. LockInv'
    BY <1>8 DEF PollBegin, LockInv
  <2>4. SvcInv'
    BY <1>8 DEF PollBegin, SvcInv
  <2> QED
    BY <1>8, <2>1, <2>2, <2>3, <2>4, Frame DEF PollBegin
<1>9. ASSUME NEW th \in Threads, PollEnd(th) PROVE TypeInv'
  <2>1. SvcType'
    BY <1>9 DEF PollEnd, SvcType, ServicePcs
  <2>2. ThreadType'
    BY <1>9 DEF PollEnd, ThreadType, ThreadPcs, SvcType
  <2>3. ThreadInv'
    BY <1>9 DEF PollEnd, ThreadType, ThreadInv, Made, Cur
  <2>4. LockInv'
    BY <1>9 DEF PollEnd, LockInv
  <2>5. SvcInv'
    BY <1>9 DEF PollEnd, SvcInv
  <2> QED
    BY <1>9, <2>1, <2>2, <2>3, <2>4, <2>5, Frame DEF PollEnd
<1>10. ASSUME NEW th \in Threads, TakeResult(th) PROVE TypeInv'
  <2>1. XferType'
    BY <1>10 DEF TakeResult, ChunkDone, RequestFails, Succeeded, XferType
  <2>2. ThreadType'
    <3>1. Cur(th) \in Xfers
      BY <1>10, Typed DEF TakeResult
    <3>2. chunks[th] - 1 \in 0 .. MaxXfers
      BY <1>10 DEF TakeResult, ThreadType, ThreadInv
    <3>3. CASE Succeeded(Cur(th))
      BY <1>10, <3>1, <3>2, <3>3 DEF TakeResult, ChunkDone, ThreadType, ThreadPcs
    <3>4. CASE ~Succeeded(Cur(th))
      BY <1>10, <3>4 DEF TakeResult, RequestFails, ThreadType, ThreadPcs
    <3> QED
      BY <3>3, <3>4
  <2>3. ThreadInv'
    BY <1>10 DEF TakeResult, ChunkDone, RequestFails, Succeeded, ThreadType, ThreadInv, Made, Cur
  <2> QED
    BY <1>10, <2>1, <2>2, <2>3, Frame DEF TakeResult, ChunkDone, RequestFails, Succeeded
<1>11. ASSUME NEW th \in Threads, LeaveInFlight(th) PROVE TypeInv'
  <2>1. ThreadType'
    <3>1. Cur(th) \in Xfers
      BY <1>11, Typed DEF LeaveInFlight
    <3>2. chunks[th] - 1 \in 0 .. MaxXfers
      BY <1>11 DEF LeaveInFlight, ThreadType, ThreadInv
    <3> QED
      BY <1>11, <3>1, <3>2 DEF LeaveInFlight, ChunkDone, ThreadType, ThreadPcs
  <2>2. ThreadInv'
    BY <1>11 DEF LeaveInFlight, ChunkDone, ThreadType, ThreadInv, Made, Cur
  <2> QED
    BY <1>11, <2>1, <2>2, Frame DEF LeaveInFlight, ChunkDone
<1>12. ASSUME NEW th \in Threads, ReadStatus(th) PROVE TypeInv'
  <2>1. ThreadType'
    BY <1>12, Typed DEF ReadStatus, ThreadType, ThreadPcs
  <2>2. ThreadInv'
    BY <1>12 DEF ReadStatus, ThreadType, ThreadInv, Made, Cur
  <2> QED
    BY <1>12, <2>1, <2>2, Frame DEF ReadStatus
<1>13. ASSUME NEW th \in Threads, StoreStatus(th) PROVE TypeInv'
  <2>1. EngineType'
    BY <1>13 DEF StoreStatus, RequestFails, EngineType, ThreadType
  <2>2. ThreadType'
    BY <1>13 DEF StoreStatus, RequestFails, ThreadType, ThreadPcs
  <2>3. ThreadInv'
    BY <1>13 DEF StoreStatus, RequestFails, ThreadType, ThreadInv, Made, Cur
  <2> QED
    BY <1>13, <2>1, <2>2, <2>3, Frame DEF StoreStatus, RequestFails
<1>14. ASSUME HwDesc PROVE TypeInv'
  <2>1. XferType'
    BY <1>14 DEF HwDesc, XferType, HwInv, Made, HwType
  <2>2. HwType'
    <3>1. hw_count + 1 \in 0 .. MaxDesc
      BY <1>14 DEF HwDesc, HwInv, Made, HwType, XferType
    <3>2. [count |-> hw_count + 1, err |-> FALSE] \in Writeback
      BY <3>1 DEF Writeback
    <3>3. hw_wb' \in Writeback
      BY <1>14, <3>2 DEF HwDesc, HwType
    <3>4. hw_busy' \in BOOLEAN /\ hw_event' \in SUBSET {"stopped", "error"}
      BY <1>14 DEF HwDesc, HwType
    <3> QED
      BY <1>14, <3>1, <3>3, <3>4 DEF HwDesc, HwType
  <2>3. HwInv'
    BY <1>14 DEF HwDesc, HwInv, Made
  <2> QED
    BY <1>14, <2>1, <2>2, <2>3, Frame DEF HwDesc
<1>28. ASSUME HwFinish PROVE TypeInv'
  <2>1. hw_left.xfer \in Xfers /\ hw_left.count \in 1 .. MaxDesc
    BY <1>28 DEF HwFinish, HwType
  <2>2. XferType'
    BY <1>28, <2>1 DEF HwFinish, XferType
  <2>3. HwType'
    <3>1. hw_count' \in 0 .. MaxDesc
      BY <1>28, <2>1 DEF HwFinish, HwType
    <3>2. [count |-> hw_left.count, err |-> FALSE] \in Writeback
      BY <2>1 DEF Writeback
    <3>3. hw_wb' \in Writeback
      BY <1>28, <3>2 DEF HwFinish, HwType
    <3>4. hw_event' \in SUBSET {"stopped", "error"} /\ hw_late' \in BOOLEAN
      BY <1>28 DEF HwFinish, HwType
    <3> QED
      BY <1>28, <3>1, <3>3, <3>4 DEF HwFinish, HwType
  <2>4. HwInv'
    BY <1>28 DEF HwFinish, HwInv, Made
  <2> QED
    BY <1>28, <2>2, <2>3, <2>4, Frame DEF HwFinish
<1>15. ASSUME HwError PROVE TypeInv'
  <2>1. HwType'
    <3> DEFINE n == IF hw_left = NoLeft THEN hw_count ELSE hw_left.count - 1
    <3>1. [count |-> n, err |-> TRUE] \in Writeback
      BY DEF Writeback, HwType
    <3>2. hw_wb' \in Writeback
      BY <1>15, <3>1 DEF HwError, HwType
    <3>3. hw_errors' \in 0 .. HwErrors
      BY <1>15 DEF HwError, HwType
    <3>4. hw_event' \in SUBSET {"stopped", "error"}
      BY <1>15 DEF HwError, HwType
    <3> QED
      BY <1>15, <3>2, <3>3, <3>4 DEF HwError, HwType
  <2>2. HwInv'
    BY <1>15 DEF HwError, HwInv, Made
  <2> QED
    BY <1>15, <2>1, <2>2, Frame DEF HwError
<1>16. ASSUME Isr PROVE TypeInv'
  <2>1. IrqType'
    BY <1>16 DEF Isr, SavedMask, IrqType
  <2> QED
    BY <1>16, <2>1, Frame DEF Isr, SavedMask
<1>17. ASSUME WorkBegin PROVE TypeInv'
  <2>1. SvcType'
    BY <1>17, Typed DEF WorkBegin, SvcType, ServicePcs
  <2>2. IrqType'
    BY <1>17 DEF WorkBegin, IrqType
  <2>3. ThreadInv'
    BY <1>17 DEF WorkBegin, ThreadType, ThreadInv, Made, Cur
  <2>4. LockInv'
    BY <1>17 DEF WorkBegin, LockInv
  <2>5. SvcInv'
    BY <1>17 DEF WorkBegin, SvcInv
  <2> QED
    BY <1>17, <2>1, <2>2, <2>3, <2>4, <2>5, Frame DEF WorkBegin
<1>18. ASSUME ServiceStatus PROVE TypeInv'
  <2>1. EngineType'
    BY <1>18, Typed DEF ServiceStatus, EngineType
  <2>2. SvcType'
    BY <1>18 DEF ServiceStatus, SvcType, ServicePcs
  <2>3. HwType'
    BY <1>18 DEF ServiceStatus, HwType
  <2>4. LockInv'
    BY <1>18 DEF ServiceStatus, LockInv
  <2>5. SvcInv'
    BY <1>18 DEF ServiceStatus, SvcInv
  <2> QED
    BY <1>18, <2>1, <2>2, <2>3, <2>4, <2>5, Frame DEF ServiceStatus
<1>19. ASSUME ServiceShutdown PROVE TypeInv'
  <2>0. xdma_engine_stop => hw_left' \in [xfer : Xfers, count : 1 .. MaxDesc] \cup {NoLeft}
    BY StopLeaves
  <2>1. EngineType'
    BY <1>19 DEF ServiceShutdown, NoLongerBusy, EngineType
  <2>2. SvcType'
    <3>1. (IF svc_wb.count = 0 THEN hw_count ELSE svc_wb.count) \in Nat
      BY DEF SvcType, HwType, Writeback
    <3>2. svc_count' \in 0 .. U32 - 1
      BY <1>19, <3>1, Typed DEF ServiceShutdown, EngineType
    <3> QED
      BY <1>19, <3>2 DEF ServiceShutdown, SvcType, ServicePcs
  <2>3. HwType'
    <3>1. hw_left' \in [xfer : Xfers, count : 1 .. MaxDesc] \cup {NoLeft}
      BY <1>19, <2>0 DEF ServiceShutdown, HwType
    <3>2. hw_busy' \in BOOLEAN
      BY <1>19 DEF ServiceShutdown, xdma_engine_stop, HwType
    <3> QED
      BY <1>19, <3>1, <3>2 DEF ServiceShutdown, HwType
  <2>4. LockInv'
    BY <1>19 DEF ServiceShutdown, NoLongerBusy, LockInv
  <2>5. HwInv'
    BY <1>19 DEF ServiceShutdown, xdma_engine_stop, HwInv, Made
  <2>6. SvcInv'
    BY <1>19 DEF ServiceShutdown, NoLongerBusy, SvcInv
  <2> QED
    BY <1>19, <2>1, <2>2, <2>3, <2>4, <2>5, <2>6, Frame DEF ServiceShutdown, NoLongerBusy
<1>20. ASSUME ServiceList PROVE TypeInv'
  <2>1. XferType'
    BY <1>20 DEF ServiceList, SetState, XferType
  <2>2. EngineType'
    <3>1. CASE transfer_list = << >> \/ ~(svc_count > desc_num[Head(transfer_list)])
      BY <1>20, <3>1 DEF ServiceList, EngineType
    <3>2. CASE transfer_list # << >> /\ svc_count > desc_num[Head(transfer_list)]
      <4>1. desc_num[Head(transfer_list)] \in Nat
        BY <3>2, Typed DEF Made, XferType
      <4>2. desc_dequeued' \in Nat
        BY <1>20, <3>2, <4>1 DEF ServiceList, EngineType
      <4>3. transfer_list' \in Seq(Xfers)
        BY <1>20, <3>2, Typed DEF ServiceList
      <4> QED
        BY <1>20, <4>2, <4>3 DEF ServiceList, EngineType
    <3> QED
      BY <3>1, <3>2
  <2>3. SvcType'
    <3>1. CASE transfer_list = << >> \/ ~(svc_count > desc_num[Head(transfer_list)])
      BY <1>20, <3>1 DEF ServiceList, SvcType, ServicePcs
    <3>2. CASE transfer_list # << >> /\ svc_count > desc_num[Head(transfer_list)]
      <4>1. Head(transfer_list) \in Xfers
        BY <3>2, Typed DEF Made
      <4>2. desc_num[Head(transfer_list)] \in Nat
        BY <4>1 DEF XferType
      <4>3. svc_count - desc_num[Head(transfer_list)] \in 0 .. U32 - 1
        BY <3>2, <4>2 DEF SvcType
      <4> QED
        BY <1>20, <3>2, <4>1, <4>3 DEF ServiceList, SvcType, ServicePcs
    <3> QED
      BY <3>1, <3>2
  <2>4. LockInv'
    BY <1>20 DEF ServiceList, SetState, LockInv
  <2>5. ListInv'
    BY <1>20, Typed DEF ServiceList, SetState, ListInv, Made
  <2>6. SvcInv'
    BY <1>20, Typed DEF ServiceList, SetState, SvcInv, Made
  <2> QED
    BY <1>20, <2>1, <2>2, <2>3, <2>4, <2>5, <2>6, Frame DEF ServiceList, SetState
<1>21. ASSUME ServiceFinal PROVE TypeInv'
  <2>0. xdma_engine_stop => hw_left' \in [xfer : Xfers, count : 1 .. MaxDesc] \cup {NoLeft}
    BY StopLeaves
  <2>1. XferType'
    BY <1>21 DEF ServiceFinal, SetState, HalfWay, XferType
  <2>2. SvcType'
    BY <1>21 DEF ServiceFinal, SetState, HalfWay, SvcType, ServicePcs
  <2>3. HwType'
    <3>1. hw_left' \in [xfer : Xfers, count : 1 .. MaxDesc] \cup {NoLeft}
      BY <1>21, <2>0 DEF ServiceFinal, HwType
    <3>2. hw_busy' \in BOOLEAN
      BY <1>21 DEF ServiceFinal, xdma_engine_stop, HwType
    <3> QED
      BY <1>21, <3>1, <3>2 DEF ServiceFinal, HwType
  <2>4. LockInv'
    BY <1>21 DEF ServiceFinal, SetState, HalfWay, LockInv
  <2>5. HwInv'
    BY <1>21 DEF ServiceFinal, xdma_engine_stop, HwInv, Made
  <2>6. SvcInv'
    BY <1>21 DEF ServiceFinal, SetState, HalfWay, SvcInv
  <2> QED
    BY <1>21, <2>1, <2>2, <2>3, <2>4, <2>5, <2>6, Frame DEF ServiceFinal, SetState, HalfWay
<1>22. ASSUME ServiceDequeue PROVE TypeInv'
  <2>1. EngineType'
    <3>1. transfer_list # << >>
      BY <1>22 DEF ServiceDequeue, SvcInv
    <3>2. desc_num[Head(transfer_list)] \in Nat
      BY <3>1, Typed DEF Made, XferType
    <3>3. desc_dequeued' \in Nat
      BY <1>22, <3>2 DEF ServiceDequeue, EngineType
    <3>4. transfer_list' \in Seq(Xfers)
      BY <1>22, <3>1, Typed DEF ServiceDequeue, list_del
    <3> QED
      BY <1>22, <3>3, <3>4 DEF ServiceDequeue, EngineType
  <2>2. SvcType'
    <3>1. transfer_list # << >>
      BY <1>22 DEF ServiceDequeue, SvcInv
    <3>2. Head(transfer_list) \in Xfers
      BY <3>1, Typed DEF Made
    <3> QED
      BY <1>22, <3>2 DEF ServiceDequeue, SvcType, ServicePcs
  <2>3. LockInv'
    BY <1>22 DEF ServiceDequeue, list_del, LockInv
  <2>4. ListInv'
    BY <1>22 DEF ServiceDequeue, list_del, ListInv, Made
  <2>5. SvcInv'
    BY <1>22, Typed DEF ServiceDequeue, list_del, SvcInv, Made
  <2> QED
    BY <1>22, <2>1, <2>2, <2>3, <2>4, <2>5, Frame DEF ServiceDequeue, list_del
<1>23. ASSUME ServiceWake PROVE TypeInv'
  <2>1. SvcType'
    BY <1>23 DEF ServiceWake, wake_up, SvcType, ServicePcs
  <2>2. ThreadType'
    BY <1>23 DEF ServiceWake, wake_up, ThreadType, ThreadPcs
  <2>3. ThreadInv'
    BY <1>23 DEF ServiceWake, wake_up, ThreadType, ThreadInv, Made, Cur
  <2>4. LockInv'
    BY <1>23 DEF ServiceWake, wake_up, LockInv
  <2>5. SvcInv'
    BY <1>23 DEF ServiceWake, wake_up, SvcInv
  <2> QED
    BY <1>23, <2>1, <2>2, <2>3, <2>4, <2>5, Frame DEF ServiceWake, wake_up
<1>24. ASSUME ServiceResume PROVE TypeInv'
  <2>1. XferType'
    BY <1>24 DEF ServiceResume, engine_service_resume, engine_start, ClearWriteback, XferType
  <2>2. EngineType'
    <3>1. CASE ~running /\ transfer_list # << >>
      BY <1>24, <3>1 DEF ServiceResume, engine_service_resume, engine_start, EngineType
    <3>2. CASE ~(~running /\ transfer_list # << >>)
      BY <1>24, <3>2 DEF ServiceResume, engine_service_resume, EngineType
    <3> QED
      BY <3>1, <3>2
  <2>3. SvcType'
    BY <1>24 DEF ServiceResume, engine_service_resume, engine_start, ClearWriteback, SvcType, ServicePcs
  <2>4. HwType'
    <3>1. hw_wb' \in Writeback
      BY <1>24, Typed DEF ServiceResume, ClearWriteback, HwType
    <3>2. CASE ~running /\ transfer_list # << >>
      <4>1. Head(transfer_list) \in Xfers /\ 0 \in 0 .. MaxDesc
        BY <3>2, Typed DEF Made
      <4> QED
        BY <1>24, <3>1, <3>2, <4>1 DEF ServiceResume, engine_service_resume, engine_start, HwType
    <3>3. CASE ~(~running /\ transfer_list # << >>)
      BY <1>24, <3>1, <3>3 DEF ServiceResume, engine_service_resume, HwType
    <3> QED
      BY <3>2, <3>3
  <2>5. LockInv'
    BY <1>24 DEF ServiceResume, engine_service_resume, engine_start, ClearWriteback, LockInv
  <2>6. HwInv'
    <3>1. CASE ~running /\ transfer_list # << >>
      <4>1. Made(Head(transfer_list)) /\ hw_xfer' = Head(transfer_list) /\ hw_count' = 0
        BY <1>24, <3>1, Typed DEF ServiceResume, engine_service_resume, engine_start
      <4>2. desc_num' = desc_num /\ created' = created
        BY <1>24 DEF ServiceResume
      <4>3. desc_num[Head(transfer_list)] \in Nat
        BY <4>1 DEF Made, XferType
      <4> QED
        BY <4>1, <4>2, <4>3 DEF HwInv, Made
    <3>2. CASE ~(~running /\ transfer_list # << >>)
      BY <1>24, <3>2 DEF ServiceResume, engine_service_resume, HwInv, Made
    <3> QED
      BY <3>1, <3>2
  <2>7. SvcInv'
    BY <1>24 DEF ServiceResume, engine_service_resume, engine_start, ClearWriteback, SvcInv
  <2> QED
    BY <1>24, <2>1, <2>2, <2>3, <2>4, <2>5, <2>6, <2>7, Frame DEF ServiceResume, engine_service_resume, engine_start, ClearWriteback
<1>25. ASSUME WorkEnd PROVE TypeInv'
  <2>1. SvcType'
    BY <1>25 DEF WorkEnd, SvcType, ServicePcs
  <2>2. IrqType'
    BY <1>25 DEF WorkEnd, IrqType
  <2>3. ThreadInv'
    BY <1>25 DEF WorkEnd, ThreadType, ThreadInv, Made, Cur
  <2>4. LockInv'
    BY <1>25 DEF WorkEnd, LockInv
  <2>5. SvcInv'
    BY <1>25 DEF WorkEnd, SvcInv
  <2> QED
    BY <1>25, <2>1, <2>2, <2>3, <2>4, <2>5, Frame DEF WorkEnd
<1>26. ASSUME Oops PROVE TypeInv'
  <2>1. SvcType'
    BY <1>26 DEF Oops, SvcType, ServicePcs
  <2>2. LockInv'
    BY <1>26 DEF Oops, LockInv, UsesFreed, Touched
  <2>3. SvcInv'
    BY <1>26 DEF Oops, SvcInv
  <2> QED
    BY <1>26, <2>1, <2>2, <2>3, Frame DEF Oops
<1>27. CASE UNCHANGED vars
  BY <1>27, Frame DEF vars
<1> QED
  BY <1>1, <1>2, <1>3, <1>4, <1>5, <1>6, <1>7, <1>8, <1>9, <1>10, <1>11, <1>12, <1>13, <1>14, <1>15, <1>16, <1>17, <1>18, <1>19, <1>20, <1>21, <1>22, <1>23, <1>24, <1>25, <1>26, <1>27, <1>28 DEF Next, ThreadStep, engine_service

\* Every variable of the engine, its hardware and its threads keeps its type:
\* among them the descriptor counts stay within their bounds and desc_count
\* within a u32, with any number of threads, in interrupt and in poll mode.
THEOREM TypeCorrect == Spec => []TypeOK
<1>1. TypeInv => TypeOK
  BY DEF TypeInv
<1> QED
  BY TypeInit, TypeNext, <1>1, PTL DEF Spec
-------------------------------------------------------------------------------
\* While the interrupt is masked, its work item is scheduled or running, and
\* with MSI-X the mask that engine_service_work will write back was saved.
IrqInv ==
  /\ InterruptsComeBack
  /\ Msix /\ ~irq_enabled => irq_saved

LEMMA IrqNext == IrqInv /\ [Next]_vars => IrqInv'
<1> SUFFICES ASSUME IrqInv, [Next]_vars PROVE IrqInv'
  OBVIOUS
<1> USE EngineAssumption DEF IrqInv, InterruptsComeBack, xferVars, engineVars, svcVars, hwVars, irqVars, threadVars
<1>1. CASE Isr
  BY <1>1 DEF Isr, SavedMask
<1>2. CASE WorkBegin
  BY <1>2 DEF WorkBegin
<1>3. CASE WorkEnd
  BY <1>3 DEF WorkEnd
<1>4. ASSUME NEW th \in Threads, PollBegin(th) PROVE IrqInv'
  BY <1>4 DEF PollBegin
<1>5. ASSUME NEW th \in Threads, PollEnd(th) PROVE IrqInv'
  BY <1>5 DEF PollEnd
<1>6. ASSUME UNCHANGED <<irq_enabled, irq_saved, work_pending, lock>> PROVE IrqInv'
  BY <1>6
<1>7. CASE engine_service
  BY <1>7, <1>6 DEF engine_service, ServiceStatus, ServiceShutdown, ServiceList, ServiceFinal,
                    ServiceDequeue, ServiceWake, ServiceResume
<1>8. CASE HwDesc \/ HwFinish \/ HwError \/ Oops
  BY <1>8, <1>6 DEF HwDesc, HwFinish, HwError, Oops
<1>9. ASSUME NEW th \in Threads,
             \/ StartRequest(th) \/ CreateFails(th) \/ Interrupted(th) \/ PollTimeout(th)
             \/ \E nd \in 1 .. MaxDesc : transfer_queue(th, nd)
             \/ EnterWait(th) \/ PollHit(th)
             \/ TakeResult(th) \/ LeaveInFlight(th) \/ ReadStatus(th) \/ StoreStatus(th)
      PROVE  IrqInv'
  BY <1>9, <1>6 DEF StartRequest, CreateFails, Interrupted, PollTimeout, transfer_queue, EnterWait,
                    PollHit, TakeResult, LeaveInFlight, ReadStatus, StoreStatus
<1>10. CASE UNCHANGED vars
  BY <1>10, <1>6 DEF vars
<1> QED
  BY <1>1, <1>2, <1>3, <1>4, <1>5, <1>7, <1>8, <1>9, <1>10 DEF Next, ThreadStep

\* In interrupt mode an engine's interrupt is never lost: whenever the handler
\* has masked it, engine_service_work is scheduled or running and will write the
\* mask back, with one MSI vector (engine->irq_bitmask) and with MSI-X (the
\* saved interrupt_enable_mask_value), whatever the threads and signals do.
THEOREM InterruptsAlwaysComeBack ==
  ASSUME ~PollMode
  PROVE  Spec => []InterruptsComeBack
<1>1. Init => IrqInv
  BY EngineAssumption DEF Init, IrqInv, InterruptsComeBack
<1>2. IrqInv => InterruptsComeBack
  BY DEF IrqInv
<1> QED
  BY <1>1, <1>2, IrqNext, PTL DEF Spec
-------------------------------------------------------------------------------
(***************************************************************************)
(* Interrupt mode: for any number of threads, transfers and descriptors,   *)
(* with MSI or MSI-X, signals, hardware errors and threads that look at a  *)
(* transfer while it is being completed.                                   *)
(*                                                                         *)
(* A transfer must not be reported unless it ran to its end.  That is not  *)
(* inductive: the service trusts its count, so the count must belong to    *)
(* the first transfer in the queue (RunInv), so nothing may have been      *)
(* dequeued in this run and the hardware must be still while it is being   *)
(* served (PhaseInv), and what was reported must not run again (QueueInv). *)
(***************************************************************************)

\* In interrupt mode no thread polls, and the hardware, its interrupt, the work
\* item and the service take turns: no run is ever stopped before its end.
PhaseInv ==
  /\ hw_left = NoLeft
  /\ svc_wb = NoWb
  /\ lock \in {Worker, Nobody}
  /\ \A th \in Threads : pc[th] \notin {"poll", "service"}
  /\ svc \notin {"list_wake", "bug"}
  /\ hw_busy => hw_event = {} /\ ~work_pending /\ svc \in {"idle", "leave"}
  /\ hw_event # {} => svc \in {"idle", "status", "leave"}
  /\ svc = "status" => hw_event # {}
  /\ work_pending => hw_event # {} /\ svc = "idle" /\ ~irq_enabled
  /\ irq_enabled => svc = "idle"

\* The run of the engine that is going on, or is being served, is that of the
\* first transfer in the queue, and nothing of it has been dequeued.
Fresh ==
  /\ transfer_list # << >>
  /\ Head(transfer_list) = hw_xfer
  /\ desc_dequeued = 0
  /\ moved[hw_xfer] = hw_count
  /\ hw_count <= desc_num[hw_xfer]

RunInv ==
  /\ hw_busy \/ hw_event # {} \/ svc = "shutdown" => running /\ Fresh
  /\ svc \in {"list", "final"} => Fresh /\ svc_count = hw_count

\* Nothing that will run again was reported: neither completed nor done.
Rerunnable(t) == state[t] # "COMPLETED" /\ \A th \in Threads : t \notin done[th]

QueueInv ==
  /\ \A i, j \in 1 .. Len(transfer_list) : transfer_list[i] = transfer_list[j] => i = j
  /\ \A i \in 1 .. Len(transfer_list) :
       Rerunnable(transfer_list[i]) \/ (i = 1 /\ svc \in {"dequeue", "oops"})

\* What was reported was executed to its end.
Reported(t) == t[2] <= created[t[1]] /\ moved[t] = desc_num[t]

DoneInv ==
  /\ \A t \in Xfers : state[t] = "COMPLETED" => Reported(t)
  /\ \A th \in Threads : \A t \in done[th] : state[t] = "freed" /\ Reported(t)
  /\ \A th \in Threads : pc[th] = "check" /\ ~rc[th] => state[Cur(th)] # "SUBMITTED"

Safe == TypeInv /\ IrqInv /\ PhaseInv /\ RunInv /\ QueueInv /\ DoneInv

LEMMA SafeInit == ASSUME ~PollMode PROVE Init => Safe
<1> SUFFICES ASSUME Init PROVE Safe
  OBVIOUS
<1>1. TypeInv
  BY TypeInit
<1>2. IrqInv /\ PhaseInv /\ RunInv
  BY EngineAssumption DEF Init, IrqInv, InterruptsComeBack, PhaseInv, RunInv
<1>3. QueueInv /\ DoneInv
  BY EngineAssumption DEF Init, QueueInv, DoneInv
<1> QED
  BY <1>1, <1>2, <1>3 DEF Safe

\* The first transfer in the queue was not reported, unless its completion is
\* going on.
LEMMA HeadRerunnable ==
  ASSUME TypeInv, QueueInv, transfer_list # << >>, svc \notin {"dequeue", "oops"}
  PROVE  Rerunnable(Head(transfer_list))
<1>1. 1 \in 1 .. Len(transfer_list) /\ Head(transfer_list) = transfer_list[1]
  BY DEF TypeInv, TypeOK, EngineType
<1> QED
  BY <1>1 DEF QueueInv

\* engine_service_transfer_list leaves everything to the final transfer.
LEMMA NothingToSkip ==
  ASSUME TypeInv, RunInv, ServiceList
  PROVE  svc' = "final" /\ UNCHANGED <<state, transfer_list, desc_dequeued, svc_count, svc_xfer>>
<1>1. Fresh /\ svc_count = hw_count
  BY DEF ServiceList, RunInv
<1>2. hw_count \in Nat /\ desc_num[hw_xfer] \in Nat
  <2>1. Made(Head(transfer_list))
    BY <1>1, Typed DEF Fresh
  <2> QED
    BY <1>1, <2>1 DEF TypeInv, TypeOK, HwType, XferType, Made, Fresh
<1> QED
  BY <1>1, <1>2 DEF ServiceList, Fresh

LEMMA PhaseNext ==
  ASSUME ~PollMode, Safe, [Next]_vars
  PROVE  PhaseInv'
<1> USE EngineAssumption DEF Safe, PhaseInv, NoWb, xferVars, engineVars, svcVars, hwVars, irqVars, threadVars
<1>1. ASSUME NEW th \in Threads, NEW nd \in 1 .. MaxDesc, transfer_queue(th, nd) PROVE PhaseInv'
  <2>1. svc = "idle"
    BY <1>1 DEF transfer_queue, TypeInv, LockInv
  <2>2. \A u \in Threads : pc'[u] \notin {"poll", "service"}
    BY <1>1 DEF transfer_queue, TypeInv, TypeOK, ThreadType
  <2>3. hw_busy' => hw_event = {}
    BY <1>1 DEF transfer_queue, engine_start, RunInv
  <2> QED
    BY <1>1, <2>1, <2>2, <2>3 DEF transfer_queue
<1>2. ASSUME NEW th \in Threads,
             \/ StartRequest(th) \/ CreateFails(th) \/ EnterWait(th) \/ Interrupted(th)
             \/ TakeResult(th) \/ LeaveInFlight(th) \/ ReadStatus(th) \/ StoreStatus(th)
      PROVE  PhaseInv'
  <2>1. UNCHANGED <<svc_wb, lock, svc, hw_busy, hw_event, hw_left, work_pending, irq_enabled>>
    BY <1>2 DEF StartRequest, CreateFails, EnterWait, Interrupted, TakeResult, LeaveInFlight,
                ReadStatus, StoreStatus
  <2>2. \A u \in Threads : pc'[u] \notin {"poll", "service"}
    BY <1>2 DEF StartRequest, CreateFails, EnterWait, Interrupted, TakeResult, LeaveInFlight,
                ReadStatus, StoreStatus, ChunkDone, RequestFails, TypeInv, TypeOK, ThreadType
  <2> QED
    BY <2>1, <2>2
<1>3. ASSUME NEW th \in Threads,
             PollHit(th) \/ PollTimeout(th) \/ PollBegin(th) \/ PollEnd(th)
      PROVE  PhaseInv'
  BY <1>3 DEF PollHit, PollTimeout, PollBegin, PollEnd
<1>4. CASE HwDesc
  BY <1>4 DEF HwDesc
<1>5. CASE HwError
  BY <1>5 DEF HwError
<1>6. CASE Isr
  BY <1>6 DEF Isr
<1>7. CASE WorkBegin
  BY <1>7 DEF WorkBegin
<1>8. CASE ServiceStatus
  BY <1>8 DEF ServiceStatus
<1>9. CASE ServiceShutdown
  BY <1>9 DEF ServiceShutdown, xdma_engine_stop
<1>10. CASE ServiceList
  <2>1. svc' = "final"
    BY <1>10, NothingToSkip
  <2> QED
    BY <1>10, <2>1 DEF ServiceList
<1>11. CASE ServiceFinal
  BY <1>11 DEF ServiceFinal, xdma_engine_stop
<1>12. CASE ServiceDequeue
  BY <1>12 DEF ServiceDequeue
<1>13. CASE ServiceWake
  <2>1. \A u \in Threads : pc'[u] \notin {"poll", "service"}
    BY <1>13 DEF ServiceWake, wake_up, TypeInv, TypeOK, ThreadType
  <2> QED
    BY <1>13, <2>1 DEF ServiceWake
<1>14. CASE ServiceResume
  BY <1>14 DEF ServiceResume, engine_service_resume, engine_start
<1>15. CASE WorkEnd
  BY <1>15 DEF WorkEnd
<1>16. CASE Oops
  BY <1>16 DEF Oops, UsesFreed, Touched
<1>17. CASE UNCHANGED vars
  BY <1>17 DEF vars
<1>18. CASE HwFinish
  BY <1>18 DEF HwFinish
<1> QED
  BY <1>1, <1>2, <1>3, <1>4, <1>5, <1>6, <1>7, <1>8, <1>9, <1>10, <1>11, <1>12, <1>13,
     <1>14, <1>15, <1>16, <1>17, <1>18 DEF Next, ThreadStep, engine_service

\* The transfer a thread creates next.
NewXfer(th) == <<th, created[th] + 1>>

\* It is new to the queue and to what was done.
LEMMA Created ==
  ASSUME TypeInv, DoneInv, NEW th \in Threads, NEW nd \in 1 .. MaxDesc, transfer_queue(th, nd)
  PROVE  /\ NewXfer(th) \in Xfers /\ NewXfer(th)[2] = created'[NewXfer(th)[1]]
         /\ \A i \in 1 .. Len(transfer_list) : transfer_list[i] # NewXfer(th)
         /\ \A u \in Threads : NewXfer(th) \notin done[u]
         /\ \A u \in Threads : u # th => Cur(u)' = Cur(u) /\ Cur(u) # NewXfer(th)
         /\ desc_num' = [desc_num EXCEPT ![NewXfer(th)] = nd]
         /\ state' = [state EXCEPT ![NewXfer(th)] = "SUBMITTED"]
         /\ \A x : x # NewXfer(th) => desc_num'[x] = desc_num[x] /\ state'[x] = state[x]
         /\ \A x \in Xfers : created[x[1]] <= created'[x[1]]
         /\ transfer_list' = Append(transfer_list, NewXfer(th))
<1> USE DEF TypeInv, TypeOK
<1>1. created'[th] = created[th] + 1 /\ created[th] + 1 \in 1 .. MaxXfers
  BY EngineAssumption DEF transfer_queue, ThreadType
<1>8. NewXfer(th) \in Xfers /\ NewXfer(th)[1] = th /\ NewXfer(th)[2] = created[th] + 1
  BY <1>1 DEF NewXfer, Xfers
<1>2. \A i \in 1 .. Len(transfer_list) : transfer_list[i] # NewXfer(th)
  BY <1>1, <1>8 DEF ListInv, Made, ThreadType
<1>3. \A u \in Threads : NewXfer(th) \notin done[u]
  BY <1>1, <1>8 DEF DoneInv, Reported, ThreadType
<1>4. \A u \in Threads : u # th => Cur(u)' = Cur(u) /\ Cur(u) # NewXfer(th)
  BY DEF transfer_queue, Cur, NewXfer, ThreadType
<1>5. /\ desc_num' = [desc_num EXCEPT ![NewXfer(th)] = nd]
      /\ state' = [state EXCEPT ![NewXfer(th)] = "SUBMITTED"]
      /\ transfer_list' = Append(transfer_list, NewXfer(th))
  BY DEF transfer_queue, list_add_tail, NewXfer
<1>6. \A x : x # NewXfer(th) => desc_num'[x] = desc_num[x] /\ state'[x] = state[x]
  BY <1>5 DEF XferType
<1>7. \A x \in Xfers : created[x[1]] <= created'[x[1]]
  BY DEF transfer_queue, ThreadType, Xfers
<1> QED
  BY <1>1, <1>2, <1>3, <1>4, <1>5, <1>6, <1>7, <1>8

LEMMA RunNext ==
  ASSUME ~PollMode, Safe, [Next]_vars
  PROVE  RunInv'
<1> USE EngineAssumption DEF Safe, RunInv, xferVars, engineVars, svcVars, hwVars, irqVars, threadVars
<1>1. ASSUME NEW th \in Threads, NEW nd \in 1 .. MaxDesc, transfer_queue(th, nd) PROVE RunInv'
  <2> DEFINE t == NewXfer(th)
  <2>1. /\ \A i \in 1 .. Len(transfer_list) : transfer_list[i] # t
        /\ \A x : x # t => desc_num'[x] = desc_num[x]
        /\ transfer_list' = Append(transfer_list, t)
        /\ t \in Xfers
    BY <1>1, Created
  <2> HIDE DEF t
  <2>2. svc = "idle" /\ svc' = svc /\ hw_event' = hw_event
    BY <1>1 DEF transfer_queue, TypeInv, LockInv
  <2>3. CASE running
    <3>1. UNCHANGED <<running, desc_dequeued, hw_busy, hw_xfer, hw_count, moved>>
      BY <1>1, <2>3 DEF transfer_queue
    <3>2. ASSUME Fresh PROVE Fresh'
      <4>1. transfer_list \in Seq(Xfers)
        BY DEF TypeInv, TypeOK, EngineType
      <4>2. transfer_list' # << >> /\ Head(transfer_list') = Head(transfer_list)
        BY <2>1, <3>2, <4>1 DEF Fresh
      <4>3. Head(transfer_list) # t
        BY <2>1, <3>2, <4>1 DEF Fresh
      <4> QED
        BY <2>1, <3>1, <3>2, <4>2, <4>3 DEF Fresh
    <3> QED
      BY <2>2, <3>1, <3>2
  <2>4. CASE ~running
    <3>1. /\ running' = TRUE /\ desc_dequeued' = 0 /\ hw_count' = 0
          /\ hw_xfer' = Head(transfer_list') /\ moved' = [moved EXCEPT ![Head(transfer_list')] = 0]
      BY <1>1, <2>4 DEF transfer_queue, engine_start
    <3>2. transfer_list' # << >> /\ Made(Head(transfer_list))'
      <4>1. TypeInv'
        BY TypeNext
      <4>2. transfer_list' # << >>
        BY <2>1 DEF TypeInv, TypeOK, EngineType
      <4>3. 1 \in 1 .. Len(transfer_list') /\ Head(transfer_list') = transfer_list'[1]
        BY <4>1, <4>2 DEF TypeInv, TypeOK, EngineType
      <4> QED
        BY <4>1, <4>2, <4>3 DEF TypeInv, ListInv, Made
    <3>3. moved'[hw_xfer'] = 0 /\ desc_num'[hw_xfer'] >= 1
      BY <3>1, <3>2 DEF Made, TypeInv, TypeOK, XferType
    <3>4. desc_num'[hw_xfer'] \in Nat
      BY <3>1, <3>2, TypeNext DEF Made, TypeInv, TypeOK, XferType
    <3> QED
      BY <2>2, <3>1, <3>2, <3>3, <3>4 DEF Fresh
  <2> QED
    BY <2>3, <2>4
<1>2. ASSUME UNCHANGED <<hw_busy, hw_xfer, hw_count, hw_event, moved, desc_num, running,
                         transfer_list, desc_dequeued, svc, svc_count>>
      PROVE  RunInv'
  BY <1>2 DEF Fresh
<1>3. ASSUME NEW th \in Threads,
             \/ StartRequest(th) \/ CreateFails(th) \/ EnterWait(th) \/ Interrupted(th)
             \/ TakeResult(th) \/ LeaveInFlight(th) \/ ReadStatus(th) \/ StoreStatus(th)
             \/ PollHit(th) \/ PollTimeout(th)
      PROVE  RunInv'
  BY <1>2, <1>3 DEF StartRequest, CreateFails, EnterWait, Interrupted, TakeResult, LeaveInFlight,
                    ReadStatus, StoreStatus, PollHit, PollTimeout
<1>4. CASE Isr
  BY <1>2, <1>4 DEF Isr
<1>5. ASSUME NEW th \in Threads, PollBegin(th) \/ PollEnd(th) PROVE RunInv'
  BY <1>5 DEF PollBegin, PollEnd, PhaseInv
<1>6. CASE HwDesc
  <2>1. hw_xfer \in Xfers /\ hw_count \in Nat /\ desc_num[hw_xfer] \in Nat /\ hw_count < desc_num[hw_xfer]
    BY <1>6 DEF HwDesc, TypeInv, TypeOK, HwInv, Made, HwType, XferType
  <2>2. moved'[hw_xfer] = hw_count + 1
    BY <1>6, <2>1 DEF HwDesc, TypeInv, TypeOK, XferType
  <2>3. running /\ Fresh /\ svc \in {"idle", "leave"}
    BY <1>6 DEF HwDesc, PhaseInv
  <2>4. Fresh'
    BY <1>6, <2>1, <2>2, <2>3 DEF HwDesc, Fresh
  <2> QED
    BY <1>6, <2>3, <2>4 DEF HwDesc
<1>7. CASE HwError
  <2>1. running /\ Fresh /\ svc \in {"idle", "leave"}
    BY <1>7 DEF HwError, PhaseInv
  <2> QED
    BY <1>7, <2>1 DEF HwError, Fresh
<1>8. CASE WorkBegin
  BY <1>8 DEF WorkBegin, Fresh
<1>9. CASE ServiceStatus
  BY <1>9 DEF ServiceStatus, PhaseInv, Fresh
<1>10. CASE ServiceShutdown
  <2>1. Fresh /\ ~hw_busy /\ hw_event = {} /\ svc_wb.count = 0
    BY <1>10 DEF ServiceShutdown, PhaseInv, NoWb
  <2>2. Fresh'
    BY <1>10, <2>1 DEF ServiceShutdown, xdma_engine_stop, Fresh
  <2>3. hw_count \in 0 .. U32 - 1
    BY DEF TypeInv, TypeOK, HwType
  <2>4. svc_count' = hw_count % U32
    BY <1>10, <2>1, <2>3 DEF ServiceShutdown, Minus, Fresh
  <2>5. svc_count' = hw_count
    BY <2>3, <2>4
  <2> QED
    BY <1>10, <2>1, <2>2, <2>5 DEF ServiceShutdown, xdma_engine_stop
<1>11. CASE ServiceList
  <2>1. UNCHANGED <<state, transfer_list, desc_dequeued, svc_count, svc_xfer>> /\ svc' = "final"
    BY <1>11, NothingToSkip
  <2> QED
    BY <1>11, <2>1 DEF ServiceList, PhaseInv, Fresh
<1>12. CASE ServiceFinal \/ ServiceDequeue \/ ServiceWake \/ Oops
  <2>1. svc' \in {"dequeue", "resume", "wake", "oops"} /\ hw_event' = hw_event
    BY <1>12 DEF ServiceFinal, ServiceDequeue, ServiceWake, Oops, PhaseInv
  <2>2. svc \in {"list", "final", "dequeue", "wake"}
    BY <1>12 DEF ServiceFinal, ServiceDequeue, ServiceWake, Oops, UsesFreed, Touched, PhaseInv
  <2>3. ~hw_busy /\ hw_event = {}
    BY <2>2 DEF PhaseInv
  <2>4. ~hw_busy'
    BY <1>12, <2>3 DEF ServiceFinal, xdma_engine_stop, ServiceDequeue, ServiceWake, Oops
  <2> QED
    BY <2>1, <2>3, <2>4
<1>13. CASE ServiceResume
  <2>1. CASE ~running /\ transfer_list # << >>
    <3>1. /\ running' = TRUE /\ desc_dequeued' = 0 /\ hw_count' = 0 /\ svc' = "leave"
          /\ transfer_list' = transfer_list /\ desc_num' = desc_num
          /\ hw_xfer' = Head(transfer_list) /\ moved' = [moved EXCEPT ![Head(transfer_list)] = 0]
      BY <1>13, <2>1 DEF ServiceResume, engine_service_resume, engine_start
    <3>2. Made(Head(transfer_list))
      BY <2>1, Typed
    <3>3. moved'[Head(transfer_list)] = 0 /\ desc_num[Head(transfer_list)] \in Nat
      BY <3>1, <3>2 DEF Made, TypeInv, TypeOK, XferType
    <3> QED
      BY <2>1, <3>1, <3>2, <3>3 DEF Fresh
  <2>2. CASE ~(~running /\ transfer_list # << >>)
    BY <1>13, <2>2 DEF ServiceResume, engine_service_resume, PhaseInv
  <2> QED
    BY <2>1, <2>2
<1>14. CASE WorkEnd
  BY <1>14 DEF WorkEnd, Fresh
<1>15. CASE UNCHANGED vars
  BY <1>2, <1>15 DEF vars
<1>16. CASE HwFinish
  BY <1>16 DEF HwFinish, PhaseInv
<1> QED
  BY <1>1, <1>3, <1>4, <1>5, <1>6, <1>7, <1>8, <1>9, <1>10, <1>11, <1>12, <1>13,
     <1>14, <1>15, <1>16 DEF Next, ThreadStep, engine_service

LEMMA QueueNext ==
  ASSUME ~PollMode, Safe, [Next]_vars
  PROVE  QueueInv'
<1> USE EngineAssumption DEF Safe, xferVars, engineVars, svcVars, hwVars, irqVars, threadVars
<1>1. ASSUME NEW th \in Threads, NEW nd \in 1 .. MaxDesc, transfer_queue(th, nd) PROVE QueueInv'
  <2> DEFINE t == NewXfer(th)
  <2>1. /\ t \in Xfers
        /\ \A i \in 1 .. Len(transfer_list) : transfer_list[i] # t
        /\ \A u \in Threads : t \notin done[u]
        /\ state' = [state EXCEPT ![t] = "SUBMITTED"]
        /\ \A x : x # t => state'[x] = state[x]
        /\ transfer_list' = Append(transfer_list, t)
    BY <1>1, Created
  <2> HIDE DEF t
  <2>2. svc = "idle" /\ done' = done
    BY <1>1 DEF transfer_queue, TypeInv, LockInv
  <2>3. /\ Len(transfer_list) \in Nat /\ Len(transfer_list') = Len(transfer_list) + 1
        /\ \A i \in 1 .. Len(transfer_list) : transfer_list'[i] = transfer_list[i]
        /\ transfer_list'[Len(transfer_list) + 1] = t
    BY <2>1 DEF TypeInv, TypeOK, EngineType
  <2>4. \A i \in 1 .. Len(transfer_list') : i \in 1 .. Len(transfer_list) \/ i = Len(transfer_list) + 1
    BY <2>3
  <2>5. \A i, j \in 1 .. Len(transfer_list') : transfer_list'[i] = transfer_list'[j] => i = j
    BY <2>1, <2>3, <2>4 DEF QueueInv
  <2>6. \A x : x # t /\ Rerunnable(x) => Rerunnable(x)'
    BY <2>1, <2>2 DEF Rerunnable
  <2>7. state'[t] = "SUBMITTED"
    BY <2>1 DEF TypeInv, TypeOK, XferType
  <2>8. ASSUME NEW i \in 1 .. Len(transfer_list') PROVE Rerunnable(transfer_list[i])'
    <3>1. CASE i \in 1 .. Len(transfer_list)
      BY <2>1, <2>2, <2>3, <2>6, <3>1 DEF QueueInv, Rerunnable
    <3>2. CASE i = Len(transfer_list) + 1
      BY <2>1, <2>2, <2>3, <2>7, <3>2 DEF Rerunnable
    <3> QED
      BY <2>4, <3>1, <3>2
  <2> QED
    BY <2>5, <2>8 DEF QueueInv
<1>2. ASSUME UNCHANGED <<state, done, transfer_list>>,
             svc \in {"dequeue", "oops"} => svc' \in {"dequeue", "oops"}
      PROVE  QueueInv'
  BY <1>2 DEF QueueInv, Rerunnable
<1>3. ASSUME NEW th \in Threads,
             \/ StartRequest(th) \/ CreateFails(th) \/ EnterWait(th) \/ Interrupted(th)
             \/ ReadStatus(th) \/ StoreStatus(th) \/ PollHit(th) \/ PollTimeout(th)
      PROVE  QueueInv'
  BY <1>2, <1>3 DEF StartRequest, CreateFails, EnterWait, Interrupted, RequestFails,
                    ReadStatus, StoreStatus, PollHit, PollTimeout
<1>4. CASE HwDesc \/ HwFinish \/ HwError \/ Isr \/ WorkBegin \/ ServiceStatus \/ ServiceShutdown \/ ServiceWake
           \/ ServiceResume \/ WorkEnd \/ Oops
  BY <1>2, <1>4 DEF HwDesc, HwFinish, HwError, Isr, WorkBegin, ServiceStatus, ServiceShutdown, ServiceWake,
                    ServiceResume, WorkEnd, Oops, TypeInv, LockInv
<1>5. ASSUME NEW th \in Threads, PollBegin(th) \/ PollEnd(th) PROVE QueueInv'
  BY <1>5 DEF PollBegin, PollEnd, PhaseInv
<1>6. ASSUME NEW th \in Threads, TakeResult(th) PROVE QueueInv'
  <2>1. Cur(th) \in Xfers /\ state' = [state EXCEPT ![Cur(th)] = "freed"]
    BY <1>6, Typed DEF TakeResult
  <2>2. \A x : state'[x] # "COMPLETED" \/ state'[x] = state[x]
    BY <2>1 DEF TypeInv, TypeOK, XferType
  <2>3. /\ transfer_list' = transfer_list /\ svc' = svc
        /\ \A u \in Threads : \A x : x \in done'[u] =>
             x \in done[u] \/ (x = Cur(th) /\ state[Cur(th)] = "COMPLETED")
    BY <1>6 DEF TakeResult, ChunkDone, RequestFails, Succeeded, TypeInv, TypeOK, ThreadType
  <2>4. \A x : Rerunnable(x) => Rerunnable(x)'
    BY <2>2, <2>3 DEF Rerunnable
  <2> QED
    BY <2>3, <2>4 DEF QueueInv
<1>7. ASSUME NEW th \in Threads, LeaveInFlight(th) PROVE QueueInv'
  BY <1>7 DEF LeaveInFlight, DoneInv
<1>8. CASE ServiceList
  <2>1. UNCHANGED <<state, transfer_list>> /\ svc = "list"
    BY <1>8, NothingToSkip DEF ServiceList
  <2> QED
    BY <1>2, <1>8, <2>1 DEF ServiceList
<1>9. CASE ServiceFinal
  <2> DEFINE h == Head(transfer_list)
  <2>1. /\ transfer_list # << >> /\ svc = "final" /\ h \in Xfers
        /\ 1 \in 1 .. Len(transfer_list) /\ h = transfer_list[1]
    BY <1>9, Typed DEF ServiceFinal, TypeInv, SvcInv, TypeOK, EngineType, Made
  <2> HIDE DEF h
  <2>2. /\ transfer_list' = transfer_list /\ done' = done /\ svc' \in {"resume", "dequeue"}
        /\ \A x : x # h => state'[x] = state[x]
        /\ svc' = "resume" => state'[h] # "COMPLETED"
    <3>1. CASE status.err
      <4>1. /\ state' = [state EXCEPT ![h] = IF @ = "freed" THEN @ ELSE "FAILED"]
            /\ svc' = "resume" /\ UNCHANGED <<transfer_list, done>>
        BY <1>9, <3>1 DEF h, ServiceFinal, SetState
      <4> QED
        BY <2>1, <4>1 DEF TypeInv, TypeOK, XferType
    <3>2. CASE ~status.err
      <4>1. /\ SetState(h, IF HalfWay(h) THEN "FAILED" ELSE "COMPLETED")
            /\ svc' = "dequeue" /\ UNCHANGED <<transfer_list, done>>
        BY <1>9, <3>2 DEF h, ServiceFinal
      <4> QED
        BY <2>1, <4>1 DEF SetState, TypeInv, TypeOK, XferType
    <3> QED
      BY <3>1, <3>2
  <2>3. \A i \in 1 .. Len(transfer_list) : i # 1 => transfer_list[i] # h
    BY <2>1 DEF QueueInv
  <2>4. \A i \in 1 .. Len(transfer_list) : Rerunnable(transfer_list[i])
    BY <2>1 DEF QueueInv
  <2>5. ASSUME NEW i \in 1 .. Len(transfer_list) PROVE Rerunnable(transfer_list[i])' \/ (i = 1 /\ svc' = "dequeue")
    <3>1. CASE i # 1
      BY <2>2, <2>3, <2>4, <3>1 DEF Rerunnable
    <3>2. CASE i = 1
      BY <2>1, <2>2, <2>4, <3>2 DEF Rerunnable
    <3> QED
      BY <3>1, <3>2
  <2> QED
    BY <2>2, <2>5 DEF QueueInv
<1>10. CASE ServiceDequeue
  <2>1. /\ transfer_list' = Tail(transfer_list) /\ transfer_list # << >>
        /\ UNCHANGED <<state, done>>
    BY <1>10 DEF ServiceDequeue, list_del, TypeInv, SvcInv
  <2>2. /\ Len(transfer_list) \in Nat
        /\ Len(transfer_list') = Len(transfer_list) - 1
        /\ \A i \in 1 .. Len(transfer_list') : transfer_list'[i] = transfer_list[i + 1]
    BY <2>1 DEF TypeInv, TypeOK, EngineType
  <2>3. \A i \in 1 .. Len(transfer_list') : i + 1 \in 1 .. Len(transfer_list) /\ i + 1 # 1
    BY <2>2
  <2>4. \A i, j \in 1 .. Len(transfer_list') : transfer_list'[i] = transfer_list'[j] => i = j
    BY <2>2, <2>3 DEF QueueInv
  <2>5. \A i \in 1 .. Len(transfer_list') : Rerunnable(transfer_list'[i])
    BY <2>2, <2>3 DEF QueueInv
  <2>6. \A x : Rerunnable(x) => Rerunnable(x)'
    BY <2>1 DEF Rerunnable
  <2> QED
    BY <2>4, <2>5, <2>6 DEF QueueInv, Rerunnable
<1>11. CASE UNCHANGED vars
  BY <1>2, <1>11 DEF vars
<1> QED
  BY <1>1, <1>3, <1>4, <1>5, <1>6, <1>7, <1>8, <1>9, <1>10, <1>11
     DEF Next, ThreadStep, engine_service

LEMMA DoneNext ==
  ASSUME ~PollMode, Safe, [Next]_vars
  PROVE  DoneInv'
<1> USE EngineAssumption DEF Safe, xferVars, engineVars, svcVars, hwVars, irqVars, threadVars
<1>t. /\ \A x \in Xfers : x[2] \in Nat /\ x[1] \in Threads
      /\ \A u \in Threads : created[u] \in Nat /\ done[u] \subseteq Xfers
  BY DEF Xfers, TypeInv, TypeOK, ThreadType
<1>1. ASSUME NEW th \in Threads, NEW nd \in 1 .. MaxDesc, transfer_queue(th, nd) PROVE DoneInv'
  <2> DEFINE t == NewXfer(th)
  <2>1. /\ t \in Xfers
        /\ \A u \in Threads : t \notin done[u]
        /\ state' = [state EXCEPT ![t] = "SUBMITTED"]
        /\ \A x : x # t => desc_num'[x] = desc_num[x] /\ state'[x] = state[x]
        /\ \A x \in Xfers : created[x[1]] <= created'[x[1]]
        /\ \A u \in Threads : u # th => Cur(u)' = Cur(u) /\ Cur(u) # t
        /\ transfer_list' = Append(transfer_list, t)
    BY <1>1, Created
  <2> HIDE DEF t
  <2>2. svc = "idle" /\ done' = done /\ rc' = rc /\ pc' = [pc EXCEPT ![th] = "wait"]
        /\ created' \in [Threads -> Nat]
    BY <1>1, TypeNext DEF transfer_queue, TypeInv, LockInv, TypeOK, ThreadType
  <2>3. \A x \in Xfers : x # t /\ moved'[x] # moved[x] => Rerunnable(x)
    <3>1. CASE running
      BY <1>1, <3>1 DEF transfer_queue
    <3>2. CASE ~running
      <4>1. moved' = [moved EXCEPT ![Head(transfer_list')] = 0]
        BY <1>1, <3>2 DEF transfer_queue, engine_start
      <4>2. \A x \in Xfers : moved'[x] # moved[x] => x = Head(transfer_list')
        BY <4>1 DEF TypeInv, TypeOK, XferType
      <4>3. CASE transfer_list = << >>
        BY <2>1, <4>2, <4>3
      <4>4. CASE transfer_list # << >>
        <5>1. Rerunnable(Head(transfer_list))
          BY <2>2, <4>4, HeadRerunnable
        <5>2. Head(transfer_list') = Head(transfer_list)
          BY <2>1, <4>4 DEF TypeInv, TypeOK, EngineType
        <5> QED
          BY <4>2, <5>1, <5>2
      <4> QED
        BY <4>3, <4>4
    <3> QED
      BY <3>1, <3>2
  <2>4. state'[t] = "SUBMITTED"
    BY <2>1 DEF TypeInv, TypeOK, XferType
  <2>5. ASSUME NEW x \in Xfers, x # t, Reported(x), ~Rerunnable(x) PROVE Reported(x)'
    BY <1>t, <2>1, <2>2, <2>3, <2>5 DEF Reported
  <2>6. \A x \in Xfers : state'[x] = "COMPLETED" => Reported(x)'
    BY <2>1, <2>4, <2>5 DEF DoneInv, Rerunnable
  <2>7. \A u \in Threads : \A x \in done'[u] : state'[x] = "freed" /\ Reported(x)'
    BY <1>t, <2>1, <2>2, <2>5 DEF DoneInv, Rerunnable
  <2>8. \A u \in Threads : pc'[u] = "check" /\ ~rc'[u] => state'[Cur(u)'] # "SUBMITTED"
    BY <2>1, <2>2 DEF DoneInv, TypeInv, TypeOK, ThreadType
  <2> QED
    BY <2>6, <2>7, <2>8 DEF DoneInv, Cur
<1>2. ASSUME UNCHANGED <<state, done, desc_num, created>>,
             \A x \in Xfers : moved'[x] # moved[x] => Rerunnable(x),
             \A u \in Threads : pc'[u] = "check" /\ ~rc'[u] => pc[u] = "check" /\ ~rc[u]
      PROVE  DoneInv'
  <2>1. \A x \in Xfers : Reported(x) /\ ~Rerunnable(x) => Reported(x)'
    BY <1>2 DEF Reported
  <2>2. \A x \in Xfers : state'[x] = "COMPLETED" => Reported(x)'
    BY <1>2, <2>1 DEF DoneInv, Rerunnable
  <2>3. \A u \in Threads : \A x \in done'[u] : state'[x] = "freed" /\ Reported(x)'
    BY <1>t, <1>2, <2>1 DEF DoneInv, Rerunnable
  <2>4. \A u \in Threads : pc'[u] = "check" /\ ~rc'[u] => state'[Cur(u)'] # "SUBMITTED"
    BY <1>2 DEF DoneInv, Cur
  <2> QED
    BY <2>2, <2>3, <2>4 DEF DoneInv, Cur
<1>3. ASSUME NEW th \in Threads,
             StartRequest(th) \/ CreateFails(th) \/ Interrupted(th) \/ ReadStatus(th) \/ StoreStatus(th)
      PROVE  DoneInv'
  BY <1>2, <1>3 DEF StartRequest, CreateFails, Interrupted, ReadStatus, StoreStatus, RequestFails,
                    TypeInv, TypeOK, ThreadType
<1>4. ASSUME NEW th \in Threads, EnterWait(th) PROVE DoneInv'
  <2>1. UNCHANGED <<state, done, desc_num, created, moved>>
    BY <1>4 DEF EnterWait
  <2>2. \A u \in Threads : u # th => pc'[u] = pc[u] /\ rc'[u] = rc[u]
    BY <1>4 DEF EnterWait, TypeInv, TypeOK, ThreadType
  <2>3. pc'[th] = "check" => WaitOver(Cur(th))
    BY <1>4 DEF EnterWait, TypeInv, TypeOK, ThreadType
  <2> QED
    BY <2>1, <2>2, <2>3 DEF DoneInv, Cur, WaitOver, Reported
<1>5. ASSUME NEW th \in Threads, TakeResult(th) PROVE DoneInv'
  <2> DEFINE c == Cur(th)
  <2>1. c \in Xfers /\ c[1] = th /\ \A u \in Threads : u # th => Cur(u) # c
    BY <1>5, Typed DEF TakeResult, Cur
  <2>2. /\ state' = [state EXCEPT ![c] = "freed"]
        /\ UNCHANGED <<desc_num, moved, created, rc>>
        /\ pc'[th] # "check" /\ \A u \in Threads : u # th => pc'[u] = pc[u]
        /\ \A u \in Threads : \A x \in done'[u] : x \in done[u] \/ (x = c /\ state[c] = "COMPLETED")
    BY <1>5 DEF TakeResult, ChunkDone, RequestFails, Succeeded, TypeInv, TypeOK, ThreadType
  <2> HIDE DEF c
  <2>3. state'[c] = "freed" /\ \A x : x # c => state'[x] = state[x]
    BY <2>1, <2>2 DEF TypeInv, TypeOK, XferType
  <2>4. \A x : Reported(x) <=> Reported(x)'
    BY <2>2 DEF Reported
  <2>5. \A x \in Xfers : state'[x] = "COMPLETED" => Reported(x)'
    BY <2>3, <2>4 DEF DoneInv
  <2>6. \A u \in Threads : \A x \in done'[u] : state'[x] = "freed" /\ Reported(x)'
    BY <2>1, <2>2, <2>3, <2>4 DEF DoneInv
  <2>7. \A u \in Threads : pc'[u] = "check" /\ ~rc'[u] => state'[Cur(u)'] # "SUBMITTED"
    BY <2>1, <2>2, <2>3 DEF DoneInv, Cur
  <2> QED
    BY <2>5, <2>6, <2>7 DEF DoneInv, Cur
<1>6. ASSUME NEW th \in Threads,
             \/ LeaveInFlight(th) \/ PollHit(th) \/ PollTimeout(th) \/ PollBegin(th) \/ PollEnd(th)
      PROVE  DoneInv'
  BY <1>6 DEF LeaveInFlight, PollHit, PollTimeout, PollBegin, PollEnd, PhaseInv, DoneInv
<1>7. CASE HwDesc
  <2>1. Fresh /\ svc \in {"idle", "leave"}
    BY <1>7 DEF HwDesc, PhaseInv, RunInv
  <2>2. Rerunnable(hw_xfer)
    BY <2>1, HeadRerunnable DEF Fresh
  <2>3. \A x \in Xfers : moved'[x] # moved[x] => x = hw_xfer
    BY <1>7 DEF HwDesc, TypeInv, TypeOK, XferType
  <2> QED
    BY <1>2, <1>7, <2>2, <2>3 DEF HwDesc
<1>8. CASE HwError \/ Isr \/ WorkBegin \/ ServiceStatus \/ ServiceShutdown \/ ServiceDequeue
           \/ WorkEnd \/ Oops
  BY <1>2, <1>8 DEF HwError, Isr, WorkBegin, ServiceStatus, ServiceShutdown, ServiceDequeue,
                    WorkEnd, Oops
<1>9. CASE ServiceList
  <2>1. state' = state
    BY <1>9, NothingToSkip
  <2> QED
    BY <1>2, <1>9, <2>1 DEF ServiceList
<1>10. CASE ServiceFinal
  <2> DEFINE h == Head(transfer_list)
  <2>1. /\ transfer_list # << >> /\ Fresh /\ svc_count = hw_count /\ h = hw_xfer
        /\ h \in Xfers /\ h[2] <= created[h[1]]
    BY <1>10, Typed DEF ServiceFinal, RunInv, Fresh, Made
  <2>2. svc_count \in Nat /\ desc_num[h] \in Nat
    BY <2>1 DEF TypeInv, TypeOK, SvcType, XferType
  <2> HIDE DEF h
  <2>3. UNCHANGED <<done, desc_num, created, moved, pc, rc>>
    BY <1>10 DEF ServiceFinal
  <2>4. /\ \A x : x # h => state'[x] = state[x]
        /\ state'[h] = "COMPLETED" => ~HalfWay(h) \/ state[h] = "COMPLETED"
        /\ state[h] = "freed" => state'[h] = "freed"
        /\ state'[h] = "SUBMITTED" => state[h] = "SUBMITTED"
    <3>1. CASE status.err
      <4>1. state' = [state EXCEPT ![h] = IF @ = "freed" THEN @ ELSE "FAILED"]
        BY <1>10, <3>1 DEF h, ServiceFinal, SetState
      <4> QED
        BY <2>1, <4>1 DEF TypeInv, TypeOK, XferType
    <3>2. CASE ~status.err
      <4>1. SetState(h, IF HalfWay(h) THEN "FAILED" ELSE "COMPLETED")
        BY <1>10, <3>2 DEF h, ServiceFinal
      <4> QED
        BY <2>1, <4>1 DEF SetState, TypeInv, TypeOK, XferType
    <3> QED
      BY <3>1, <3>2
  <2>5. ~HalfWay(h) => Reported(h)
    BY <2>1, <2>2 DEF HalfWay, Fresh, Reported
  <2>6. \A x : Reported(x) <=> Reported(x)'
    BY <2>3 DEF Reported
  <2>7. \A x \in Xfers : state'[x] = "COMPLETED" => Reported(x)'
    BY <2>4, <2>5, <2>6 DEF DoneInv
  <2>8. \A u \in Threads : \A x \in done'[u] : state'[x] = "freed" /\ Reported(x)'
    BY <2>3, <2>4, <2>6 DEF DoneInv
  <2>9. \A u \in Threads : pc'[u] = "check" /\ ~rc'[u] => state'[Cur(u)'] # "SUBMITTED"
    <3>1. \A u \in Threads : Cur(u)' = Cur(u) /\ pc'[u] = pc[u] /\ rc'[u] = rc[u]
      BY <2>3 DEF Cur
    <3>2. \A x : state'[x] = "SUBMITTED" => state[x] = "SUBMITTED"
      BY <2>4
    <3> QED
      BY <3>1, <3>2 DEF DoneInv
  <2> QED
    BY <2>7, <2>8, <2>9 DEF DoneInv, Cur
<1>11. CASE ServiceWake
  <2>1. \A u \in Threads : pc'[u] = "check" => pc[u] = "check"
    BY <1>11 DEF ServiceWake, wake_up, TypeInv, TypeOK, ThreadType
  <2> QED
    BY <1>2, <1>11, <2>1 DEF ServiceWake
<1>12. CASE ServiceResume
  <2>1. UNCHANGED <<state, done, desc_num, created, pc, rc>>
    BY <1>12 DEF ServiceResume
  <2>2. ASSUME NEW x \in Xfers, moved'[x] # moved[x] PROVE Rerunnable(x)
    <3>1. transfer_list # << >> /\ moved' = [moved EXCEPT ![Head(transfer_list)] = 0]
      BY <1>12, <2>2 DEF ServiceResume, engine_service_resume, engine_start
    <3>2. x = Head(transfer_list)
      BY <2>2, <3>1 DEF TypeInv, TypeOK, XferType
    <3> QED
      BY <1>12, <3>1, <3>2, HeadRerunnable DEF ServiceResume
  <2> QED
    BY <1>2, <2>1, <2>2
<1>13. CASE UNCHANGED vars
  BY <1>2, <1>13 DEF vars
<1>14. CASE HwFinish
  BY <1>14 DEF HwFinish, PhaseInv
<1> QED
  BY <1>1, <1>3, <1>4, <1>5, <1>6, <1>7, <1>8, <1>9, <1>10, <1>11, <1>12, <1>13, <1>14
     DEF Next, ThreadStep, engine_service

LEMMA SafeAlways == ASSUME ~PollMode PROVE Spec => []Safe
<1>1. Init => Safe
  BY SafeInit
<1>2. ASSUME Safe, [Next]_vars PROVE Safe'
  BY <1>2, TypeNext, IrqNext, PhaseNext, RunNext, QueueNext, DoneNext DEF Safe
<1> QED
  BY <1>1, <1>2, PTL DEF Spec

\* With interrupts, a chunk that read() or write() reports as transferred was
\* executed to its last descriptor (engine_service_final_transfer compares the
\* count it read with desc_num), however the threads, the interrupt, the work
\* item, signals and hardware errors interleave.
THEOREM SuccessAlwaysMeansMoved ==
  ASSUME ~PollMode PROVE Spec => []SuccessMeansMoved
<1>1. Safe => SuccessMeansMoved
  BY DEF Safe, DoneInv, SuccessMeansMoved, Reported
<1> QED
  BY <1>1, SafeAlways, PTL

\* With interrupts, engine_service never finds its queue empty and never hits
\* BUG_ON(!transfer).
THEOREM NeverBug ==
  ASSUME ~PollMode PROVE Spec => []NoBug
<1>1. Safe => NoBug
  BY DEF Safe, PhaseInv, NoBug
<1> QED
  BY <1>1, SafeAlways, PTL
===============================================================================
