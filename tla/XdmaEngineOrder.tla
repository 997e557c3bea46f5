---------------------------- MODULE XdmaEngineOrder ----------------------------
(***************************************************************************)
(* What XdmaEngine does with its queue.  In every mode it leaves nothing   *)
(* on the queue of an idle engine, and only a run that was stopped half-   *)
(* way leaves a count behind in the write-back word.  In interrupt mode,   *)
(* as long as the hardware reports no error, it fails no transfer, runs    *)
(* none that was freed, is the FIFO server of XdmaFifo, and destroys none  *)
(* that is in use but for one window.                                      *)
(***************************************************************************)
EXTENDS XdmaEngineProofs, XdmaEngineFifo

\* The service is past the shutdown of the engine and has not restarted it.
Closing == svc \in {"list", "list_wake", "final", "dequeue", "wake", "resume", "bug", "oops"}

\* The write-back word is clear, but for the count of a run that went on to its
\* end after RUN had been cleared.
Clear == hw_wb = NoWb \/ hw_late

\* An engine that is not marked running begins nothing, and, unless the service
\* is about to restart it, has nothing to do and no count of an earlier run; it
\* has none either while it executes.
IdleInv ==
  /\ hw_busy => running
  /\ hw_busy \/ hw_left # NoLeft => Clear
  /\ ~running => Closing \/ (transfer_list = <<>> /\ Clear)
  /\ ~PollMode => hw_wb = NoWb

\* Interrupt mode without signals: an engine marked running is busy, or has
\* something to report, or is just being shut down, on the status that was read.
ServedInv ==
  /\ running => hw_busy \/ hw_event # {} \/ (svc = "shutdown" /\ ~status.busy)
  /\ \A th \in Threads : ~rc[th] /\ pc[th] # "store_status"

\* What is unallocated has not been created yet.
AllocInv == \A t \in Xfers : state[t] = "unallocated" <=> t[2] > created[t[1]]

\* The rest is said of a hardware that has reported no error.  No status tells
\* of one, and what is being served ran to its end.
StatusInv ==
  /\ "error" \notin hw_event /\ ~status.err
  /\ \A th \in Threads : ~seen[th].err
  /\ hw_event # {} \/ svc \in {"shutdown", "list", "final"} => hw_count = desc_num[hw_xfer]

\* What is queued is SUBMITTED, but for a first transfer being completed.
SubmittedInv ==
  /\ \A t \in Xfers : state[t] # "FAILED"
  /\ \A i \in 1 .. Len(transfer_list) :
       state[transfer_list[i]] = "SUBMITTED" \/ (i = 1 /\ svc \in {"dequeue", "oops"})
  /\ svc = "dequeue" => state[Head(transfer_list)] # "SUBMITTED"

\* Nothing was moved for a transfer that waits for its run.
MovedInv ==
  \A t \in Xfers : state[t] \in {"unallocated", "SUBMITTED"} /\ moved[t] # 0 =>
    t = hw_xfer /\ (hw_busy \/ hw_event # {} \/ svc \in {"shutdown", "list", "final"})

NoErrorInv == hw_errors = 0 => StatusInv /\ SubmittedInv /\ MovedInv
-------------------------------------------------------------------------------
LEMMA IdleNext ==
  ASSUME TypeInv, IdleInv, [Next]_vars
  PROVE  IdleInv'
<1> USE DEF IdleInv, Clear, Closing, xferVars, engineVars, svcVars, hwVars, irqVars, threadVars
<1>1. ASSUME NEW th \in Threads, NEW nd \in 1 .. MaxDesc, transfer_queue(th, nd) PROVE IdleInv'
  <2>1. svc = "idle"
    BY <1>1 DEF transfer_queue, TypeInv, LockInv
  <2> QED
    BY <1>1, <2>1 DEF transfer_queue, engine_start
<1>2. ASSUME NEW th \in Threads,
             \/ StartRequest(th) \/ CreateFails(th) \/ EnterWait(th) \/ Interrupted(th)
             \/ TakeResult(th) \/ LeaveInFlight(th) \/ ReadStatus(th) \/ StoreStatus(th)
             \/ PollHit(th) \/ PollTimeout(th)
      PROVE  IdleInv'
  BY <1>2 DEF StartRequest, CreateFails, EnterWait, Interrupted, TakeResult, LeaveInFlight,
              ReadStatus, StoreStatus, PollHit, PollTimeout
<1>3. ASSUME NEW th \in Threads, PollBegin(th) \/ PollEnd(th) PROVE IdleInv'
  <2>1. ~Closing
    BY <1>3 DEF PollBegin, PollEnd, TypeInv, LockInv
  <2> QED
    BY <1>3, <2>1 DEF PollBegin, PollEnd
<1>4. CASE HwDesc \/ HwFinish \/ HwError \/ Isr
  <2>1. CASE HwDesc
    BY <2>1 DEF HwDesc
  <2>2. CASE HwFinish
    BY <2>2, EngineAssumption DEF HwFinish
  <2>3. CASE HwError
    BY <2>3, EngineAssumption DEF HwError
  <2>4. CASE Isr
    BY <2>4 DEF Isr
  <2> QED
    BY <1>4, <2>1, <2>2, <2>3, <2>4
<1>5. CASE WorkBegin \/ WorkEnd
  <2>1. svc \in {"idle", "leave"} /\ svc' \in {"status", "idle"}
    BY <1>5 DEF WorkBegin, WorkEnd, TypeInv, LockInv
  <2>2. UNCHANGED <<running, transfer_list, hw_busy, hw_left, hw_wb, hw_late>>
    BY <1>5 DEF WorkBegin, WorkEnd
  <2> QED
    BY <2>1, <2>2
<1>6. CASE ServiceStatus
  BY <1>6 DEF ServiceStatus
<1>7. CASE ServiceShutdown
  BY <1>7 DEF ServiceShutdown, xdma_engine_stop
<1>8. CASE ServiceList
  BY <1>8 DEF ServiceList
<1>9. CASE ServiceFinal \/ ServiceDequeue \/ ServiceWake \/ Oops
  BY <1>9 DEF ServiceFinal, xdma_engine_stop, ServiceDequeue, ServiceWake, Oops
<1>10. CASE ServiceResume
  <2>1. hw_wb' = NoWb
    BY <1>10 DEF ServiceResume, ClearWriteback
  <2> QED
    BY <1>10, <2>1 DEF ServiceResume, engine_service_resume, engine_start
<1>11. CASE UNCHANGED vars
  BY <1>11 DEF vars
<1> QED
  BY <1>1, <1>2, <1>3, <1>4, <1>5, <1>6, <1>7, <1>8, <1>9, <1>10, <1>11
     DEF Next, ThreadStep, engine_service

LEMMA IdleAlways == Spec => [](TypeInv /\ IdleInv)
<1>1. Init => TypeInv /\ IdleInv
  BY TypeInit DEF Init, IdleInv, Clear
<1>2. TypeInv /\ IdleInv /\ [Next]_vars => (TypeInv /\ IdleInv)'
  BY TypeNext, IdleNext
<1> QED
  BY <1>1, <1>2, PTL DEF Spec

\* In every mode transfer_queue starts an idle engine and engine_service_resume
\* restarts it: with the lock free, an idle engine has an empty queue.
THEOREM NothingLeftIdle == Spec => []IdleMeansEmpty
<1>1. TypeInv /\ IdleInv => IdleMeansEmpty
  BY DEF TypeInv, LockInv, IdleInv, Closing, IdleMeansEmpty
<1> QED
  BY <1>1, IdleAlways, PTL

\* The write-back word is cleared before each start (engine_service), and
\* nothing but the last descriptor of a run that was stopped while it was being
\* executed refills it: whatever timeouts, errors and services of another's
\* count come between, a thread whose transfer is executed finds in it the count
\* of no other run that ended by itself or with an error.
THEOREM WritebackAlwaysFresh == Spec => []FreshWriteback
<1>1. IdleInv => FreshWriteback
  <2> SUFFICES ASSUME IdleInv, NEW th \in Threads, Executing(Cur(th)), pc[th] = "poll"
               PROVE  Clear
    BY DEF FreshWriteback, Clear
  <2>1. Cur(th) # NoXfer
    BY EngineAssumption DEF Cur, NoXfer
  <2>2. hw_busy \/ hw_left # NoLeft
    BY <2>1 DEF Executing, NoLeft
  <2> QED
    BY <2>2 DEF IdleInv
<1> QED
  BY <1>1, IdleAlways, PTL
-------------------------------------------------------------------------------
LEMMA ServedNext ==
  ASSUME ~PollMode, ~Signals, Safe, ServedInv, [Next]_vars
  PROVE  ServedInv'
<1> USE EngineAssumption DEF ServedInv, xferVars, engineVars, svcVars, hwVars, irqVars, threadVars
<1>t. rc \in [Threads -> BOOLEAN] /\ pc \in [Threads -> ThreadPcs]
  BY DEF Safe, TypeInv, TypeOK, ThreadType
<1>1. ASSUME NEW th \in Threads, NEW nd \in 1 .. MaxDesc, transfer_queue(th, nd) PROVE ServedInv'
  <2>1. svc = "idle"
    BY <1>1 DEF transfer_queue, Safe, TypeInv, LockInv
  <2>2. \A u \in Threads : pc'[u] # "store_status"
    BY <1>1, <1>t DEF transfer_queue
  <2> QED
    BY <1>1, <2>1, <2>2 DEF transfer_queue, engine_start
<1>2. ASSUME NEW th \in Threads,
             \/ StartRequest(th) \/ CreateFails(th) \/ EnterWait(th)
             \/ TakeResult(th) \/ LeaveInFlight(th)
      PROVE  ServedInv'
  <2>1. UNCHANGED <<running, hw_busy, hw_event, svc, status>>
    BY <1>2 DEF StartRequest, CreateFails, EnterWait, TakeResult, LeaveInFlight
  <2>2. \A u \in Threads : ~rc'[u] /\ pc'[u] # "store_status"
    BY <1>2, <1>t DEF StartRequest, CreateFails, EnterWait, TakeResult, LeaveInFlight,
                      ChunkDone, RequestFails
  <2> QED
    BY <2>1, <2>2
<1>3. ASSUME NEW th \in Threads,
             \/ Interrupted(th) \/ ReadStatus(th) \/ StoreStatus(th) \/ PollHit(th)
             \/ PollTimeout(th) \/ PollBegin(th) \/ PollEnd(th)
      PROVE  FALSE
  BY <1>3 DEF Interrupted, ReadStatus, StoreStatus, PollHit, PollTimeout, PollBegin, PollEnd,
              Safe, PhaseInv
<1>4. CASE HwDesc
  BY <1>4 DEF HwDesc
<1>5. CASE HwFinish \/ HwError
  BY <1>5 DEF HwFinish, HwError, Safe, PhaseInv
<1>6. CASE Isr \/ WorkBegin
  BY <1>6 DEF Isr, WorkBegin, Safe, PhaseInv
<1>7. CASE ServiceStatus
  BY <1>7 DEF ServiceStatus, StatusRegister, Safe, PhaseInv, NoWb
<1>8. CASE ServiceShutdown
  BY <1>8 DEF ServiceShutdown, xdma_engine_stop, NoLongerBusy, Safe, PhaseInv, NoWb
<1>9. CASE ServiceList \/ ServiceFinal \/ ServiceDequeue \/ Oops
  <2>1. UNCHANGED <<running, hw_event, rc, pc>> /\ svc # "shutdown"
    BY <1>9 DEF ServiceList, ServiceFinal, ServiceDequeue, Oops, UsesFreed, Touched
  <2>2. hw_busy' = hw_busy \/ ~hw_busy
    BY <1>9 DEF ServiceList, ServiceFinal, xdma_engine_stop, ServiceDequeue, Oops, Safe, PhaseInv
  <2> QED
    BY <2>1, <2>2
<1>10. CASE ServiceWake
  BY <1>10, <1>t DEF ServiceWake, wake_up
<1>11. CASE ServiceResume
  BY <1>11 DEF ServiceResume, engine_service_resume, engine_start
<1>12. CASE WorkEnd
  BY <1>12 DEF WorkEnd
<1>13. CASE UNCHANGED vars
  BY <1>13 DEF vars
<1> QED
  BY <1>1, <1>2, <1>3, <1>4, <1>5, <1>6, <1>7, <1>8, <1>9, <1>10, <1>11, <1>12, <1>13
     DEF Next, ThreadStep, engine_service

\* With interrupts and no signals an engine marked running always comes to its
\* service again, "either the engine is still busy and we will end up in the
\* service handler later" (transfer_queue).
THEOREM RunningAlwaysServed ==
  ASSUME ~PollMode, ~Signals PROVE Spec => []RunningIsServed
<1>1. Init => ServedInv
  BY DEF Init, ServedInv
<1>2. Safe /\ ServedInv /\ [Next]_vars => ServedInv'
  BY ServedNext
<1>3. Safe /\ ServedInv => RunningIsServed
  BY DEF Safe, TypeInv, LockInv, ServedInv, RunningIsServed
<1> QED
  BY <1>1, <1>2, <1>3, SafeAlways, PTL DEF Spec
-------------------------------------------------------------------------------
LEMMA AllocNext ==
  ASSUME ~PollMode, Safe, AllocInv, [Next]_vars
  PROVE  AllocInv'
<1> USE EngineAssumption DEF xferVars, engineVars, svcVars, hwVars, irqVars, threadVars
<1>t. /\ \A x \in Xfers : x[1] \in Threads /\ x[2] \in Nat
      /\ \A u \in Threads : created[u] \in Nat
  BY DEF Xfers, Safe, TypeInv, TypeOK, ThreadType
<1>1. ASSUME NEW th \in Threads, NEW nd \in 1 .. MaxDesc, transfer_queue(th, nd) PROVE AllocInv'
  <2> DEFINE t == NewXfer(th)
  <2>1. /\ t \in Xfers /\ state' = [state EXCEPT ![t] = "SUBMITTED"]
        /\ \A x : x # t => state'[x] = state[x]
    BY <1>1, Created DEF Safe
  <2>2. created' = [created EXCEPT ![th] = @ + 1]
    BY <1>1 DEF transfer_queue
  <2>3. \A x \in Xfers : x # t => (x[2] > created[x[1]] <=> x[2] > created'[x[1]])
    BY <1>t, <2>2 DEF NewXfer, Xfers, Safe, TypeInv, TypeOK, ThreadType
  <2>4. state'[t] = "SUBMITTED" /\ ~(t[2] > created'[t[1]])
    BY <1>t, <2>1, <2>2 DEF NewXfer, Safe, TypeInv, TypeOK, ThreadType, XferType
  <2> HIDE DEF t
  <2> QED
    BY <2>1, <2>3, <2>4 DEF AllocInv
<1>2. ASSUME created' = created,
             \A x \in Xfers : state'[x] = "unallocated" <=> state[x] = "unallocated"
      PROVE  AllocInv'
  BY <1>2 DEF AllocInv
<1>3. ASSUME NEW th \in Threads,
             \/ StartRequest(th) \/ CreateFails(th) \/ EnterWait(th) \/ Interrupted(th)
             \/ LeaveInFlight(th) \/ ReadStatus(th) \/ StoreStatus(th)
             \/ PollHit(th) \/ PollTimeout(th) \/ PollBegin(th) \/ PollEnd(th)
      PROVE  AllocInv'
  BY <1>2, <1>3 DEF StartRequest, CreateFails, EnterWait, Interrupted, LeaveInFlight, ReadStatus,
                    StoreStatus, PollHit, PollTimeout, PollBegin, PollEnd
<1>4. ASSUME NEW th \in Threads, TakeResult(th) PROVE AllocInv'
  <2>1. Cur(th) \in Xfers /\ Cur(th)[1] = th /\ Cur(th)[2] = created[th]
    BY <1>4, Typed DEF TakeResult, Safe, Cur
  <2>2. state[Cur(th)] # "unallocated"
    BY <1>t, <2>1 DEF AllocInv
  <2>3. state' = [state EXCEPT ![Cur(th)] = "freed"] /\ created' = created
    BY <1>4 DEF TakeResult
  <2>4. \A x \in Xfers : state'[x] = "unallocated" <=> state[x] = "unallocated"
    BY <2>1, <2>2, <2>3 DEF Safe, TypeInv, TypeOK, XferType
  <2> QED
    BY <1>2, <2>3, <2>4
<1>5. CASE \/ HwDesc \/ HwFinish \/ HwError \/ Isr \/ WorkBegin \/ ServiceStatus
           \/ ServiceShutdown \/ ServiceDequeue \/ ServiceWake \/ ServiceResume \/ WorkEnd \/ Oops
  BY <1>2, <1>5 DEF HwDesc, HwFinish, HwError, Isr, WorkBegin, ServiceStatus, ServiceShutdown,
                    ServiceDequeue, ServiceWake, ServiceResume, WorkEnd, Oops
<1>6. CASE ServiceList
  <2>1. state' = state
    BY <1>6, NothingToSkip DEF Safe
  <2> QED
    BY <1>2, <1>6, <2>1 DEF ServiceList
<1>7. CASE ServiceFinal
  <2> DEFINE h == Head(transfer_list)
  <2>1. h \in Xfers /\ h[2] <= created[h[1]]
    BY <1>7, Typed DEF ServiceFinal, Safe, TypeInv, SvcInv, Made
  <2>2. state[h] # "unallocated"
    BY <1>t, <2>1 DEF AllocInv
  <2>3. \E s \in {"FAILED", "COMPLETED"} : SetState(h, s)
    BY <1>7 DEF ServiceFinal
  <2> HIDE DEF h
  <2>4. \A x \in Xfers : state'[x] = "unallocated" <=> state[x] = "unallocated"
    BY <2>1, <2>2, <2>3 DEF SetState, Safe, TypeInv, TypeOK, XferType
  <2> QED
    BY <1>2, <1>7, <2>4 DEF ServiceFinal
<1>8. CASE UNCHANGED vars
  BY <1>2, <1>8 DEF vars
<1> QED
  BY <1>1, <1>3, <1>4, <1>5, <1>6, <1>7, <1>8 DEF Next, ThreadStep, engine_service

\* The hardware reports an error at HwError and nowhere else.
LEMMA StatusNext ==
  ASSUME ~PollMode, Safe, StatusInv, hw_errors = 0, [Next]_vars, hw_errors' = 0
  PROVE  StatusInv'
<1> USE EngineAssumption DEF xferVars, engineVars, svcVars, hwVars, irqVars, threadVars
<1>t. /\ seen \in [Threads -> Status] /\ status \in Status
      /\ hw_event \in SUBSET {"stopped", "error"}
  BY DEF Safe, TypeInv, TypeOK, ThreadType, EngineType, HwType
<1>1. ASSUME NEW th \in Threads, NEW nd \in 1 .. MaxDesc, transfer_queue(th, nd) PROVE StatusInv'
  <2>1. svc = "idle" /\ UNCHANGED <<hw_event, status, seen, svc>>
    BY <1>1 DEF transfer_queue, Safe, TypeInv, LockInv
  <2>2. hw_event # {} => hw_count' = hw_count /\ hw_xfer' = hw_xfer /\ desc_num'[hw_xfer] = desc_num[hw_xfer]
    <3> SUFFICES ASSUME hw_event # {}
                 PROVE  hw_count' = hw_count /\ hw_xfer' = hw_xfer /\ desc_num'[hw_xfer] = desc_num[hw_xfer]
      OBVIOUS
    <3>1. running /\ Fresh
      BY DEF Safe, RunInv
    <3>2. hw_xfer = transfer_list[1] /\ 1 \in 1 .. Len(transfer_list)
      BY <3>1 DEF Fresh, Safe, TypeInv, TypeOK, EngineType
    <3>3. hw_xfer # NewXfer(th)
      BY <1>1, <3>2, Created DEF Safe
    <3>4. desc_num'[hw_xfer] = desc_num[hw_xfer]
      BY <1>1, <3>3, Created DEF Safe
    <3> QED
      BY <1>1, <3>1, <3>4 DEF transfer_queue
  <2> QED
    BY <2>1, <2>2 DEF StatusInv
<1>2. ASSUME NEW th \in Threads,
             \/ StartRequest(th) \/ CreateFails(th) \/ EnterWait(th) \/ Interrupted(th)
             \/ TakeResult(th) \/ LeaveInFlight(th)
             \/ PollHit(th) \/ PollTimeout(th)
      PROVE  StatusInv'
  BY <1>2 DEF StartRequest, CreateFails, EnterWait, Interrupted, TakeResult, LeaveInFlight,
              PollHit, PollTimeout, StatusInv
<1>3. ASSUME NEW th \in Threads, PollBegin(th) \/ PollEnd(th) PROVE FALSE
  BY <1>3 DEF PollBegin, PollEnd, Safe, PhaseInv
<1>4. ASSUME NEW th \in Threads, ReadStatus(th) PROVE StatusInv'
  <2>1. \A u \in Threads : ~seen'[u].err
    BY <1>4, <1>t DEF ReadStatus, StatusInv, StatusRegister
  <2> QED
    BY <1>4, <2>1 DEF ReadStatus, StatusInv
<1>5. ASSUME NEW th \in Threads, StoreStatus(th) PROVE StatusInv'
  BY <1>5 DEF StoreStatus, StatusInv
<1>6. CASE HwDesc
  <2>1. hw_count + 1 < desc_num[hw_xfer] \/ hw_count + 1 = desc_num[hw_xfer]
    BY <1>6 DEF HwDesc, Safe, TypeInv, TypeOK, HwInv, Made, HwType, XferType
  <2>2. hw_event = {} /\ svc \in {"idle", "leave"}
    BY <1>6 DEF HwDesc, Safe, PhaseInv
  <2>3. UNCHANGED <<status, seen, svc, desc_num, hw_xfer>> /\ hw_count' = hw_count + 1
        /\ (hw_event' = hw_event \/ (hw_count + 1 = desc_num[hw_xfer] /\ hw_event' = {"stopped"}))
    BY <1>6, <2>1, <2>2 DEF HwDesc
  <2> QED
    BY <2>2, <2>3 DEF StatusInv
<1>7. CASE HwFinish \/ HwError
  BY <1>7 DEF HwFinish, HwError, Safe, PhaseInv
<1>8. CASE Isr
  BY <1>8 DEF Isr, StatusInv
<1>9. CASE WorkBegin
  BY <1>9 DEF WorkBegin, StatusInv
<1>10. CASE ServiceStatus
  <2>1. hw_event # {}
    BY <1>10 DEF ServiceStatus, Safe, PhaseInv
  <2>2. hw_event' \subseteq hw_event /\ (status' = status \/ status' = StatusRegister)
    BY <1>10 DEF ServiceStatus
  <2>3. ~status'.err
    BY <2>2 DEF StatusRegister, StatusInv
  <2> QED
    BY <1>10, <2>1, <2>2, <2>3 DEF ServiceStatus, StatusInv
<1>11. CASE ServiceShutdown
  BY <1>11 DEF ServiceShutdown, StatusInv
<1>12. CASE ServiceList
  <2>1. svc' = "final" /\ svc = "list"
    BY <1>12, NothingToSkip DEF Safe, ServiceList
  <2> QED
    BY <1>12, <2>1 DEF ServiceList, StatusInv
<1>13. CASE ServiceFinal \/ ServiceDequeue \/ ServiceWake \/ Oops
  <2>1. svc' \in {"dequeue", "resume", "wake", "oops"} /\ UNCHANGED <<hw_event, status, seen>>
    BY <1>13 DEF ServiceFinal, ServiceDequeue, ServiceWake, Oops, Safe, PhaseInv
  <2>2. hw_event = {}
    BY <1>13 DEF ServiceFinal, ServiceDequeue, ServiceWake, Oops, UsesFreed, Touched, Safe, PhaseInv
  <2> QED
    BY <2>1, <2>2 DEF StatusInv
<1>14. CASE ServiceResume
  <2>1. hw_event = {} /\ svc' = "leave" /\ UNCHANGED <<hw_event, status, seen>>
    BY <1>14 DEF ServiceResume, Safe, PhaseInv
  <2> QED
    BY <2>1 DEF StatusInv
<1>15. CASE WorkEnd
  BY <1>15 DEF WorkEnd, StatusInv
<1>16. CASE UNCHANGED vars
  BY <1>16 DEF vars, StatusInv
<1> QED
  BY <1>1, <1>2, <1>3, <1>4, <1>5, <1>6, <1>7, <1>8, <1>9, <1>10, <1>11, <1>12, <1>13, <1>14,
     <1>15, <1>16 DEF Next, ThreadStep, engine_service

LEMMA SubmittedNext ==
  ASSUME ~PollMode, Safe, StatusInv, SubmittedInv, [Next]_vars
  PROVE  SubmittedInv'
<1> USE EngineAssumption DEF xferVars, engineVars, svcVars, hwVars, irqVars, threadVars
<1>t. /\ transfer_list \in Seq(Xfers) /\ Len(transfer_list) \in Nat
      /\ \A i \in 1 .. Len(transfer_list) : transfer_list[i] \in Xfers
      /\ transfer_list # <<>> => 1 \in 1 .. Len(transfer_list) /\ Head(transfer_list) = transfer_list[1]
      /\ DOMAIN state = Xfers
  BY DEF Safe, TypeInv, TypeOK, EngineType, XferType
<1>1. ASSUME NEW th \in Threads, NEW nd \in 1 .. MaxDesc, transfer_queue(th, nd) PROVE SubmittedInv'
  <2> DEFINE t == NewXfer(th)
  <2>1. /\ t \in Xfers
        /\ \A i \in 1 .. Len(transfer_list) : transfer_list[i] # t
        /\ state' = [state EXCEPT ![t] = "SUBMITTED"]
        /\ \A x : x # t => state'[x] = state[x]
        /\ transfer_list' = Append(transfer_list, t)
    BY <1>1, Created DEF Safe
  <2>2. svc = "idle" /\ svc' = svc
    BY <1>1 DEF transfer_queue, Safe, TypeInv, LockInv
  <2> HIDE DEF t
  <2>3. state'[t] = "SUBMITTED"
    BY <1>t, <2>1
  <2>4. \A i \in 1 .. Len(transfer_list') : state'[transfer_list'[i]] = "SUBMITTED"
    BY <1>t, <2>1, <2>2, <2>3 DEF SubmittedInv
  <2> QED
    BY <2>1, <2>2, <2>3, <2>4 DEF SubmittedInv
<1>2. ASSUME NEW th \in Threads,
             \/ StartRequest(th) \/ CreateFails(th) \/ EnterWait(th) \/ Interrupted(th)
             \/ LeaveInFlight(th) \/ ReadStatus(th) \/ StoreStatus(th)
             \/ PollHit(th) \/ PollTimeout(th)
      PROVE  SubmittedInv'
  BY <1>2 DEF StartRequest, CreateFails, EnterWait, Interrupted, LeaveInFlight, ReadStatus,
              StoreStatus, PollHit, PollTimeout, SubmittedInv
<1>3. ASSUME NEW th \in Threads, PollBegin(th) \/ PollEnd(th) PROVE FALSE
  BY <1>3 DEF PollBegin, PollEnd, Safe, PhaseInv
<1>4. ASSUME NEW th \in Threads, TakeResult(th) PROVE SubmittedInv'
  <2>1. /\ state[Cur(th)] # "SUBMITTED" /\ state' = [state EXCEPT ![Cur(th)] = "freed"]
        /\ UNCHANGED <<transfer_list, svc>>
    BY <1>4 DEF TakeResult
  <2>2. \A x \in Xfers : state'[x] = state[x] \/ (x = Cur(th) /\ state'[x] = "freed")
    BY <1>t, <2>1
  <2>3. \A x \in Xfers : (state'[x] = "SUBMITTED" <=> state[x] = "SUBMITTED") /\ (state'[x] = "FAILED" => state[x] = "FAILED")
    BY <2>1, <2>2
  <2>4. svc = "dequeue" => transfer_list # <<>>
    BY DEF Safe, TypeInv, SvcInv
  <2> QED
    BY <1>t, <2>1, <2>3, <2>4 DEF SubmittedInv
<1>5. CASE \/ HwDesc \/ HwFinish \/ HwError \/ Isr
  BY <1>5 DEF HwDesc, HwFinish, HwError, Isr, SubmittedInv
<1>6. CASE WorkBegin \/ ServiceStatus \/ ServiceShutdown \/ ServiceWake \/ ServiceResume \/ WorkEnd
  <2>1. /\ UNCHANGED <<state, transfer_list>>
        /\ svc \notin {"dequeue", "oops"} /\ svc' # "dequeue"
    BY <1>6 DEF WorkBegin, ServiceStatus, ServiceShutdown, ServiceWake, ServiceResume, WorkEnd,
                Safe, TypeInv, LockInv
  <2> QED
    BY <2>1 DEF SubmittedInv
<1>7. CASE ServiceList
  <2>1. svc = "list" /\ svc' = "final" /\ UNCHANGED <<state, transfer_list>>
    BY <1>7, NothingToSkip DEF Safe, ServiceList
  <2> QED
    BY <2>1 DEF SubmittedInv
<1>8. CASE ServiceFinal
  <2> DEFINE h == Head(transfer_list)
  <2>1. transfer_list # <<>> /\ svc = "final" /\ Fresh /\ svc_count = hw_count /\ h = hw_xfer
    BY <1>8 DEF ServiceFinal, Safe, RunInv, Fresh
  <2>2. svc_count = desc_num[h] /\ svc_count \in Int /\ ~status.err
    BY <2>1 DEF StatusInv, Safe, TypeInv, TypeOK, SvcType
  <2>3. ~HalfWay(h)
    BY <2>2 DEF HalfWay
  <2>4. svc' = "dequeue" /\ SetState(h, "COMPLETED") /\ transfer_list' = transfer_list
    BY <1>8, <2>2, <2>3 DEF ServiceFinal
  <2> HIDE DEF h
  <2>5. \A x \in Xfers : x # h => state'[x] = state[x]
    BY <1>t, <2>4 DEF SetState
  <2>6. state'[h] \in {"COMPLETED", "freed"}
    BY <1>t, <2>1, <2>4 DEF SetState, h
  <2>7. \A i \in 1 .. Len(transfer_list) : i # 1 => transfer_list[i] # h
    BY <1>t, <2>1 DEF h, Safe, QueueInv
  <2> QED
    BY <1>t, <2>1, <2>4, <2>5, <2>6, <2>7 DEF SubmittedInv, h
<1>9. CASE ServiceDequeue
  <2>1. /\ transfer_list' = Tail(transfer_list) /\ transfer_list # << >>
        /\ svc = "dequeue" /\ svc' = "wake" /\ state' = state
    BY <1>9 DEF ServiceDequeue, list_del, Safe, TypeInv, SvcInv
  <2>2. /\ Len(transfer_list') = Len(transfer_list) - 1
        /\ \A i \in 1 .. Len(transfer_list') : transfer_list'[i] = transfer_list[i + 1]
    BY <1>t, <2>1
  <2>3. \A i \in 1 .. Len(transfer_list') : i + 1 \in 1 .. Len(transfer_list) /\ i + 1 # 1
    BY <1>t, <2>2
  <2> QED
    BY <2>1, <2>2, <2>3 DEF SubmittedInv
<1>10. CASE Oops
  BY <1>10 DEF Oops, SubmittedInv
<1>11. CASE UNCHANGED vars
  BY <1>11 DEF vars, SubmittedInv
<1> QED
  BY <1>1, <1>2, <1>3, <1>4, <1>5, <1>6, <1>7, <1>8, <1>9, <1>10, <1>11
     DEF Next, ThreadStep, engine_service

LEMMA MovedNext ==
  ASSUME ~PollMode, Safe, IdleInv, AllocInv, StatusInv, SubmittedInv, MovedInv, [Next]_vars,
         hw_errors = 0, hw_errors' = 0
  PROVE  MovedInv'
<1> USE EngineAssumption DEF xferVars, engineVars, svcVars, hwVars, irqVars, threadVars
<1>t. /\ DOMAIN state = Xfers /\ moved \in [Xfers -> 0 .. MaxDesc]
      /\ transfer_list # <<>> => Head(transfer_list) \in Xfers
  BY Typed DEF Safe, TypeInv, TypeOK, XferType, Made
<1>0. ASSUME \A x \in Xfers : state'[x] \in {"unallocated", "SUBMITTED"} =>
               state[x] \in {"unallocated", "SUBMITTED"} /\ moved'[x] = moved[x],
             hw_xfer' = hw_xfer,
             hw_busy \/ hw_event # {} \/ svc \in {"shutdown", "list", "final"} =>
               hw_busy' \/ hw_event' # {} \/ svc' \in {"shutdown", "list", "final"}
      PROVE  MovedInv'
  BY <1>0 DEF MovedInv
<1>1. ASSUME NEW th \in Threads, NEW nd \in 1 .. MaxDesc, transfer_queue(th, nd) PROVE MovedInv'
  <2> DEFINE t == NewXfer(th)
  <2>1. /\ t \in Xfers
        /\ state' = [state EXCEPT ![t] = "SUBMITTED"]
        /\ \A x : x # t => state'[x] = state[x]
        /\ transfer_list' = Append(transfer_list, t)
    BY <1>1, Created DEF Safe
  <2>2. svc = "idle" /\ svc' = svc /\ hw_event' = hw_event
    BY <1>1 DEF transfer_queue, Safe, TypeInv, LockInv
  <2>3. state[t] = "unallocated"
    <3>1. t[1] = th /\ t[2] = created[th] + 1 /\ created[th] \in Nat
      BY DEF NewXfer, Safe, TypeInv, TypeOK, ThreadType
    <3> QED
      BY <2>1, <3>1 DEF AllocInv
  <2>4. CASE running
    <3>1. UNCHANGED <<hw_busy, hw_xfer, moved>>
      BY <1>1, <2>4 DEF transfer_queue
    <3> HIDE DEF t
    <3> QED
      BY <1>0, <2>1, <2>2, <2>3, <3>1
  <2>5. CASE ~running
    <3>1. transfer_list = <<>> /\ ~hw_busy /\ hw_event = {}
      BY <2>2, <2>5 DEF IdleInv, Closing, Safe, RunInv
    <3>2. Head(transfer_list') = t
      BY <2>1, <3>1
    <3>3. moved' = [moved EXCEPT ![t] = 0] /\ hw_xfer' = t /\ hw_busy'
      BY <1>1, <2>5, <3>2 DEF transfer_queue, engine_start, list_add_tail, NewXfer
    <3> HIDE DEF t
    <3>4. \A x \in Xfers : state[x] \in {"unallocated", "SUBMITTED"} => moved[x] = 0
      BY <2>2, <3>1 DEF MovedInv
    <3> QED
      BY <1>t, <2>1, <2>3, <3>3, <3>4 DEF MovedInv
  <2> QED
    BY <2>4, <2>5
<1>2. ASSUME NEW th \in Threads,
             \/ StartRequest(th) \/ CreateFails(th) \/ EnterWait(th) \/ Interrupted(th)
             \/ LeaveInFlight(th) \/ ReadStatus(th) \/ StoreStatus(th)
             \/ PollHit(th) \/ PollTimeout(th)
      PROVE  MovedInv'
  BY <1>0, <1>2 DEF StartRequest, CreateFails, EnterWait, Interrupted, LeaveInFlight, ReadStatus,
                    StoreStatus, PollHit, PollTimeout
<1>3. ASSUME NEW th \in Threads, PollBegin(th) \/ PollEnd(th) PROVE FALSE
  BY <1>3 DEF PollBegin, PollEnd, Safe, PhaseInv
<1>4. ASSUME NEW th \in Threads, TakeResult(th) PROVE MovedInv'
  <2>1. /\ state' = [state EXCEPT ![Cur(th)] = "freed"]
        /\ UNCHANGED <<moved, hw_xfer, hw_busy, hw_event, svc>>
    BY <1>4 DEF TakeResult
  <2>2. \A x \in Xfers : state'[x] = state[x] \/ state'[x] = "freed"
    BY <1>t, <2>1
  <2> QED
    BY <1>0, <2>1, <2>2
<1>5. CASE HwDesc
  <2>1. hw_xfer \in Xfers /\ moved' = [moved EXCEPT ![hw_xfer] = hw_count + 1]
        /\ (hw_busy' \/ hw_event' # {}) /\ hw_xfer' = hw_xfer /\ state' = state
    BY <1>5 DEF HwDesc, Safe, TypeInv, HwInv, Made
  <2> QED
    BY <1>t, <2>1 DEF MovedInv
<1>6. CASE HwFinish \/ HwError
  BY <1>6 DEF HwFinish, HwError, Safe, PhaseInv, TypeInv, TypeOK, HwType
<1>7. CASE Isr \/ WorkBegin \/ ServiceShutdown
  BY <1>0, <1>7 DEF Isr, WorkBegin, ServiceShutdown, Safe, TypeInv, LockInv
<1>8. CASE ServiceStatus
  <2>1. hw_event # {} /\ svc' = "shutdown"
    BY <1>8 DEF ServiceStatus, Safe, PhaseInv, RunInv
  <2> QED
    BY <1>0, <1>8, <2>1 DEF ServiceStatus
<1>9. CASE ServiceList
  <2>1. svc = "list" /\ svc' = "final" /\ state' = state
    BY <1>9, NothingToSkip DEF Safe, ServiceList
  <2> QED
    BY <1>0, <1>9, <2>1 DEF ServiceList
<1>10. CASE ServiceFinal
  <2> DEFINE h == Head(transfer_list)
  <2>1. h = hw_xfer /\ h \in Xfers /\ svc' = "dequeue"
    BY <1>10, <1>t DEF ServiceFinal, Safe, RunInv, Fresh, StatusInv
  <2>2. state'[h] # "SUBMITTED"
    BY <1>10, <2>1, SubmittedNext DEF SubmittedInv, ServiceFinal, Next, engine_service
  <2>3. moved' = moved /\ hw_xfer' = hw_xfer /\ \E s : SetState(h, s)
    BY <1>10 DEF ServiceFinal
  <2>4. state'[h] # "unallocated" /\ \A x \in Xfers : x # h => state'[x] = state[x]
    <3>1. state[h] = "SUBMITTED"
      BY <1>10, <2>1 DEF SubmittedInv, ServiceFinal, Safe, TypeInv, SvcInv, TypeOK, EngineType
    <3>2. \E s \in {"FAILED", "COMPLETED"} : SetState(h, s)
      BY <1>10 DEF ServiceFinal
    <3> HIDE DEF h
    <3> QED
      BY <1>t, <2>1, <3>1, <3>2 DEF SetState
  <2> HIDE DEF h
  <2> QED
    BY <2>1, <2>2, <2>3, <2>4 DEF MovedInv
<1>11. CASE ServiceDequeue \/ ServiceWake \/ Oops
  <2>1. svc \notin {"shutdown"} /\ UNCHANGED <<state, moved, hw_xfer, hw_busy, hw_event>>
    BY <1>11 DEF ServiceDequeue, ServiceWake, Oops, UsesFreed, Touched
  <2>2. svc \notin {"list", "final"}
    <3> SUFFICES ASSUME Oops, svc \in {"list", "final"} PROVE FALSE
      BY <1>11 DEF ServiceDequeue, ServiceWake, Safe, PhaseInv
    <3>1. transfer_list # <<>> /\ state[Head(transfer_list)] = "freed"
      BY DEF Oops, UsesFreed, Touched
    <3>2. 1 \in 1 .. Len(transfer_list) /\ Head(transfer_list) = transfer_list[1]
      BY <3>1 DEF Safe, TypeInv, TypeOK, EngineType
    <3> QED
      BY <3>1, <3>2 DEF SubmittedInv
  <2> QED
    BY <1>0, <2>1, <2>2
<1>12. CASE ServiceResume
  <2>1. \A x \in Xfers : state[x] \in {"unallocated", "SUBMITTED"} => moved[x] = 0
    BY <1>12 DEF ServiceResume, MovedInv, Safe, PhaseInv
  <2>2. state' = state /\ \A x \in Xfers : moved[x] = 0 => moved'[x] = 0
    BY <1>12, <1>t DEF ServiceResume, engine_service_resume, engine_start
  <2> QED
    BY <2>1, <2>2 DEF MovedInv
<1>13. CASE WorkEnd
  BY <1>0, <1>13 DEF WorkEnd
<1>14. CASE UNCHANGED vars
  BY <1>0, <1>14 DEF vars
<1> QED
  BY <1>1, <1>2, <1>3, <1>4, <1>5, <1>6, <1>7, <1>8, <1>9, <1>10, <1>11, <1>12, <1>13, <1>14
     DEF Next, ThreadStep, engine_service

Orderly == Safe /\ IdleInv /\ AllocInv /\ NoErrorInv

LEMMA OrderlyNext ==
  ASSUME ~PollMode, Orderly, [Next]_vars
  PROVE  Orderly'
<1> USE DEF Orderly
<1>1. Safe'
  BY TypeNext, IrqNext, PhaseNext, RunNext, QueueNext, DoneNext DEF Safe
<1>2. IdleInv' /\ AllocInv'
  BY IdleNext, AllocNext DEF Safe
<1>3. hw_errors' = hw_errors \/ hw_errors' = hw_errors + 1
  BY DEF vars, hwVars, Next, ThreadStep, engine_service, StartRequest, CreateFails, transfer_queue,
         EnterWait, Interrupted, PollHit, PollTimeout, PollBegin, PollEnd, TakeResult, LeaveInFlight,
         ReadStatus, StoreStatus, HwDesc, HwFinish, HwError, Isr, WorkBegin, ServiceStatus,
         ServiceShutdown,
         ServiceList, ServiceFinal, ServiceDequeue, ServiceWake, ServiceResume, WorkEnd, Oops
<1>4. hw_errors' = 0 => hw_errors = 0
  BY <1>3, EngineAssumption DEF Safe, TypeInv, TypeOK, HwType
<1>5. NoErrorInv'
  BY <1>4, StatusNext, SubmittedNext, MovedNext DEF NoErrorInv
<1> QED
  BY <1>1, <1>2, <1>5

LEMMA OrderlyAlways == ASSUME ~PollMode PROVE Spec => []Orderly
<1>1. ASSUME Init PROVE Orderly
  <2>1. Safe
    BY <1>1, SafeInit
  <2>2. IdleInv
    BY <1>1 DEF Init, IdleInv, Clear
  <2>3. AllocInv
    BY <1>1 DEF Init, AllocInv, Xfers
  <2>4. NoErrorInv
    BY <1>1, EngineAssumption DEF Init, NoErrorInv, StatusInv, SubmittedInv, MovedInv
  <2> QED
    BY <2>1, <2>2, <2>3, <2>4 DEF Orderly
<1>2. Orderly /\ [Next]_vars => Orderly'
  BY OrderlyNext
<1> QED
  BY <1>1, <1>2, PTL DEF Spec

\* With interrupts engine_service never finds the engine half-way through a
\* transfer (engine_service_final_transfer) unless the hardware has reported an
\* error, whatever signals store into engine->status.
THEOREM NeverFailsSpuriously ==
  ASSUME ~PollMode PROVE Spec => []NoSpuriousFailure
<1>1. Orderly => NoSpuriousFailure
  BY DEF Orderly, NoErrorInv, SubmittedInv, NoSpuriousFailure
<1> QED
  BY <1>1, OrderlyAlways, PTL

\* With interrupts the service stops no engine that is executing.
LEMMA OnlyWhatIsBusy ==
  ASSUME Orderly, NEW t \in Xfers, Executing(t)
  PROVE  hw_busy /\ hw_xfer = t
<1>1. t # NoXfer
  BY EngineAssumption DEF Xfers, NoXfer
<1> QED
  BY <1>1 DEF Executing, NoLeft, Orderly, Safe, PhaseInv

\* A hardware without errors runs what is first in the queue, and that is
\* SUBMITTED.
LEMMA RunsSubmitted ==
  ASSUME Orderly, HwErrors = 0, hw_busy
  PROVE  transfer_list # <<>> /\ Head(transfer_list) = hw_xfer /\ state[hw_xfer] = "SUBMITTED"
<1>1. Fresh /\ svc \in {"idle", "leave"}
  BY DEF Orderly, Safe, RunInv, PhaseInv
<1>2. 1 \in 1 .. Len(transfer_list) /\ Head(transfer_list) = transfer_list[1] /\ hw_errors = 0
  BY <1>1 DEF Fresh, Orderly, Safe, TypeInv, TypeOK, EngineType, HwType
<1> QED
  BY <1>1, <1>2 DEF Fresh, Orderly, NoErrorInv, SubmittedInv

\* With interrupts and no hardware errors the engine never runs descriptors that
\* transfer_destroy has freed, though threads destroy transfers without the lock
\* and while they are being completed.
THEOREM NeverDmaAfterFree ==
  ASSUME ~PollMode, HwErrors = 0 PROVE Spec => []NoDmaAfterFree
<1>1. Orderly => NoDmaAfterFree
  BY RunsSubmitted, OnlyWhatIsBusy DEF NoDmaAfterFree
<1> QED
  BY <1>1, OrderlyAlways, PTL
-------------------------------------------------------------------------------
(* The window alone: what is between the store of a transfer's state and its  *)
(* removal from the list is the only thing that lets a thread destroy a        *)
(* transfer that is in use.                                                    *)

\* No thread has looked at the transfer that is being completed.
UntouchedInv ==
  /\ svc # "oops"
  /\ svc = "dequeue" => state[Head(transfer_list)] = "COMPLETED"
  /\ svc = "wake" => state[svc_xfer] = "COMPLETED"

\* Without signals a thread that is past its wait has seen its transfer leave.
LeftInv ==
  \A th \in Threads : pc[th] = "check" =>
    \A i \in 1 .. Len(transfer_list) : transfer_list[i] # Cur(th)

LEMMA UntouchedNext ==
  ASSUME ~PollMode, HwErrors = 0, CloseWindow, Orderly, UntouchedInv, [Next]_vars
  PROVE  UntouchedInv'
<1> USE EngineAssumption DEF xferVars, engineVars, svcVars, hwVars, irqVars, threadVars
<1>t. /\ Safe /\ StatusInv /\ SubmittedInv
      /\ transfer_list \in Seq(Xfers) /\ DOMAIN state = Xfers
      /\ svc \in {"list", "final", "dequeue"} /\ transfer_list # <<>> =>
           1 \in 1 .. Len(transfer_list) /\ Head(transfer_list) = transfer_list[1]
  BY DEF Orderly, NoErrorInv, Safe, TypeInv, TypeOK, EngineType, XferType, HwType
<1>1. ASSUME svc' # "oops", svc' \notin {"dequeue", "wake"} PROVE UntouchedInv'
  BY <1>1 DEF UntouchedInv
<1>2. ASSUME UNCHANGED <<state, svc, svc_xfer, transfer_list>> PROVE UntouchedInv'
  BY <1>2 DEF UntouchedInv
<1>3. ASSUME NEW th \in Threads, NEW nd \in 1 .. MaxDesc, transfer_queue(th, nd) PROVE UntouchedInv'
  <2>1. svc = "idle" /\ svc' = svc
    BY <1>3, <1>t DEF transfer_queue, Safe, TypeInv, LockInv
  <2> QED
    BY <2>1, <1>1
<1>4. ASSUME NEW th \in Threads,
             \/ StartRequest(th) \/ CreateFails(th) \/ EnterWait(th) \/ Interrupted(th)
             \/ LeaveInFlight(th) \/ ReadStatus(th) \/ StoreStatus(th)
             \/ PollHit(th) \/ PollTimeout(th)
      PROVE  UntouchedInv'
  BY <1>2, <1>4 DEF StartRequest, CreateFails, EnterWait, Interrupted, LeaveInFlight, ReadStatus,
                    StoreStatus, PollHit, PollTimeout
<1>5. ASSUME NEW th \in Threads, PollBegin(th) \/ PollEnd(th) PROVE FALSE
  BY <1>5, <1>t DEF PollBegin, PollEnd, Safe, PhaseInv
<1>6. ASSUME NEW th \in Threads, TakeResult(th) PROVE UntouchedInv'
  <2>1. ~Completing(Cur(th)) /\ UNCHANGED <<svc, svc_xfer, transfer_list>>
    BY <1>6 DEF TakeResult, MayLook
  <2>2. \A x : x # Cur(th) => state'[x] = state[x]
    <3>1. state' = [state EXCEPT ![Cur(th)] = "freed"]
      BY <1>6 DEF TakeResult
    <3> QED
      BY <3>1, <1>t
  <2>3. svc = "dequeue" => Head(transfer_list) # Cur(th)
    BY <2>1 DEF Completing
  <2>4. svc = "wake" => svc_xfer # Cur(th)
    BY <2>1 DEF Completing
  <2> QED
    BY <2>1, <2>2, <2>3, <2>4 DEF UntouchedInv
<1>7. CASE HwDesc \/ HwFinish \/ HwError \/ Isr
  BY <1>2, <1>7 DEF HwDesc, HwFinish, HwError, Isr
<1>8. CASE WorkBegin \/ ServiceStatus \/ ServiceShutdown \/ ServiceWake \/ ServiceResume \/ WorkEnd
  <2>1. svc' \notin {"dequeue", "wake", "oops"}
    BY <1>8 DEF WorkBegin, ServiceStatus, ServiceShutdown, ServiceWake, ServiceResume, WorkEnd
  <2> QED
    BY <2>1, <1>1
<1>9. CASE ServiceList
  <2>1. svc' = "final"
    BY <1>9, <1>t, NothingToSkip DEF Safe
  <2> QED
    BY <2>1, <1>1
<1>10. CASE ServiceFinal
  <2> DEFINE h == Head(transfer_list)
  <2>1. transfer_list # <<>> /\ svc = "final" /\ Fresh /\ svc_count = hw_count /\ h = hw_xfer
    BY <1>10, <1>t DEF ServiceFinal, Safe, RunInv, Fresh
  <2>2. svc_count = desc_num[h] /\ svc_count \in Int /\ ~status.err
    BY <2>1, <1>t DEF StatusInv, Safe, TypeInv, TypeOK, SvcType
  <2>3. ~HalfWay(h)
    BY <2>2 DEF HalfWay
  <2>4. svc' = "dequeue" /\ SetState(h, "COMPLETED") /\ transfer_list' = transfer_list
    BY <1>10, <2>2, <2>3 DEF ServiceFinal
  <2>5. state[h] = "SUBMITTED" /\ h \in Xfers
    BY <1>t, <2>1 DEF SubmittedInv
  <2> HIDE DEF h
  <2>6. state'[h] = "COMPLETED"
    BY <1>t, <2>4, <2>5 DEF SetState
  <2> QED
    BY <2>4, <2>6 DEF UntouchedInv, h
<1>11. CASE ServiceDequeue
  <2>1. svc = "dequeue" /\ svc' = "wake" /\ svc_xfer' = Head(transfer_list) /\ state' = state
    BY <1>11 DEF ServiceDequeue
  <2> QED
    BY <2>1 DEF UntouchedInv
<1>12. ASSUME Oops PROVE FALSE
  <2>1. state[Touched] = "freed" /\ Touched # NoXfer
    BY <1>12 DEF Oops, UsesFreed
  <2>2. CASE svc \in {"list", "final"} /\ transfer_list # <<>>
    <3>1. Touched = Head(transfer_list)
      BY <2>2 DEF Touched
    <3>2. state[Head(transfer_list)] = "SUBMITTED"
      BY <2>2, <1>t DEF SubmittedInv
    <3> QED
      BY <2>1, <3>1, <3>2
  <2>3. CASE svc = "dequeue" /\ transfer_list # <<>>
    BY <2>1, <2>3 DEF Touched, UntouchedInv
  <2>4. CASE svc = "wake"
    BY <2>1, <2>4 DEF Touched, UntouchedInv
  <2>5. svc # "list_wake"
    BY <1>t DEF Safe, PhaseInv
  <2> QED
    BY <2>1, <2>2, <2>3, <2>4, <2>5 DEF Touched
<1>13. CASE UNCHANGED vars
  BY <1>2, <1>13 DEF vars
<1> QED
  BY <1>3, <1>4, <1>5, <1>6, <1>7, <1>8, <1>9, <1>10, <1>11, <1>12, <1>13
     DEF Next, ThreadStep, engine_service

LEMMA UntouchedAlways ==
  ASSUME ~PollMode, HwErrors = 0, CloseWindow PROVE Spec => [](Orderly /\ UntouchedInv)
<1>1. Init => UntouchedInv
  BY DEF Init, UntouchedInv
<1>2. Orderly /\ UntouchedInv /\ [Next]_vars => UntouchedInv'
  BY UntouchedNext
<1> QED
  BY <1>1, <1>2, OrderlyAlways, PTL DEF Spec

\* What is queued and no longer SUBMITTED is being completed.
LEMMA StillSubmitted ==
  ASSUME Orderly, HwErrors = 0, UntouchedInv, NEW t, ~Completing(t), state[t] # "SUBMITTED"
  PROVE  \A i \in 1 .. Len(transfer_list) : transfer_list[i] # t
<1>1. transfer_list \in Seq(Xfers) /\ SubmittedInv
  BY DEF Orderly, NoErrorInv, Safe, TypeInv, TypeOK, EngineType, HwType
<1> SUFFICES ASSUME NEW i \in 1 .. Len(transfer_list), transfer_list[i] = t PROVE FALSE
  OBVIOUS
<1>2. i = 1 /\ svc = "dequeue"
  BY <1>1 DEF SubmittedInv, UntouchedInv
<1>3. Head(transfer_list) = t
  BY <1>1, <1>2
<1> QED
  BY <1>2, <1>3 DEF Completing

LEMMA LeftNext ==
  ASSUME ~PollMode, HwErrors = 0, CloseWindow, ~Signals, Orderly, UntouchedInv, LeftInv, [Next]_vars
  PROVE  LeftInv'
<1> USE EngineAssumption DEF xferVars, engineVars, svcVars, hwVars, irqVars, threadVars
<1>t. /\ Safe /\ transfer_list \in Seq(Xfers) /\ DOMAIN pc = Threads
  BY DEF Orderly, Safe, TypeInv, TypeOK, EngineType, ThreadType
<1>1. ASSUME UNCHANGED <<transfer_list, created>>,
             \A u \in Threads : pc'[u] = "check" => pc[u] = "check"
      PROVE  LeftInv'
  BY <1>1 DEF LeftInv, Cur
<1>2. ASSUME NEW th \in Threads, NEW nd \in 1 .. MaxDesc, transfer_queue(th, nd) PROVE LeftInv'
  <2> DEFINE t == NewXfer(th)
  <2>1. /\ transfer_list' = Append(transfer_list, t)
        /\ \A u \in Threads : u # th => Cur(u)' = Cur(u) /\ Cur(u) # t
    BY <1>2, <1>t, Created DEF Safe
  <2>2. pc'[th] = "wait" /\ \A u \in Threads : u # th => pc'[u] = pc[u]
    BY <1>2, <1>t DEF transfer_queue
  <2> HIDE DEF t
  <2> SUFFICES ASSUME NEW u \in Threads, pc'[u] = "check", NEW i \in 1 .. Len(transfer_list')
               PROVE  transfer_list'[i] # Cur(u)'
    BY DEF LeftInv
  <2>3. u # th /\ pc[u] = "check" /\ Cur(u)' = Cur(u) /\ Cur(u) # t
    BY <2>1, <2>2
  <2>4. transfer_list'[i] = t \/ \E j \in 1 .. Len(transfer_list) : transfer_list'[i] = transfer_list[j]
    BY <1>t, <2>1
  <2> QED
    BY <2>3, <2>4 DEF LeftInv
<1>3. ASSUME NEW th \in Threads,
             \/ StartRequest(th) \/ CreateFails(th) \/ TakeResult(th)
             \/ LeaveInFlight(th) \/ ReadStatus(th) \/ StoreStatus(th)
             \/ PollHit(th) \/ PollTimeout(th)
      PROVE  LeftInv'
  <2>1. UNCHANGED <<transfer_list, created>>
    BY <1>3 DEF StartRequest, CreateFails, TakeResult, LeaveInFlight, ReadStatus, StoreStatus, PollHit,
                PollTimeout, ChunkDone, RequestFails
  <2>2. pc'[th] # "check" /\ \A u \in Threads : u # th => pc'[u] = pc[u]
    BY <1>3, <1>t DEF StartRequest, CreateFails, TakeResult, LeaveInFlight, ReadStatus, StoreStatus, PollHit,
                      PollTimeout, ChunkDone, RequestFails
  <2> QED
    BY <2>1, <2>2, <1>1
<1>4. ASSUME NEW th \in Threads, PollBegin(th) \/ PollEnd(th) \/ Interrupted(th) PROVE FALSE
  BY <1>4, <1>t DEF PollBegin, PollEnd, Interrupted, Safe, PhaseInv
<1>5. ASSUME NEW th \in Threads, EnterWait(th) PROVE LeftInv'
  <2>1. /\ UNCHANGED <<transfer_list, created>> /\ ~Completing(Cur(th))
        /\ \A u \in Threads : u # th => pc'[u] = pc[u]
        /\ pc'[th] = "check" => state[Cur(th)] # "SUBMITTED"
    BY <1>5, <1>t DEF EnterWait, MayLook, WaitOver
  <2>2. Cur(th)' = Cur(th) /\ \A u \in Threads : Cur(u)' = Cur(u)
    BY <2>1 DEF Cur
  <2>3. pc'[th] = "check" => \A i \in 1 .. Len(transfer_list) : transfer_list[i] # Cur(th)
    BY <2>1, StillSubmitted
  <2> QED
    BY <2>1, <2>2, <2>3 DEF LeftInv
<1>6. CASE \/ HwDesc \/ HwFinish \/ HwError \/ Isr \/ WorkBegin \/ ServiceStatus
           \/ ServiceShutdown \/ ServiceFinal \/ ServiceResume \/ WorkEnd \/ Oops
  BY <1>1, <1>6 DEF HwDesc, HwFinish, HwError, Isr, WorkBegin, ServiceStatus, ServiceShutdown, ServiceFinal,
                    ServiceResume, WorkEnd, Oops
<1>7. CASE ServiceList
  <2>1. transfer_list' = transfer_list
    BY <1>7, <1>t, NothingToSkip DEF Safe
  <2> QED
    BY <1>1, <1>7, <2>1 DEF ServiceList
<1>8. CASE ServiceWake
  BY <1>1, <1>8, <1>t DEF ServiceWake, wake_up
<1>9. CASE ServiceDequeue
  <2>1. transfer_list # <<>> /\ transfer_list' = Tail(transfer_list) /\ UNCHANGED <<pc, created>>
    BY <1>9, <1>t DEF ServiceDequeue, list_del, Safe, TypeInv, SvcInv
  <2>2. \A i \in 1 .. Len(transfer_list') :
          i + 1 \in 1 .. Len(transfer_list) /\ transfer_list'[i] = transfer_list[i + 1]
    BY <1>t, <2>1
  <2> QED
    BY <2>1, <2>2 DEF LeftInv, Cur
<1>10. CASE UNCHANGED vars
  BY <1>1, <1>10 DEF vars
<1> QED
  BY <1>2, <1>3, <1>4, <1>5, <1>6, <1>7, <1>8, <1>9, <1>10 DEF Next, ThreadStep, engine_service

\* Of a hardware without errors only what is queued is executed.
LEMMA NotExecuting ==
  ASSUME Orderly, HwErrors = 0, NEW th \in Threads,
         \A i \in 1 .. Len(transfer_list) : transfer_list[i] # Cur(th)
  PROVE  ~Executing(Cur(th))
<1> DEFINE t == Cur(th)
<1> SUFFICES ASSUME Executing(t) PROVE FALSE
  OBVIOUS
<1>0. hw_busy /\ hw_xfer = t
  <2>1. t # NoXfer
    BY EngineAssumption DEF Cur, NoXfer
  <2> QED
    BY <2>1 DEF Executing, NoLeft, Orderly, Safe, PhaseInv
<1> HIDE DEF t
<1>1. transfer_list # <<>> /\ Head(transfer_list) = t
  BY <1>0, RunsSubmitted
<1>2. 1 \in 1 .. Len(transfer_list) /\ transfer_list[1] = t
  BY <1>1 DEF Orderly, Safe, TypeInv, TypeOK, EngineType
<1> QED
  BY <1>2 DEF t

\* Were a thread kept out of that window, engine_service would never touch a
\* transfer that transfer_destroy has freed, with signals or without.
THEOREM NeverOops ==
  ASSUME ~PollMode, HwErrors = 0, CloseWindow PROVE Spec => [](svc # "oops")
<1>1. UntouchedInv => svc # "oops"
  BY DEF UntouchedInv
<1> QED
  BY <1>1, UntouchedAlways, PTL

\* transfer_data destroys its transfer when the engine has no use for it any more.
DestroysWhatIsFree ==
  \A th \in Threads : TakeResult(th) =>
    /\ \A i \in 1 .. Len(transfer_list) : transfer_list[i] # Cur(th)
    /\ ~Executing(Cur(th))

\* Nor would a thread of transfer_data destroy a transfer that is still queued or
\* being executed, also one whose wait a signal has cut short.
THEOREM OthersAreTakenOff ==
  ASSUME ~PollMode, HwErrors = 0, CloseWindow PROVE Spec => [][DestroysWhatIsFree]_vars
<1>1. ASSUME Orderly, UntouchedInv PROVE DestroysWhatIsFree
  <2> SUFFICES ASSUME NEW th \in Threads, TakeResult(th)
               PROVE  /\ \A i \in 1 .. Len(transfer_list) : transfer_list[i] # Cur(th)
                      /\ ~Executing(Cur(th))
    BY DEF DestroysWhatIsFree
  <2>1. state[Cur(th)] # "SUBMITTED" /\ ~Completing(Cur(th))
    BY DEF TakeResult, MayLook
  <2>2. \A i \in 1 .. Len(transfer_list) : transfer_list[i] # Cur(th)
    BY <1>1, <2>1, StillSubmitted
  <2> QED
    BY <1>1, <2>2, NotExecuting
<1>2. Orderly /\ UntouchedInv => [DestroysWhatIsFree]_vars
  BY <1>1
<1> QED
  BY <1>2, UntouchedAlways, PTL

\* And what the comment in transfer_data says of the engine would be so, signals
\* aside: the window is all that it takes to make it false.
THEOREM TakenOffButForTheWindow ==
  ASSUME ~PollMode, HwErrors = 0, CloseWindow, ~Signals PROVE Spec => []TakenOffTheEngine
<1>1. Init => LeftInv
  BY DEF Init, LeftInv
<1>2. Orderly /\ UntouchedInv /\ LeftInv /\ [Next]_vars => LeftInv'
  BY LeftNext
<1>3. Orderly /\ LeftInv => TakenOffTheEngine
  BY NotExecuting DEF LeftInv, TakenOffTheEngine
<1> QED
  BY <1>1, <1>2, <1>3, UntouchedAlways, PTL DEF Spec
-------------------------------------------------------------------------------
\* What a transfer looks like to the threads changes only with its state, or
\* when it is executed.
LEMMA SamePhases ==
  ASSUME desc_num' = desc_num,
         \A x \in Xfers :
           \/ state'[x] = state[x] /\ (state[x] = "SUBMITTED" => (moved'[x] = desc_num[x] <=> moved[x] = desc_num[x]))
           \/ {state[x], state'[x]} \cap {"unallocated", "SUBMITTED"} = {}
  PROVE  Phases' = Phases
<1>1. \A x \in Xfers : Phase(x)' = Phase(x)
  BY DEF Phase
<1> QED
  BY <1>1 DEF Phases

LEMMA SubmitStep ==
  ASSUME ~PollMode, HwErrors = 0, Orderly, [Next]_vars,
         NEW th \in Threads, NEW nd \in 1 .. MaxDesc, transfer_queue(th, nd)
  PROVE  Fifo!Submit(NewXfer(th))
<1>0. PICK t \in Xfers : t = NewXfer(th)
  BY Created DEF Orderly, Safe
<1>1. /\ t \in Xfers
      /\ \A i \in 1 .. Len(transfer_list) : transfer_list[i] # t
      /\ desc_num' = [desc_num EXCEPT ![t] = nd]
      /\ state' = [state EXCEPT ![t] = "SUBMITTED"]
      /\ \A x : x # t => desc_num'[x] = desc_num[x] /\ state'[x] = state[x]
      /\ transfer_list' = Append(transfer_list, t)
  BY <1>0, Created DEF Orderly, Safe
<1>2. svc = "idle" /\ hw_errors = 0
  BY EngineAssumption DEF transfer_queue, Orderly, Safe, TypeInv, TypeOK, HwType, LockInv
<1>3. StatusInv /\ SubmittedInv /\ MovedInv
  BY <1>2 DEF Orderly, NoErrorInv
<1>t. /\ transfer_list \in Seq(Xfers)
      /\ transfer_list # <<>> => 1 \in 1 .. Len(transfer_list) /\ Head(transfer_list) = transfer_list[1]
      /\ DOMAIN state = Xfers /\ DOMAIN desc_num = Xfers /\ DOMAIN moved = Xfers
  BY DEF Orderly, Safe, TypeInv, TypeOK, EngineType, XferType
<1>4. state[t] = "unallocated"
  <2>1. t[1] = th /\ t[2] = created[th] + 1 /\ created[th] \in Nat
    BY <1>0 DEF NewXfer, Orderly, Safe, TypeInv, TypeOK, ThreadType
  <2> QED
    BY <1>1, <2>1 DEF Orderly, AllocInv
<1>5. \A x \in Xfers : x # t => moved'[x] = moved[x]
  <2>1. CASE running
    BY <2>1 DEF transfer_queue
  <2>2. CASE ~running
    <3>1. transfer_list = <<>>
      BY <1>2, <2>2 DEF Orderly, IdleInv, Closing
    <3>2. Head(transfer_list') = t
      BY <1>1, <3>1
    <3>3. moved' = [moved EXCEPT ![t] = 0]
      BY <1>0, <2>2, <3>2 DEF transfer_queue, engine_start, list_add_tail, NewXfer
    <3> QED
      BY <1>t, <3>3
  <2> QED
    BY <2>1, <2>2
<1>6. moved'[t] = 0
  <2>1. moved[t] = 0
    <3>1. hw_busy \/ hw_event # {} => transfer_list # <<>> /\ hw_xfer = Head(transfer_list)
      BY DEF Orderly, Safe, RunInv, Fresh
    <3> QED
      BY <1>1, <1>2, <1>3, <1>4, <1>t, <3>1 DEF MovedInv
  <2>2. moved' = moved \/ \E x : moved' = [moved EXCEPT ![x] = 0]
    BY DEF transfer_queue, engine_start
  <2> QED
    BY <1>1, <1>t, <2>1, <2>2
<1>7. state'[t] = "SUBMITTED" /\ desc_num'[t] = nd /\ nd # 0
  BY <1>1, <1>t
<1>8. Unreported = transfer_list /\ Unreported' = Append(transfer_list, t)
  <2>1. transfer_list # <<>> => state[Head(transfer_list)] = "SUBMITTED" /\ Head(transfer_list) # t
    BY <1>1, <1>2, <1>3, <1>t DEF SubmittedInv
  <2>2. Head(transfer_list') = IF transfer_list = <<>> THEN t ELSE Head(transfer_list)
    BY <1>1, <1>t
  <2>3. state'[Head(transfer_list')] = "SUBMITTED"
    BY <1>1, <1>7, <2>1, <2>2
  <2> QED
    BY <1>1, <2>1, <2>3 DEF Unreported
<1>9. Phase(t) = "new" /\ Phase(t)' = "queued"
  <2>1. Phase(t) = "new"
    BY <1>4 DEF Phase
  <2>2. state'[t] = "SUBMITTED" /\ moved'[t] # desc_num'[t]
    BY <1>6, <1>7
  <2> QED
    BY <2>1, <2>2 DEF Phase
<1>10. \A x \in Xfers : x # t => Phase(x)' = Phase(x)
  BY <1>1, <1>5 DEF Phase
<1> QED
  BY <1>0, <1>8, <1>9, <1>10 DEF Fifo!Submit, Phases

LEMMA ExecuteStep ==
  ASSUME ~PollMode, HwErrors = 0, Orderly, HwDesc
  PROVE  Fifo!Execute \/ UNCHANGED <<Unreported, Phases>>
<1> USE DEF HwDesc
<1>1. transfer_list # <<>> /\ Head(transfer_list) = hw_xfer /\ state[hw_xfer] = "SUBMITTED"
  BY RunsSubmitted
<1>2. /\ hw_xfer \in Xfers /\ hw_count \in Nat /\ desc_num[hw_xfer] \in Nat
      /\ hw_count < desc_num[hw_xfer] /\ moved[hw_xfer] = hw_count
      /\ DOMAIN moved = Xfers
  BY DEF Orderly, Safe, TypeInv, TypeOK, HwInv, Made, HwType, XferType, RunInv, Fresh
<1>3. Unreported = transfer_list /\ Unreported' = Unreported
  BY <1>1 DEF Unreported, engineVars
<1>4. /\ state' = state /\ desc_num' = desc_num
      /\ moved'[hw_xfer] = hw_count + 1 /\ \A x \in Xfers : x # hw_xfer => moved'[x] = moved[x]
  BY <1>2
<1>5. CASE hw_count + 1 < desc_num[hw_xfer]
  <2>1. Phases' = Phases
    BY <1>2, <1>4, <1>5, SamePhases
  <2> QED
    BY <1>3, <2>1
<1>6. CASE hw_count + 1 = desc_num[hw_xfer]
  <2>0. PICK h \in Xfers : h = hw_xfer
    BY <1>2
  <2>1. Phase(h) = "queued" /\ Phase(h)' = "executed"
    BY <1>1, <1>2, <1>4, <1>6, <2>0 DEF Phase
  <2>2. \A x \in Xfers : x # h => Phase(x)' = Phase(x)
    BY <1>4, <2>0 DEF Phase
  <2> QED
    BY <1>1, <1>3, <2>0, <2>1, <2>2 DEF Fifo!Execute, Phases
<1> QED
  BY <1>2, <1>5, <1>6

LEMMA ReportStep ==
  ASSUME ~PollMode, HwErrors = 0, Orderly, [Next]_vars, ServiceFinal
  PROVE  Fifo!Report
<1>1. hw_errors = 0 /\ svc = "final"
  BY EngineAssumption DEF ServiceFinal, Orderly, Safe, TypeInv, TypeOK, HwType
<1>2. StatusInv /\ SubmittedInv
  BY <1>1 DEF Orderly, NoErrorInv
<1>3. /\ transfer_list \in Seq(Xfers) /\ DOMAIN state = Xfers
      /\ transfer_list # <<>> /\ 1 \in 1 .. Len(transfer_list) /\ Head(transfer_list) = transfer_list[1]
      /\ Head(transfer_list) = hw_xfer /\ moved[hw_xfer] = hw_count /\ svc_count = hw_count
  BY <1>1 DEF Orderly, Safe, TypeInv, TypeOK, EngineType, XferType, RunInv, Fresh
<1>4. PICK h \in Xfers : h = Head(transfer_list)
  BY <1>3
<1>5. state[h] = "SUBMITTED" /\ hw_count = desc_num[h] /\ ~status.err
  BY <1>1, <1>2, <1>3, <1>4 DEF StatusInv, SubmittedInv
<1>6. ~HalfWay(h)
  BY <1>3, <1>5 DEF HalfWay, Orderly, Safe, TypeInv, TypeOK, SvcType
<1>7. /\ state' = [state EXCEPT ![h] = "COMPLETED"]
      /\ UNCHANGED <<transfer_list, desc_num, moved>>
  BY <1>3, <1>4, <1>5, <1>6 DEF ServiceFinal, SetState, engineVars
<1>8. Unreported = transfer_list /\ Unreported' = Tail(transfer_list)
  BY <1>3, <1>4, <1>5, <1>7 DEF Unreported
<1>9. Phase(h) = "executed" /\ Phase(h)' = "reported"
  BY <1>3, <1>4, <1>5, <1>7 DEF Phase
<1>10. \A x \in Xfers : x # h => Phase(x)' = Phase(x)
  BY <1>7 DEF Phase
<1> QED
  BY <1>3, <1>4, <1>8, <1>9, <1>10 DEF Fifo!Report, Phases

LEMMA FifoStep ==
  ASSUME ~PollMode, HwErrors = 0, Orderly, [Next]_vars
  PROVE  [Fifo!Next]_<<Unreported, Phases>>
<1> USE DEF xferVars, engineVars, svcVars, hwVars, irqVars, threadVars
<1>t. /\ transfer_list \in Seq(Xfers) /\ DOMAIN state = Xfers /\ DOMAIN moved = Xfers
      /\ transfer_list # <<>> => 1 \in 1 .. Len(transfer_list) /\ Head(transfer_list) = transfer_list[1]
                                 /\ Head(transfer_list) \in Xfers
  BY DEF Orderly, Safe, TypeInv, TypeOK, EngineType, XferType
<1>i. StatusInv /\ SubmittedInv /\ MovedInv
  BY EngineAssumption DEF Orderly, NoErrorInv, Safe, TypeInv, TypeOK, HwType
<1>0. ASSUME UNCHANGED <<state, desc_num, moved, transfer_list>>
      PROVE  UNCHANGED <<Unreported, Phases>>
  BY <1>0, SamePhases DEF Unreported
<1>1. ASSUME NEW th \in Threads, NEW nd \in 1 .. MaxDesc, transfer_queue(th, nd) PROVE Fifo!Next
  BY <1>1, SubmitStep, Created DEF Fifo!Next, Orderly, Safe
<1>2. ASSUME NEW th \in Threads,
             \/ StartRequest(th) \/ CreateFails(th) \/ EnterWait(th) \/ Interrupted(th)
             \/ LeaveInFlight(th) \/ ReadStatus(th) \/ StoreStatus(th)
             \/ PollHit(th) \/ PollTimeout(th) \/ PollBegin(th) \/ PollEnd(th)
      PROVE  UNCHANGED <<Unreported, Phases>>
  BY <1>0, <1>2 DEF StartRequest, CreateFails, EnterWait, Interrupted, LeaveInFlight, ReadStatus,
                    StoreStatus, PollHit, PollTimeout, PollBegin, PollEnd
<1>3. ASSUME NEW th \in Threads, TakeResult(th) PROVE UNCHANGED <<Unreported, Phases>>
  <2>1. Cur(th) \in Xfers /\ Cur(th)[1] = th /\ Cur(th)[2] = created[th] /\ created[th] \in Nat
    <3>1. Cur(th) \in Xfers
      BY <1>3, Typed DEF TakeResult, Orderly, Safe
    <3>2. created[th] \in Nat
      BY DEF Orderly, Safe, TypeInv, TypeOK, ThreadType
    <3> QED
      BY <3>1, <3>2 DEF Cur
  <2>2. state[Cur(th)] \notin {"unallocated", "SUBMITTED"}
    BY <1>3, <2>1 DEF TakeResult, Orderly, AllocInv
  <2>3. state' = [state EXCEPT ![Cur(th)] = "freed"] /\ UNCHANGED <<desc_num, moved, transfer_list>>
    BY <1>3 DEF TakeResult
  <2>4. \A x \in Xfers : state'[x] = state[x] \/ {state[x], state'[x]} \cap {"unallocated", "SUBMITTED"} = {}
    BY <1>t, <2>1, <2>2, <2>3
  <2>5. Phases' = Phases
    BY <2>3, <2>4, SamePhases
  <2>6. Unreported' = Unreported
    BY <1>t, <2>3, <2>4 DEF Unreported
  <2> QED
    BY <2>5, <2>6
<1>4. CASE HwDesc
  BY <1>4, ExecuteStep DEF Fifo!Next
<1>5. CASE ServiceFinal
  BY <1>5, ReportStep DEF Fifo!Next
<1>6. CASE \/ HwFinish \/ HwError \/ Isr \/ WorkBegin \/ ServiceStatus \/ ServiceShutdown
           \/ ServiceWake \/ WorkEnd \/ Oops
  BY <1>0, <1>6 DEF Orderly, Safe, PhaseInv, HwFinish, HwError, Isr, WorkBegin, ServiceStatus, ServiceShutdown, ServiceWake, WorkEnd, Oops
<1>7. CASE ServiceList
  <2>1. UNCHANGED <<state, transfer_list>>
    BY <1>7, NothingToSkip DEF Orderly, Safe
  <2> QED
    BY <1>0, <1>7, <2>1 DEF ServiceList
<1>8. CASE ServiceDequeue
  <2>1. /\ transfer_list' = Tail(transfer_list) /\ transfer_list # <<>> /\ svc = "dequeue"
        /\ UNCHANGED <<state, desc_num, moved>>
    BY <1>8 DEF ServiceDequeue, list_del, Orderly, Safe, TypeInv, SvcInv
  <2>2. Unreported = Tail(transfer_list)
    BY <1>i, <2>1 DEF SubmittedInv, Unreported
  <2>3. transfer_list' # <<>> => state[Head(transfer_list')] = "SUBMITTED"
    <3> SUFFICES ASSUME transfer_list' # <<>> PROVE state[Head(transfer_list')] = "SUBMITTED"
      OBVIOUS
    <3>1. 2 \in 1 .. Len(transfer_list) /\ Head(transfer_list') = transfer_list[2]
      BY <1>t, <2>1
    <3> QED
      BY <1>i, <2>1, <3>1 DEF SubmittedInv
  <2>4. Unreported' = Tail(transfer_list)
    BY <2>1, <2>3 DEF Unreported
  <2> QED
    BY <2>1, <2>2, <2>4, SamePhases
<1>9. CASE ServiceResume
  <2>1. \A x \in Xfers : state[x] = "SUBMITTED" => moved[x] = 0
    BY <1>9, <1>i DEF ServiceResume, MovedInv, Orderly, Safe, PhaseInv
  <2>2. UNCHANGED <<state, desc_num, transfer_list>>
        /\ \A x \in Xfers : moved[x] = 0 => moved'[x] = 0
    BY <1>9, <1>t DEF ServiceResume, engine_service_resume, engine_start
  <2> QED
    BY <2>1, <2>2, SamePhases DEF Unreported
<1>10. CASE UNCHANGED vars
  BY <1>0, <1>10 DEF vars
<1> QED
  BY <1>1, <1>2, <1>3, <1>4, <1>5, <1>6, <1>7, <1>8, <1>9, <1>10
     DEF Next, ThreadStep, engine_service

\* With interrupts and no hardware errors the engine is the FIFO server of
\* XdmaFifo: however threads, signals and the service interleave, each transfer
\* is executed once, in the order of transfer_queue, and reported after it was
\* executed and before the next one is.
THEOREM EngineIsFifo ==
  ASSUME ~PollMode, HwErrors = 0 PROVE Spec => Fifo!InOrder
<1>1. Init => Fifo!Init
  BY DEF Init, Fifo!Init, Unreported, Phases, Phase
<1>2. Orderly /\ [Next]_vars => [Fifo!Next]_<<Unreported, Phases>>
  BY FifoStep
<1> QED
  BY <1>1, <1>2, OrderlyAlways, PTL DEF Spec, Fifo!InOrder, Fifo!vars
===============================================================================
