--------------------------- MODULE XdmaCyclicProofs ---------------------------
(***************************************************************************)
(* The safety of opening and closing the channel, for any number of        *)
(* processes, of openings and of errors, in both modes.                    *)
(***************************************************************************)
EXTENDS XdmaCyclic, TLAPS

\* A process between its open() and the end of its close().
Owner(u) == pc[u] \notin {"idle", "oops"}

\* The channel has one owner, who has the transfer, the ring and the results;
\* only processes of the setup do anything.
OwnerInv ==
  /\ \A u, v \in Users : Owner(u) /\ Owner(v) => u = v
  /\ \A u \in Users : Owner(u) => rx_transfer_cyclic # NULL
  /\ \A u \in Users : pc[u] # "idle" => u \in setup.users

MemInv ==
  /\ rx_transfer_cyclic # NULL => rx_buffer /\ rx_result /\ rx_transfer_cyclic = opens
  /\ live = {rx_transfer_cyclic} \ {NULL}
  /\ (\A u \in Users : pc[u] = "idle") => ~rx_buffer /\ ~rx_result

\* The engine is marked running while its queue has a transfer.  One of an
\* earlier owner stays at the head, and keeps the present one from being taken.
QueueInv ==
  /\ running <=> transfer_list # <<>>
  /\ \A i \in 1 .. Len(transfer_list) : transfer_list[i] <= opens
  /\ transfer_list # <<>> /\ Head(transfer_list) = rx_transfer_cyclic => Len(transfer_list) = 1
  /\ \A u \in Users : pc[u] = "queue" =>
       \A i \in 1 .. Len(transfer_list) : transfer_list[i] # rx_transfer_cyclic

\* Unless a signal cut a close() short, what is queued is the owner's, and he
\* neither has yet to queue it nor is about to free it.
RunInv ==
  /\ running => /\ transfer_list = <<rx_transfer_cyclic>> /\ rx_transfer_cyclic # NULL
                /\ \A u \in Users : pc[u] \notin {"queue", "free"}
  /\ hw_busy => running /\ hw_xfer = rx_transfer_cyclic
  /\ svc \notin {"bug", "oops"}

\* The service holds the lock.  A call that has returned does not, when one
\* process uses the channel.
LockInv ==
  /\ svc # "idle" => lock = Worker
  /\ \A u \in Users : pc[u] = "polling" => lock = u
  /\ LockReturnedAlone

\* Without errors an engine that has the owner's transfer at the head of its
\* queue is busy until the owner stops it.
StopInv ==
  setup.errors = 0 =>
    \A u \in Users : pc[u] \in {"open", "stop"} =>
      /\ transfer_list # <<>>
      /\ Head(transfer_list) = rx_transfer_cyclic => hw_busy /\ hw_run /\ (svc = "stop" => svc_busy)

Inv == TypeOK /\ OwnerInv /\ MemInv /\ QueueInv /\ (NotCutShort => RunInv) /\ LockInv /\ StopInv
-------------------------------------------------------------------------------
LEMMA InvInit == Init => Inv
<1> SUFFICES ASSUME Init PROVE Inv
  OBVIOUS
<1>1. setup \in Setup
  BY CyclicAssumption DEF Init
<1>2. TypeOK
  <2>1. transfer_list \in Seq(Xfers) /\ live \subseteq Xfers
    BY DEF Init
  <2>2. pc \in [Users -> UserPcs] /\ ret \in [Users -> Returns]
    BY DEF Init, UserPcs, Returns
  <2>3. {rx_buffer, rx_result, running, hw_busy, hw_run, hw_event} \subseteq BOOLEAN
    BY DEF Init
  <2>4. {svc_busy, irq_enabled, work_pending} \subseteq BOOLEAN
    BY <1>1 DEF Init, Setup
  <2>5. opens \in 0 .. MaxOpens /\ hw_errors \in 0 .. MaxErrors
    BY CyclicAssumption DEF Init
  <2> QED
    BY <2>1, <2>2, <2>3, <2>4, <2>5 DEF Init, TypeOK
<1>3. OwnerInv /\ MemInv /\ QueueInv /\ RunInv
  BY <1>1 DEF Init, OwnerInv, Owner, MemInv, QueueInv, RunInv, NULL
<1>4. LockInv /\ StopInv
  BY CyclicAssumption DEF Init, LockInv, LockReturnedAlone, LockReturned, StopInv
<1> QED
  BY <1>2, <1>3, <1>4 DEF Inv

\* What concerns only the caller and the lock, in a step that leaves the channel
\* and the engine alone.
LEMMA CallerOnly ==
  ASSUME Inv, NEW u \in setup.users, NEW to \in UserPcs,
         UNCHANGED <<setup, memVars, engineVars, hwVars, svc, svc_busy, irq_enabled, work_pending>>,
         pc' = [pc EXCEPT ![u] = to], ret' \in [Users -> Returns],
         Owner(u), to \notin {"idle", "queue", "open"},
         to = "free" => ~running \/ ~NotCutShort,
         to = "stop" => pc[u] = "open" /\ transfer_list # <<>>,
         IF to = "polling" THEN lock = Nobody /\ lock' = u ELSE pc[u] # "polling" /\ UNCHANGED lock
  PROVE  Inv'
<1>1. u \in Users /\ setup \in Setup
  BY CyclicAssumption DEF Inv, TypeOK, Setup
<1>2. pc'[u] = to /\ \A v \in Users \ {u} : pc'[v] = pc[v]
  BY <1>1 DEF Inv, TypeOK
<1>3. TypeOK'
  BY <1>1, <1>2 DEF Inv, TypeOK, memVars, engineVars, hwVars
<1>4. OwnerInv'
  BY <1>1, <1>2 DEF Inv, OwnerInv, Owner, memVars
<1>5. MemInv' /\ QueueInv'
  BY <1>1, <1>2 DEF Inv, MemInv, QueueInv, Owner, memVars, engineVars
<1>6. (NotCutShort => RunInv)'
  BY <1>1, <1>2 DEF Inv, RunInv, NotCutShort, memVars, engineVars, hwVars
<1>7. LockInv'
  BY <1>1, <1>2, CyclicAssumption DEF Inv, LockInv, LockReturnedAlone, LockReturned, Owner
<1>8. StopInv'
  BY <1>1, <1>2 DEF Inv, StopInv, memVars, engineVars, hwVars
<1> QED
  BY <1>3, <1>4, <1>5, <1>6, <1>7, <1>8 DEF Inv

\* The steps of open().
LEMMA OpenNext ==
  ASSUME Inv, NEW u \in setup.users, OpenStep(u) \/ OpenQueue(u)
  PROVE  Inv'
<1>1. u \in Users /\ setup \in Setup
  BY CyclicAssumption DEF Inv, TypeOK, Setup
<1>2. CASE OpenBusy(u) \/ OpenNoBuffer(u)
  <2>1. UNCHANGED <<setup, memVars, engineVars, hwVars, svc, svc_busy, irq_enabled, work_pending, pc>>
        /\ lock = Nobody /\ lock' = u /\ ret' \in [Users -> Returns]
    BY <1>1, <1>2 DEF OpenBusy, OpenNoBuffer, Inv, TypeOK, Returns
  <2>2. TypeOK'
    BY <1>1, <2>1 DEF Inv, TypeOK, memVars, engineVars, hwVars
  <2>3. OwnerInv' /\ MemInv' /\ QueueInv' /\ (NotCutShort => RunInv)' /\ StopInv'
    BY <2>1 DEF Inv, OwnerInv, Owner, MemInv, QueueInv, RunInv, NotCutShort, StopInv, memVars, engineVars, hwVars
  <2>4. LockReturnedAlone'
    <3>1. SUFFICES ASSUME setup.users = {u}, "rvmalloc" \notin setup.fails PROVE FALSE
      BY <1>1, <2>1 DEF LockReturnedAlone
    <3>2. \A v \in Users : pc[v] = "idle"
      BY <1>2, <3>1 DEF OpenBusy, OpenNoBuffer, Inv, OwnerInv
    <3> QED
      BY <1>2, <3>1, <3>2 DEF OpenBusy, OpenNoBuffer, Inv, MemInv
  <2>5. LockInv'
    BY <1>1, <2>1, <2>4, CyclicAssumption DEF Inv, LockInv
  <2> QED
    BY <2>2, <2>3, <2>5 DEF Inv
<1>3. CASE OpenNoTransfer(u)
  <2>1. rx_transfer_cyclic = NULL /\ ~\E v \in Users : Owner(v)
    BY <1>3 DEF OpenNoTransfer, Inv, MemInv, OwnerInv
  <2>2. pc'[u] = "oops" /\ \A v \in Users \ {u} : pc'[v] = pc[v]
    BY <1>1, <1>3 DEF OpenNoTransfer, Inv, TypeOK
  <2>3. TypeOK'
    BY <1>1, <1>3 DEF OpenNoTransfer, Inv, TypeOK, UserPcs, engineVars, hwVars
  <2>4. OwnerInv' /\ MemInv' /\ QueueInv' /\ (NotCutShort => RunInv)' /\ StopInv'
    BY <1>1, <1>3, <2>1, <2>2 DEF OpenNoTransfer, Inv, OwnerInv, Owner, MemInv, QueueInv, RunInv,
       NotCutShort, StopInv, engineVars, hwVars
  <2>5. LockInv'
    BY <1>1, <1>3, <2>2, CyclicAssumption DEF OpenNoTransfer, Inv, LockInv, LockReturnedAlone, LockReturned
  <2> QED
    BY <2>3, <2>4, <2>5 DEF Inv
<1>4. CASE OpenNoResult(u)
  <2>1. rx_transfer_cyclic = NULL
    BY <1>4 DEF OpenNoResult, Inv, MemInv
  <2>2. UNCHANGED <<setup, memVars, engineVars, hwVars, svcVars, pc>>
    BY <1>4, <2>1 DEF OpenNoResult, memVars
  <2>3. TypeOK'
    BY <1>1, <1>4, <2>2 DEF OpenNoResult, Inv, TypeOK, Returns, memVars, engineVars, hwVars, svcVars
  <2>4. OwnerInv' /\ MemInv' /\ QueueInv' /\ (NotCutShort => RunInv)' /\ LockInv' /\ StopInv'
    BY <2>2 DEF Inv, OwnerInv, Owner, MemInv, QueueInv, RunInv, NotCutShort, LockInv, LockReturnedAlone,
       LockReturned, StopInv, memVars, engineVars, hwVars, svcVars
  <2> QED
    BY <2>3, <2>4 DEF Inv
<1>5. CASE OpenSetup(u)
  <2>1. rx_transfer_cyclic = NULL /\ ~\E v \in Users : Owner(v)
    BY <1>5 DEF OpenSetup, Inv, MemInv, OwnerInv
  <2>2. pc'[u] = "queue" /\ \A v \in Users \ {u} : pc'[v] = pc[v]
    BY <1>1, <1>5 DEF OpenSetup, Inv, TypeOK
  <2>3. opens' = opens + 1 /\ opens' \in Xfers /\ rx_transfer_cyclic' = opens' /\ opens' # NULL
    BY <1>5, CyclicAssumption DEF OpenSetup, transfer_create, Inv, TypeOK, Xfers, NULL
  <2>4. TypeOK'
    BY <1>1, <1>5, <2>3 DEF OpenSetup, Inv, TypeOK, UserPcs, Xfers, engineVars, hwVars, svcVars
  <2>5. OwnerInv' /\ MemInv'
    BY <1>1, <1>5, <2>1, <2>2, <2>3 DEF OpenSetup, Inv, OwnerInv, Owner, MemInv
  <2>6. \A i \in 1 .. Len(transfer_list) : transfer_list'[i] < opens'
    <3>1. SUFFICES ASSUME NEW i \in 1 .. Len(transfer_list) PROVE transfer_list[i] < opens + 1
      BY <1>5, <2>3 DEF OpenSetup, engineVars
    <3>2. transfer_list[i] \in Xfers /\ transfer_list[i] <= opens /\ opens \in Nat
      BY CyclicAssumption DEF Inv, TypeOK, QueueInv
    <3> QED
      BY <3>2, CyclicAssumption DEF Xfers
  <2>7. QueueInv'
    <3>1. UNCHANGED <<transfer_list, running>> /\ transfer_list \in Seq(Xfers) /\ opens \in Nat
      BY <1>5, CyclicAssumption DEF OpenSetup, engineVars, Inv, TypeOK
    <3>2. \A i \in 1 .. Len(transfer_list) : transfer_list[i] # opens' /\ transfer_list[i] <= opens'
      BY <2>3, <2>6, <3>1, CyclicAssumption DEF Xfers
    <3>3. transfer_list # <<>> => Head(transfer_list) # opens'
      BY <3>1, <3>2
    <3> QED
      BY <2>3, <3>1, <3>2, <3>3 DEF Inv, QueueInv
  <2>8. (NotCutShort => RunInv)' /\ StopInv'
    BY <1>1, <1>5, <2>1, <2>2 DEF OpenSetup, Inv, OwnerInv, Owner, RunInv, NotCutShort, StopInv,
       engineVars, hwVars, svcVars
  <2>9. LockInv'
    BY <1>1, <1>5, <2>2, CyclicAssumption DEF OpenSetup, Inv, LockInv, LockReturnedAlone, LockReturned, svcVars
  <2> QED
    BY <2>4, <2>5, <2>7, <2>8, <2>9 DEF Inv
<1>6. CASE OpenQueue(u)
  <2>1. rx_transfer_cyclic \in Xfers /\ rx_transfer_cyclic # NULL /\ rx_transfer_cyclic = opens
    BY <1>1, <1>6 DEF OpenQueue, Inv, OwnerInv, Owner, MemInv, TypeOK
  <2>2. pc'[u] = "open" /\ \A v \in Users \ {u} : pc'[v] = pc[v] /\ ~Owner(v)
    BY <1>1, <1>6 DEF OpenQueue, Inv, TypeOK, OwnerInv, Owner
  <2>3. /\ transfer_list' \in Seq(Xfers) /\ transfer_list' # <<>> /\ running'
        /\ transfer_list # <<>> => Head(transfer_list') = Head(transfer_list)
                                   /\ Head(transfer_list) # rx_transfer_cyclic
        /\ transfer_list = <<>> => transfer_list' = <<rx_transfer_cyclic>>
        /\ \A i \in 1 .. Len(transfer_list') : transfer_list'[i] <= opens
    <3>1. transfer_list' = Append(transfer_list, rx_transfer_cyclic) /\ transfer_list \in Seq(Xfers)
      BY <1>6 DEF OpenQueue, Inv, TypeOK
    <3>2. running'
      BY <1>6 DEF OpenQueue
    <3>3. opens <= opens /\ \A i \in 1 .. Len(transfer_list) : transfer_list[i] <= opens
                                                            /\ transfer_list[i] # rx_transfer_cyclic
      BY <1>1, <1>6, CyclicAssumption DEF OpenQueue, Inv, QueueInv, TypeOK
    <3>4. /\ transfer_list' \in Seq(Xfers) /\ transfer_list' # <<>>
          /\ transfer_list # <<>> => Head(transfer_list') = Head(transfer_list)
          /\ transfer_list = <<>> => transfer_list' = <<rx_transfer_cyclic>>
      <4>1. transfer_list' \in Seq(Xfers) /\ transfer_list' # <<>>
        BY <2>1, <3>1
      <4>2. transfer_list # <<>> => Head(transfer_list') = Head(transfer_list)
        BY <2>1, <3>1
      <4>3. transfer_list = <<>> => transfer_list' = <<rx_transfer_cyclic>>
        BY <3>1, <2>1
      <4> QED
        BY <4>1, <4>2, <4>3
    <3>5. transfer_list # <<>> => Head(transfer_list) # rx_transfer_cyclic
      BY <3>1, <3>3
    <3>6. \A i \in 1 .. Len(transfer_list') : transfer_list'[i] <= opens
      <4>1. SUFFICES ASSUME NEW i \in 1 .. Len(transfer_list) + 1 PROVE transfer_list'[i] <= opens
        BY <3>1, <2>1
      <4>2. CASE i = Len(transfer_list) + 1
        BY <2>1, <3>1, <3>3, <4>2
      <4>3. CASE i \in 1 .. Len(transfer_list)
        BY <3>1, <3>3, <4>3
      <4> QED
        BY <3>1, <4>2, <4>3
    <3> QED
      BY <3>2, <3>4, <3>5, <3>6
  <2>4. TypeOK'
    <3>1. hw_xfer' \in Xfers \cup {NULL} /\ {running', hw_busy', hw_run'} \subseteq BOOLEAN
      <4>1. Head(transfer_list') \in Xfers
        BY <2>3
      <4> QED
        BY <1>6, <2>3, <4>1 DEF OpenQueue, Inv, TypeOK
    <3>2. pc' \in [Users -> UserPcs] /\ ret' \in [Users -> Returns]
      BY <1>1, <1>6 DEF OpenQueue, Inv, TypeOK, UserPcs, Returns
    <3> QED
      BY <1>6, <2>3, <3>1, <3>2 DEF OpenQueue, Inv, TypeOK, memVars, svcVars
  <2>5. OwnerInv' /\ MemInv' /\ QueueInv'
    BY <1>1, <1>6, <2>1, <2>2, <2>3 DEF OpenQueue, Inv, OwnerInv, Owner, MemInv, QueueInv, memVars
  <2>6. (NotCutShort => RunInv)'
    <3>1. SUFFICES ASSUME NotCutShort PROVE RunInv'
      BY <1>6 DEF OpenQueue, NotCutShort
    <3>2. ~running /\ transfer_list = <<>> /\ ~hw_busy
      BY <1>1, <1>6, <3>1 DEF OpenQueue, Inv, RunInv, QueueInv
    <3>3. transfer_list' = <<rx_transfer_cyclic>> /\ hw_xfer' = rx_transfer_cyclic /\ running'
      BY <1>6, <2>3, <3>2 DEF OpenQueue
    <3>4. UNCHANGED <<rx_transfer_cyclic, svc>>
      BY <1>6 DEF OpenQueue, memVars, svcVars
    <3> QED
      BY <1>1, <2>1, <2>2, <3>1, <3>3, <3>4 DEF Inv, RunInv, Owner
  <2>7. LockInv'
    BY <1>1, <1>6, <2>2, CyclicAssumption DEF OpenQueue, Inv, LockInv, LockReturnedAlone, LockReturned, svcVars
  <2>8. svc # "stop"
    BY <1>6, CyclicAssumption DEF OpenQueue, Inv, LockInv
  <2>9. StopInv'
    BY <1>1, <1>6, <2>2, <2>3, <2>8 DEF OpenQueue, Inv, StopInv, QueueInv, Owner, memVars, svcVars
  <2> QED
    BY <2>4, <2>5, <2>6, <2>7, <2>9 DEF Inv
<1> QED
  BY <1>2, <1>3, <1>4, <1>5, <1>6 DEF OpenStep

\* The engine is shut down with the owner's transfer, or one that close() has
\* polled to its end.
LEMMA ShutdownEmpties ==
  ASSUME Inv, Shutdown, running, ~WrongTransfer
  PROVE  transfer_list' = <<>>
<1>1. transfer_list # <<>> /\ transfer_list \in Seq(Xfers) /\ Len(transfer_list) = 1
  BY DEF Inv, TypeOK, QueueInv, WrongTransfer
<1>2. transfer_list' = Tail(transfer_list)
  BY <1>1 DEF Shutdown, engine_transfer_dequeue
<1>3. Tail(transfer_list) \in Seq(Xfers) /\ Len(Tail(transfer_list)) = 0
  BY <1>1
<1> QED
  BY <1>2, <1>3

\* The steps of close().
LEMMA CloseNext ==
  ASSUME Inv, NEW u \in setup.users, CloseLook(u) \/ CloseStep(u) \/ CloseInterrupted(u)
  PROVE  Inv'
<1>1. u \in Users /\ setup \in Setup
  BY CyclicAssumption DEF Inv, TypeOK, Setup
<1>2. CASE CloseLook(u) \/ CloseSync(u) \/ CloseWait(u) \/ CloseInterrupted(u) \/ ClosePoll(u)
  <2>1. PICK to \in {"sync", "stop", "wait", "free", "asleep", "polling"} :
          /\ pc' = [pc EXCEPT ![u] = to]
          /\ to = "stop" => pc[u] = "open" /\ transfer_list # <<>>
          /\ to = "free" => ~running \/ ~NotCutShort
          /\ IF to = "polling" THEN lock = Nobody /\ lock' = u ELSE UNCHANGED lock
    BY <1>2 DEF CloseLook, CloseSync, CloseWait, CloseInterrupted, ClosePoll, GoToFree, Stopped,
       NotCutShort, svcVars
  <2>2. Owner(u) /\ pc[u] # "polling"
    BY <1>2 DEF CloseLook, CloseSync, CloseWait, CloseInterrupted, ClosePoll, Owner
  <2>3. ret' \in [Users -> Returns]
    BY <1>1, <1>2 DEF CloseLook, CloseSync, CloseWait, CloseInterrupted, ClosePoll, GoToFree,
       Inv, TypeOK, Returns
  <2>4. UNCHANGED <<setup, memVars, engineVars, hwVars, svc, svc_busy, irq_enabled, work_pending>>
    BY <1>2 DEF CloseLook, CloseSync, CloseWait, CloseInterrupted, ClosePoll, svcVars
  <2>5. to \in UserPcs /\ to \notin {"idle", "queue", "open"}
    BY DEF UserPcs
  <2> QED
    BY <2>1, <2>2, <2>3, <2>4, <2>5, CallerOnly
<1>3. CASE CloseStop(u)
  <2>1. PICK to \in {"sync", "oops"} : pc' = [pc EXCEPT ![u] = to]
    BY <1>3 DEF CloseStop
  <2>2. pc'[u] = to /\ \A v \in Users \ {u} : pc'[v] = pc[v] /\ ~Owner(v)
    BY <1>1, <1>3, <2>1 DEF CloseStop, Inv, TypeOK, OwnerInv, Owner
  <2>3. TypeOK'
    BY <1>1, <1>3, <2>1 DEF CloseStop, xdma_engine_stop, Inv, TypeOK, UserPcs, memVars, engineVars, svcVars
  <2>4. OwnerInv' /\ MemInv' /\ QueueInv' /\ (NotCutShort => RunInv)' /\ StopInv'
    BY <1>1, <1>3, <2>2 DEF CloseStop, Inv, OwnerInv, Owner, MemInv, QueueInv, RunInv, NotCutShort,
       StopInv, memVars, engineVars, svcVars
  <2>5. LockInv'
    BY <1>1, <1>3, <2>2, CyclicAssumption DEF CloseStop, Inv, LockInv, LockReturnedAlone, LockReturned, svcVars
  <2> QED
    BY <2>3, <2>4, <2>5 DEF Inv
<1>4. CASE ClosePolled(u)
  <2>1. PICK to \in {"free", "oops"} : pc' = [pc EXCEPT ![u] = to] /\ (to = "free" => lock' = Nobody)
                                       /\ (to = "oops" => UNCHANGED lock)
    BY <1>4 DEF ClosePolled, GoToFree
  <2>2. pc'[u] = to /\ \A v \in Users \ {u} : pc'[v] = pc[v] /\ ~Owner(v)
    BY <1>1, <1>4, <2>1 DEF ClosePolled, Inv, TypeOK, OwnerInv, Owner
  <2>3. \/ running /\ ~WrongTransfer /\ Shutdown
        \/ ~running /\ UNCHANGED <<engineVars, hw_busy, hw_run>>
        \/ running /\ WrongTransfer /\ to = "oops" /\ UNCHANGED <<engineVars, hw_busy, hw_run>>
    <3>1. CASE running /\ WrongTransfer
      <4>1. pc' = [pc EXCEPT ![u] = "oops"] /\ UNCHANGED <<engineVars, hw_busy, hw_run>>
        BY <1>4, <3>1 DEF ClosePolled, NotBusy
      <4> QED
        BY <1>1, <2>2, <3>1, <4>1 DEF Inv, TypeOK
    <3>2. CASE running /\ ~WrongTransfer
      BY <1>4, <3>2 DEF ClosePolled, NotBusy
    <3>3. CASE ~running
      BY <1>4, <3>3 DEF ClosePolled, NotBusy
    <3> QED
      BY <3>1, <3>2, <3>3
  <2>4. \/ UNCHANGED <<engineVars, hw_busy>>
        \/ running' = FALSE /\ hw_busy' = FALSE /\ transfer_list' = <<>>
    BY <2>3, ShutdownEmpties DEF Shutdown
  <2>5. TypeOK'
    <3>1. transfer_list' \in Seq(Xfers)
      <4>1. <<>> \in Seq(Xfers) /\ transfer_list \in Seq(Xfers)
        BY DEF Inv, TypeOK
      <4> QED
        BY <2>4, <4>1 DEF engineVars
    <3>2. {running', hw_busy', hw_run'} \subseteq BOOLEAN
      BY <2>3 DEF Inv, TypeOK, engineVars, Shutdown
    <3>3. pc' \in [Users -> UserPcs] /\ ret' \in [Users -> Returns]
      BY <1>1, <1>4, <2>1 DEF ClosePolled, GoToFree, Inv, TypeOK, UserPcs, Returns
    <3> QED
      BY <1>1, <1>4, <2>1, <3>1, <3>2, <3>3 DEF ClosePolled, Inv, TypeOK, memVars
  <2>6. OwnerInv' /\ MemInv'
    BY <1>1, <1>4, <2>2 DEF ClosePolled, Inv, OwnerInv, Owner, MemInv, memVars
  <2>7. QueueInv'
    BY <1>1, <1>4, <2>2, <2>4 DEF ClosePolled, Inv, QueueInv, memVars, engineVars
  <2>8. (NotCutShort => RunInv)'
    BY <1>1, <1>4, <2>2, <2>3, <2>4 DEF ClosePolled, Inv, RunInv, NotCutShort, WrongTransfer, memVars, engineVars, Shutdown
  <2>9. LockInv'
    BY <1>1, <1>4, <2>1, <2>2, CyclicAssumption DEF ClosePolled, Inv, LockInv, LockReturnedAlone, LockReturned, Owner
  <2>10. StopInv'
    BY <1>1, <1>4, <2>2, <2>4 DEF ClosePolled, StopInv, Owner
  <2> QED
    BY <2>5, <2>6, <2>7, <2>8, <2>9, <2>10 DEF Inv
<1>5. CASE CloseFree(u)
  <2>1. pc'[u] = "idle" /\ \A v \in Users \ {u} : pc'[v] = pc[v] /\ ~Owner(v)
    BY <1>1, <1>5 DEF CloseFree, Inv, TypeOK, OwnerInv, Owner
  <2>2. TypeOK'
    BY <1>1, <1>5 DEF CloseFree, Inv, TypeOK, UserPcs, engineVars, hwVars, svcVars
  <2>3. OwnerInv' /\ MemInv'
    BY <1>1, <1>5, <2>1 DEF CloseFree, Inv, OwnerInv, Owner, MemInv, NULL
  <2>4. QueueInv'
    <3>1. transfer_list # <<>> => Head(transfer_list) # NULL
      <4>1. transfer_list \in Seq(Xfers)
        BY DEF Inv, TypeOK
      <4>2. transfer_list # <<>> => Head(transfer_list) \in Xfers
        BY <4>1
      <4> QED
        BY <4>2, CyclicAssumption DEF Xfers, NULL
    <3> QED
      BY <1>1, <1>5, <2>1, <3>1 DEF CloseFree, Inv, QueueInv, Owner, engineVars
  <2>5. (NotCutShort => RunInv)' /\ StopInv'
    BY <1>1, <1>5, <2>1 DEF CloseFree, Inv, RunInv, StopInv, NotCutShort, Owner, engineVars, hwVars, svcVars
  <2>6. LockInv'
    BY <1>1, <1>5, <2>1, CyclicAssumption DEF CloseFree, Inv, LockInv, LockReturnedAlone, LockReturned, svcVars
  <2> QED
    BY <2>2, <2>3, <2>4, <2>5, <2>6 DEF Inv
<1> QED
  BY <1>2, <1>3, <1>4, <1>5 DEF CloseStep

\* The hardware, its interrupt, and the steps of the work item that change
\* neither the queue nor the engine.
LEMMA QuietNext ==
  ASSUME Inv, HwPage \/ HwStops \/ HwError \/ Isr \/ WorkBegin \/ ServiceStatus \/ WorkEnd
  PROVE  Inv'
<1> USE DEF memVars, engineVars, hwVars, svcVars, userVars
<1>1. CASE HwPage \/ HwStops \/ HwError
  <2>1. TypeOK'
    <3>1. setup.errors \in 0 .. MaxErrors
      BY CyclicAssumption DEF Inv, TypeOK, Setup
    <3>2. hw_errors' \in 0 .. MaxErrors
      BY <1>1, <3>1, CyclicAssumption DEF HwPage, HwStops, HwError, Inv, TypeOK
    <3>3. hw_busy' \in BOOLEAN /\ hw_event' \in BOOLEAN
      BY <1>1 DEF HwPage, HwStops, HwError, Inv, TypeOK
    <3>4. /\ UNCHANGED <<setup, memVars, engineVars, hw_run, hw_xfer, svcVars, userVars>>
      BY <1>1 DEF HwPage, HwStops, HwError
    <3> QED
      BY <3>2, <3>3, <3>4 DEF Inv, TypeOK
  <2>2. OwnerInv' /\ MemInv' /\ QueueInv' /\ (NotCutShort => RunInv)'
    BY <1>1 DEF HwPage, HwStops, HwError, Inv, OwnerInv, Owner, MemInv, QueueInv, RunInv, NotCutShort
  <2>3. LockInv'
    BY <1>1 DEF HwPage, HwStops, HwError, Inv, LockInv, LockReturnedAlone, LockReturned
  <2>4. StopInv'
    <3>1. CASE HwPage
      BY <3>1 DEF HwPage, Inv, StopInv
    <3>2. CASE HwStops
      <4>1. /\ ~hw_run
            /\ UNCHANGED <<setup, transfer_list, rx_transfer_cyclic, pc>>
        BY <3>2 DEF HwStops
      <4>2. setup.errors = 0 =>
              \A u \in Users : pc[u] \in {"open", "stop"} =>
                transfer_list # <<>> /\ Head(transfer_list) # rx_transfer_cyclic
        BY <4>1 DEF Inv, StopInv
      <4> QED
        BY <4>1, <4>2 DEF StopInv
    <3>3. CASE HwError
      <4>1. hw_errors \in Nat /\ hw_errors < setup.errors /\ setup' = setup
        BY <3>3, CyclicAssumption DEF HwError, Inv, TypeOK
      <4>2. setup'.errors # 0
        BY <4>1
      <4> QED
        BY <4>2 DEF StopInv
    <3> QED
      BY <1>1, <3>1, <3>2, <3>3
  <2> QED
    BY <2>1, <2>2, <2>3, <2>4 DEF Inv
<1>2. CASE Isr
  <2>1. TypeOK' /\ OwnerInv' /\ MemInv' /\ QueueInv' /\ (NotCutShort => RunInv)'
    BY <1>2 DEF Isr, Inv, TypeOK, OwnerInv, Owner, MemInv, QueueInv, RunInv, NotCutShort
  <2>2. LockInv' /\ StopInv'
    BY <1>2 DEF Isr, Inv, LockInv, LockReturnedAlone, LockReturned, StopInv
  <2> QED
    BY <2>1, <2>2 DEF Inv
<1>3. CASE WorkBegin \/ WorkEnd
  <2>1. svc' \in {"begin", "idle"} /\ lock' \in {Worker, Nobody} /\ (svc' # "idle" => lock' = Worker)
        /\ \A u \in Users : lock # u
    BY <1>3, CyclicAssumption DEF WorkBegin, WorkEnd, Inv, LockInv
  <2>2. TypeOK'
    BY <1>3, <2>1 DEF WorkBegin, WorkEnd, Inv, TypeOK
  <2>3. OwnerInv' /\ MemInv' /\ QueueInv' /\ (NotCutShort => RunInv)' /\ StopInv'
    BY <1>3, <2>1 DEF WorkBegin, WorkEnd, Inv, OwnerInv, Owner, MemInv, QueueInv, RunInv, NotCutShort, StopInv
  <2>4. LockInv'
    BY <1>3, <2>1, CyclicAssumption DEF WorkBegin, WorkEnd, Inv, LockInv, LockReturnedAlone, LockReturned
  <2> QED
    BY <2>2, <2>3, <2>4 DEF Inv
<1>4. CASE ServiceStatus
  <2>1. TypeOK' /\ OwnerInv' /\ MemInv' /\ QueueInv' /\ (NotCutShort => RunInv)'
    BY <1>4 DEF ServiceStatus, Inv, TypeOK, OwnerInv, Owner, MemInv, QueueInv, RunInv, NotCutShort
  <2>2. LockInv' /\ StopInv'
    BY <1>4 DEF ServiceStatus, Inv, LockInv, LockReturnedAlone, LockReturned, StopInv
  <2> QED
    BY <2>1, <2>2 DEF Inv
<1> QED
  BY <1>1, <1>2, <1>3, <1>4

\* The service takes the owner's transfer off and wakes him.
LEMMA ServiceStopNext ==
  ASSUME Inv, ServiceStop
  PROVE  Inv'
<1> USE DEF memVars, engineVars, hwVars, svcVars, userVars
<1>1. svc = "stop" /\ svc' \in {"bug", "leave"} /\ lock = Worker /\ lock' = Worker
  BY DEF ServiceStop, Inv, LockInv
<1>2. /\ UNCHANGED <<setup, rx_buffer, rx_result, rx_transfer_cyclic, live, opens, hw_xfer, ret>>
      /\ UNCHANGED <<hw_event, hw_errors, svc_busy, irq_enabled, work_pending>>
  BY DEF ServiceStop
<1>3. /\ pc' \in [Users -> UserPcs]
      /\ \A u \in Users : pc'[u] = pc[u] \/ (pc[u] = "asleep" /\ pc'[u] = "wait")
  BY DEF ServiceStop, wake_up, Inv, TypeOK, UserPcs
<1>4. CASE running /\ ~svc_busy /\ ~WrongTransfer
  <2>1. running' = FALSE /\ hw_busy' = FALSE /\ hw_run' = FALSE /\ transfer_list' = <<>> /\ svc' = "leave"
    BY <1>4, ShutdownEmpties DEF ServiceStop, RanAndStopped, Shutdown
  <2>2. transfer_list' \in Seq(Xfers)
    BY <2>1
  <2>3. TypeOK'
    BY <1>1, <1>2, <1>3, <2>1, <2>2 DEF Inv, TypeOK
  <2>4. OwnerInv' /\ MemInv'
    BY <1>2, <1>3 DEF Inv, OwnerInv, Owner, MemInv
  <2>5. QueueInv' /\ (NotCutShort => RunInv)'
    BY <1>2, <1>3, <2>1 DEF Inv, QueueInv, RunInv, NotCutShort
  <2>6. Head(transfer_list) = rx_transfer_cyclic /\ transfer_list # <<>>
    BY <1>4 DEF WrongTransfer, Inv, QueueInv
  <2>7. setup.errors = 0 => \A u \in Users : pc[u] \notin {"open", "stop"}
    BY <1>1, <1>4, <2>6 DEF Inv, StopInv
  <2>8. StopInv'
    BY <1>2, <1>3, <2>7 DEF StopInv
  <2>9. LockInv'
    BY <1>1, <1>2, <1>3, CyclicAssumption DEF Inv, LockInv, LockReturnedAlone, LockReturned
  <2> QED
    BY <2>3, <2>4, <2>5, <2>8, <2>9 DEF Inv
<1>5. CASE ~(running /\ ~svc_busy /\ ~WrongTransfer)
  <2>1. UNCHANGED <<transfer_list, running, hw_busy, hw_run, pc>>
        /\ (svc' = "bug" => running /\ WrongTransfer)
    BY <1>5 DEF ServiceStop, RanAndStopped
  <2>2. TypeOK'
    BY <1>1, <1>2, <2>1 DEF Inv, TypeOK
  <2>3. OwnerInv' /\ MemInv' /\ QueueInv' /\ StopInv'
    BY <1>1, <1>2, <2>1 DEF Inv, OwnerInv, Owner, MemInv, QueueInv, StopInv
  <2>4. (NotCutShort => RunInv)'
    BY <1>1, <1>2, <2>1 DEF Inv, RunInv, NotCutShort, WrongTransfer
  <2>5. LockInv'
    BY <1>1, <1>2, <2>1, CyclicAssumption DEF Inv, LockInv, LockReturnedAlone, LockReturned
  <2> QED
    BY <2>2, <2>3, <2>4, <2>5 DEF Inv
<1> QED
  BY <1>4, <1>5

LEMMA InvNext == Inv /\ [Next]_vars => Inv'
<1> SUFFICES ASSUME Inv, [Next]_vars PROVE Inv'
  OBVIOUS
<1>1. ASSUME NEW u \in setup.users,
             OpenStep(u) \/ OpenQueue(u) \/ CloseLook(u) \/ CloseStep(u) \/ CloseInterrupted(u)
      PROVE  Inv'
  BY <1>1, OpenNext, CloseNext
<1>2. CASE ServiceStop
  BY <1>2, ServiceStopNext
<1>3. CASE HwPage \/ HwStops \/ HwError \/ Isr \/ WorkBegin \/ ServiceStatus \/ WorkEnd
  BY <1>3, QuietNext
<1>4. CASE UNCHANGED vars
  <2> USE <1>4 DEF vars, memVars, engineVars, hwVars, svcVars, userVars
  <2>1. TypeOK' /\ OwnerInv' /\ MemInv' /\ QueueInv'
    BY DEF Inv, TypeOK, OwnerInv, Owner, MemInv, QueueInv
  <2>2. (NotCutShort => RunInv)' /\ LockInv' /\ StopInv'
    BY DEF Inv, RunInv, NotCutShort, LockInv, LockReturnedAlone, LockReturned, StopInv
  <2> QED
    BY <2>1, <2>2 DEF Inv
<1> QED
  BY <1>1, <1>2, <1>3, <1>4 DEF Next

LEMMA InvAlways == Spec => []Inv
<1> QED
  BY InvInit, InvNext, PTL DEF Spec

-------------------------------------------------------------------------------
\* "wait for engine to be no longer running" (cyclic_transfer_teardown): the ring,
\* its results and the transfer outlive the hardware's use of them.
THEOREM RingOutlivesDma == Spec => []FreedOnlyWhenStopped
<1>1. Inv => FreedOnlyWhenStopped
  BY DEF Inv, FreedOnlyWhenStopped, RingUnderDma, RunInv, MemInv, NULL
<1> QED
  BY <1>1, InvAlways, PTL

\* cyclic_transfer_teardown gives back what cyclic_transfer_setup took.
THEOREM CloseLeavesNothing == Spec => []ClosedMeansClean
<1>1. Inv => ClosedMeansClean
  <2> SUFFICES ASSUME Inv, NotCutShort, \A u \in Users : pc[u] = "idle"
               PROVE  ~rx_buffer /\ ~rx_result /\ live = {} /\ transfer_list = <<>> /\ ~running
    BY DEF ClosedMeansClean
  <2>1. ~rx_buffer /\ ~rx_result /\ rx_transfer_cyclic = NULL
    BY DEF Inv, MemInv
  <2> QED
    BY <2>1 DEF Inv, MemInv, RunInv, QueueInv
<1> QED
  BY <1>1, InvAlways, PTL

\* BUG_ON(transfer != engine->rx_transfer_cyclic) (engine_transfer_dequeue) never
\* fires, and no service comes to a channel that was closed.
THEOREM ServiceAlwaysSafe == Spec => []ServiceSafe
<1>1. Inv => ServiceSafe
  BY DEF Inv, ServiceSafe, RunInv
<1> QED
  BY <1>1, InvAlways, PTL

\* A call of the only process that has returned does not hold engine->lock.
THEOREM LockAlwaysReturned == Spec => []LockReturnedAlone
<1>1. Inv => LockReturnedAlone
  BY DEF Inv, LockInv
<1> QED
  BY <1>1, InvAlways, PTL

\* engine_cyclic_stop, which looks at the queue without the lock, finds the
\* transfer it saw, also after signals have cut earlier calls of close() short.
THEOREM StopAlwaysSeesTransfer == Spec => []StopSeesTransfer
<1>1. Inv => StopSeesTransfer
  BY DEF Inv, StopInv, StopSeesTransfer
<1> QED
  BY <1>1, InvAlways, PTL
===============================================================================
