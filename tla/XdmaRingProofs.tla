----------------------------- MODULE XdmaRingProofs -----------------------------
(***************************************************************************)
(* The safety of the ring, for any number of pages, credits, readers and   *)
(* blocks, in every mode: where no source runs round the ring, no block is *)
(* lost, copied twice or overwritten, and a read returns whole packets.    *)
(***************************************************************************)
EXTENDS XdmaRingPackets, FiniteSetTheorems, SequenceTheorems, TLAPS

\* What a reader has taken from the results and not yet given back.
Holds(r) == pc[r] \in {"take", "copy", "release"}
Held     == {x \in Readers \X Nat : Holds(x[1]) /\ x[2] \in 1 .. num_credit[x[1]]}

\* The pages it has still to copy follow block base[r].
Reads(r) == pc[r] \in {"take", "copy"}

\* Whether the blocks the readers have taken stay apart and unchanged.
Apart == Alone \/ ~setup.enable_credit_mp

\* A page keeps its block for one lap of the ring.
BufferInv ==
  \A b \in 1 .. produced : produced - b < Pages => buffer[SlotOf(b)] = b

\* A page whose result is there was filled, and so was every page that a reader
\* has taken; while it takes them, rx_head is the page after them.
FilledInv ==
  /\ \A s \in Slots : result[s] # 0 => buffer[s] # 0
  /\ \A r \in Readers : Reads(r) =>
       /\ \A i \in 1 .. num_credit[r] : buffer[After(head[r], i - 1)] # 0
       /\ pc[r] = "take" /\ ~fault[r] => rx_head = After(head[r], num_credit[r])

\* The service and the readers exclude each other; in poll mode the work item
\* never runs.
LockInv ==
  /\ setup.poll_mode => ~irq_enabled /\ ~work_pending
  /\ \A r \in Readers : pc[r] = "take" => lock = r
  /\ svc # "idle" =>
       \/ lock = Worker /\ ~setup.poll_mode
       \/ lock \in Readers /\ pc[lock] = "monitor" /\ setup.poll_mode

\* Only the readers of the setup do anything, and without bad results there is
\* no fault.
ReaderInv ==
  /\ \A r \in Readers : pc[r] # "idle" => r \in setup.readers
  /\ NoFault => bads = {}

Base == TypeOK /\ LockInv /\ FilledInv /\ ReaderInv /\ BufferInv

\* The readers have taken h blocks and the service has moved the tail over t:
\* the results of the blocks after h are there, no others, and fit the ring.
Window(h, t) ==
  /\ h <= t /\ t <= produced /\ produced - h < Pages
  /\ rx_head = h % Pages /\ rx_tail = t % Pages /\ ~rx_overrun
  /\ \A b \in h + 1 .. produced : result[SlotOf(b)] = b
  /\ \A s \in Slots : result[s] # 0 => result[s] \in h + 1 .. produced /\ SlotOf(result[s]) = s

\* Each credit is with the hardware, in a result, with a reader, or lost.
Credits(h) ==
  setup.enable_credit_mp =>
    /\ IsFiniteSet(Held)
    /\ credits + (produced - h) + Cardinality(Held) <= InitCredits

\* The blocks a reader has taken follow base[r]; while it takes them they are
\* the last ones taken, and a bad one ends that.
Taken(h, base) ==
  \A r \in Readers : Reads(r) =>
    /\ head[r] = base[r] % Pages
    /\ base[r] + num_credit[r] <= h
    /\ pc[r] = "take" => h = base[r] + num_credit[r] + (IF fault[r] THEN 1 ELSE 0)
    /\ pc[r] = "copy" => ~fault[r] /\ (Alone => h = base[r] + num_credit[r])
    /\ NoFault => ~fault[r]

\* The blocks that reader r is to copy.
ToCopy(r, base) == base[r] + 1 .. base[r] + num_credit[r]

\* They wait in their pages, apart from those of the other readers; none is
\* copied twice, and one reader leaves none out without a fault.
Copied(h, base) ==
  Apart =>
    /\ \A b \in Blocks : copies[b] <= 1 /\ (b > h => copies[b] = 0)
    /\ \A r \in Readers : Reads(r) =>
         /\ \A b \in ToCopy(r, base) : copies[b] = 0
         /\ num_credit[r] > 0 /\ ~fault[r] => produced - base[r] < Pages
    /\ \A r, q \in Readers : Reads(r) /\ Reads(q) /\ r # q =>
         ToCopy(r, base) \cap ToCopy(q, base) = {}
    /\ Alone /\ NoFault =>
         \A b \in 1 .. h : copies[b] = 1 \/ \E r \in Readers : Reads(r) /\ b > base[r]

Placed(h, t, base) == Window(h, t) /\ Credits(h) /\ Taken(h, base) /\ Copied(h, base)

Ring == \E h, t \in Nat, base \in [Readers -> Nat] : Placed(h, t, base)

Inv == Base /\ (KeepsUp => Ring)

\* The blocks after m, up to n.
Run(m, n) == [i \in 1 .. n - m |-> m + i]

\* What the runs of PacketsWhole are about.
Undisturbed ==
  /\ Alone /\ NoFault /\ KeepsUp /\ ~setup.signals
  /\ setup.enable_credit_mp \/ setup.poll_mode

Waiting(r) == pc[r] \in {"monitor", "asleep", "recheck", "complete"}
Reading(r) == pc[r] \in {"take", "copy", "release", "more"}

\* An end of a packet is in the ring, and the tail is past it.
EndWaits(h, t) == \E e \in eops : h < e /\ e <= t

\* Block n ends the packet that begins after block g; of the blocks between the
\* two none ends one.
Ended(g, n) == n > g /\ n \in eops
Within(g, n) ==
  /\ g <= n /\ (g = 0 \/ g \in eops)
  /\ \A e \in eops : g < e => n <= e

\* A read that began after block g has copied the blocks up to the h-th, or to
\* base[r] while it has those it took still to copy; it takes no block after the
\* end of a packet, and says so in eop_found.
Packet(r, g, h, base) ==
  /\ ~signal[r]
  /\ pc[r] = "idle" => g = h
  /\ Waiting(r) => got[r] = Run(g, h) /\ ~Ended(g, h)
  /\ Reading(r) =>
       /\ got[r] = Run(g, IF Reads(r) THEN base[r] ELSE h)
       /\ Reads(r) => g <= base[r]
       /\ eop[r] <=> Ended(g, h)
       /\ eop[r] => eop_found
  /\ setup.enable_credit_mp /\ eop_found => Reading(r) /\ eop[r]

\* In poll mode every call takes a packet from its beginning to its end, because
\* the service returns to it only when the end is there, or with an error.
Poll(r, g, h, t, base) ==
  setup.poll_mode =>
    /\ svc \in {"idle", "poll", "ring", "leave"}
    /\ svc # "idle" /\ svc_eop => EndWaits(h, t)
    /\ svc = "leave" => svc_eop \/ svc_rc
    /\ Waiting(r) => g = h
    /\ pc[r] = "recheck" => rc[r] \/ EndWaits(h, t)
    /\ pc[r] = "complete" => EndWaits(h, t)
    /\ pc[r] = "take" => eop[r] \/ EndWaits(h, t)
    /\ pc[r] \in {"copy", "release", "more"} => eop[r]

LastOf(s) == IF s = <<>> THEN 0 ELSE s[Len(s)]

\* In interrupt mode no read is cut short, and the last one ended with block g.
Returned(r, g, h) ==
  /\ ret[r] # NoRead /\ ret[r].error = "none" =>
       IsPacket(ret[r].blocks) /\ \A i \in 1 .. Len(ret[r].blocks) : ret[r].blocks[i] <= h
  /\ ~setup.poll_mode => ~rc[r] /\ LastOf(ret[r].blocks) = g

Stream(g, h, t, base) ==
  /\ eops \subseteq 1 .. produced
  /\ Within(g, h)
  /\ \A r \in Readers : ret[r] # NoRead => r \in setup.readers
  /\ \A r \in setup.readers : Packet(r, g, h, base) /\ Poll(r, g, h, t, base) /\ Returned(r, g, h)

Whole == \E g, h, t \in Nat, base \in [Readers -> Nat] : Placed(h, t, base) /\ Stream(g, h, t, base)
-------------------------------------------------------------------------------
(* The slots of the ring *)

\* % and \div, for a divisor that is not a number of the text.
LEMMA DivMod ==
  ASSUME NEW a \in Nat, NEW n \in Nat \ {0}
  PROVE  /\ a \div n \in Nat /\ a % n \in 0 .. n - 1
         /\ a = n * (a \div n) + (a % n)
  OBVIOUS

\* The multiples of n are n apart.
LEMMA NextMultiple ==
  ASSUME NEW n \in Nat, NEW i \in Nat, NEW j \in Nat, i < j
  PROVE  n * i + n <= n * j
<1>1. PICK k \in Nat : j = i + 1 + k
  <2>1. j - i - 1 \in Nat /\ j = i + 1 + (j - i - 1)
    OBVIOUS
  <2> QED
    BY <2>1
<1>2. n * k \in Nat /\ n * j = n * i + n + n * k
  BY <1>1
<1> QED
  BY <1>2

\* A number has one quotient and one remainder.
LEMMA OneQuotient ==
  ASSUME NEW n \in Nat \ {0}, NEW p \in Nat, NEW q \in Nat,
         NEW x \in 0 .. n - 1, NEW y \in 0 .. n - 1, n * p + x = n * q + y
  PROVE  p = q /\ x = y
<1>1. ASSUME NEW i \in Nat, NEW j \in Nat, i < j PROVE n * i + n <= n * j
  BY <1>1, NextMultiple
<1>2. n * p \in Nat /\ n * q \in Nat
  OBVIOUS
<1>3. ~(p < q)
  BY <1>1, <1>2
<1>4. ~(q < p)
  BY <1>1, <1>2
<1> QED
  BY <1>3, <1>4

\* The same, for a PICK.
LEMMA Quotient ==
  ASSUME NEW a \in Nat, NEW n \in Nat \ {0}
  PROVE  \E q \in Nat, r \in 0 .. n - 1 : r = a % n /\ a = n * q + r
BY DivMod

\* Of a window shorter than n no two members leave the same remainder.
LEMMA ModInj ==
  ASSUME NEW n \in Nat \ {0}, NEW a \in Nat, NEW b \in Nat, a % n = b % n, a <= b, b - a < n
  PROVE  a = b
<1>1. PICK p \in Nat, x \in 0 .. n - 1 : x = a % n /\ a = n * p + x
  BY Quotient
<1>2. PICK q \in Nat, y \in 0 .. n - 1 : y = b % n /\ b = n * q + y
  BY Quotient
<1>3. x = y
  BY <1>1, <1>2
<1>4. ASSUME NEW i \in Nat, NEW j \in Nat, i < j PROVE n * i + n <= n * j
  BY <1>4, NextMultiple
<1>5. n * p \in Nat /\ n * q \in Nat /\ a = n * p + x /\ b = n * q + x
  BY <1>1, <1>2, <1>3
<1>6. ~(p < q) /\ ~(q < p)
  BY <1>4, <1>5
<1>7. p = q
  BY <1>6
<1> QED
  BY <1>5, <1>7

\* A remainder may be taken before an addition.
LEMMA ModAdd ==
  ASSUME NEW n \in Nat \ {0}, NEW a \in Nat, NEW i \in Nat
  PROVE  ((a % n) + i) % n = (a + i) % n
<1>1. PICK p \in Nat, x \in 0 .. n - 1 : x = a % n /\ a = n * p + x
  BY Quotient
<1>2. x + i \in Nat /\ a + i \in Nat
  OBVIOUS
<1>3. PICK q \in Nat, y \in 0 .. n - 1 : y = (x + i) % n /\ x + i = n * q + y
  BY Quotient, <1>2
<1>4. PICK r \in Nat, z \in 0 .. n - 1 : z = (a + i) % n /\ a + i = n * r + z
  BY Quotient, <1>2
<1>5. n * (p + q) + y = n * r + z
  <2>1. n * (p + q) = n * p + n * q /\ n * p \in Nat /\ n * q \in Nat /\ n * r \in Nat
    OBVIOUS
  <2>2. a = n * p + x /\ x + i = n * q + y /\ a + i = n * r + z
    BY <1>1, <1>3, <1>4
  <2> QED
    BY <2>1, <2>2
<1>6. y = z
  BY <1>5, OneQuotient
<1> QED
  BY <1>1, <1>3, <1>4, <1>6

LEMMA Sizes == Pages \in Nat \ {0} /\ InitCredits \in Nat /\ InitCredits < Pages /\ MaxBlocks \in Nat
  BY RingAssumption

\* The page of a block is a page of the ring.
LEMMA SlotType ==
  /\ \A h \in Nat : h % Pages \in Slots /\ h % Pages = SlotOf(h + 1)
  /\ \A b \in Nat \ {0} : SlotOf(b) \in Slots
<1>1. ASSUME NEW h \in Nat PROVE h % Pages \in Slots
  BY Sizes, DivMod DEF Slots
<1>2. ASSUME NEW h \in Nat PROVE h % Pages = SlotOf(h + 1)
  <2>1. (h + 1) - 1 = h
    OBVIOUS
  <2> QED
    BY <2>1 DEF SlotOf
<1>3. ASSUME NEW b \in Nat \ {0} PROVE SlotOf(b) \in Slots
  <2>1. b - 1 \in Nat
    OBVIOUS
  <2> QED
    BY <1>1, <2>1 DEF SlotOf
<1> QED
  BY <1>1, <1>2, <1>3

\* The blocks of one lap have different pages.
LEMMA SlotApart ==
  ASSUME NEW b \in Nat \ {0}, NEW c \in Nat \ {0}, SlotOf(b) = SlotOf(c), b <= c, c - b < Pages
  PROVE  b = c
<1>1. b - 1 \in Nat /\ c - 1 \in Nat /\ b - 1 <= c - 1 /\ (c - 1) - (b - 1) < Pages
  BY Sizes
<1>2. (b - 1) % Pages = (c - 1) % Pages
  BY DEF SlotOf
<1>3. b - 1 = c - 1
  BY <1>1, <1>2, Sizes, ModInj
<1> QED
  BY <1>3

\* i pages after the one that follows h blocks.
LEMMA AfterOf ==
  ASSUME NEW h \in Nat, NEW i \in Nat
  PROVE  After(h % Pages, i) = (h + i) % Pages
BY Sizes, ModAdd DEF After

LEMMA AfterType ==
  ASSUME NEW s \in Slots, NEW i \in Nat
  PROVE  After(s, i) \in Slots /\ After(After(s, i), 1) = After(s, i + 1)
<1>1. s \in Nat /\ s + i \in Nat
  BY Sizes DEF Slots
<1>2. After(s, i) \in Slots
  BY <1>1, SlotType DEF After
<1>3. After(After(s, i), 1) = ((s + i) + 1) % Pages
  BY <1>1, Sizes, ModAdd DEF After
<1>4. (s + i) + 1 = s + (i + 1)
  BY <1>1
<1> QED
  BY <1>2, <1>3, <1>4 DEF After
LEMMA AfterNone == \A s \in Slots : After(s, 0) = s
<1> SUFFICES ASSUME NEW s \in Slots PROVE After(s, 0) = s
  OBVIOUS
<1>1. PICK q \in Nat, x \in 0 .. Pages - 1 : x = s % Pages /\ s = Pages * q + x
  BY Sizes, Quotient DEF Slots
<1>2. s = Pages * 0 + s /\ s \in 0 .. Pages - 1 /\ s + 0 = s
  BY Sizes DEF Slots
<1>3. x = s
  BY <1>1, <1>2, Sizes, OneQuotient
<1> QED
  BY <1>1, <1>2, <1>3 DEF After
-------------------------------------------------------------------------------
(* Types, locks and pages, in every mode *)

LEMMA InitBase == Init => Base
<1> SUFFICES ASSUME Init PROVE Base
  OBVIOUS
<1>1. 0 \in Slots /\ setup \in Setup /\ Setups \subseteq Setup
  BY Sizes, RingAssumption DEF Slots, Init
<1>2. TypeOK
  <2>1. /\ got \in [Readers -> Seq(Blocks)] /\ errs \in [Readers -> Nat]
        /\ ret \in [Readers -> [error : {"none", "ERESTARTSYS"}, blocks : Seq(Blocks), errs : Nat]]
    BY DEF Init, NoRead
  <2>2. /\ pc \in [Readers -> ReaderPcs] /\ copies \in [Blocks -> Nat]
        /\ signal \in [Readers -> BOOLEAN] /\ rc \in [Readers -> BOOLEAN]
        /\ head \in [Readers -> Slots] /\ num_credit \in [Readers -> Nat]
        /\ eop \in [Readers -> BOOLEAN] /\ fault \in [Readers -> BOOLEAN]
    BY <1>1 DEF Init, ReaderPcs
  <2>3. credits \in Nat /\ irq_enabled \in BOOLEAN
    BY <1>1, Sizes DEF Init, Setup
  <2>4. /\ result \in [Slots -> 0 .. MaxBlocks] /\ buffer \in [Slots -> 0 .. MaxBlocks]
        /\ hw_errors \in 0 .. MaxErrors /\ produced \in 0 .. MaxBlocks
    BY <1>1, RingAssumption DEF Init
  <2> QED
    BY <1>1, <2>1, <2>2, <2>3, <2>4 DEF Init, TypeOK
<1>3. FilledInv /\ ReaderInv /\ BufferInv
  BY <1>1 DEF Init, FilledInv, Reads, ReaderInv, BufferInv
<1>4. setup.poll_mode => ~irq_enabled
  BY DEF Init
<1>5. LockInv
  BY <1>4 DEF Init, LockInv
<1> QED
  BY <1>2, <1>3, <1>5 DEF Base

\* What read() returns has the type of what it copied.
LEMMA CopyType ==
  ASSUME TypeOK, FilledInv, NEW r \in Readers, pc[r] = "copy"
  PROVE  [i \in 1 .. num_credit[r] |-> buffer[After(head[r], i - 1)]] \in Seq(Blocks)
<1>1. num_credit[r] \in Nat /\ head[r] \in Slots
  BY DEF TypeOK
<1>2. ASSUME NEW i \in 1 .. num_credit[r] PROVE buffer[After(head[r], i - 1)] \in Blocks
  <2>1. i - 1 \in Nat
    BY <1>1
  <2>2. After(head[r], i - 1) \in Slots
    BY <1>1, <2>1, AfterType
  <2>3. buffer[After(head[r], i - 1)] \in 0 .. MaxBlocks
    BY <2>2 DEF TypeOK
  <2>4. buffer[After(head[r], i - 1)] # 0
    BY DEF FilledInv, Reads
  <2> QED
    BY <2>3, <2>4, Sizes DEF Blocks
<1> DEFINE pages == [i \in 1 .. num_credit[r] |-> buffer[After(head[r], i - 1)]]
<1>3. pages \in [1 .. num_credit[r] -> Blocks]
  BY <1>2
<1> HIDE DEF pages
<1>4. pages \in Seq(Blocks)
  BY <1>1, <1>3
<1> QED
  BY <1>4 DEF pages

\* How often a block is among the pages copied is a number.
LEMMA CountType ==
  ASSUME NEW f \in Seq(Blocks), NEW b
  PROVE  Cardinality({i \in DOMAIN f : f[i] = b}) \in Nat
<1>1. IsFiniteSet(DOMAIN f)
  <2>1. DOMAIN f = 1 .. Len(f) /\ Len(f) \in Nat
    OBVIOUS
  <2> QED
    BY <2>1, FS_Interval
<1>2. IsFiniteSet({i \in DOMAIN f : f[i] = b})
  BY <1>1, FS_Subset
<1> QED
  BY <1>2, FS_CardinalityType

LEMMA TypeStep == TypeOK /\ FilledInv /\ [Next]_vars => TypeOK'
<1> SUFFICES ASSUME TypeOK, FilledInv, [Next]_vars PROVE TypeOK'
  OBVIOUS
<1> USE DEF ringVars, hwVars, svcVars, readerVars
<1>t. /\ setup \in Setup /\ setup.blocks \in 0 .. MaxBlocks /\ setup.errors \in 0 .. MaxErrors
      /\ MaxErrors \in Nat /\ MaxBlocks \in Nat
  BY RingAssumption DEF TypeOK, Setup
<1>r. \A r \in Readers : rx_head \in Slots /\ rx_tail \in Slots /\ 0 \in Slots
  BY Sizes DEF TypeOK, Slots
<1>1. CASE HwBlock
  <2> DEFINE b == produced + 1
  <2>1. b \in 1 .. MaxBlocks /\ b \in Blocks /\ b \in Nat \ {0}
    BY <1>1, <1>t DEF HwBlock, TypeOK, Blocks
  <2>2. SlotOf(b) \in Slots
    BY <2>1, SlotType
  <2>3. result' \in [Slots -> 0 .. MaxBlocks] /\ buffer' \in [Slots -> 0 .. MaxBlocks]
    BY <1>1, <2>1, <2>2 DEF HwBlock, TypeOK
  <2>4. /\ credits' \in Nat /\ produced' \in 0 .. MaxBlocks
        /\ eops' \subseteq Blocks /\ bads' \subseteq Blocks /\ hw_event' \in BOOLEAN
    BY <1>1, <2>1 DEF HwBlock, TypeOK
  <2> QED
    BY <1>1, <2>3, <2>4 DEF HwBlock, TypeOK
<1>2. CASE HwError
  <2>1. hw_errors' \in 0 .. MaxErrors /\ setup.poll_mode \in BOOLEAN
    BY <1>2, <1>t DEF HwError, TypeOK, Setup
  <2> QED
    BY <1>2, <2>1 DEF HwError, TypeOK
<1>3. CASE Isr
  BY <1>3 DEF Isr, TypeOK
<1>4. CASE WorkBegin
  BY <1>4 DEF WorkBegin, TypeOK
<1>5. CASE Service
  <2>1. CASE ServiceStatus
    BY <2>1 DEF ServiceStatus, TypeOK
  <2>2. CASE RingProcess
    BY <2>2, AfterType DEF RingProcess, TypeOK
  <2>3. CASE RingProcessed
    BY <2>3 DEF RingProcessed, TypeOK
  <2>4. CASE RingWake
    BY <2>4 DEF RingWake, wake_up, TypeOK, ReaderPcs
  <2>5. CASE RingStop
    BY <2>5 DEF RingStop, TypeOK
  <2>6. CASE PollWriteback
    BY <2>6 DEF PollWriteback, TypeOK
  <2> QED
    BY <1>5, <2>1, <2>2, <2>3, <2>4, <2>5, <2>6 DEF Service
<1>6. CASE WorkEnd
  BY <1>6 DEF WorkEnd, TypeOK
<1>7. ASSUME NEW r \in Readers, ReadStart(r) \/ SignalArrives(r) \/ ReaderStep(r) PROVE TypeOK'
  <2>1. CASE ReadStart(r)
    <3>1. got' \in [Readers -> Seq(Blocks)] /\ errs' \in [Readers -> Nat]
      <4>1. got \in [Readers -> Seq(Blocks)] /\ errs \in [Readers -> Nat]
        BY DEF TypeOK
      <4>2. got' = [got EXCEPT ![r] = <<>>] /\ errs' = [errs EXCEPT ![r] = 0]
        BY <2>1 DEF ReadStart
      <4>3. <<>> \in Seq(Blocks)
        OBVIOUS
      <4> QED
        BY <4>1, <4>2, <4>3
    <3>2. pc' \in [Readers -> ReaderPcs]
      BY <2>1 DEF ReadStart, TypeOK, ReaderPcs
    <3> QED
      BY <2>1, <3>1, <3>2 DEF ReadStart, TypeOK
  <2>2. CASE SignalArrives(r)
    BY <2>2 DEF SignalArrives, TypeOK, ReaderPcs
  <2>3. CASE PollBegin(r)
    BY <2>3 DEF PollBegin, TypeOK
  <2>4. CASE PollEnd(r)
    BY <2>4 DEF PollEnd, TypeOK, ReaderPcs
  <2>5. CASE Monitor(r)
    BY <2>5 DEF Monitor, DataWaits, TypeOK, ReaderPcs
  <2>6. CASE Recheck(r)
    <3>1. ret' \in [Readers -> [error : {"none", "ERESTARTSYS"}, blocks : Seq(Blocks), errs : Nat]]
      <4>1. [error |-> "ERESTARTSYS", blocks |-> <<>>, errs |-> 0]
              \in [error : {"none", "ERESTARTSYS"}, blocks : Seq(Blocks), errs : Nat]
        OBVIOUS
      <4>2. ret' \in {ret, [ret EXCEPT ![r] = [error |-> "ERESTARTSYS", blocks |-> <<>>, errs |-> 0]]}
        BY <2>6 DEF Recheck, ReadReturns
      <4>3. ret \in [Readers -> [error : {"none", "ERESTARTSYS"}, blocks : Seq(Blocks), errs : Nat]]
        BY DEF TypeOK
      <4> QED
        BY <4>1, <4>2, <4>3
    <3>2. pc' \in [Readers -> ReaderPcs] /\ signal' \in [Readers -> BOOLEAN]
      BY <2>6 DEF Recheck, ReadReturns, TypeOK, ReaderPcs
    <3> QED
      BY <2>6, <3>1, <3>2 DEF Recheck, TypeOK
  <2>7. CASE CompleteBegin(r)
    BY <2>7 DEF CompleteBegin, TypeOK, ReaderPcs
  <2>8. CASE TakeResult(r)
    <3>1. num_credit' \in [Readers -> Nat]
      <4>0. num_credit \in [Readers -> Nat]
        BY DEF TypeOK
      <4>1. num_credit \in [Readers -> Nat] /\ num_credit[r] + 1 \in Nat
        BY <4>0
      <4>2. num_credit' \in {num_credit, [num_credit EXCEPT ![r] = num_credit[r] + 1]}
        BY <2>8, <4>1 DEF TakeResult
      <4> QED
        BY <4>1, <4>2
    <3>3. eop_found' \in BOOLEAN
      BY <2>8 DEF TakeResult
    <3>4. fault' \in [Readers -> BOOLEAN] /\ eop' \in [Readers -> BOOLEAN]
      <4>1. fault \in [Readers -> BOOLEAN] /\ eop \in [Readers -> BOOLEAN]
        BY DEF TypeOK
      <4>2. /\ fault' = [fault EXCEPT ![r] = ~(result[rx_head] # 0 /\ result[rx_head] \notin bads)]
            /\ eop' = [eop EXCEPT ![r] = result[rx_head] \in eops]
        BY <2>8 DEF TakeResult
      <4> QED
        BY <4>1, <4>2
    <3>2. result' \in [Slots -> 0 .. MaxBlocks] /\ rx_head' \in Slots
      <4>1. result' = [result EXCEPT ![rx_head] = 0] /\ rx_head' = After(rx_head, 1)
        BY <2>8 DEF TakeResult
      <4>2. result \in [Slots -> 0 .. MaxBlocks] /\ rx_head \in Slots
        BY DEF TypeOK
      <4>3. After(rx_head, 1) \in Slots /\ 0 \in 0 .. MaxBlocks
        BY <4>2, <1>t, AfterType
      <4> QED
        BY <4>1, <4>2, <4>3
    <3> QED
      BY <2>8, <3>1, <3>2, <3>3, <3>4 DEF TakeResult, TypeOK
  <2>9. CASE CompleteEnd(r)
    <3>1. errs' \in [Readers -> Nat]
      BY <2>9 DEF CompleteEnd, TypeOK
    <3>2. pc' \in [Readers -> ReaderPcs]
      BY <2>9 DEF CompleteEnd, TypeOK, ReaderPcs
    <3> QED
      BY <2>9, <3>1, <3>2 DEF CompleteEnd, TypeOK
  <2>10. CASE CopyOut(r)
    <3> DEFINE pages == [i \in 1 .. num_credit[r] |-> buffer[After(FirstPage(r), i - 1)]]
    <3>1. pages \in Seq(Blocks)
      BY <2>10, CopyType DEF CopyOut, FirstPage
    <3>2. got' \in [Readers -> Seq(Blocks)]
      BY <2>10, <3>1 DEF CopyOut, TypeOK
    <3>4. ASSUME NEW b \in Blocks
          PROVE  copies[b] + Cardinality({i \in DOMAIN pages : pages[i] = b}) \in Nat
      <4>1. copies[b] \in Nat
        BY DEF TypeOK
      <4> HIDE DEF pages
      <4>2. Cardinality({i \in DOMAIN pages : pages[i] = b}) \in Nat
        BY <3>1, CountType
      <4> QED
        BY <4>1, <4>2
    <3>5. copies' \in [Blocks -> Nat]
      BY <2>10, <3>4 DEF CopyOut
    <3>6. pc' \in [Readers -> ReaderPcs]
      BY <2>10 DEF CopyOut, TypeOK, ReaderPcs
    <3> QED
      BY <2>10, <3>2, <3>5, <3>6 DEF CopyOut, TypeOK
  <2>11. CASE Release(r)
    <3>1. credits' \in Nat
      BY <2>11 DEF Release, CreditsBack, TypeOK
    <3> QED
      BY <2>11, <3>1 DEF Release, TypeOK, ReaderPcs
  <2>12. CASE MoreToRead(r)
    <3>1. ret' \in [Readers -> [error : {"none", "ERESTARTSYS"}, blocks : Seq(Blocks), errs : Nat]]
      <4>1. [error |-> "none", blocks |-> got[r], errs |-> errs[r]]
              \in [error : {"none", "ERESTARTSYS"}, blocks : Seq(Blocks), errs : Nat]
        BY DEF TypeOK
      <4>2. ret' \in {ret, [ret EXCEPT ![r] = [error |-> "none", blocks |-> got[r], errs |-> errs[r]]]}
        BY <2>12 DEF MoreToRead, ReadReturns
      <4>3. ret \in [Readers -> [error : {"none", "ERESTARTSYS"}, blocks : Seq(Blocks), errs : Nat]]
        BY DEF TypeOK
      <4> QED
        BY <4>1, <4>2, <4>3
    <3>2. pc' \in [Readers -> ReaderPcs] /\ signal' \in [Readers -> BOOLEAN] /\ eop_found' \in BOOLEAN
      BY <2>12 DEF MoreToRead, ReadReturns, EopFoundAfterRead, TypeOK, ReaderPcs
    <3> QED
      BY <2>12, <3>1, <3>2 DEF MoreToRead, TypeOK
  <2> QED
    BY <1>7, <2>1, <2>2, <2>3, <2>4, <2>5, <2>6, <2>7, <2>8, <2>9, <2>10, <2>11, <2>12 DEF ReaderStep
<1>8. CASE UNCHANGED vars
  BY <1>8 DEF vars, TypeOK
<1> QED
  BY <1>1, <1>2, <1>3, <1>4, <1>5, <1>6, <1>7, <1>8 DEF Next

LEMMA SetupFixed == [Next]_vars => setup' = setup
BY DEF Next, vars, HwBlock, HwError, Isr, WorkBegin, Service, ServiceStatus, RingProcess, RingProcessed,
       RingWake, RingStop, PollWriteback, WorkEnd, ReadStart, SignalArrives, ReaderStep, PollBegin, PollEnd,
       Monitor, Recheck, CompleteBegin, TakeResult, CompleteEnd, CopyOut, Release, MoreToRead

LEMMA LockStep == TypeOK /\ LockInv /\ [Next]_vars => LockInv'
<1> SUFFICES ASSUME TypeOK, LockInv, [Next]_vars PROVE LockInv'
  OBVIOUS
<1> USE DEF ringVars, hwVars, svcVars, readerVars
<1>0. /\ Worker # Nobody /\ Worker \notin Readers /\ Nobody \notin Readers /\ pc \in [Readers -> ReaderPcs]
      /\ setup' = setup
  BY RingAssumption, SetupFixed DEF TypeOK
<1>1. ASSUME UNCHANGED <<lock, svc, pc, irq_enabled, work_pending>> PROVE LockInv'
  BY <1>0, <1>1 DEF LockInv
<1>2. CASE HwBlock \/ HwError \/ UNCHANGED vars
  BY <1>1, <1>2 DEF HwBlock, HwError, vars
<1>3. CASE Isr \/ WorkBegin \/ WorkEnd
  BY <1>0, <1>3 DEF Isr, WorkBegin, WorkEnd, LockInv
<1>4. CASE Service
  <2>1. CASE ServiceStatus \/ RingProcess \/ RingProcessed \/ RingStop \/ PollWriteback
    BY <1>0, <2>1 DEF ServiceStatus, RingProcess, RingProcessed, RingStop, PollWriteback, LockInv
  <2>2. CASE RingWake
    BY <1>0, <2>2 DEF RingWake, wake_up, LockInv
  <2> QED
    BY <1>4, <2>1, <2>2 DEF Service
<1>5. ASSUME NEW r \in Readers, ReadStart(r) \/ SignalArrives(r) \/ ReaderStep(r) PROVE LockInv'
  <2>1. CASE ReadStart(r) \/ SignalArrives(r)
    BY <1>0, <2>1 DEF ReadStart, SignalArrives, LockInv
  <2>2. CASE PollBegin(r) \/ PollEnd(r)
    BY <1>0, <2>2 DEF PollBegin, PollEnd, LockInv
  <2>3. CASE Monitor(r)
    BY <1>0, <2>3 DEF Monitor, LockInv
  <2>4. CASE Recheck(r) \/ MoreToRead(r)
    BY <1>0, <2>4 DEF Recheck, MoreToRead, ReadReturns, LockInv
  <2>5. CASE CompleteBegin(r) \/ CompleteEnd(r)
    BY <1>0, <2>5 DEF CompleteBegin, CompleteEnd, LockInv
  <2>6. CASE TakeResult(r) \/ CopyOut(r) \/ Release(r)
    BY <1>0, <2>6 DEF TakeResult, CopyOut, Release, LockInv
  <2> QED
    BY <1>5, <2>1, <2>2, <2>3, <2>4, <2>5, <2>6 DEF ReaderStep
<1> QED
  BY <1>2, <1>3, <1>4, <1>5 DEF Next

LEMMA ReaderStepInv == TypeOK /\ LockInv /\ ReaderInv /\ [Next]_vars => ReaderInv'
<1> SUFFICES ASSUME TypeOK, LockInv, ReaderInv, [Next]_vars PROVE ReaderInv'
  OBVIOUS
<1> USE DEF ringVars, hwVars, svcVars, readerVars
<1>0. pc \in [Readers -> ReaderPcs] /\ setup' = setup /\ (NoFault' <=> NoFault)
  BY SetupFixed DEF TypeOK, NoFault
<1>1. ASSUME UNCHANGED <<pc, bads>> PROVE ReaderInv'
  BY <1>0, <1>1 DEF ReaderInv
<1>2. CASE HwBlock
  <2>1. NoFault => bads' = {}
    BY <1>2, FS_EmptySet DEF HwBlock, ReaderInv, NoFault
  <2> QED
    BY <1>0, <1>2, <2>1 DEF HwBlock, ReaderInv
<1>3. CASE HwError \/ Isr \/ WorkBegin \/ WorkEnd \/ UNCHANGED vars
  BY <1>1, <1>3 DEF HwError, Isr, WorkBegin, WorkEnd, vars
<1>4. CASE Service
  <2>1. CASE ServiceStatus \/ RingProcess \/ RingProcessed \/ RingStop \/ PollWriteback
    BY <1>1, <2>1 DEF ServiceStatus, RingProcess, RingProcessed, RingStop, PollWriteback
  <2>2. CASE RingWake
    BY <1>0, <2>2 DEF RingWake, wake_up, ReaderInv
  <2> QED
    BY <1>4, <2>1, <2>2 DEF Service
<1>5. ASSUME NEW r \in Readers, ReadStart(r) \/ SignalArrives(r) \/ ReaderStep(r) PROVE ReaderInv'
  <2>0. ASSUME pc[r] # "idle", \A q \in Readers : q # r => pc'[q] = pc[q], bads' = bads PROVE ReaderInv'
    BY <1>0, <2>0 DEF ReaderInv
  <2>1. CASE ReadStart(r)
    BY <1>0, <2>1 DEF ReadStart, ReaderInv
  <2>2. CASE SignalArrives(r) \/ PollBegin(r) \/ Monitor(r) \/ Recheck(r) \/ CompleteBegin(r)
    BY <1>0, <2>0, <2>2 DEF SignalArrives, PollBegin, Monitor, Recheck, ReadReturns, CompleteBegin
  <2>3. CASE TakeResult(r) \/ CompleteEnd(r) \/ CopyOut(r) \/ Release(r) \/ MoreToRead(r)
    BY <1>0, <2>0, <2>3 DEF TakeResult, CompleteEnd, CopyOut, Release, MoreToRead, ReadReturns
  <2>4. CASE PollEnd(r)
    <3>1. bads' = bads /\ pc' = [pc EXCEPT ![r] = "recheck"]
      BY <2>4 DEF PollEnd
    <3>2. pc[r] = "monitor"
      BY <2>4, RingAssumption DEF PollEnd, LockInv
    <3> QED
      BY <1>0, <2>0, <3>1, <3>2
  <2> QED
    BY <1>5, <2>1, <2>2, <2>3, <2>4 DEF ReaderStep
<1> QED
  BY <1>2, <1>3, <1>4, <1>5 DEF Next

LEMMA BufferStep == TypeOK /\ BufferInv /\ [Next]_vars => BufferInv'
<1> SUFFICES ASSUME TypeOK, BufferInv, [Next]_vars PROVE BufferInv'
  OBVIOUS
<1> USE DEF ringVars, hwVars, svcVars, readerVars
<1>1. ASSUME UNCHANGED <<produced, buffer>> PROVE BufferInv'
  BY <1>1 DEF BufferInv
<1>2. CASE HwBlock
  <2> DEFINE n == produced + 1
  <2>0. produced \in Nat
    BY DEF TypeOK
  <2>1. /\ produced' = n /\ buffer' = [buffer EXCEPT ![SlotOf(n)] = n]
        /\ n \in Nat \ {0} /\ produced \in Nat
    BY <1>2, <2>0 DEF HwBlock
  <2>2. \A b \in Nat \ {0} : SlotOf(b) \in Slots
    BY SlotType
  <2>3. ASSUME NEW b \in 1 .. n, n - b < Pages PROVE buffer'[SlotOf(b)] = b
    <3>1. CASE b = n
      BY <2>1, <2>2, <3>1 DEF TypeOK
    <3>2. CASE b # n
      <4>1. b \in 1 .. produced /\ produced - b < Pages /\ b \in Nat \ {0}
        BY <2>1, <2>3, <3>2, Sizes
      <4>2. SlotOf(b) # SlotOf(n)
        BY <2>1, <2>3, <3>2, <4>1, SlotApart
      <4>3. buffer'[SlotOf(b)] = buffer[SlotOf(b)]
        BY <2>1, <2>2, <4>1, <4>2 DEF TypeOK
      <4> QED
        BY <4>1, <4>3 DEF BufferInv
    <3> QED
      BY <3>1, <3>2
  <2>4. ASSUME NEW b PROVE SlotOf(b)' = SlotOf(b)
    BY DEF SlotOf
  <2> QED
    BY <2>1, <2>3, <2>4 DEF BufferInv
<1>3. CASE HwError \/ Isr \/ WorkBegin \/ WorkEnd \/ UNCHANGED vars
  BY <1>1, <1>3 DEF HwError, Isr, WorkBegin, WorkEnd, vars
<1>4. CASE Service
  BY <1>1, <1>4 DEF Service, ServiceStatus, RingProcess, RingProcessed, RingStop, PollWriteback, RingWake
<1>5. ASSUME NEW r \in Readers, ReadStart(r) \/ SignalArrives(r) \/ ReaderStep(r) PROVE BufferInv'
  BY <1>1, <1>5 DEF ReadStart, SignalArrives, ReaderStep, PollBegin, PollEnd, Monitor, Recheck,
                    CompleteBegin, TakeResult, CompleteEnd, CopyOut, Release, MoreToRead
<1> QED
  BY <1>2, <1>3, <1>4, <1>5 DEF Next

LEMMA FilledStep == TypeOK /\ LockInv /\ FilledInv /\ [Next]_vars => FilledInv'
<1> SUFFICES ASSUME TypeOK, LockInv, FilledInv, [Next]_vars PROVE FilledInv'
  OBVIOUS
<1> USE DEF ringVars, hwVars, svcVars, readerVars
<1>0. /\ pc \in [Readers -> ReaderPcs] /\ head \in [Readers -> Slots] /\ num_credit \in [Readers -> Nat]
      /\ rx_head \in Slots /\ Nobody \notin Readers
      /\ result \in [Slots -> 0 .. MaxBlocks] /\ buffer \in [Slots -> 0 .. MaxBlocks]
  BY RingAssumption DEF TypeOK
\* What no step but HwBlock and the reader's own does.
<1>1. ASSUME UNCHANGED <<result, buffer, rx_head, head, num_credit, fault>>,
             \A q \in Readers : Reads(q)' => pc[q] = pc'[q] \/ (Reads(q) /\ pc'[q] # "take")
      PROVE  FilledInv'
  <2>1. \A s, i : After(s, i)' = After(s, i)
    BY DEF After
  <2> QED
    BY <1>0, <1>1, <2>1 DEF FilledInv, Reads
<1>2. CASE HwBlock
  <2> DEFINE n == produced + 1
  <2>1. /\ result' = [result EXCEPT ![SlotOf(n)] = n] /\ buffer' = [buffer EXCEPT ![SlotOf(n)] = n]
        /\ n # 0 /\ UNCHANGED <<rx_head, head, num_credit, fault, pc>>
    BY <1>2 DEF HwBlock, TypeOK
  <2> HIDE DEF n
  <2>2. \A s \in Slots : (result'[s] # 0 => buffer'[s] # 0) /\ (buffer[s] # 0 => buffer'[s] # 0)
    BY <1>0, <2>1 DEF FilledInv
  <2>3. ASSUME NEW r \in Readers, Reads(r), NEW i \in 1 .. num_credit[r]
        PROVE  buffer'[After(head[r], i - 1)] # 0
    <3>1. i - 1 \in Nat /\ head[r] \in Slots
      BY <1>0
    <3>2. After(head[r], i - 1) \in Slots
      BY <3>1, AfterType
    <3> QED
      BY <2>2, <2>3, <3>2 DEF FilledInv
  <2> QED
    BY <2>1, <2>2, <2>3 DEF FilledInv, Reads, After
<1>3. CASE HwError \/ Isr \/ WorkBegin \/ WorkEnd \/ UNCHANGED vars
  BY <1>1, <1>3 DEF HwError, Isr, WorkBegin, WorkEnd, vars
<1>4. CASE Service
  <2>1. CASE ServiceStatus \/ RingProcess \/ RingProcessed \/ RingStop \/ PollWriteback
    BY <1>1, <2>1 DEF ServiceStatus, RingProcess, RingProcessed, RingStop, PollWriteback
  <2>2. CASE RingWake
    BY <1>0, <1>1, <2>2 DEF RingWake, wake_up, Reads
  <2> QED
    BY <1>4, <2>1, <2>2 DEF Service
<1>5. ASSUME NEW r \in Readers, ReadStart(r) \/ SignalArrives(r) \/ ReaderStep(r) PROVE FilledInv'
  <2>1. CASE ReadStart(r) \/ SignalArrives(r) \/ PollBegin(r) \/ PollEnd(r) \/ Monitor(r)
    BY <1>0, <1>1, <2>1 DEF ReadStart, SignalArrives, PollBegin, PollEnd, Monitor, Reads
  <2>2. CASE Recheck(r) \/ MoreToRead(r)
    BY <1>0, <1>1, <2>2 DEF Recheck, MoreToRead, ReadReturns, Reads
  <2>3. CASE CompleteEnd(r) \/ CopyOut(r) \/ Release(r)
    BY <1>0, <1>1, <2>3 DEF CompleteEnd, CopyOut, Release, Reads
  <2>4. CASE CompleteBegin(r)
    <3>1. /\ head' = [head EXCEPT ![r] = rx_head] /\ num_credit' = [num_credit EXCEPT ![r] = 0]
          /\ pc' = [pc EXCEPT ![r] = "take"] /\ UNCHANGED <<result, buffer, rx_head>>
          /\ \A q \in Readers : pc[q] # "take"
      BY <1>0, <2>4 DEF CompleteBegin, LockInv
    <3>2. rx_head = After(rx_head, 0)
      BY <1>0, AfterNone
    <3>3. \A q \in Readers : q # r => Reads(q)' = Reads(q) /\ head'[q] = head[q] /\ num_credit'[q] = num_credit[q]
      BY <1>0, <3>1 DEF Reads
    <3>4. \A i : i \notin 1 .. num_credit'[r]
      BY <1>0, <3>1
    <3>5. \A q \in Readers : q # r => pc'[q] # "take"
      BY <1>0, <3>1
    <3>6. head'[r] = rx_head' /\ num_credit'[r] = 0 /\ rx_head' = rx_head
      BY <1>0, <3>1
    <3>7. \A s, i : After(s, i)' = After(s, i)
      BY DEF After
    <3>8. ASSUME NEW q \in Readers, Reads(q)'
          PROVE  /\ \A i \in 1 .. num_credit'[q] : buffer'[After(head'[q], i - 1)] # 0
                 /\ pc'[q] = "take" /\ ~fault'[q] => rx_head' = After(head'[q], num_credit'[q])
      BY <3>1, <3>2, <3>3, <3>4, <3>5, <3>6, <3>8 DEF FilledInv
    <3>9. \A s \in Slots : result'[s] # 0 => buffer'[s] # 0
      BY <3>1 DEF FilledInv
    <3> QED
      BY <3>7, <3>8, <3>9 DEF FilledInv
  <2>5. CASE TakeResult(r)
    <3>1. /\ pc[r] = "take" /\ ~fault[r] /\ UNCHANGED <<buffer, head, pc>>
          /\ result' = [result EXCEPT ![rx_head] = 0] /\ rx_head' = After(rx_head, 1)
          /\ \A q \in Readers : q # r => pc[q] # "take" /\ num_credit'[q] = num_credit[q]
      BY <1>0, <2>5 DEF TakeResult, Taking, LockInv
    <3>2. \/ num_credit'[r] = num_credit[r] /\ fault'[r] = TRUE
          \/ num_credit'[r] = num_credit[r] + 1 /\ result[rx_head] # 0
      BY <1>0, <2>5 DEF TakeResult, TypeOK
    <3>3. /\ rx_head = After(head[r], num_credit[r])
          /\ \A i \in 1 .. num_credit[r] : buffer[After(head[r], i - 1)] # 0
          /\ result[rx_head] # 0 => buffer[rx_head] # 0
      BY <1>0, <3>1 DEF FilledInv, Reads
    <3>4. After(After(head[r], num_credit[r]), 1) = After(head[r], num_credit[r] + 1)
      BY <1>0, AfterType
    <3>5. /\ \A i \in 1 .. num_credit'[r] : buffer[After(head[r], i - 1)] # 0
          /\ ~fault'[r] => rx_head' = After(head[r], num_credit'[r])
      <4>1. num_credit[r] \in Nat /\ \A i \in 1 .. num_credit[r] + 1 : i \in 1 .. num_credit[r] \/ i - 1 = num_credit[r]
        BY <1>0
      <4> QED
        BY <3>1, <3>2, <3>3, <3>4, <4>1
    <3>6. \A s \in Slots : result'[s] # 0 => buffer[s] # 0
      BY <1>0, <3>1 DEF FilledInv
    <3>7. \A s, i : After(s, i)' = After(s, i)
      BY DEF After
    <3>8. ASSUME NEW q \in Readers, Reads(q)'
          PROVE  /\ \A i \in 1 .. num_credit'[q] : buffer[After(head[q], i - 1)] # 0
                 /\ pc[q] = "take" /\ ~fault'[q] => rx_head' = After(head[q], num_credit'[q])
      <4>1. CASE q = r
        BY <3>5, <4>1
      <4>2. CASE q # r
        BY <3>1, <3>8, <4>2 DEF FilledInv, Reads
      <4> QED
        BY <4>1, <4>2
    <3> QED
      BY <3>1, <3>6, <3>7, <3>8 DEF FilledInv
  <2> QED
    BY <1>5, <2>1, <2>2, <2>3, <2>4, <2>5 DEF ReaderStep
<1> QED
  BY <1>2, <1>3, <1>4, <1>5 DEF Next

LEMMA BaseStep == Base /\ [Next]_vars => Base'
BY TypeStep, LockStep, FilledStep, ReaderStepInv, BufferStep DEF Base

LEMMA SpecBase == Spec => []Base
BY InitBase, BaseStep, PTL DEF Spec

\* Types hold in every mode, also where the source runs round the ring: what
\* read() copies out is always a page the hardware has filled.
THEOREM Typed == Spec => []TypeOK
<1>1. Base => TypeOK
  BY DEF Base
<1> QED
  BY <1>1, SpecBase, PTL
-------------------------------------------------------------------------------
(* The ring, where the source does not run round it *)

LEMMA InitPlaced == Init => Placed(0, 0, [r \in Readers |-> 0])
<1> SUFFICES ASSUME Init PROVE Placed(0, 0, [r \in Readers |-> 0])
  OBVIOUS
<1> DEFINE base == [r \in Readers |-> 0]
<1>1. 0 % Pages = 0 /\ 0 \in Slots /\ 0 - 0 = 0
  BY Sizes, AfterNone DEF After, Slots
<1>2. /\ produced = 0 /\ rx_head = 0 /\ rx_tail = 0 /\ rx_overrun = FALSE
      /\ \A s \in Slots : result[s] = 0
      /\ \A r \in Readers : pc[r] = "idle"
      /\ \A b \in Blocks : copies[b] = 0
  BY DEF Init
<1>3. Window(0, 0)
  BY <1>1, <1>2, Sizes DEF Window
<1>4. Credits(0)
  <2>1. Held = {}
    BY <1>2 DEF Held, Holds
  <2>2. setup.enable_credit_mp => credits = InitCredits
    BY DEF Init
  <2> QED
    BY <1>2, <2>1, <2>2, FS_EmptySet, Sizes DEF Credits
<1>5. Taken(0, base)
  BY <1>2 DEF Taken, Reads
<1>6. Copied(0, base)
  BY <1>2 DEF Copied, Reads
<1> QED
  BY <1>3, <1>4, <1>5, <1>6 DEF Placed

LEMMA InitRing == Init => Ring
<1> DEFINE base == [r \in Readers |-> 0]
<1>1. base \in [Readers -> Nat] /\ 0 \in Nat
  OBVIOUS
<1> QED
  BY <1>1, InitPlaced DEF Ring

\* The setup does not change, nor what is said of it.
LEMMA SetupSays ==
  ASSUME setup' = setup
  PROVE  /\ KeepsUp' <=> KeepsUp
         /\ Alone' <=> Alone
         /\ NoFault' <=> NoFault
         /\ Apart' <=> Apart
BY DEF KeepsUp, Alone, NoFault, Apart

\* One reader is the only thread that is not idle.
LEMMA OneActive ==
  ASSUME TypeOK, ReaderInv, Alone, NEW r \in Readers, NEW q \in Readers, pc[r] # "idle", pc[q] # "idle"
  PROVE  r = q
<1>1. setup.readers \subseteq Readers
  BY RingAssumption DEF TypeOK, Setup
<1>2. IsFiniteSet(setup.readers)
  BY <1>1, RingAssumption, FS_Subset
<1>3. \E x : setup.readers = {x}
  BY <1>2, FS_Singleton DEF Alone
<1>4. r \in setup.readers /\ q \in setup.readers
  BY DEF ReaderInv
<1> QED
  BY <1>3, <1>4

\* The pages a reader has taken count for as many credits.
LEMMA HeldBy ==
  ASSUME NEW r \in Readers, NEW n \in Nat, Holds(r), num_credit[r] = n, IsFiniteSet(Held)
  PROVE  /\ {r} \X (1 .. n) \subseteq Held
         /\ IsFiniteSet({r} \X (1 .. n)) /\ Cardinality({r} \X (1 .. n)) = n
         /\ n <= Cardinality(Held) /\ Cardinality(Held) \in Nat
<1>1. {r} \X (1 .. n) \subseteq Held
  BY DEF Held
<1>2. IsFiniteSet({r}) /\ Cardinality({r}) = 1
  BY FS_Singleton
<1>3. IsFiniteSet(1 .. n) /\ Cardinality(1 .. n) = n
  BY FS_Interval
<1>4. IsFiniteSet({r} \X (1 .. n)) /\ Cardinality({r} \X (1 .. n)) = 1 * n
  <2> DEFINE S == {r}
             T == 1 .. n
  <2>1. IsFiniteSet(S) /\ IsFiniteSet(T) /\ Cardinality(S) = 1 /\ Cardinality(T) = n
    BY <1>2, <1>3
  <2> HIDE DEF S, T
  <2>2. IsFiniteSet(S \X T) /\ Cardinality(S \X T) = Cardinality(S) * Cardinality(T)
    BY <2>1, FS_Product
  <2>3. IsFiniteSet(S \X T) /\ Cardinality(S \X T) = 1 * n
    BY <2>1, <2>2
  <2> QED
    BY <2>3 DEF S, T
<1>5. n <= Cardinality(Held) /\ Cardinality(Held) \in Nat
  BY <1>1, <1>4, FS_Subset, FS_CardinalityType
<1> QED
  BY <1>1, <1>4, <1>5

\* Steps that move neither results nor pages.
LEMMA RingFrame ==
  ASSUME Base, NEW h \in Nat, NEW t \in Nat, NEW base \in [Readers -> Nat], Placed(h, t, base),
         UNCHANGED <<setup, produced, result, rx_head, rx_tail, rx_overrun, credits, copies,
                     head, num_credit, fault>>,
         \A r \in Readers : pc'[r] = pc[r] \/ ({pc[r], pc'[r]} \cap {"take", "copy", "release"} = {})
  PROVE  Placed(h, t, base)'
<1>1. \A r \in Readers : /\ Reads(r)' <=> Reads(r)
                         /\ Holds(r)' <=> Holds(r)
                         /\ Reads(r) => pc'[r] = pc[r]
  BY DEF Reads, Holds
<1>2. /\ Alone' <=> Alone
      /\ NoFault' <=> NoFault
      /\ Apart' <=> Apart
  BY SetupSays
<1>3. \A b : SlotOf(b)' = SlotOf(b)
  BY DEF SlotOf
<1>4. Window(h, t)'
  BY <1>3 DEF Placed, Window
<1>5. Credits(h)'
  <2>1. Held' = Held
    BY <1>1 DEF Held
  <2> QED
    BY <2>1 DEF Placed, Credits
<1>6. Taken(h, base)'
  BY <1>1, <1>2 DEF Placed, Taken
<1>7. Copied(h, base)'
  BY <1>1, <1>2 DEF Placed, Copied, ToCopy
<1> QED
  BY <1>4, <1>5, <1>6, <1>7 DEF Placed

\* The types that the steps below need.
LEMMA RingTypes ==
  ASSUME TypeOK
  PROVE  /\ produced \in Nat /\ produced \in 0 .. MaxBlocks /\ credits \in Nat
         /\ result \in [Slots -> 0 .. MaxBlocks] /\ buffer \in [Slots -> 0 .. MaxBlocks]
         /\ rx_head \in Slots /\ rx_tail \in Slots
         /\ pc \in [Readers -> ReaderPcs] /\ head \in [Readers -> Slots]
         /\ num_credit \in [Readers -> Nat] /\ fault \in [Readers -> BOOLEAN]
         /\ copies \in [Blocks -> Nat]
         /\ setup \in Setup /\ setup.blocks \in 0 .. MaxBlocks /\ setup.ahead \in Nat
         /\ setup.readers \subseteq Readers /\ setup.enable_credit_mp \in BOOLEAN
<1>1. setup \in Setup
  BY RingAssumption DEF TypeOK
<1>2. /\ setup.blocks \in 0 .. MaxBlocks /\ setup.ahead \in Nat
      /\ setup.readers \subseteq Readers /\ setup.enable_credit_mp \in BOOLEAN
  BY <1>1 DEF Setup
<1>3. produced \in 0 .. MaxBlocks /\ credits \in Nat /\ rx_head \in Slots /\ rx_tail \in Slots
  BY DEF TypeOK
<1>4. produced \in Nat
  BY <1>3, Sizes
<1>5. /\ result \in [Slots -> 0 .. MaxBlocks] /\ buffer \in [Slots -> 0 .. MaxBlocks]
      /\ pc \in [Readers -> ReaderPcs] /\ head \in [Readers -> Slots]
      /\ num_credit \in [Readers -> Nat] /\ fault \in [Readers -> BOOLEAN]
      /\ copies \in [Blocks -> Nat]
  BY DEF TypeOK
<1> QED
  BY <1>1, <1>2, <1>3, <1>4, <1>5

\* A reader that takes a result takes that of block h + 1, which the tail has passed.
LEMMA NextTaken ==
  ASSUME TypeOK, NEW r \in Readers, Taking(r), NEW h \in Nat, NEW t \in Nat, Window(h, t)
  PROVE  /\ h + 1 <= t /\ h + 1 \in h + 1 .. produced /\ h + 1 \in Blocks
         /\ rx_head = SlotOf(h + 1) /\ SlotOf(h + 1) \in Slots /\ result[rx_head] = h + 1
<1>1. produced \in 0 .. MaxBlocks /\ MaxBlocks \in Nat
  BY RingTypes, Sizes
<1>2. h <= t /\ t <= produced /\ h # t
  BY DEF Window, Taking
<1>3. h + 1 <= t /\ h + 1 \in h + 1 .. produced /\ h + 1 \in Blocks
  BY <1>1, <1>2 DEF Blocks
<1>4. rx_head = SlotOf(h + 1) /\ SlotOf(h + 1) \in Slots
  BY SlotType DEF Window
<1> QED
  BY <1>3, <1>4 DEF Window

\* The service sees no result but that of block t + 1.
LEMMA NextResult ==
  ASSUME TypeOK, MoreResults, NEW h \in Nat, NEW t \in Nat, Window(h, t)
  PROVE  t + 1 <= produced /\ result[rx_tail] = t + 1
<1>1. /\ h <= t /\ t <= produced /\ produced - h < Pages /\ produced \in Nat
      /\ \A b \in h + 1 .. produced : result[SlotOf(b)] = b
      /\ \A s \in Slots : result[s] # 0 => result[s] \in h + 1 .. produced /\ SlotOf(result[s]) = s
  BY RingTypes DEF Window
<1>2. rx_tail \in Slots /\ rx_tail = SlotOf(t + 1)
  BY SlotType DEF Window
<1>3. t + 1 <= produced
  <2>1. SUFFICES ASSUME t = produced PROVE FALSE
    BY <1>1
  <2>2. PICK c \in h + 1 .. produced : SlotOf(c) = SlotOf(t + 1)
    BY <1>1, <1>2 DEF MoreResults
  <2>3. c \in Nat \ {0} /\ t + 1 \in Nat \ {0} /\ c <= t + 1 /\ (t + 1) - c < Pages /\ c # t + 1
    BY <1>1, <2>1, Sizes
  <2> QED
    BY <2>2, <2>3, SlotApart
<1>4. t + 1 \in h + 1 .. produced
  BY <1>1, <1>3
<1> QED
  BY <1>1, <1>2, <1>3, <1>4

\* The hardware fills a page.
LEMMA HwBlockRing ==
  ASSUME Base, KeepsUp, HwBlock,
         NEW h \in Nat, NEW t \in Nat, NEW base \in [Readers -> Nat], Placed(h, t, base)
  PROVE  Placed(h, t, base)'
<1> DEFINE n == produced + 1
<1>1. /\ produced' = n /\ n \in Nat \ {0} /\ n \in Blocks /\ n <= setup.blocks
      /\ result' = [result EXCEPT ![SlotOf(n)] = n]
      /\ \A p \in Pending : n - p < setup.ahead
      /\ setup.enable_credit_mp => credits > 0 /\ credits' = credits - 1
      /\ UNCHANGED <<setup, rx_head, rx_tail, rx_overrun, pc, head, num_credit, fault, copies>>
  <2>1. produced \in Nat /\ setup.blocks \in 0 .. MaxBlocks
    BY RingTypes DEF Base
  <2>2. n <= setup.blocks
    BY DEF HwBlock
  <2>3. n \in Nat \ {0} /\ n \in Blocks
    BY <2>1, <2>2, Sizes DEF Blocks
  <2>4. setup.enable_credit_mp => credits > 0 /\ credits' = credits - 1
    BY DEF HwBlock
  <2> QED
    BY <2>2, <2>3, <2>4 DEF HwBlock, svcVars, readerVars
<1>2. /\ produced \in Nat /\ credits \in Nat /\ setup.ahead \in Nat
      /\ num_credit \in [Readers -> Nat] /\ copies \in [Blocks -> Nat]
      /\ result \in [Slots -> 0 .. MaxBlocks] /\ pc \in [Readers -> ReaderPcs]
  BY RingTypes DEF Base
<1>3. /\ \A r \in Readers : (Reads(r)' <=> Reads(r)) /\ (Holds(r)' <=> Holds(r))
      /\ Held' = Held
      /\ \A r \in Readers : ToCopy(r, base)' = ToCopy(r, base)
      /\ (Alone' <=> Alone) /\ (NoFault' <=> NoFault) /\ (Apart' <=> Apart)
      /\ \A b : SlotOf(b)' = SlotOf(b)
  BY <1>1, SetupSays DEF Reads, Holds, Held, ToCopy, SlotOf
<1>w. /\ h <= t /\ t <= produced /\ produced - h < Pages
      /\ rx_head = h % Pages /\ rx_tail = t % Pages /\ ~rx_overrun
      /\ \A b \in h + 1 .. produced : result[SlotOf(b)] = b
      /\ \A s \in Slots : result[s] # 0 => result[s] \in h + 1 .. produced /\ SlotOf(result[s]) = s
  BY DEF Placed, Window
<1>a. ASSUME ~setup.enable_credit_mp, NEW p \in 1 .. produced, copies[p] = 0 PROVE n - p < Pages - 1
  <2>1. p \in Pending
    BY <1>a DEF Pending
  <2>2. setup.ahead < Pages
    BY <1>a DEF KeepsUp
  <2> QED
    BY <1>1, <1>2, <2>1, <2>2, Sizes
<1>c. setup.enable_credit_mp => IsFiniteSet(Held) /\ Cardinality(Held) \in Nat
                                 /\ credits + (produced - h) + Cardinality(Held) <= InitCredits
  BY FS_CardinalityType DEF Placed, Credits
<1>4. n - h < Pages
  <2>1. CASE setup.enable_credit_mp
    BY <1>1, <1>2, <1>c, <2>1, Sizes
  <2>2. CASE ~setup.enable_credit_mp
    <3>1. CASE h = produced
      BY <1>2, <3>1, RingAssumption
    <3>2. CASE h # produced
      <4>1. h + 1 \in 1 .. produced /\ h + 1 \in Blocks
        BY <1>1, <1>2, <1>w, <3>2, Sizes DEF Blocks
      <4>2. copies[h + 1] = 0
        BY <2>2, <4>1 DEF Placed, Copied, Apart
      <4>3. n - (h + 1) < Pages - 1
        BY <1>a, <2>2, <4>1, <4>2
      <4> QED
        BY <1>2, <4>3, Sizes
    <3> QED
      BY <3>1, <3>2
  <2> QED
    BY <2>1, <2>2
<1>5. Window(h, t)'
  <2>1. \A b \in Nat \ {0} : SlotOf(b) \in Slots
    BY SlotType
  <2>2. ASSUME NEW b \in h + 1 .. produced PROVE SlotOf(b) # SlotOf(n)
    <3>1. b \in Nat \ {0} /\ b <= n /\ b # n /\ n - b < Pages
      BY <1>1, <1>2, <1>4, Sizes
    <3> QED
      BY <1>1, <3>1, SlotApart
  <2> HIDE DEF n
  <2>3. ASSUME NEW b \in h + 1 .. n PROVE result'[SlotOf(b)] = b
    <3>1. CASE b = n
      BY <1>1, <1>2, <2>1, <3>1
    <3>2. CASE b # n
      <4>1. b \in h + 1 .. produced /\ b \in Nat \ {0}
        BY <1>2, <3>2 DEF n
      <4> QED
        BY <1>1, <1>2, <1>w, <2>1, <2>2, <4>1
    <3> QED
      BY <3>1, <3>2
  <2>4. ASSUME NEW s \in Slots, result'[s] # 0
        PROVE  result'[s] \in h + 1 .. n /\ SlotOf(result'[s]) = s
    <3>1. CASE s = SlotOf(n)
      <4>1. result'[s] = n
        BY <1>1, <1>2, <3>1
      <4>2. n \in h + 1 .. n
        BY <1>1, <1>2, <1>w DEF n
      <4> QED
        BY <3>1, <4>1, <4>2
    <3>2. CASE s # SlotOf(n)
      <4>1. result'[s] = result[s]
        BY <1>1, <1>2, <3>2
      <4>2. result[s] \in h + 1 .. produced /\ SlotOf(result[s]) = s
        BY <1>w, <2>4, <4>1
      <4>3. result[s] \in h + 1 .. n
        BY <1>2, <4>2 DEF n
      <4> QED
        BY <4>1, <4>2, <4>3
    <3> QED
      BY <3>1, <3>2
  <2>5. h <= t /\ t <= n
    BY <1>2, <1>w DEF n
  <2> QED
    BY <1>1, <1>3, <1>4, <1>w, <2>3, <2>4, <2>5 DEF Window
<1>6. Credits(h)'
  BY <1>1, <1>2, <1>3, <1>c DEF Credits
<1>7. Taken(h, base)'
  BY <1>1, <1>3 DEF Placed, Taken
<1>8. Copied(h, base)'
  <2>1. ASSUME Apart, NEW r \in Readers, Reads(r), num_credit[r] > 0, ~fault[r]
        PROVE  n - base[r] < Pages
    <3>1. base[r] \in Nat /\ base[r] + num_credit[r] <= h /\ num_credit[r] \in Nat
      BY <1>2, <2>1 DEF Placed, Taken
    <3>2. CASE ~setup.enable_credit_mp
      <4>1. base[r] + 1 \in 1 .. produced /\ base[r] + 1 \in ToCopy(r, base)
        BY <1>2, <1>w, <2>1, <3>1 DEF ToCopy
      <4>2. copies[base[r] + 1] = 0
        BY <2>1, <4>1 DEF Placed, Copied
      <4>3. n - (base[r] + 1) < Pages - 1
        BY <1>a, <3>2, <4>1, <4>2
      <4> QED
        BY <1>2, <3>1, <4>3, Sizes
    <3>3. CASE setup.enable_credit_mp
      <4>1. Alone
        BY <2>1, <3>3 DEF Apart
      <4>2. h = base[r] + num_credit[r]
        BY <2>1, <3>1, <4>1 DEF Placed, Taken, Reads
      <4>3. num_credit[r] <= Cardinality(Held)
        BY <1>2, <1>c, <2>1, <3>3, HeldBy DEF Holds, Reads
      <4>4. credits > 0
        BY <1>1, <3>3
      <4> QED
        BY <1>2, <1>c, <3>1, <3>3, <4>2, <4>3, <4>4, Sizes
    <3> QED
      BY <3>2, <3>3
  <2> QED
    BY <1>1, <1>3, <2>1 DEF Placed, Copied
<1> QED
  BY <1>5, <1>6, <1>7, <1>8 DEF Placed

\* The service moves rx_tail over the next result, and never onto rx_head.
LEMMA RingProcessRing ==
  ASSUME Base, RingProcess,
         NEW h \in Nat, NEW t \in Nat, NEW base \in [Readers -> Nat], Placed(h, t, base)
  PROVE  Placed(h, t + 1, base)'
<1>1. /\ result[rx_tail] # 0 /\ rx_tail' = After(rx_tail, 1) /\ rx_overrun' = (rx_tail' = rx_head)
      /\ UNCHANGED <<setup, produced, result, rx_head, credits, copies, pc, head, num_credit, fault>>
  BY DEF RingProcess, MoreResults, ringVars, hwVars, svcVars, readerVars
<1>w. /\ h <= t /\ t <= produced /\ produced - h < Pages /\ produced \in Nat
      /\ rx_head = h % Pages /\ rx_tail = t % Pages
      /\ \A s \in Slots : result[s] # 0 => result[s] \in h + 1 .. produced /\ SlotOf(result[s]) = s
  BY RingTypes DEF Placed, Window, Base
<1>2. t + 1 <= produced
  BY NextResult DEF RingProcess, Placed, Base
<1>3. rx_tail' = (t + 1) % Pages
  BY <1>1, <1>w, AfterOf
<1>4. ~rx_overrun'
  <2>1. SUFFICES ASSUME (t + 1) % Pages = h % Pages PROVE FALSE
    BY <1>1, <1>3, <1>w
  <2>2. h <= t + 1 /\ (t + 1) - h < Pages /\ h # t + 1 /\ t + 1 \in Nat
    BY <1>w, <1>2, Sizes
  <2> QED
    BY <2>1, <2>2, ModInj, Sizes
<1>5. /\ \A r \in Readers : (Reads(r)' <=> Reads(r)) /\ (Holds(r)' <=> Holds(r))
      /\ Held' = Held
      /\ \A r \in Readers : ToCopy(r, base)' = ToCopy(r, base)
      /\ (Alone' <=> Alone) /\ (NoFault' <=> NoFault) /\ (Apart' <=> Apart)
      /\ \A b : SlotOf(b)' = SlotOf(b)
  BY <1>1, SetupSays DEF Reads, Holds, Held, ToCopy, SlotOf
<1>6. Window(h, t + 1)'
  BY <1>1, <1>2, <1>3, <1>4, <1>5, <1>w DEF Placed, Window
<1>7. Credits(h)' /\ Taken(h, base)' /\ Copied(h, base)'
  BY <1>1, <1>5 DEF Placed, Credits, Taken, Copied
<1> QED
  BY <1>6, <1>7 DEF Placed

\* A reader begins to take results: after the h blocks that were taken.
LEMMA CompleteBeginRing ==
  ASSUME Base, NEW r \in Readers, CompleteBegin(r),
         NEW h \in Nat, NEW t \in Nat, NEW base \in [Readers -> Nat], Placed(h, t, base)
  PROVE  Placed(h, t, [base EXCEPT ![r] = h])'
<1> DEFINE base2 == [base EXCEPT ![r] = h]
<1>t. /\ pc \in [Readers -> ReaderPcs] /\ head \in [Readers -> Slots] /\ num_credit \in [Readers -> Nat]
      /\ fault \in [Readers -> BOOLEAN]
  BY RingTypes DEF Base
<1>1. /\ pc[r] = "complete" /\ pc' = [pc EXCEPT ![r] = "take"]
      /\ head' = [head EXCEPT ![r] = rx_head] /\ num_credit' = [num_credit EXCEPT ![r] = 0]
      /\ fault' = [fault EXCEPT ![r] = FALSE]
      /\ UNCHANGED <<setup, produced, result, rx_head, rx_tail, rx_overrun, credits, copies>>
  BY DEF CompleteBegin, ringVars, hwVars
<1>2. /\ ~Reads(r) /\ ~Holds(r) /\ Reads(r)'
      /\ pc'[r] = "take" /\ head'[r] = rx_head /\ num_credit'[r] = 0 /\ fault'[r] = FALSE /\ base2[r] = h
  BY <1>t, <1>1 DEF Reads, Holds
<1>3. \A q \in Readers : q # r =>
        /\ Reads(q)' <=> Reads(q)
        /\ Holds(q)' <=> Holds(q)
        /\ pc'[q] = pc[q] /\ head'[q] = head[q] /\ num_credit'[q] = num_credit[q] /\ fault'[q] = fault[q]
        /\ base2[q] = base[q] /\ ToCopy(q, base2)' = ToCopy(q, base)
  BY <1>t, <1>1 DEF Reads, Holds, ToCopy
<1>4. ToCopy(r, base2)' = {}
  BY <1>2 DEF ToCopy
<1>5. /\ (Alone' <=> Alone) /\ (NoFault' <=> NoFault) /\ (Apart' <=> Apart)
      /\ \A b : SlotOf(b)' = SlotOf(b)
  BY <1>1, SetupSays DEF SlotOf
<1> HIDE DEF base2
<1>6. Window(h, t)'
  BY <1>1, <1>5 DEF Placed, Window
<1>7. Credits(h)'
  <2>1. Held' = Held
    BY <1>2, <1>3 DEF Held
  <2> QED
    BY <1>1, <2>1 DEF Placed, Credits
<1>8. Taken(h, base2)'
  <2>1. \A q \in Readers : q # r /\ Reads(q)' =>
          /\ head'[q] = base2[q] % Pages
          /\ base2[q] + num_credit'[q] <= h
          /\ pc'[q] = "take" => h = base2[q] + num_credit'[q] + (IF fault'[q] THEN 1 ELSE 0)
          /\ pc'[q] = "copy" => ~fault'[q] /\ (Alone => h = base2[q] + num_credit'[q])
          /\ NoFault => ~fault'[q]
    BY <1>3 DEF Placed, Taken
  <2>2. rx_head = h % Pages
    BY DEF Placed, Window
  <2> QED
    BY <1>2, <1>5, <2>1, <2>2 DEF Taken
<1>9. Copied(h, base2)'
  <2> SUFFICES ASSUME Apart PROVE Copied(h, base2)'
    BY <1>5 DEF Copied
  <2>1. \A q \in Readers : Reads(q)' =>
          /\ \A b \in ToCopy(q, base2)' : copies[b] = 0
          /\ num_credit'[q] > 0 /\ ~fault'[q] => produced - base2[q] < Pages
    BY <1>2, <1>3, <1>4 DEF Placed, Copied
  <2>2. \A p, q \in Readers : Reads(p)' /\ Reads(q)' /\ p # q =>
          ToCopy(p, base2)' \cap ToCopy(q, base2)' = {}
    BY <1>3, <1>4 DEF Placed, Copied
  <2>3. ASSUME Alone, NoFault, NEW b \in 1 .. h PROVE copies[b] = 1
    <3>1. copies[b] = 1 \/ \E q \in Readers : Reads(q) /\ b > base[q]
      BY <2>3 DEF Placed, Copied
    <3>2. \A q \in Readers : ~Reads(q)
      BY <1>1, <1>2, <2>3, OneActive DEF Base, Reads
    <3> QED
      BY <3>1, <3>2
  <2>4. \A b \in Blocks : copies[b] <= 1 /\ (b > h => copies[b] = 0)
    BY DEF Placed, Copied
  <2> QED
    BY <1>1, <1>5, <2>1, <2>2, <2>3, <2>4 DEF Copied
<1> QED
  BY <1>6, <1>7, <1>8, <1>9 DEF Placed, base2

\* A reader takes the result of block h + 1.
LEMMA TakeResultRing ==
  ASSUME Base, NEW r \in Readers, TakeResult(r),
         NEW h \in Nat, NEW t \in Nat, NEW base \in [Readers -> Nat], Placed(h, t, base)
  PROVE  Placed(h + 1, t, base)'
<1> DEFINE b1 == h + 1
<1>t. /\ pc \in [Readers -> ReaderPcs] /\ num_credit \in [Readers -> Nat] /\ fault \in [Readers -> BOOLEAN]
      /\ result \in [Slots -> 0 .. MaxBlocks] /\ produced \in 0 .. MaxBlocks /\ copies \in [Blocks -> Nat]
      /\ rx_head \in Slots /\ credits \in Nat /\ MaxBlocks \in Nat
  BY RingTypes, Sizes DEF Base
<1>w. /\ h <= t /\ t <= produced /\ produced - h < Pages
      /\ rx_head = h % Pages /\ rx_tail = t % Pages /\ ~rx_overrun
      /\ \A b \in h + 1 .. produced : result[SlotOf(b)] = b
      /\ \A s \in Slots : result[s] # 0 => result[s] \in h + 1 .. produced /\ SlotOf(result[s]) = s
  BY DEF Placed, Window
<1>1. /\ pc[r] = "take" /\ ~fault[r] /\ rx_head # rx_tail
      /\ result' = [result EXCEPT ![rx_head] = 0] /\ rx_head' = After(rx_head, 1)
      /\ UNCHANGED <<setup, produced, rx_tail, rx_overrun, credits, copies, pc, head>>
  BY <1>w DEF TakeResult, Taking, hwVars
<1>2. b1 <= t /\ b1 \in h + 1 .. produced /\ b1 \in Blocks
  BY NextTaken DEF TakeResult, Placed, Base
<1>3. rx_head = SlotOf(b1) /\ result[rx_head] = b1 /\ SlotOf(b1) \in Slots
  BY NextTaken DEF TakeResult, Placed, Base
<1>4. /\ \/ num_credit' = [num_credit EXCEPT ![r] = num_credit[r] + 1] /\ fault' = [fault EXCEPT ![r] = FALSE]
         \/ num_credit' = num_credit /\ fault' = [fault EXCEPT ![r] = TRUE] /\ b1 \in bads
  <2>1. CASE b1 \in bads
    BY <1>t, <1>3, <2>1 DEF TakeResult
  <2>2. CASE b1 \notin bads
    <3>1. result[rx_head] # 0 /\ result[rx_head] \notin bads
      BY <1>3, <2>2
    <3> QED
      BY <3>1 DEF TakeResult
  <2> QED
    BY <2>1, <2>2
<1>5. /\ Reads(r) /\ Holds(r) /\ base[r] + num_credit[r] = h /\ head[r] = base[r] % Pages
      /\ base[r] \in Nat /\ num_credit[r] \in Nat
  BY <1>t, <1>1 DEF Reads, Holds, Placed, Taken
<1>6. /\ \A q \in Readers : (Reads(q)' <=> Reads(q)) /\ (Holds(q)' <=> Holds(q))
      /\ \A q \in Readers : q # r => /\ num_credit'[q] = num_credit[q] /\ fault'[q] = fault[q]
                                     /\ ToCopy(q, base)' = ToCopy(q, base) /\ pc[q] # "take"
      /\ (Alone' <=> Alone) /\ (NoFault' <=> NoFault) /\ (Apart' <=> Apart)
      /\ \A b : SlotOf(b)' = SlotOf(b)
  <2>1. \A q \in Readers : q # r => pc[q] # "take"
    BY <1>1 DEF Base, LockInv
  <2> QED
    BY <1>t, <1>1, <1>4, <2>1, SetupSays DEF Reads, Holds, ToCopy, SlotOf
<1>7. Window(b1, t)'
  <2>1. rx_head' = b1 % Pages
    BY <1>w, <1>1, AfterOf
  <2>2. ASSUME NEW b \in b1 + 1 .. produced PROVE result'[SlotOf(b)] = b
    <3>1. b \in h + 1 .. produced /\ b \in Nat \ {0} /\ b1 \in Nat \ {0} /\ b1 <= b /\ b - b1 < Pages /\ b1 # b
      BY <1>t, <1>w, Sizes
    <3>2. SlotOf(b) # SlotOf(b1) /\ SlotOf(b) \in Slots
      BY <3>1, SlotApart, SlotType
    <3> QED
      BY <1>t, <1>w, <1>1, <1>3, <3>1, <3>2
  <2>3. ASSUME NEW s \in Slots, result'[s] # 0
        PROVE  result'[s] \in b1 + 1 .. produced /\ SlotOf(result'[s]) = s
    <3>1. s # SlotOf(b1) /\ result'[s] = result[s]
      BY <1>t, <1>1, <1>3, <2>3
    <3>2. result[s] \in h + 1 .. produced /\ SlotOf(result[s]) = s
      BY <1>w, <2>3, <3>1
    <3>3. result[s] # b1
      BY <3>1, <3>2
    <3> QED
      BY <1>t, <3>1, <3>2, <3>3
  <2>4. produced - b1 < Pages
    BY <1>t, <1>w, Sizes
  <2> QED
    BY <1>1, <1>2, <1>6, <1>w, <2>1, <2>2, <2>3, <2>4 DEF Window
<1>8. Credits(b1)'
  <2> SUFFICES ASSUME setup.enable_credit_mp PROVE Credits(b1)'
    BY <1>1 DEF Credits
  <2>1. /\ IsFiniteSet(Held) /\ Cardinality(Held) \in Nat
        /\ credits + (produced - h) + Cardinality(Held) <= InitCredits
    BY FS_CardinalityType DEF Placed, Credits
  <2>2. IsFiniteSet(Held') /\ Cardinality(Held') \in Nat /\ Cardinality(Held') <= Cardinality(Held) + 1
    <3>1. CASE num_credit' = [num_credit EXCEPT ![r] = num_credit[r] + 1]
      <4>1. Held' = Held \cup {<<r, num_credit[r] + 1>>}
        <5> DEFINE n == num_credit[r]
                   new == <<r, n + 1>>
        <5>1. /\ \A i \in Nat : i \in 1 .. num_credit'[r] <=> i \in 1 .. n \/ i = n + 1
              /\ n + 1 \in Nat
          BY <1>t, <1>5, <3>1
        <5>2. new \in Held'
          BY <1>5, <1>6, <5>1 DEF Held
        <5> HIDE DEF n
        <5>3. ASSUME NEW q \in Readers, NEW i \in Nat
              PROVE  <<q, i>> \in Held' <=> <<q, i>> \in Held \/ <<q, i>> = new
          <6>1. CASE q = r
            BY <1>5, <1>6, <5>1, <6>1 DEF Held, n
          <6>2. CASE q # r
            BY <1>6, <6>2 DEF Held
          <6> QED
            BY <6>1, <6>2
        <5>4. Held \subseteq Readers \X Nat /\ Held' \subseteq Readers \X Nat /\ new \in Readers \X Nat
          BY <5>1 DEF Held, n
        <5> HIDE DEF new
        <5>5. \A x \in Readers \X Nat : x \in Held' <=> x \in Held \/ x = new
          BY <5>3
        <5>6. Held' = Held \cup {new}
          BY <5>4, <5>5
        <5> QED
          BY <5>6 DEF new, n
      <4>2. \A x : IsFiniteSet(Held \cup {x}) /\ Cardinality(Held \cup {x}) \in {Cardinality(Held), Cardinality(Held) + 1}
        BY <2>1, FS_AddElement
      <4>3. IsFiniteSet(Held') /\ Cardinality(Held') \in {Cardinality(Held), Cardinality(Held) + 1}
        BY <4>1, <4>2, Zenon
      <4> QED
        BY <2>1, <4>3
    <3>2. CASE num_credit' = num_credit
      <4>1. Held' = Held
        BY <1>6, <3>2 DEF Held
      <4> QED
        BY <2>1, <4>1
    <3> QED
      BY <1>4, <3>1, <3>2
  <2> QED
    BY <1>t, <1>w, <1>1, <2>1, <2>2, Sizes DEF Credits
<1>9. Taken(b1, base)'
  <2>1. /\ base[r] + num_credit'[r] <= b1
        /\ b1 = base[r] + num_credit'[r] + (IF fault'[r] THEN 1 ELSE 0)
        /\ NoFault => ~fault'[r]
    BY <1>t, <1>4, <1>5 DEF Base, ReaderInv
  <2>2. ASSUME NEW q \in Readers, q # r, Reads(q)
        PROVE  /\ head[q] = base[q] % Pages
               /\ base[q] + num_credit'[q] <= b1
               /\ pc[q] = "copy" => ~fault'[q] /\ (Alone => b1 = base[q] + num_credit'[q])
               /\ NoFault => ~fault'[q]
    <3>1. ~Alone
      BY <1>1, <2>2, OneActive DEF Base, Reads
    <3> QED
      BY <1>t, <1>6, <2>2, <3>1 DEF Placed, Taken
  <2> QED
    BY <1>1, <1>5, <1>6, <2>1, <2>2 DEF Taken
<1>10. Copied(b1, base)'
  <2> SUFFICES ASSUME Apart PROVE Copied(b1, base)'
    BY <1>6 DEF Copied
  <2>1. \A b \in Blocks : copies[b] <= 1 /\ (b > h => copies[b] = 0)
    BY DEF Placed, Copied
  <2>2. ToCopy(r, base)' \subseteq ToCopy(r, base) \cup {b1}
    <3>1. num_credit'[r] \in {num_credit[r], num_credit[r] + 1}
      BY <1>t, <1>4
    <3> QED
      BY <1>5, <3>1 DEF ToCopy
  <2>3. \A b \in ToCopy(r, base)' : copies[b] = 0
    BY <1>2, <1>5, <2>1, <2>2 DEF Placed, Copied
  <2>4. num_credit'[r] > 0 /\ ~fault'[r] => produced - base[r] < Pages
    <3>1. CASE num_credit[r] = 0
      BY <1>5, <1>w, <3>1
    <3>2. CASE num_credit[r] # 0
      BY <1>1, <1>5, <3>2 DEF Placed, Copied
    <3> QED
      BY <3>1, <3>2
  <2>5. ASSUME NEW q \in Readers, q # r, Reads(q)
        PROVE  /\ ToCopy(q, base)' = ToCopy(q, base)
               /\ ToCopy(q, base) \cap ToCopy(r, base)' = {}
    <3>1. base[q] + num_credit[q] <= h /\ base[q] \in Nat /\ num_credit[q] \in Nat
      BY <1>t, <2>5 DEF Placed, Taken
    <3>2. b1 \notin ToCopy(q, base)
      BY <3>1 DEF ToCopy
    <3>3. ToCopy(q, base) \cap ToCopy(r, base) = {}
      BY <1>5, <2>5 DEF Placed, Copied
    <3> QED
      BY <1>6, <2>2, <2>5, <3>2, <3>3
  <2>6. ASSUME Alone, NoFault, NEW b \in 1 .. b1
        PROVE  copies[b] = 1 \/ \E q \in Readers : Reads(q) /\ b > base[q]
    <3>1. CASE b \in 1 .. h
      BY <2>6, <3>1 DEF Placed, Copied
    <3>2. CASE b \notin 1 .. h
      BY <1>5, <3>2
    <3> QED
      BY <3>1, <3>2
  <2>7. ASSUME NEW q \in Readers, Reads(q)
        PROVE  /\ \A b \in ToCopy(q, base)' : copies[b] = 0
               /\ num_credit'[q] > 0 /\ ~fault'[q] => produced - base[q] < Pages
    <3>1. CASE q = r
      BY <2>3, <2>4, <3>1
    <3>2. CASE q # r
      BY <1>6, <2>7, <3>2 DEF Placed, Copied
    <3> QED
      BY <3>1, <3>2
  <2>8. ASSUME NEW p \in Readers, NEW q \in Readers, Reads(p), Reads(q), p # q
        PROVE  ToCopy(p, base)' \cap ToCopy(q, base)' = {}
    <3>1. CASE p # r /\ q # r
      BY <2>5, <2>8, <3>1 DEF Placed, Copied
    <3>2. CASE p = r \/ q = r
      BY <2>5, <2>8, <3>2
    <3> QED
      BY <3>1, <3>2
  <2>9. \A b \in Blocks : b > b1 => copies[b] = 0
    BY <2>1 DEF Blocks
  <2> QED
    BY <1>1, <1>6, <2>1, <2>6, <2>7, <2>8, <2>9 DEF Copied
<1> QED
  BY <1>7, <1>8, <1>9, <1>10 DEF Placed

\* A step of reader r that only moves it on, and out of what is held or read.
LEMMA MovesOn ==
  ASSUME Base, NEW r \in Readers, NEW next, pc' = [pc EXCEPT ![r] = next],
         NEW h \in Nat, NEW t \in Nat, NEW base \in [Readers -> Nat], Placed(h, t, base),
         UNCHANGED <<setup, produced, result, rx_head, rx_tail, rx_overrun, credits,
                     head, num_credit, fault>>,
         \/ pc[r] = "take" /\ next = "copy" /\ ~fault[r]
         \/ pc[r] = "take" /\ next = "more" /\ fault[r]
         \/ pc[r] = "copy" /\ next = "release"
  PROVE  Window(h, t)' /\ Credits(h)' /\ Taken(h, base)'
<1>t. pc \in [Readers -> ReaderPcs] /\ num_credit \in [Readers -> Nat] /\ fault \in [Readers -> BOOLEAN]
      /\ credits \in Nat /\ produced \in Nat
  BY RingTypes DEF Base
<1>1. /\ \A q \in Readers : (Reads(q)' => Reads(q)) /\ (Holds(q)' => Holds(q))
      /\ \A q \in Readers :
           Reads(q)' => pc'[q] = pc[q] \/ (q = r /\ pc[r] = "take" /\ pc'[r] = "copy" /\ ~fault[r])
      /\ (Alone' <=> Alone) /\ (NoFault' <=> NoFault)
      /\ \A b : SlotOf(b)' = SlotOf(b)
  <2>1. pc'[r] = next /\ \A q \in Readers : q # r => pc'[q] = pc[q]
    BY <1>t
  <2>2. /\ \A q \in Readers : (Reads(q)' => Reads(q)) /\ (Holds(q)' => Holds(q))
        /\ \A q \in Readers :
             Reads(q)' => pc'[q] = pc[q] \/ (q = r /\ pc[r] = "take" /\ pc'[r] = "copy" /\ ~fault[r])
    BY <2>1 DEF Reads, Holds
  <2> QED
    BY <2>2, SetupSays DEF SlotOf
<1>2. Window(h, t)'
  BY <1>1 DEF Placed, Window
<1>3. Credits(h)'
  <2> SUFFICES ASSUME setup.enable_credit_mp PROVE Credits(h)'
    BY DEF Credits
  <2>1. IsFiniteSet(Held) /\ credits + (produced - h) + Cardinality(Held) <= InitCredits
    BY DEF Placed, Credits
  <2>2. Held' \subseteq Held
    BY <1>1 DEF Held
  <2>3. /\ IsFiniteSet(Held') /\ Cardinality(Held') <= Cardinality(Held)
        /\ Cardinality(Held') \in Nat /\ Cardinality(Held) \in Nat
    BY <2>1, <2>2, FS_Subset, FS_CardinalityType
  <2> QED
    BY <1>t, <2>1, <2>3, Sizes DEF Credits
<1>4. Taken(h, base)'
  <2>1. ASSUME NEW q \in Readers, Reads(q)'
        PROVE  /\ head[q] = base[q] % Pages
               /\ base[q] + num_credit[q] <= h
               /\ pc'[q] = "take" => h = base[q] + num_credit[q] + (IF fault[q] THEN 1 ELSE 0)
               /\ pc'[q] = "copy" => ~fault[q] /\ (Alone => h = base[q] + num_credit[q])
               /\ NoFault => ~fault[q]
    <3>1. CASE pc'[q] = pc[q]
      BY <1>1, <2>1, <3>1 DEF Placed, Taken
    <3>2. CASE pc'[q] # pc[q]
      <4>1. q = r /\ pc[q] = "take" /\ pc'[q] = "copy" /\ ~fault[q] /\ Reads(q)
        BY <1>1, <2>1, <3>2
      <4>2. h = base[q] + num_credit[q]
        BY <1>t, <4>1 DEF Placed, Taken
      <4> QED
        BY <1>t, <4>1, <4>2 DEF Placed, Taken
    <3> QED
      BY <3>1, <3>2
  <2> QED
    BY <1>1, <2>1 DEF Taken
<1> QED
  BY <1>2, <1>3, <1>4

\* A reader ends taking results.
LEMMA CompleteEndRing ==
  ASSUME Base, NEW r \in Readers, CompleteEnd(r),
         NEW h \in Nat, NEW t \in Nat, NEW base \in [Readers -> Nat], Placed(h, t, base)
  PROVE  Placed(h, t, base)'
<1>t. pc \in [Readers -> ReaderPcs] /\ fault \in [Readers -> BOOLEAN]
  BY RingTypes DEF Base
<1>1. /\ pc[r] = "take" /\ pc' = [pc EXCEPT ![r] = IF fault[r] THEN "more" ELSE "copy"]
      /\ UNCHANGED <<setup, produced, result, rx_head, rx_tail, rx_overrun, credits, copies,
                     head, num_credit, fault>>
  BY DEF CompleteEnd, ringVars, hwVars
<1>2. Window(h, t)' /\ Credits(h)' /\ Taken(h, base)'
  BY <1>1, MovesOn
<1>3. /\ \A q \in Readers : Reads(q)' => Reads(q)
      /\ \A q \in Readers : ToCopy(q, base)' = ToCopy(q, base)
      /\ (Alone' <=> Alone) /\ (NoFault' <=> NoFault) /\ (Apart' <=> Apart)
  BY <1>t, <1>1, SetupSays DEF Reads, ToCopy
<1>4. Copied(h, base)'
  <2>1. NoFault => \A q \in Readers : Reads(q) => Reads(q)'
    BY <1>t, <1>1 DEF Placed, Taken, Reads
  <2> QED
    BY <1>1, <1>3, <2>1 DEF Placed, Copied
<1> QED
  BY <1>2, <1>4 DEF Placed

\* The pages that a reader copies out are the blocks it has taken.
LEMMA PagesCopied ==
  ASSUME Base, Apart, NEW r \in Readers, pc[r] = "copy",
         NEW h \in Nat, NEW t \in Nat, NEW base \in [Readers -> Nat], Placed(h, t, base)
  PROVE  [i \in 1 .. num_credit[r] |-> buffer[After(FirstPage(r), i - 1)]]
           = [i \in 1 .. num_credit[r] |-> base[r] + i]
<1>1. /\ num_credit[r] \in Nat /\ produced \in Nat /\ base[r] \in Nat
      /\ head[r] = base[r] % Pages /\ base[r] + num_credit[r] <= h /\ h <= produced
      /\ num_credit[r] > 0 => produced - base[r] < Pages
  BY RingTypes DEF Base, Placed, Taken, Window, Copied, Reads
<1>2. ASSUME NEW i \in 1 .. num_credit[r] PROVE buffer[After(FirstPage(r), i - 1)] = base[r] + i
  <2> DEFINE b == base[r] + i
  <2>1. i - 1 \in Nat /\ b \in 1 .. produced /\ produced - b < Pages /\ b - 1 = base[r] + (i - 1)
    BY <1>1, Sizes
  <2>2. After(FirstPage(r), i - 1) = SlotOf(b)
    BY <1>1, <2>1, AfterOf DEF FirstPage, SlotOf
  <2> QED
    BY <2>1, <2>2 DEF Base, BufferInv
<1> QED
  BY <1>2

\* So copy_cyclic_to_user counts each of them once more, and no other.
LEMMA CopiesAfter ==
  ASSUME Base, Apart, NEW r \in Readers, CopyOut(r),
         NEW h \in Nat, NEW t \in Nat, NEW base \in [Readers -> Nat], Placed(h, t, base)
  PROVE  /\ got' = [got EXCEPT ![r] = @ \o [i \in 1 .. num_credit[r] |-> base[r] + i]]
         /\ \A b \in Blocks : copies'[b] = IF b \in ToCopy(r, base) THEN 1 ELSE copies[b]
<1> DEFINE pages == [i \in 1 .. num_credit[r] |-> base[r] + i]
<1>0. pc[r] = "copy" /\ num_credit \in [Readers -> Nat]
  BY RingTypes DEF CopyOut, Base
<1>1. /\ pages = [i \in 1 .. num_credit[r] |-> buffer[After(FirstPage(r), i - 1)]]
      /\ num_credit[r] \in Nat /\ base[r] \in Nat /\ Reads(r)
  <2>1. pages = [i \in 1 .. num_credit[r] |-> buffer[After(FirstPage(r), i - 1)]]
    BY <1>0, PagesCopied
  <2> HIDE DEF pages
  <2> QED
    BY <1>0, <2>1 DEF Reads
<1>2. got' = [got EXCEPT ![r] = @ \o pages]
  BY <1>1 DEF CopyOut
<1>3. copies' = [b \in Blocks |-> copies[b] + Cardinality({i \in DOMAIN pages : pages[i] = b})]
  BY <1>1 DEF CopyOut
<1>4. ASSUME NEW b \in Blocks PROVE copies'[b] = IF b \in ToCopy(r, base) THEN 1 ELSE copies[b]
  <2> DEFINE among == {i \in DOMAIN pages : pages[i] = b}
  <2>0. copies'[b] = copies[b] + Cardinality(among) /\ copies[b] \in Nat
    BY <1>3, RingTypes DEF Base
  <2>1. b \in Nat
    BY DEF Blocks
  <2>2. CASE b \in ToCopy(r, base)
    <3>1. b - base[r] \in 1 .. num_credit[r] /\ base[r] + (b - base[r]) = b
      BY <1>1, <2>1, <2>2 DEF ToCopy
    <3>2. among = {b - base[r]}
      BY <1>1, <2>1, <3>1
    <3>3. Cardinality(among) = 1
      BY <3>2, FS_Singleton
    <3>4. copies[b] = 0
      BY <1>1, <2>2 DEF Placed, Copied
    <3> QED
      BY <2>0, <2>2, <3>3, <3>4
  <2>3. CASE b \notin ToCopy(r, base)
    <3>1. among = {}
      BY <1>1, <2>1, <2>3 DEF ToCopy
    <3>2. Cardinality(among) = 0
      BY <3>1, FS_EmptySet
    <3> QED
      BY <2>0, <2>3, <3>2
  <2> QED
    BY <2>2, <2>3
<1> QED
  BY <1>2, <1>4

\* A reader copies out what it has taken.
LEMMA CopyOutRing ==
  ASSUME Base, NEW r \in Readers, CopyOut(r),
         NEW h \in Nat, NEW t \in Nat, NEW base \in [Readers -> Nat], Placed(h, t, base)
  PROVE  Placed(h, t, base)'
<1>t. /\ pc \in [Readers -> ReaderPcs] /\ num_credit \in [Readers -> Nat] /\ copies \in [Blocks -> Nat]
      /\ produced \in 0 .. MaxBlocks /\ MaxBlocks \in Nat
  BY RingTypes, Sizes DEF Base
<1>1. /\ pc[r] = "copy" /\ pc' = [pc EXCEPT ![r] = "release"]
      /\ UNCHANGED <<setup, produced, result, rx_head, rx_tail, rx_overrun, credits,
                     head, num_credit, fault>>
  BY DEF CopyOut, ringVars, hwVars, svcVars
<1>2. Window(h, t)' /\ Credits(h)' /\ Taken(h, base)'
  BY <1>1, MovesOn
<1>3. /\ \A q \in Readers : Reads(q)' <=> Reads(q) /\ q # r
      /\ \A q \in Readers : ToCopy(q, base)' = ToCopy(q, base)
      /\ (Alone' <=> Alone) /\ (NoFault' <=> NoFault) /\ (Apart' <=> Apart)
      /\ Reads(r)
  BY <1>t, <1>1, SetupSays DEF Reads, ToCopy
<1>4. Copied(h, base)'
  <2> SUFFICES ASSUME Apart PROVE Copied(h, base)'
    BY <1>3 DEF Copied
  <2>1. \A b \in Blocks : copies'[b] = IF b \in ToCopy(r, base) THEN 1 ELSE copies[b]
    BY CopiesAfter
  <2>2. base[r] + num_credit[r] <= h /\ base[r] \in Nat /\ num_credit[r] \in Nat /\ h <= produced
    BY <1>t, <1>3 DEF Placed, Taken, Window
  <2>3. \A b \in ToCopy(r, base) : b \in Blocks /\ b <= h
    BY <1>t, <2>2 DEF ToCopy, Blocks
  <2>4. \A b \in Blocks : copies'[b] <= 1 /\ (b > h => copies'[b] = 0)
    BY <2>1, <2>3 DEF Placed, Copied, Blocks
  <2>5. ASSUME NEW q \in Readers, Reads(q)'
        PROVE  /\ \A b \in ToCopy(q, base) : copies'[b] = 0
               /\ num_credit[q] > 0 /\ ~fault[q] => produced - base[q] < Pages
    <3>1. q # r /\ Reads(q) /\ base[q] \in Nat /\ num_credit[q] \in Nat /\ base[q] + num_credit[q] <= h
      BY <1>t, <1>3, <2>5 DEF Placed, Taken
    <3>2. ToCopy(q, base) \cap ToCopy(r, base) = {}
      BY <1>3, <3>1 DEF Placed, Copied
    <3>3. \A b \in ToCopy(q, base) : b \in Blocks
      BY <1>t, <2>2, <3>1 DEF ToCopy, Blocks
    <3> QED
      BY <2>1, <3>1, <3>2, <3>3 DEF Placed, Copied
  <2>6. ASSUME Alone, NoFault, NEW b \in 1 .. h PROVE copies'[b] = 1
    <3>1. \A q \in Readers : Reads(q) => q = r
      BY <1>3, <2>6, OneActive DEF Base, Reads
    <3>2. h = base[r] + num_credit[r]
      BY <1>1, <1>3, <2>6 DEF Placed, Taken
    <3>3. copies[b] = 1 \/ b > base[r]
      BY <2>6, <3>1 DEF Placed, Copied
    <3>4. b > base[r] => b \in ToCopy(r, base)
      BY <2>2, <3>2 DEF ToCopy
    <3>5. b \in Blocks
      BY <1>t, <2>2 DEF Blocks
    <3> QED
      BY <2>1, <3>3, <3>4, <3>5
  <2>7. \A p, q \in Readers : Reads(p)' /\ Reads(q)' /\ p # q => ToCopy(p, base) \cap ToCopy(q, base) = {}
    BY <1>3 DEF Placed, Copied
  <2> QED
    BY <1>1, <1>3, <2>4, <2>5, <2>6, <2>7 DEF Copied
<1> QED
  BY <1>2, <1>4 DEF Placed

\* A reader gives back as many credits as it holds pages.
LEMMA ReleaseRing ==
  ASSUME Base, NEW r \in Readers, Release(r),
         NEW h \in Nat, NEW t \in Nat, NEW base \in [Readers -> Nat], Placed(h, t, base)
  PROVE  Placed(h, t, base)'
<1> DEFINE n == num_credit[r]
<1>t. /\ pc \in [Readers -> ReaderPcs] /\ num_credit \in [Readers -> Nat]
      /\ credits \in Nat /\ produced \in Nat /\ n \in Nat
  BY RingTypes DEF Base
<1>1. /\ pc[r] = "release" /\ pc' = [pc EXCEPT ![r] = "more"] /\ rx_overrun' = FALSE
      /\ setup.enable_credit_mp => credits' = credits + n
      /\ UNCHANGED <<setup, produced, result, rx_head, rx_tail, copies, head, num_credit, fault>>
  BY DEF Release, CreditsBack, svcVars
<1>2. /\ \A q \in Readers : Reads(q)' <=> Reads(q)
      /\ \A q \in Readers : Holds(q)' <=> Holds(q) /\ q # r
      /\ \A q \in Readers : Reads(q) => pc'[q] = pc[q]
      /\ \A q \in Readers : ToCopy(q, base)' = ToCopy(q, base)
      /\ (Alone' <=> Alone) /\ (NoFault' <=> NoFault) /\ (Apart' <=> Apart)
      /\ \A b : SlotOf(b)' = SlotOf(b)
      /\ Holds(r)
  BY <1>t, <1>1, SetupSays DEF Reads, Holds, ToCopy, SlotOf
<1>3. Window(h, t)'
  BY <1>1, <1>2 DEF Placed, Window
<1>4. Credits(h)'
  <2> SUFFICES ASSUME setup.enable_credit_mp PROVE Credits(h)'
    BY <1>1 DEF Credits
  <2>1. /\ IsFiniteSet(Held) /\ Cardinality(Held) \in Nat
        /\ credits + (produced - h) + Cardinality(Held) <= InitCredits
    BY FS_CardinalityType DEF Placed, Credits
  <2> DEFINE mine == {r} \X (1 .. n)
  <2>2. mine \subseteq Held /\ IsFiniteSet(mine) /\ Cardinality(mine) = n
    BY <1>t, <1>2, <2>1, HeldBy
  <2>3. Held' = Held \ mine
    BY <1>1, <1>2 DEF Held
  <2> HIDE DEF mine
  <2>4. Held \cap mine = mine
    BY <2>2
  <2>5. IsFiniteSet(Held \ mine) /\ Cardinality(Held \ mine) = Cardinality(Held) - Cardinality(mine)
    BY <2>1, <2>4, FS_Difference
  <2>6. IsFiniteSet(Held') /\ Cardinality(Held') = Cardinality(Held) - n
    BY <2>2, <2>3, <2>5
  <2> QED
    BY <1>t, <1>1, <2>1, <2>6, Sizes DEF Credits
<1>5. Taken(h, base)'
  BY <1>1, <1>2 DEF Placed, Taken
<1>6. Copied(h, base)'
  BY <1>1, <1>2 DEF Placed, Copied
<1> QED
  BY <1>3, <1>4, <1>5, <1>6 DEF Placed

LEMMA RingStep == Base /\ KeepsUp /\ Ring /\ [Next]_vars => Ring'
<1> SUFFICES ASSUME Base, KeepsUp, Ring, [Next]_vars PROVE Ring'
  OBVIOUS
<1> USE DEF ringVars, hwVars, svcVars, readerVars
<1>1. PICK h \in Nat, t \in Nat, base \in [Readers -> Nat] : Placed(h, t, base)
  BY DEF Ring
<1>2. ASSUME NEW h2 \in Nat, NEW t2 \in Nat, NEW base2 \in [Readers -> Nat], Placed(h2, t2, base2)'
      PROVE  Ring'
  BY <1>2 DEF Ring
<1>3. pc \in [Readers -> ReaderPcs]
  BY RingTypes DEF Base
<1>4. ASSUME UNCHANGED <<setup, produced, result, rx_head, rx_tail, rx_overrun, credits, copies,
                         head, num_credit, fault>>,
             \A r \in Readers : pc'[r] = pc[r] \/ ({pc[r], pc'[r]} \cap {"take", "copy", "release"} = {})
      PROVE  Ring'
  BY <1>1, <1>2, <1>4, RingFrame
<1>5. CASE HwBlock
  BY <1>1, <1>2, <1>5, HwBlockRing
<1>6. CASE HwError \/ Isr \/ WorkBegin \/ WorkEnd \/ UNCHANGED vars
  BY <1>4, <1>6 DEF HwError, Isr, WorkBegin, WorkEnd, vars
<1>7. CASE Service
  <2>1. CASE ServiceStatus \/ RingProcessed \/ RingStop \/ PollWriteback
    BY <1>4, <2>1 DEF ServiceStatus, RingProcessed, RingStop, PollWriteback
  <2>2. CASE RingProcess
    <3>1. Placed(h, t + 1, base)' /\ t + 1 \in Nat
      BY <1>1, <2>2, RingProcessRing
    <3> QED
      BY <1>2, <3>1
  <2>3. CASE RingWake
    BY <1>3, <1>4, <2>3 DEF RingWake, wake_up
  <2> QED
    BY <1>7, <2>1, <2>2, <2>3 DEF Service
<1>8. ASSUME NEW r \in Readers, ReadStart(r) \/ SignalArrives(r) \/ ReaderStep(r) PROVE Ring'
  <2>1. CASE ReadStart(r) \/ SignalArrives(r)
    BY <1>3, <1>4, <2>1 DEF ReadStart, SignalArrives
  <2>2. CASE PollBegin(r)
    BY <1>4, <2>2 DEF PollBegin
  <2>3. CASE PollEnd(r)
    <3>1. pc[r] = "monitor"
      BY <2>3, RingAssumption DEF PollEnd, Base, LockInv
    <3> QED
      BY <1>3, <1>4, <2>3, <3>1 DEF PollEnd
  <2>4. CASE Monitor(r) \/ Recheck(r) \/ MoreToRead(r)
    BY <1>3, <1>4, <2>4 DEF Monitor, Recheck, MoreToRead, ReadReturns
  <2>5. CASE CompleteBegin(r)
    <3>1. Placed(h, t, [base EXCEPT ![r] = h])' /\ [base EXCEPT ![r] = h] \in [Readers -> Nat]
      BY <1>1, <2>5, CompleteBeginRing
    <3> QED
      BY <1>2, <3>1
  <2>6. CASE TakeResult(r)
    <3>1. Placed(h + 1, t, base)' /\ h + 1 \in Nat
      BY <1>1, <2>6, TakeResultRing
    <3> QED
      BY <1>2, <3>1
  <2>7. CASE CompleteEnd(r)
    BY <1>1, <1>2, <2>7, CompleteEndRing
  <2>8. CASE CopyOut(r)
    BY <1>1, <1>2, <2>8, CopyOutRing
  <2>9. CASE Release(r)
    BY <1>1, <1>2, <2>9, ReleaseRing
  <2> QED
    BY <1>8, <2>1, <2>2, <2>3, <2>4, <2>5, <2>6, <2>7, <2>8, <2>9 DEF ReaderStep
<1> QED
  BY <1>5, <1>6, <1>7, <1>8 DEF Next

LEMMA InvInit == Init => Inv
BY InitBase, InitRing DEF Inv

LEMMA InvStep == Inv /\ [Next]_vars => Inv'
<1> SUFFICES ASSUME Inv, [Next]_vars PROVE Inv'
  OBVIOUS
<1>1. Base'
  BY BaseStep DEF Inv
<1>2. KeepsUp' <=> KeepsUp
  BY SetupFixed, SetupSays
<1>3. KeepsUp' => Ring'
  BY <1>2, RingStep DEF Inv
<1> QED
  BY <1>1, <1>3 DEF Inv

LEMMA SpecInv == Spec => []Inv
BY InvInit, InvStep, PTL DEF Spec
-------------------------------------------------------------------------------
(* What the runs check *)

\* As long as the service has moved the tail past rx_head, the result there is
\* that of the next block: complete_cyclic never warns of a cleared one.
THEOREM NeverWarns == Spec => []NoWarn
<1>1. ASSUME Inv PROVE NoWarn
  <2> SUFFICES ASSUME KeepsUp, NEW r \in Readers, pc[r] = "take", Taking(r) PROVE result[rx_head] # 0
    BY DEF NoWarn
  <2>1. PICK h \in Nat, t \in Nat, base \in [Readers -> Nat] : Placed(h, t, base)
    BY <1>1 DEF Inv, Ring
  <2>2. result[rx_head] = h + 1
    BY <1>1, <2>1, NextTaken DEF Placed, Inv, Base
  <2> QED
    BY <2>2
<1> QED
  BY <1>1, SpecInv, PTL

\* No block is copied out twice, whatever signals and faults come between; and
\* without faults none is passed over.
THEOREM NothingLostSilently == Spec => []NoSilentLoss
<1>1. ASSUME Inv PROVE NoSilentLoss
  <2> SUFFICES ASSUME Alone, KeepsUp, NEW b \in Blocks
               PROVE  /\ copies[b] <= 1
                      /\ NoFault /\ copies[b] > 0 => \A c \in 1 .. b : copies[c] = 1
    BY DEF NoSilentLoss
  <2>1. PICK h \in Nat, t \in Nat, base \in [Readers -> Nat] : Placed(h, t, base)
    BY <1>1 DEF Inv, Ring
  <2>2. /\ copies[b] <= 1 /\ (b > h => copies[b] = 0) /\ b \in Nat
        /\ h <= produced /\ produced \in Nat
    BY <1>1, <2>1, RingTypes DEF Placed, Copied, Apart, Blocks, Window, Inv, Base
  <2>3. ASSUME NoFault, copies[b] > 0, NEW c \in 1 .. b PROVE copies[c] = 1
    <3>1. c \in 1 .. h /\ b \in 1 .. h
      BY <2>2, <2>3
    <3>2. SUFFICES ASSUME NEW r \in Readers, Reads(r), c > base[r] PROVE FALSE
      BY <2>1, <2>3, <3>1 DEF Placed, Copied, Apart
    <3>3. h = base[r] + num_credit[r] /\ base[r] \in Nat /\ num_credit[r] \in Nat
      BY <1>1, <2>1, <2>3, <3>2, RingTypes DEF Placed, Taken, Reads, Inv, Base
    <3>4. b \in ToCopy(r, base)
      BY <2>2, <3>1, <3>2, <3>3 DEF ToCopy
    <3>5. copies[b] = 0
      BY <2>1, <3>2, <3>4 DEF Placed, Copied, Apart
    <3> QED
      BY <2>3, <3>5
  <2> QED
    BY <2>2, <2>3
<1> QED
  BY <1>1, SpecInv, PTL

\* With credits the tail never meets the head, however many threads read, and a
\* page is not filled again before one reader has copied it out.
THEOREM CreditsKeepPages == Spec => []KeptUntilCopied
<1>1. ASSUME Inv PROVE KeptUntilCopied
  <2> SUFFICES ASSUME setup.enable_credit_mp
               PROVE  /\ ~rx_overrun
                      /\ Alone /\ NoFault => \A b \in 1 .. produced : copies[b] = 0 => buffer[SlotOf(b)] = b
    BY DEF KeptUntilCopied
  <2>1. PICK h \in Nat, t \in Nat, base \in [Readers -> Nat] : Placed(h, t, base)
    BY <1>1 DEF Inv, Ring, KeepsUp
  <2>2. ~rx_overrun /\ produced - h < Pages /\ produced \in Nat
    BY <1>1, <2>1, RingTypes DEF Placed, Window, Inv, Base
  <2>3. ASSUME Alone, NoFault, NEW b \in 1 .. produced, copies[b] = 0 PROVE buffer[SlotOf(b)] = b
    <3>1. SUFFICES produced - b < Pages
      BY <1>1, <2>3 DEF Inv, Base, BufferInv
    <3>2. CASE b > h
      BY <2>2, <3>2, Sizes
    <3>3. CASE b <= h
      <4>1. PICK r \in Readers : Reads(r) /\ b > base[r]
        BY <2>1, <2>3, <3>3 DEF Placed, Copied, Apart
      <4>2. /\ h = base[r] + num_credit[r] /\ base[r] \in Nat /\ num_credit[r] \in Nat /\ ~fault[r]
        BY <1>1, <2>1, <2>3, <4>1, RingTypes DEF Placed, Taken, Reads, Inv, Base
      <4>3. produced - base[r] < Pages
        BY <2>1, <2>3, <3>3, <4>1, <4>2 DEF Placed, Copied, Apart
      <4> QED
        BY <2>2, <4>1, <4>2, <4>3, Sizes
    <3> QED
      BY <3>2, <3>3
  <2> QED
    BY <2>2, <2>3
<1> QED
  BY <1>1, SpecInv, PTL
-------------------------------------------------------------------------------
(* The stream of packets, with one undisturbed reader *)

LEMMA EmptyRun == \A m \in Nat : Run(m, m) = <<>>
<1> SUFFICES ASSUME NEW m \in Nat PROVE Run(m, m) = <<>>
  OBVIOUS
<1>1. m - m = 0
  OBVIOUS
<1> QED
  BY <1>1 DEF Run

\* A run of blocks is a sequence of them, and goes on where another ends.
LEMMA RunType ==
  ASSUME NEW m \in Nat, NEW n \in Nat, m <= n
  PROVE  /\ Len(Run(m, n)) = n - m
         /\ \A i \in 1 .. n - m : Run(m, n)[i] = m + i
         /\ Run(m, n) \in Seq(Nat)
<1> DEFINE k == n - m
<1>1. k \in Nat
  OBVIOUS
<1>2. Run(m, n) = [i \in 1 .. k |-> m + i]
  BY DEF Run
<1> HIDE DEF k
<1>3. [i \in 1 .. k |-> m + i] \in [1 .. k -> Nat]
  BY <1>1
<1>4. Run(m, n) \in Seq(Nat) /\ Len(Run(m, n)) = k
  BY <1>1, <1>2, <1>3
<1>5. \A i \in 1 .. k : Run(m, n)[i] = m + i
  BY <1>2
<1> QED
  BY <1>4, <1>5 DEF k

LEMMA RunConcat ==
  ASSUME NEW g \in Nat, NEW m \in Nat, NEW n \in Nat, g <= m
  PROVE  Run(g, m) \o [i \in 1 .. n |-> m + i] = Run(g, m + n)
<1> DEFINE s == Run(g, m)
           u == [i \in 1 .. n |-> m + i]
           v == Run(g, m + n)
<1>1. s \in Seq(Nat) /\ Len(s) = m - g /\ \A i \in 1 .. m - g : s[i] = g + i
  BY RunType
<1>2. u \in Seq(Nat) /\ Len(u) = n /\ \A i \in 1 .. n : u[i] = m + i
  OBVIOUS
<1>3. v \in Seq(Nat) /\ Len(v) = (m + n) - g /\ \A i \in 1 .. (m + n) - g : v[i] = g + i
  <2>1. m + n \in Nat /\ g <= m + n
    OBVIOUS
  <2> QED
    BY <2>1, RunType
<1> HIDE DEF s, u, v
<1>4. s \o u \in Seq(Nat) /\ Len(s \o u) = Len(v)
  BY <1>1, <1>2, <1>3
<1>5. ASSUME NEW i \in 1 .. Len(v) PROVE (s \o u)[i] = v[i]
  <2>1. CASE i <= m - g
    <3>1. (s \o u)[i] = s[i]
      BY <1>1, <1>2, <1>3, <2>1
    <3> QED
      BY <1>1, <1>3, <2>1, <3>1
  <2>2. CASE i > m - g
    <3>1. i - (m - g) \in 1 .. n /\ m + (i - (m - g)) = g + i
      BY <1>3, <2>2
    <3>2. (s \o u)[i] = u[i - (m - g)]
      <4>1. i \in 1 .. Len(s) + Len(u) /\ i > Len(s) /\ i - Len(s) = i - (m - g)
        BY <1>1, <1>2, <1>3, <2>2
      <4>2. (s \o u)[i] = u[i - Len(s)]
        BY <1>1, <1>2, <4>1
      <4> QED
        BY <4>1, <4>2
    <3> QED
      BY <1>2, <1>3, <3>1, <3>2
  <2>3. i \in Nat /\ m - g \in Nat
    BY <1>1, <1>3
  <2>4. i <= m - g \/ i > m - g
    BY <2>3
  <2> QED
    BY <2>1, <2>2, <2>4
<1>6. s \o u = v
  BY <1>3, <1>4, <1>5, SeqEqual
<1> QED
  BY <1>6 DEF s, u, v

\* The blocks from the beginning of a packet to its end are a packet.
LEMMA RunIsPacket ==
  ASSUME NEW g \in Nat, NEW n \in Nat, Within(g, n), Ended(g, n)
  PROVE  /\ IsPacket(Run(g, n)) /\ LastOf(Run(g, n)) = n
         /\ \A i \in 1 .. Len(Run(g, n)) : Run(g, n)[i] <= n
<1> DEFINE s == Run(g, n)
<1>1. s \in Seq(Nat) /\ Len(s) = n - g /\ \A i \in 1 .. n - g : s[i] = g + i
  BY RunType DEF Within
<1>2. n > g /\ n \in eops /\ (g = 0 \/ g \in eops) /\ \A e \in eops : g < e => n <= e
  BY DEF Within, Ended
<1> HIDE DEF s
<1>3. s # <<>> /\ s[1] = g + 1 /\ s[Len(s)] = n
  BY <1>1, <1>2
<1>4. ASSUME NEW i \in 1 .. Len(s) PROVE s[i] = s[1] + i - 1 /\ s[i] <= n /\ (s[i] \in eops <=> i = Len(s))
  <2>1. s[i] = g + i /\ s[i] <= n /\ g < s[i]
    BY <1>1
  <2>2. s[i] \in eops => s[i] = n
    BY <1>2, <2>1
  <2>3. s[i] = n <=> i = Len(s)
    BY <1>1, <2>1
  <2>4. s[i] = s[1] + i - 1
    BY <1>1, <1>3, <2>1
  <2> QED
    BY <1>2, <2>1, <2>2, <2>3, <2>4
<1>5. s[1] = 1 \/ s[1] - 1 \in eops
  BY <1>2, <1>3
<1> QED
  BY <1>3, <1>4, <1>5 DEF IsPacket, LastOf, s

\* The one reader of the setup.
LEMMA SoleReader ==
  ASSUME TypeOK, Alone
  PROVE  \E r \in Readers : setup.readers = {r}
<1>1. setup.readers \subseteq Readers
  BY RingTypes
<1>2. IsFiniteSet(setup.readers)
  BY <1>1, RingAssumption, FS_Subset
<1>3. \E x : setup.readers = {x}
  BY <1>2, FS_Singleton DEF Alone
<1> QED
  BY <1>1, <1>3

\* No other thread does anything.
LEMMA OnlyReader ==
  ASSUME Base, NEW r \in Readers, setup.readers = {r}, NEW q \in Readers,
         ReadStart(q) \/ SignalArrives(q) \/ ReaderStep(q)
  PROVE  q = r
<1>1. pc[q] # "idle" => q = r
  BY DEF Base, ReaderInv
<1>2. CASE PollEnd(q)
  <2>1. pc[q] = "monitor"
    BY <1>2, RingAssumption DEF PollEnd, Base, LockInv
  <2> QED
    BY <1>1, <2>1
<1>3. CASE ReadStart(q)
  BY <1>3 DEF ReadStart
<1>4. CASE SignalArrives(q) \/ (ReaderStep(q) /\ ~PollEnd(q))
  BY <1>1, <1>4 DEF SignalArrives, ReaderStep, PollBegin, Monitor, Recheck, CompleteBegin, TakeResult,
                    CompleteEnd, CopyOut, Release, MoreToRead
<1> QED
  BY <1>2, <1>3, <1>4

\* What is to show of a step.
LEMMA StreamBack ==
  ASSUME TypeOK, NEW r \in Readers, setup.readers = {r}, setup' = setup,
         NEW g, NEW h, NEW t, NEW base,
         eops' \subseteq 1 .. produced', Within(g, h)',
         \A q \in Readers : q # r => ret'[q] = NoRead,
         Packet(r, g, h, base)', Poll(r, g, h, t, base)', Returned(r, g, h)'
  PROVE  Stream(g, h, t, base)'
BY DEF Stream

\* The last read, where a step adds no end of a packet, or one after block h.
LEMMA ReturnedStays ==
  ASSUME TypeOK, NEW r \in Readers, NEW g \in Nat, NEW h \in Nat, NEW k \in Nat, Returned(r, g, h), h <= k,
         ret'[r] = ret[r], rc'[r] = rc[r] \/ setup.poll_mode, setup' = setup,
         eops' = eops \/ eops' = eops \cup {produced + 1}, h <= produced
  PROVE  Returned(r, g, k)'
<1> DEFINE s == ret[r].blocks
<1>1. produced \in Nat /\ s \in Seq(Blocks) /\ Blocks \subseteq Nat
  <2>1. ret[r] \in [error : {"none", "ERESTARTSYS"}, blocks : Seq(Blocks), errs : Nat]
    BY DEF TypeOK
  <2>2. s \in Seq(Blocks)
    BY <2>1
  <2>3. Blocks \subseteq Nat
    BY Sizes DEF Blocks
  <2> QED
    BY <2>2, <2>3, RingTypes
<1>2. ASSUME IsPacket(s), \A i \in 1 .. Len(s) : s[i] <= h
      PROVE  IsPacket(s)' /\ \A i \in 1 .. Len(s) : s[i] <= k
  <2> HIDE DEF s
  <2>1. Len(s) \in Nat /\ s # <<>> /\ \A i \in 1 .. Len(s) : s[i] \in Nat /\ s[i] <= h
    <3>1. s # <<>>
      BY <1>2 DEF IsPacket
    <3>2. Len(s) \in Nat /\ \A i \in 1 .. Len(s) : s[i] \in Blocks
      BY <1>1
    <3> QED
      BY <1>1, <1>2, <3>1, <3>2
  <2>2. 1 \in 1 .. Len(s)
    BY <2>1, <1>1 DEF s
  <2>3. \A i \in 1 .. Len(s) : s[i] # produced + 1 /\ s[i] - 1 # produced + 1 /\ s[i] <= k
    BY <1>1, <2>1
  <2>4. /\ \A i \in 1 .. Len(s) : s[i] \in eops' <=> s[i] \in eops
        /\ s[1] - 1 \in eops => s[1] - 1 \in eops'
    BY <2>2, <2>3
  <2>5. s' = s
    BY DEF s
  <2> QED
    BY <1>2, <2>1, <2>3, <2>4, <2>5 DEF IsPacket
<1> QED
  BY <1>2 DEF Returned

\* What the invariant says of the one reader.
LEMMA StreamSays ==
  ASSUME Base, Undisturbed, NEW r \in Readers, setup.readers = {r},
         NEW g \in Nat, NEW h \in Nat, NEW t \in Nat, NEW base \in [Readers -> Nat],
         Placed(h, t, base), Stream(g, h, t, base)
  PROVE  /\ Packet(r, g, h, base) /\ Poll(r, g, h, t, base) /\ Returned(r, g, h) /\ Within(g, h)
         /\ eops \subseteq 1 .. produced /\ produced \in Nat /\ h <= t /\ t <= produced
         /\ \A q \in Readers : q # r => ret[q] = NoRead
         /\ pc \in [Readers -> ReaderPcs] /\ rc \in [Readers -> BOOLEAN] /\ eop \in [Readers -> BOOLEAN]
         /\ signal \in [Readers -> BOOLEAN] /\ num_credit \in [Readers -> Nat]
         /\ DOMAIN got = Readers /\ DOMAIN ret = Readers
         /\ ~setup.signals /\ (~setup.poll_mode => setup.enable_credit_mp)
<1>1. Packet(r, g, h, base) /\ Poll(r, g, h, t, base) /\ Returned(r, g, h)
  BY DEF Stream
<1>2. Within(g, h) /\ eops \subseteq 1 .. produced /\ \A q \in Readers : q # r => ret[q] = NoRead
  BY DEF Stream
<1>3. produced \in Nat /\ h <= t /\ t <= produced
  BY RingTypes DEF Base, Placed, Window
<1>4. /\ pc \in [Readers -> ReaderPcs] /\ rc \in [Readers -> BOOLEAN] /\ eop \in [Readers -> BOOLEAN]
      /\ signal \in [Readers -> BOOLEAN] /\ num_credit \in [Readers -> Nat]
      /\ DOMAIN got = Readers /\ DOMAIN ret = Readers
  BY DEF Base, TypeOK
<1>5. ~setup.signals /\ (~setup.poll_mode => setup.enable_credit_mp)
  BY DEF Undisturbed
<1> QED
  BY <1>1, <1>2, <1>3, <1>4, <1>5

\* No block is added.
LEMMA SameEnds ==
  ASSUME eops' = eops
  PROVE  /\ \A m, n : Ended(m, n)' <=> Ended(m, n)
         /\ \A m, n : Within(m, n)' <=> Within(m, n)
         /\ \A m, n : EndWaits(m, n)' <=> EndWaits(m, n)
BY DEF Ended, Within, EndWaits

\* The hardware fills a page: the block comes after those that were taken.
LEMMA HwBlockStream ==
  ASSUME Base, Undisturbed, NEW r \in Readers, setup.readers = {r},
         NEW g \in Nat, NEW h \in Nat, NEW t \in Nat, NEW base \in [Readers -> Nat],
         Placed(h, t, base), Stream(g, h, t, base), HwBlock
  PROVE  Stream(g, h, t, base)'
<1>s. /\ Packet(r, g, h, base) /\ Poll(r, g, h, t, base) /\ Returned(r, g, h) /\ Within(g, h)
      /\ eops \subseteq 1 .. produced /\ produced \in Nat /\ h <= t /\ t <= produced
      /\ \A q \in Readers : q # r => ret[q] = NoRead
  BY StreamSays
<1>1. /\ produced' = produced + 1 /\ (eops' = eops \/ eops' = eops \cup {produced + 1})
      /\ UNCHANGED <<setup, eop_found, svc, svc_eop, svc_rc, pc, signal, rc, eop, got, ret>>
  BY DEF HwBlock, svcVars, readerVars
<1>2. Ended(g, h)' <=> Ended(g, h)
  BY <1>s, <1>1 DEF Ended
<1>3. Within(g, h)'
  <2>1. /\ g <= h /\ (g = 0 \/ g \in eops) /\ eops \subseteq eops'
        /\ \A e \in eops : g < e => h <= e
    BY <1>s, <1>1 DEF Within
  <2>2. \A e \in eops' : e \in eops \/ e = produced + 1
    BY <1>1
  <2>3. h <= produced + 1
    BY <1>s
  <2> QED
    BY <2>1, <2>2, <2>3 DEF Within
<1>4. EndWaits(h, t) => EndWaits(h, t)'
  BY <1>1 DEF EndWaits
<1>5. eops' \subseteq 1 .. produced'
  <2>1. 1 .. produced \subseteq 1 .. produced + 1 /\ produced + 1 \in 1 .. produced + 1
    BY <1>s
  <2>2. eops' \subseteq 1 .. produced + 1
    BY <1>s, <1>1, <2>1
  <2> QED
    BY <1>1, <2>2
<1>6. Packet(r, g, h, base)'
  BY <1>s, <1>1, <1>2 DEF Packet, Waiting, Reading, Reads
<1>7. Poll(r, g, h, t, base)'
  BY <1>s, <1>1, <1>4 DEF Poll, Waiting
<1>8. Returned(r, g, h)'
  BY <1>s, <1>1, ReturnedStays DEF Base
<1> QED
  BY <1>s, <1>1, <1>3, <1>5, <1>6, <1>7, <1>8, StreamBack DEF Base

\* A step of the service or of the interrupt, and what it wakes.
LEMMA ServiceStream ==
  ASSUME Base, Undisturbed, NEW r \in Readers, setup.readers = {r},
         NEW g \in Nat, NEW h \in Nat, NEW t \in Nat, NEW base \in [Readers -> Nat],
         Placed(h, t, base), Stream(g, h, t, base),
         UNCHANGED <<setup, eops, produced, eop_found, signal, rc, eop, got, ret>>,
         pc'[r] = pc[r] \/ (pc[r] = "asleep" /\ pc'[r] = "monitor"),
         NEW t2 \in Nat,
         setup.poll_mode =>
           /\ t <= t2 /\ pc'[r] = pc[r]
           /\ svc' \in {"idle", "poll", "ring", "leave"}
           /\ svc' # "idle" /\ svc_eop' => EndWaits(h, t2)
           /\ svc' = "leave" => svc_eop' \/ svc_rc'
  PROVE  Stream(g, h, t2, base)'
<1>s. /\ Packet(r, g, h, base) /\ Poll(r, g, h, t, base) /\ Returned(r, g, h) /\ Within(g, h)
      /\ eops \subseteq 1 .. produced /\ produced \in Nat /\ h <= t /\ t <= produced
      /\ \A q \in Readers : q # r => ret[q] = NoRead
  BY StreamSays
<1>1. /\ Ended(g, h)' <=> Ended(g, h)
      /\ Within(g, h)' <=> Within(g, h)
      /\ EndWaits(h, t2)' <=> EndWaits(h, t2)
  BY SameEnds
<1>2. t <= t2 /\ EndWaits(h, t) => EndWaits(h, t2)
  BY <1>s DEF EndWaits
<1>3. Packet(r, g, h, base)'
  BY <1>s, <1>1 DEF Packet, Waiting, Reading, Reads
<1>4. Poll(r, g, h, t2, base)'
  BY <1>s, <1>1, <1>2 DEF Poll, Waiting
<1>5. Returned(r, g, h)'
  BY <1>s, ReturnedStays DEF Base
<1> QED
  BY <1>s, <1>1, <1>3, <1>4, <1>5, StreamBack DEF Base

LEMMA RingProcessStream ==
  ASSUME Base, Undisturbed, NEW r \in Readers, setup.readers = {r},
         NEW g \in Nat, NEW h \in Nat, NEW t \in Nat, NEW base \in [Readers -> Nat],
         Placed(h, t, base), Stream(g, h, t, base), RingProcess
  PROVE  Stream(g, h, t + 1, base)'
<1>s. Poll(r, g, h, t, base) /\ h <= t /\ t \in Nat
  BY StreamSays
<1>1. result[rx_tail] = t + 1
  BY NextResult DEF RingProcess, Placed, Base
<1>2. svc' = "ring" /\ svc = "ring" /\ (svc_eop' <=> svc_eop \/ t + 1 \in eops)
  BY <1>1 DEF RingProcess
<1>3. UNCHANGED <<setup, eops, produced, eop_found, signal, rc, eop, got, ret, pc>>
  BY DEF RingProcess, hwVars, readerVars
<1>4. setup.poll_mode /\ svc_eop' => EndWaits(h, t + 1)
  <2>1. CASE t + 1 \in eops
    BY <1>s, <2>1 DEF EndWaits
  <2>2. CASE setup.poll_mode /\ svc_eop
    <3>1. PICK e \in eops : h < e /\ e <= t
      BY <1>s, <1>2, <2>2 DEF Poll, EndWaits
    <3>2. e \in Nat
      BY <3>1, StreamSays
    <3> QED
      BY <3>1, <3>2 DEF EndWaits
  <2> QED
    BY <1>2, <2>1, <2>2
<1> QED
  BY <1>s, <1>2, <1>3, <1>4, ServiceStream

LEMMA ServiceStepStream ==
  ASSUME Base, Undisturbed, NEW r \in Readers, setup.readers = {r},
         NEW g \in Nat, NEW h \in Nat, NEW t \in Nat, NEW base \in [Readers -> Nat],
         Placed(h, t, base), Stream(g, h, t, base),
         \/ HwError \/ Isr \/ WorkBegin \/ WorkEnd \/ ServiceStatus \/ RingProcessed \/ RingWake \/ RingStop
         \/ PollWriteback \/ UNCHANGED vars
  PROVE  Stream(g, h, t, base)'
<1> USE DEF ringVars, hwVars, svcVars, readerVars
<1>s. Poll(r, g, h, t, base) /\ (~setup.poll_mode => setup.enable_credit_mp) /\ pc \in [Readers -> ReaderPcs]
  BY StreamSays
<1>1. ASSUME UNCHANGED <<setup, eops, produced, eop_found, signal, rc, eop, got, ret>>,
             pc'[r] = pc[r] \/ (~setup.poll_mode /\ pc[r] = "asleep" /\ pc'[r] = "monitor"),
             setup.poll_mode =>
               /\ svc' \in {"idle", "poll", "ring", "leave"}
               /\ svc' # "idle" /\ svc_eop' => svc # "idle" /\ svc_eop
               /\ svc' = "leave" => svc_eop' \/ svc_rc'
      PROVE  Stream(g, h, t, base)'
  <2>1. setup.poll_mode =>
          /\ t <= t /\ pc'[r] = pc[r]
          /\ svc' \in {"idle", "poll", "ring", "leave"}
          /\ svc' # "idle" /\ svc_eop' => EndWaits(h, t)
          /\ svc' = "leave" => svc_eop' \/ svc_rc'
    BY <1>s, <1>1 DEF Poll
  <2> QED
    BY <1>1, <2>1, ServiceStream
<1>2. CASE HwError \/ Isr \/ UNCHANGED vars
  BY <1>s, <1>1, <1>2 DEF HwError, Isr, vars, Poll
<1>3. CASE WorkBegin
  <2>1. ~setup.poll_mode
    BY <1>3 DEF WorkBegin, Base, LockInv
  <2> QED
    BY <1>1, <1>3, <2>1 DEF WorkBegin
<1>4. CASE WorkEnd
  BY <1>1, <1>4 DEF WorkEnd
<1>5. CASE ServiceStatus \/ RingStop
  <2>1. ~setup.poll_mode
    BY <1>s, <1>5 DEF ServiceStatus, RingStop, Poll
  <2> QED
    BY <1>1, <1>5, <2>1 DEF ServiceStatus, RingStop
<1>6. CASE RingProcessed
  BY <1>1, <1>6 DEF RingProcessed
<1>7. CASE RingWake
  <2>1. ~setup.poll_mode
    BY <1>s, <1>7 DEF RingWake, Poll
  <2>2. eop_found' = (eop_found \/ FALSE) /\ eop_found \in BOOLEAN
    BY <1>s, <1>7, <2>1 DEF RingWake, Base, TypeOK
  <2>3. pc'[r] = pc[r] \/ (pc[r] = "asleep" /\ pc'[r] = "monitor")
    BY <1>s, <1>7 DEF RingWake, wake_up
  <2> QED
    BY <1>1, <1>7, <2>1, <2>2, <2>3 DEF RingWake
<1>8. CASE PollWriteback
  BY <1>1, <1>8 DEF PollWriteback
<1> QED
  BY <1>2, <1>3, <1>4, <1>5, <1>6, <1>7, <1>8

\* The steps of a read that wait for data.
LEMMA WaitStream ==
  ASSUME Base, Undisturbed, NEW r \in Readers, setup.readers = {r},
         NEW g \in Nat, NEW h \in Nat, NEW t \in Nat, NEW base \in [Readers -> Nat],
         Placed(h, t, base), Stream(g, h, t, base),
         ReadStart(r) \/ SignalArrives(r) \/ PollBegin(r) \/ PollEnd(r) \/ Monitor(r) \/ Recheck(r)
  PROVE  Stream(g, h, t, base)'
<1> USE DEF ringVars, hwVars, svcVars, readerVars
<1>s. /\ Packet(r, g, h, base) /\ Poll(r, g, h, t, base) /\ Returned(r, g, h) /\ Within(g, h)
      /\ eops \subseteq 1 .. produced /\ produced \in Nat /\ h <= t /\ t <= produced
      /\ \A q \in Readers : q # r => ret[q] = NoRead
      /\ pc \in [Readers -> ReaderPcs] /\ rc \in [Readers -> BOOLEAN] /\ signal \in [Readers -> BOOLEAN]
      /\ DOMAIN got = Readers /\ DOMAIN ret = Readers
      /\ ~setup.signals /\ (~setup.poll_mode => setup.enable_credit_mp)
  BY StreamSays
<1>0. ASSUME UNCHANGED <<setup, eops, produced>>,
             \A q \in Readers : q # r => ret'[q] = ret[q],
             Packet(r, g, h, base)', Poll(r, g, h, t, base)', Returned(r, g, h)'
      PROVE  Stream(g, h, t, base)'
  BY <1>s, <1>0, SameEnds, StreamBack DEF Base
<1>1. CASE ReadStart(r)
  <2>1. /\ pc[r] = "idle" /\ pc'[r] = "monitor" /\ got'[r] = <<>>
        /\ UNCHANGED <<setup, eops, produced, eop_found, signal, rc, eop, ret, svc, svc_eop, svc_rc>>
    BY <1>1, <1>s DEF ReadStart
  <2>2. g = h /\ Run(g, h) = <<>> /\ ~Ended(g, h)
    BY <1>s, <2>1, EmptyRun DEF Packet, Ended
  <2>3. Packet(r, g, h, base)'
    BY <1>s, <2>1, <2>2, SameEnds DEF Packet, Waiting, Reading
  <2>4. Poll(r, g, h, t, base)'
    BY <1>s, <2>1, <2>2, SameEnds DEF Poll, Waiting
  <2> QED
    BY <1>0, <1>s, <2>1, <2>3, <2>4, ReturnedStays DEF Base
<1>2. CASE SignalArrives(r)
  BY <1>2, <1>s DEF SignalArrives
<1>3. CASE PollBegin(r)
  <2>1. /\ svc' = "poll" /\ svc_eop' = FALSE
        /\ UNCHANGED <<setup, eops, produced, eop_found, signal, rc, eop, got, ret, pc>>
    BY <1>3 DEF PollBegin
  <2>2. Packet(r, g, h, base)'
    BY <1>s, <2>1, SameEnds DEF Packet, Waiting, Reading, Reads
  <2>3. Poll(r, g, h, t, base)'
    BY <1>s, <2>1, SameEnds DEF Poll, Waiting
  <2> QED
    BY <1>0, <1>s, <2>1, <2>2, <2>3, ReturnedStays DEF Base
<1>4. CASE PollEnd(r)
  <2>1. /\ pc[r] = "monitor" /\ setup.poll_mode
    BY <1>4, RingAssumption DEF PollEnd, Base, LockInv
  <2>2. /\ svc = "leave" /\ svc' = "idle" /\ pc'[r] = "recheck" /\ rc'[r] = svc_rc
        /\ UNCHANGED <<setup, eops, produced, eop_found, signal, eop, got, ret, svc_eop, svc_rc>>
    BY <1>4, <1>s DEF PollEnd
  <2>3. Packet(r, g, h, base)'
    BY <1>s, <2>1, <2>2, SameEnds DEF Packet, Waiting, Reading, Reads
  <2>4. Poll(r, g, h, t, base)'
    BY <1>s, <2>1, <2>2, SameEnds DEF Poll, Waiting
  <2> QED
    BY <1>0, <1>s, <2>1, <2>2, <2>3, <2>4, ReturnedStays DEF Base
<1>5. CASE Monitor(r)
  <2>1. /\ ~setup.poll_mode /\ pc[r] = "monitor" /\ pc'[r] \in {"recheck", "asleep"}
        /\ UNCHANGED <<setup, eops, produced, eop_found, signal, eop, got, ret, svc, svc_eop, svc_rc>>
    BY <1>5, <1>s DEF Monitor
  <2>2. rc'[r] = FALSE /\ rc[r] = FALSE
    BY <1>5, <1>s, <2>1 DEF Monitor, Packet, Returned
  <2>3. Packet(r, g, h, base)'
    BY <1>s, <2>1, SameEnds DEF Packet, Waiting, Reading, Reads
  <2>4. Poll(r, g, h, t, base)'
    BY <2>1 DEF Poll
  <2>5. rc'[r] = rc[r]
    BY <2>2
  <2>6. Returned(r, g, h)'
    BY <1>s, <2>1, <2>5, ReturnedStays DEF Base
  <2> QED
    BY <1>0, <2>1, <2>3, <2>4, <2>6
<1>6. CASE Recheck(r)
  <2>1. /\ pc[r] = "recheck"
        /\ UNCHANGED <<setup, eops, produced, eop_found, rc, eop, got, svc, svc_eop, svc_rc>>
    BY <1>6 DEF Recheck
  <2>2. CASE result[rx_head] = 0 \/ ~rc[r]
    <3>1. /\ UNCHANGED <<signal, ret>>
          /\ pc'[r] = "monitor" \/ (pc'[r] = "complete" /\ ~rc[r])
      BY <1>6, <1>s, <2>2 DEF Recheck
    <3>2. Packet(r, g, h, base)'
      BY <1>s, <2>1, <3>1, SameEnds DEF Packet, Waiting, Reading, Reads
    <3>3. Poll(r, g, h, t, base)'
      BY <1>s, <2>1, <3>1, SameEnds DEF Poll, Waiting
    <3> QED
      BY <1>0, <1>s, <2>1, <3>1, <3>2, <3>3, ReturnedStays DEF Base
  <2>3. CASE result[rx_head] # 0 /\ rc[r]
    <3>1. /\ pc'[r] = "idle" /\ signal'[r] = FALSE /\ ret'[r].error = "ERESTARTSYS"
          /\ \A q \in Readers : q # r => ret'[q] = ret[q]
      BY <1>6, <1>s, <2>3 DEF Recheck, ReadReturns
    <3>2. setup.poll_mode /\ g = h
      BY <1>s, <2>1, <2>3 DEF Returned, Poll, Waiting
    <3>3. Packet(r, g, h, base)'
      BY <1>s, <2>1, <3>1, <3>2, SameEnds DEF Packet, Waiting, Reading, Reads
    <3>4. Poll(r, g, h, t, base)'
      BY <1>s, <2>1, <3>1, <3>2, SameEnds DEF Poll, Waiting
    <3>5. Returned(r, g, h)'
      BY <2>1, <3>1, <3>2 DEF Returned
    <3> QED
      BY <1>0, <2>1, <3>1, <3>3, <3>4, <3>5
  <2> QED
    BY <2>2, <2>3
<1> QED
  BY <1>1, <1>2, <1>3, <1>4, <1>5, <1>6

\* It begins to take blocks, in poll mode with an end of a packet before it.
LEMMA CompleteBeginStream ==
  ASSUME Base, Undisturbed, NEW r \in Readers, setup.readers = {r},
         NEW g \in Nat, NEW h \in Nat, NEW t \in Nat, NEW base \in [Readers -> Nat],
         Placed(h, t, base), Stream(g, h, t, base), CompleteBegin(r)
  PROVE  Stream(g, h, t, [base EXCEPT ![r] = h])'
<1> DEFINE base2 == [base EXCEPT ![r] = h]
<1>s. /\ Packet(r, g, h, base) /\ Poll(r, g, h, t, base) /\ Returned(r, g, h) /\ Within(g, h)
      /\ eops \subseteq 1 .. produced /\ produced \in Nat /\ h <= t /\ t <= produced
      /\ \A q \in Readers : q # r => ret[q] = NoRead
      /\ pc \in [Readers -> ReaderPcs] /\ eop \in [Readers -> BOOLEAN]
  BY StreamSays
<1>1. /\ pc[r] = "complete" /\ pc'[r] = "take" /\ eop'[r] = FALSE /\ base2[r] = h
      /\ UNCHANGED <<setup, eops, produced, eop_found, signal, rc, got, ret, svc, svc_eop, svc_rc>>
  BY <1>s DEF CompleteBegin, ringVars, hwVars
<1> HIDE DEF base2
<1>2. g <= h
  BY <1>s DEF Within
<1>3. Packet(r, g, h, base2)'
  BY <1>s, <1>1, <1>2, SameEnds DEF Packet, Waiting, Reading, Reads
<1>4. Poll(r, g, h, t, base2)'
  BY <1>s, <1>1, SameEnds DEF Poll, Waiting
<1>5. Stream(g, h, t, base2)'
  BY <1>s, <1>1, <1>3, <1>4, SameEnds, ReturnedStays, StreamBack DEF Base
<1> QED
  BY <1>5 DEF base2

\* It takes a block, no more after the end of the packet.
LEMMA TakeResultStream ==
  ASSUME Base, Undisturbed, NEW r \in Readers, setup.readers = {r},
         NEW g \in Nat, NEW h \in Nat, NEW t \in Nat, NEW base \in [Readers -> Nat],
         Placed(h, t, base), Stream(g, h, t, base), TakeResult(r)
  PROVE  Stream(g, h + 1, t, base)'
<1>s. /\ Packet(r, g, h, base) /\ Poll(r, g, h, t, base) /\ Returned(r, g, h) /\ Within(g, h)
      /\ eops \subseteq 1 .. produced /\ produced \in Nat /\ h <= t /\ t <= produced
      /\ \A q \in Readers : q # r => ret[q] = NoRead
      /\ eop \in [Readers -> BOOLEAN]
  BY StreamSays
<1>1. result[rx_head] = h + 1
  BY NextTaken DEF TakeResult, Placed, Base
<1>2. /\ pc[r] = "take" /\ ~eop[r] /\ (eop'[r] <=> h + 1 \in eops)
      /\ (eop_found' <=> eop_found \/ h + 1 \in eops)
      /\ UNCHANGED <<setup, eops, produced, signal, rc, got, ret, pc, svc, svc_eop, svc_rc>>
  BY <1>s, <1>1 DEF TakeResult, Taking, hwVars, svcVars
<1>3. ~Ended(g, h) /\ g <= h /\ \A e \in eops : g < e => h <= e
  BY <1>s, <1>2 DEF Packet, Reading, Within
<1>4. Within(g, h + 1)
  <2>1. \A e \in eops : g < e => h + 1 <= e
    BY <1>s, <1>3 DEF Ended
  <2> QED
    BY <1>s, <1>3, <2>1 DEF Within
<1>5. Ended(g, h + 1) <=> h + 1 \in eops
  BY <1>3 DEF Ended
<1>6. EndWaits(h, t) => h + 1 \in eops \/ EndWaits(h + 1, t)
  <2> SUFFICES ASSUME NEW e \in eops, h < e, e <= t PROVE h + 1 \in eops \/ EndWaits(h + 1, t)
    BY DEF EndWaits
  <2>1. e \in Nat
    BY <1>s
  <2>2. CASE e = h + 1
    BY <2>2
  <2>3. CASE e # h + 1
    <3>1. h + 1 < e
      BY <2>1, <2>3
    <3> QED
      BY <3>1 DEF EndWaits
  <2> QED
    BY <2>2, <2>3
<1>7. Packet(r, g, h + 1, base)'
  <2>1. Reading(r) /\ Reads(r)
    BY <1>2 DEF Reading, Reads
  <2> QED
    BY <1>s, <1>2, <1>5, <2>1, SameEnds DEF Packet, Waiting, Reading, Reads
<1>8. Poll(r, g, h + 1, t, base)'
  <2>1. setup.poll_mode => svc = "idle"
    BY <1>2 DEF Base, LockInv
  <2> QED
    BY <1>s, <1>2, <1>6, <2>1, SameEnds DEF Poll, Waiting
<1>9. Returned(r, g, h + 1)'
  BY <1>s, <1>2, ReturnedStays DEF Base
<1> QED
  BY <1>s, <1>2, <1>4, <1>7, <1>8, <1>9, SameEnds, StreamBack DEF Base

\* It has taken what there is; in poll mode with the end of the packet.
LEMMA CompleteEndStream ==
  ASSUME Base, Undisturbed, NEW r \in Readers, setup.readers = {r},
         NEW g \in Nat, NEW h \in Nat, NEW t \in Nat, NEW base \in [Readers -> Nat],
         Placed(h, t, base), Stream(g, h, t, base), CompleteEnd(r)
  PROVE  Stream(g, h, t, base)'
<1>s. /\ Packet(r, g, h, base) /\ Poll(r, g, h, t, base) /\ Returned(r, g, h) /\ Within(g, h)
      /\ eops \subseteq 1 .. produced /\ produced \in Nat /\ h <= t /\ t <= produced
      /\ \A q \in Readers : q # r => ret[q] = NoRead
      /\ pc \in [Readers -> ReaderPcs]
  BY StreamSays
<1>1. pc[r] = "take" /\ ~Taking(r) /\ ~fault[r]
  BY DEF CompleteEnd, Placed, Taken, Reads, Undisturbed
<1>2. /\ pc'[r] = "copy"
      /\ UNCHANGED <<setup, eops, produced, eop_found, signal, rc, eop, got, ret, svc, svc_eop, svc_rc>>
  BY <1>s, <1>1 DEF CompleteEnd, ringVars, hwVars
<1>3. setup.poll_mode => eop[r]
  <2> SUFFICES ASSUME setup.poll_mode, ~eop[r] PROVE FALSE
    OBVIOUS
  <2>1. rx_head = rx_tail /\ rx_head = h % Pages /\ rx_tail = t % Pages /\ produced - h < Pages
    BY <1>1 DEF Taking, Placed, Window
  <2>2. h = t
    <3>1. t - h < Pages
      BY <1>s, <2>1, Sizes
    <3> QED
      BY <1>s, <2>1, <3>1, Sizes, ModInj
  <2>3. PICK e \in eops : h < e /\ e <= t
    BY <1>s, <1>1 DEF Poll, EndWaits
  <2>4. e \in Nat
    BY <1>s
  <2> QED
    BY <2>2, <2>3, <2>4
<1>4. Packet(r, g, h, base)'
  <2>1. Reading(r) /\ Reads(r) /\ Reading(r)' /\ Reads(r)' /\ ~Waiting(r)'
    BY <1>1, <1>2 DEF Reading, Reads, Waiting
  <2> QED
    BY <1>s, <1>2, <2>1, SameEnds DEF Packet
<1>5. Poll(r, g, h, t, base)'
  <2>1. setup.poll_mode => svc = "idle"
    BY <1>1 DEF Base, LockInv
  <2> QED
    BY <1>s, <1>2, <1>3, <2>1, SameEnds DEF Poll, Waiting
<1>6. Returned(r, g, h)'
  BY <1>s, <1>2, ReturnedStays DEF Base
<1> QED
  BY <1>s, <1>2, <1>4, <1>5, <1>6, SameEnds, StreamBack DEF Base

\* It copies out the blocks it took, which follow those it had copied before.
LEMMA CopyOutStream ==
  ASSUME Base, Undisturbed, NEW r \in Readers, setup.readers = {r},
         NEW g \in Nat, NEW h \in Nat, NEW t \in Nat, NEW base \in [Readers -> Nat],
         Placed(h, t, base), Stream(g, h, t, base), CopyOut(r)
  PROVE  Stream(g, h, t, base)'
<1>s. /\ Packet(r, g, h, base) /\ Poll(r, g, h, t, base) /\ Returned(r, g, h) /\ Within(g, h)
      /\ eops \subseteq 1 .. produced /\ produced \in Nat /\ h <= t /\ t <= produced
      /\ \A q \in Readers : q # r => ret[q] = NoRead
      /\ pc \in [Readers -> ReaderPcs] /\ num_credit \in [Readers -> Nat] /\ DOMAIN got = Readers
  BY StreamSays
<1>1. /\ pc[r] = "copy" /\ pc'[r] = "release"
      /\ UNCHANGED <<setup, eops, produced, eop_found, signal, rc, eop, ret, svc, svc_eop, svc_rc>>
  BY <1>s DEF CopyOut, ringVars, hwVars, svcVars
<1>2. got'[r] = got[r] \o [i \in 1 .. num_credit[r] |-> base[r] + i]
  <2>1. got' = [got EXCEPT ![r] = @ \o [i \in 1 .. num_credit[r] |-> base[r] + i]]
    BY CopiesAfter DEF Apart, Undisturbed
  <2> DEFINE u == [i \in 1 .. num_credit[r] |-> base[r] + i]
  <2>2. got' = [got EXCEPT ![r] = @ \o u]
    BY <2>1
  <2> HIDE DEF u
  <2>3. got'[r] = got[r] \o u
    BY <1>s, <2>2
  <2> QED
    BY <2>3 DEF u
<1>3. h = base[r] + num_credit[r] /\ base[r] \in Nat /\ num_credit[r] \in Nat
  BY <1>s, <1>1 DEF Placed, Taken, Reads, Undisturbed
<1>4. got[r] = Run(g, base[r]) /\ g <= base[r]
  BY <1>s, <1>1 DEF Packet, Reading, Reads
<1>5. got'[r] = Run(g, h)
  <2> DEFINE m == base[r]
             n == num_credit[r]
  <2>1. m \in Nat /\ n \in Nat /\ g <= m /\ h = m + n
    BY <1>3, <1>4
  <2>2. got'[r] = Run(g, m) \o [i \in 1 .. n |-> m + i]
    BY <1>2, <1>4
  <2> HIDE DEF m, n
  <2>3. Run(g, m) \o [i \in 1 .. n |-> m + i] = Run(g, m + n)
    BY <2>1, RunConcat
  <2> QED
    BY <2>1, <2>2, <2>3
<1>6. Packet(r, g, h, base)'
  <2>1. Reading(r) /\ Reading(r)' /\ ~Reads(r)' /\ ~Waiting(r)' /\ pc'[r] # "idle"
    BY <1>1 DEF Reading, Reads, Waiting
  <2>2. /\ ~signal'[r] /\ (eop'[r] <=> Ended(g, h)') /\ (eop'[r] => eop_found')
        /\ setup'.enable_credit_mp /\ eop_found' => eop'[r]
    BY <1>s, <1>1, <2>1, SameEnds DEF Packet
  <2>3. Run(g, h)' = Run(g, h)
    BY DEF Run
  <2> QED
    BY <1>5, <2>1, <2>2, <2>3 DEF Packet
<1>7. Poll(r, g, h, t, base)'
  <2>1. setup.poll_mode => eop[r]
    BY <1>s, <1>1 DEF Poll
  <2> QED
    BY <1>s, <1>1, <2>1, SameEnds DEF Poll, Waiting
<1>8. Returned(r, g, h)'
  BY <1>s, <1>1, ReturnedStays DEF Base
<1> QED
  BY <1>s, <1>1, <1>6, <1>7, <1>8, SameEnds, StreamBack DEF Base

LEMMA ReleaseStream ==
  ASSUME Base, Undisturbed, NEW r \in Readers, setup.readers = {r},
         NEW g \in Nat, NEW h \in Nat, NEW t \in Nat, NEW base \in [Readers -> Nat],
         Placed(h, t, base), Stream(g, h, t, base), Release(r)
  PROVE  Stream(g, h, t, base)'
<1>s. /\ Packet(r, g, h, base) /\ Poll(r, g, h, t, base) /\ Returned(r, g, h) /\ Within(g, h)
      /\ eops \subseteq 1 .. produced /\ produced \in Nat /\ h <= t /\ t <= produced
      /\ \A q \in Readers : q # r => ret[q] = NoRead
      /\ pc \in [Readers -> ReaderPcs]
  BY StreamSays
<1>1. /\ pc[r] = "release" /\ pc'[r] = "more"
      /\ UNCHANGED <<setup, eops, produced, eop_found, signal, rc, eop, got, ret, svc, svc_eop, svc_rc>>
  BY <1>s DEF Release, svcVars
<1>2. Packet(r, g, h, base)'
  <2>1. Reading(r) /\ ~Reads(r) /\ Reading(r)' /\ ~Reads(r)' /\ ~Waiting(r)'
    BY <1>1 DEF Reading, Reads, Waiting
  <2> QED
    BY <1>s, <1>1, <2>1, SameEnds DEF Packet
<1>3. Poll(r, g, h, t, base)'
  BY <1>s, <1>1, SameEnds DEF Poll, Waiting
<1>4. Returned(r, g, h)'
  BY <1>s, <1>1, ReturnedStays DEF Base
<1> QED
  BY <1>s, <1>1, <1>2, <1>3, <1>4, SameEnds, StreamBack DEF Base

\* read() returns with the end of the packet, and the next one begins there; or,
\* in interrupt mode, it waits for more.
LEMMA MoreToReadStream ==
  ASSUME Base, Undisturbed, NEW r \in Readers, setup.readers = {r},
         NEW g \in Nat, NEW h \in Nat, NEW t \in Nat, NEW base \in [Readers -> Nat],
         Placed(h, t, base), Stream(g, h, t, base), MoreToRead(r)
  PROVE  \/ ~eop_found /\ ret' = ret /\ pc'[r] = "monitor" /\ Stream(g, h, t, base)'
         \/ eop_found /\ pc'[r] = "idle" /\ Ended(g, h) /\ Stream(h, h, t, base)'
<1>s. /\ Packet(r, g, h, base) /\ Poll(r, g, h, t, base) /\ Returned(r, g, h) /\ Within(g, h)
      /\ eops \subseteq 1 .. produced /\ produced \in Nat /\ h <= t /\ t <= produced
      /\ \A q \in Readers : q # r => ret[q] = NoRead
      /\ pc \in [Readers -> ReaderPcs] /\ signal \in [Readers -> BOOLEAN]
      /\ DOMAIN got = Readers /\ DOMAIN ret = Readers
      /\ (~setup.poll_mode => setup.enable_credit_mp)
  BY StreamSays
<1>1. /\ pc[r] = "more"
      /\ UNCHANGED <<setup, eops, produced, rc, eop, got, svc, svc_eop, svc_rc>>
  BY DEF MoreToRead, hwVars, svcVars
<1>2. /\ got[r] = Run(g, h) /\ (eop[r] <=> Ended(g, h)) /\ (eop[r] <=> eop_found) /\ ~signal[r]
      /\ setup.poll_mode => eop[r]
  <2>1. Reading(r) /\ ~Reads(r)
    BY <1>1 DEF Reading, Reads
  <2>2. got[r] = Run(g, h) /\ (eop[r] <=> Ended(g, h)) /\ (eop[r] => eop_found) /\ ~signal[r]
    BY <1>s, <2>1 DEF Packet
  <2>3. setup.poll_mode => eop[r]
    BY <1>s, <1>1 DEF Poll
  <2>4. eop_found => eop[r]
    BY <1>s, <2>3 DEF Packet
  <2> QED
    BY <2>2, <2>3, <2>4
<1>3. CASE ~eop_found
  <2>1. pc'[r] = "monitor" /\ UNCHANGED <<signal, ret, eop_found>>
    BY <1>s, <1>3 DEF MoreToRead
  <2>2. Packet(r, g, h, base)'
    <3>1. Waiting(r)' /\ ~Reading(r)' /\ pc'[r] # "idle"
      BY <2>1 DEF Waiting, Reading
    <3>2. Run(g, h)' = Run(g, h)
      BY DEF Run
    <3> QED
      BY <1>1, <1>2, <1>3, <2>1, <3>1, <3>2, SameEnds DEF Packet
  <2>3. Poll(r, g, h, t, base)'
    BY <1>1, <1>2, <1>3 DEF Poll
  <2>4. Returned(r, g, h)'
    BY <1>s, <1>1, <2>1, ReturnedStays DEF Base
  <2>5. Stream(g, h, t, base)'
    BY <1>s, <1>1, <2>1, <2>2, <2>3, <2>4, SameEnds, StreamBack DEF Base
  <2> QED
    BY <1>3, <2>1, <2>5
<1>4. CASE eop_found
  <2>1. /\ pc'[r] = "idle" /\ ~signal'[r] /\ (setup.enable_credit_mp => ~eop_found')
        /\ ret'[r] = [error |-> "none", blocks |-> Run(g, h), errs |-> errs[r]]
        /\ \A q \in Readers : q # r => ret'[q] = ret[q]
    BY <1>s, <1>2, <1>4 DEF MoreToRead, ReadReturns, EopFoundAfterRead
  <2>2. Ended(g, h) /\ h \in eops
    BY <1>2, <1>4 DEF Ended
  <2>3. Within(h, h)'
    BY <1>1, <2>2 DEF Within
  <2>4. Packet(r, h, h, base)'
    BY <1>1, <2>1 DEF Packet, Waiting, Reading
  <2>5. Poll(r, h, h, t, base)'
    BY <1>s, <1>1, <2>1, SameEnds DEF Poll, Waiting
  <2>6. Returned(r, h, h)'
    <3> DEFINE s == Run(g, h)
    <3>1. IsPacket(s) /\ LastOf(s) = h /\ \A i \in 1 .. Len(s) : s[i] <= h
      BY <1>s, <2>2, RunIsPacket
    <3> HIDE DEF s
    <3>2. ret'[r].blocks = s
      BY <2>1 DEF s
    <3>3. IsPacket(ret[r].blocks)' /\ LastOf(ret[r].blocks)' = h
      BY <1>1, <3>1, <3>2 DEF IsPacket, LastOf
    <3>4. ~setup.poll_mode => ~rc[r]
      BY <1>s DEF Returned
    <3> QED
      BY <1>1, <3>1, <3>2, <3>3, <3>4 DEF Returned
  <2>7. Stream(h, h, t, base)'
    BY <1>s, <1>1, <2>1, <2>3, <2>4, <2>5, <2>6, StreamBack DEF Base
  <2> QED
    BY <1>4, <2>1, <2>2, <2>7
<1> QED
  BY <1>3, <1>4

LEMMA InitWhole == Init /\ Undisturbed => Whole
<1> SUFFICES ASSUME Init, Undisturbed PROVE Whole
  OBVIOUS
<1> DEFINE base == [r \in Readers |-> 0]
<1>1. base \in [Readers -> Nat] /\ 0 \in Nat /\ Placed(0, 0, base)
  BY InitPlaced
<1> HIDE DEF base
<1>2. /\ produced = 0 /\ eops = {} /\ svc = "idle" /\ ~eop_found
      /\ setup.readers \subseteq Readers
      /\ \A r \in Readers : pc[r] = "idle" /\ ~signal[r] /\ ~rc[r] /\ ret[r] = NoRead
  BY InitBase, RingTypes DEF Init, Base
<1>3. eops \subseteq 1 .. produced /\ Within(0, 0) /\ \A r \in Readers : ret[r] = NoRead
  BY <1>2 DEF Within
<1>4. ASSUME NEW r \in setup.readers
      PROVE  Packet(r, 0, 0, base) /\ Poll(r, 0, 0, 0, base) /\ Returned(r, 0, 0)
  <2>1. Packet(r, 0, 0, base)
    BY <1>2, <1>4 DEF Packet, Waiting, Reading
  <2>2. Poll(r, 0, 0, 0, base)
    BY <1>2, <1>4 DEF Poll, Waiting
  <2>3. Returned(r, 0, 0)
    BY <1>2, <1>4 DEF Returned, NoRead, LastOf
  <2> QED
    BY <2>1, <2>2, <2>3
<1>5. Stream(0, 0, 0, base)
  BY <1>3, <1>4 DEF Stream
<1> QED
  BY <1>1, <1>5 DEF Whole

LEMMA WholeStep == Base /\ Undisturbed /\ Whole /\ [Next]_vars => Whole'
<1> SUFFICES ASSUME Base, Undisturbed, Whole, [Next]_vars PROVE Whole'
  OBVIOUS
<1> USE DEF ringVars, hwVars, svcVars, readerVars
<1>1. PICK g \in Nat, h \in Nat, t \in Nat, base \in [Readers -> Nat] :
        Placed(h, t, base) /\ Stream(g, h, t, base)
  BY DEF Whole
<1>2. PICK r \in Readers : setup.readers = {r}
  BY SoleReader DEF Base, Undisturbed
<1>3. ASSUME NEW g2 \in Nat, NEW h2 \in Nat, NEW t2 \in Nat, NEW base2 \in [Readers -> Nat],
             Placed(h2, t2, base2)', Stream(g2, h2, t2, base2)'
      PROVE  Whole'
  BY <1>3 DEF Whole
<1>4. pc \in [Readers -> ReaderPcs] /\ KeepsUp
  BY RingTypes DEF Base, Undisturbed
<1>5. ASSUME UNCHANGED <<setup, produced, result, rx_head, rx_tail, rx_overrun, credits, copies,
                         head, num_credit, fault>>,
             \A q \in Readers : pc'[q] = pc[q] \/ ({pc[q], pc'[q]} \cap {"take", "copy", "release"} = {})
      PROVE  Placed(h, t, base)'
  BY <1>1, <1>5, RingFrame
<1>6. CASE HwBlock
  BY <1>1, <1>2, <1>3, <1>4, <1>6, HwBlockRing, HwBlockStream
<1>7. CASE \/ HwError \/ Isr \/ WorkBegin \/ WorkEnd \/ ServiceStatus \/ RingProcessed \/ RingWake \/ RingStop
           \/ PollWriteback \/ UNCHANGED vars
  <2>1. Stream(g, h, t, base)'
    BY <1>1, <1>2, <1>7, ServiceStepStream
  <2>2. CASE HwError \/ Isr \/ WorkBegin \/ WorkEnd \/ UNCHANGED vars
    BY <1>1, <1>3, <1>5, <2>1, <2>2 DEF HwError, Isr, WorkBegin, WorkEnd, vars
  <2>3. CASE ServiceStatus \/ RingProcessed \/ RingStop \/ PollWriteback
    BY <1>1, <1>3, <1>5, <2>1, <2>3 DEF ServiceStatus, RingProcessed, RingStop, PollWriteback
  <2>4. CASE RingWake
    BY <1>1, <1>3, <1>4, <1>5, <2>1, <2>4 DEF RingWake, wake_up
  <2> QED
    BY <1>7, <2>2, <2>3, <2>4
<1>8. CASE RingProcess
  <2>1. Placed(h, t + 1, base)' /\ Stream(g, h, t + 1, base)' /\ t + 1 \in Nat
    BY <1>1, <1>2, <1>8, RingProcessRing, RingProcessStream
  <2> QED
    BY <1>1, <1>3, <2>1
<1>9. ASSUME NEW q \in Readers, ReadStart(q) \/ SignalArrives(q) \/ ReaderStep(q) PROVE Whole'
  <2>0. q = r
    BY <1>2, <1>9, OnlyReader
  <2>1. CASE ReadStart(r) \/ SignalArrives(r) \/ PollBegin(r) \/ PollEnd(r) \/ Monitor(r) \/ Recheck(r)
    <3>1. Stream(g, h, t, base)'
      BY <1>1, <1>2, <2>1, WaitStream
    <3>2. CASE ReadStart(r) \/ SignalArrives(r)
      BY <1>1, <1>3, <1>4, <1>5, <3>1, <3>2 DEF ReadStart, SignalArrives
    <3>3. CASE PollBegin(r)
      BY <1>1, <1>3, <1>5, <3>1, <3>3 DEF PollBegin
    <3>4. CASE PollEnd(r)
      <4>1. pc[r] = "monitor"
        BY <3>4, RingAssumption DEF PollEnd, Base, LockInv
      <4> QED
        BY <1>1, <1>3, <1>4, <1>5, <3>1, <3>4, <4>1 DEF PollEnd
    <3>5. CASE Monitor(r) \/ Recheck(r)
      BY <1>1, <1>3, <1>4, <1>5, <3>1, <3>5 DEF Monitor, Recheck, ReadReturns
    <3> QED
      BY <2>1, <3>2, <3>3, <3>4, <3>5
  <2>2. CASE CompleteBegin(r)
    <3> DEFINE base2 == [base EXCEPT ![r] = h]
    <3>1. Placed(h, t, base2)' /\ Stream(g, h, t, base2)' /\ base2 \in [Readers -> Nat]
      BY <1>1, <1>2, <2>2, CompleteBeginRing, CompleteBeginStream
    <3> HIDE DEF base2
    <3> QED
      BY <1>1, <1>3, <3>1
  <2>3. CASE TakeResult(r)
    <3>1. Placed(h + 1, t, base)' /\ Stream(g, h + 1, t, base)' /\ h + 1 \in Nat
      BY <1>1, <1>2, <2>3, TakeResultRing, TakeResultStream
    <3> QED
      BY <1>1, <1>3, <3>1
  <2>4. CASE CompleteEnd(r)
    BY <1>1, <1>2, <1>3, <2>4, CompleteEndRing, CompleteEndStream
  <2>5. CASE CopyOut(r)
    BY <1>1, <1>2, <1>3, <2>5, CopyOutRing, CopyOutStream
  <2>6. CASE Release(r)
    BY <1>1, <1>2, <1>3, <2>6, ReleaseRing, ReleaseStream
  <2>7. CASE MoreToRead(r)
    <3>1. Placed(h, t, base)'
      BY <1>1, <1>4, <1>5, <2>7 DEF MoreToRead, ReadReturns
    <3>2. Stream(g, h, t, base)' \/ Stream(h, h, t, base)'
      BY <1>1, <1>2, <2>7, MoreToReadStream
    <3> QED
      BY <1>1, <1>3, <3>1, <3>2
  <2> QED
    BY <1>9, <2>0, <2>1, <2>2, <2>3, <2>4, <2>5, <2>6, <2>7 DEF ReaderStep
<1> QED
  BY <1>6, <1>7, <1>8, <1>9 DEF Next, Service

LEMMA WholeAlways == Spec => [](Base /\ (Undisturbed => Whole))
<1>1. Init => Base /\ (Undisturbed => Whole)
  BY InitBase, InitWhole
<1>2. Base /\ (Undisturbed => Whole) /\ [Next]_vars => (Base /\ (Undisturbed => Whole))'
  <2> SUFFICES ASSUME Base, Undisturbed => Whole, [Next]_vars PROVE (Base /\ (Undisturbed => Whole))'
    OBVIOUS
  <2>1. Base'
    BY BaseStep
  <2>2. setup' = setup
    BY SetupFixed
  <2>3. Undisturbed' <=> Undisturbed
    BY <2>2, SetupSays DEF Undisturbed
  <2>4. Undisturbed' => Whole'
    BY <2>3, WholeStep
  <2> QED
    BY <2>1, <2>4
<1> QED
  BY <1>1, <1>2, PTL DEF Spec

\* With credits or in poll mode what read() returns is one whole packet of the
\* stream, unless a signal, a fault or another reader comes between its blocks.
THEOREM PacketsStayWhole == Spec => []PacketsWhole
<1>1. ASSUME Base, Undisturbed => Whole PROVE PacketsWhole
  <2> SUFFICES ASSUME Undisturbed, NEW r \in Readers, ret[r] # NoRead, ret[r].error = "none"
               PROVE  IsPacket(ret[r].blocks)
    BY DEF PacketsWhole, EveryReadIsAPacket, Undisturbed
  <2>1. PICK g \in Nat, h \in Nat, t \in Nat, base \in [Readers -> Nat] : Stream(g, h, t, base)
    BY <1>1 DEF Whole
  <2>2. Returned(r, g, h)
    BY <2>1 DEF Stream
  <2> QED
    BY <2>2 DEF Returned
<1> QED
  BY <1>1, WholeAlways, PTL
-------------------------------------------------------------------------------
(* The channel of XdmaPackets *)

\* A reader with credits that no signal and no bad result disturbs.
OneStream(s) ==
  ~s.poll_mode /\ s.enable_credit_mp /\ s.bad = 0 /\ ~s.signals /\ Cardinality(s.readers) = 1

LEMMA StreamSetup ==
  ASSUME \A s \in Setups : OneStream(s), TypeOK
  PROVE  Undisturbed /\ ~setup.poll_mode
BY DEF TypeOK, OneStream, Undisturbed, Alone, NoFault, KeepsUp

\* A step of the ring sends a block, begins a read, returns the next packet, or
\* is none of the channel.
LEMMA ChannelStep ==
  ASSUME Base, Undisturbed, ~setup.poll_mode, Whole, [Next]_vars
  PROVE  [Packets!Next]_<<produced, eops, LastTaken, SomeReads>>
<1> USE DEF ringVars, hwVars, svcVars, readerVars
<1>1. PICK g \in Nat, h \in Nat, t \in Nat, base \in [Readers -> Nat] :
        Placed(h, t, base) /\ Stream(g, h, t, base)
  BY DEF Whole
<1>2. PICK r \in Readers : setup.readers = {r}
  BY SoleReader DEF Base, Undisturbed
<1>s. /\ Packet(r, g, h, base) /\ Returned(r, g, h) /\ Within(g, h)
      /\ produced \in Nat /\ h <= produced /\ eops \subseteq 1 .. produced
      /\ pc \in [Readers -> ReaderPcs] /\ DOMAIN ret = Readers /\ DOMAIN got = Readers
  BY <1>1, <1>2, StreamSays DEF Window, Placed
<1>3. setup' = setup /\ Base'
  BY SetupFixed, BaseStep
<1>4. LastTaken = LastOf(ret[r].blocks) /\ LastTaken' = LastOf(ret'[r].blocks)
  <2>1. TheReader = r /\ TheReader' = r
    BY <1>2, <1>3 DEF TheReader
  <2> QED
    BY <2>1 DEF LastTaken, LastOf
<1>5. (SomeReads <=> pc[r] # "idle") /\ (SomeReads' <=> pc'[r] # "idle")
  <2>1. \A q \in Readers : pc[q] # "idle" => q = r
    BY <1>2 DEF Base, ReaderInv
  <2>2. \A q \in Readers : pc'[q] # "idle" => q = r
    BY <1>2, <1>3 DEF Base, ReaderInv
  <2> QED
    BY <2>1, <2>2 DEF SomeReads
<1>6. LastTaken = g /\ ~rc[r]
  BY <1>s, <1>4 DEF Returned
<1>7. ASSUME UNCHANGED <<produced, eops, ret>>, pc'[r] = "idle" <=> pc[r] = "idle"
      PROVE  UNCHANGED <<produced, eops, LastTaken, SomeReads>>
  <2>1. SomeReads' = SomeReads
    BY <1>5, <1>7 DEF SomeReads
  <2>2. LastTaken' = LastTaken
    BY <1>4, <1>7
  <2> QED
    BY <1>7, <2>1, <2>2
<1>8. CASE HwBlock
  <2>1. /\ produced < MaxBlocks /\ produced' = produced + 1
        /\ eops' \in {eops, eops \cup {produced + 1}} /\ UNCHANGED <<ret, pc>>
    BY <1>8, Sizes, RingTypes DEF HwBlock, Base
  <2>2. SomeReads' = SomeReads /\ LastTaken' = LastTaken
    BY <1>4, <1>5, <2>1 DEF SomeReads
  <2>3. Packets!Send
    BY <2>1, <2>2 DEF Packets!Send
  <2> QED
    BY <2>3 DEF Packets!Next
<1>9. CASE HwError \/ Isr \/ WorkBegin \/ WorkEnd \/ UNCHANGED vars
  BY <1>7, <1>9 DEF HwError, Isr, WorkBegin, WorkEnd, vars
<1>10. CASE Service
  BY <1>s, <1>7, <1>10
     DEF Service, ServiceStatus, RingProcess, RingProcessed, RingWake, RingStop, PollWriteback, wake_up
<1>11. ASSUME NEW q \in Readers, ReadStart(q) \/ SignalArrives(q) \/ ReaderStep(q)
       PROVE  Packets!Next \/ UNCHANGED <<produced, eops, LastTaken, SomeReads>>
  <2>0. q = r
    BY <1>2, <1>11, OnlyReader
  <2>1. CASE ReadStart(r)
    <3>1. pc[r] = "idle" /\ pc'[r] = "monitor" /\ UNCHANGED <<produced, eops, ret>>
      BY <1>s, <2>1 DEF ReadStart
    <3>2. LastTaken' = LastTaken
      BY <1>4, <3>1
    <3>3. Packets!Begin
      BY <1>5, <3>1, <3>2 DEF Packets!Begin, SomeReads
    <3> QED
      BY <3>3 DEF Packets!Next
  <2>2. CASE SignalArrives(r) \/ PollBegin(r) \/ PollEnd(r)
    <3>1. ~PollEnd(r)
      BY RingAssumption DEF PollEnd, Base, LockInv
    <3> QED
      BY <2>2, <3>1 DEF SignalArrives, PollBegin, Undisturbed
  <2>3. CASE Monitor(r) \/ CompleteBegin(r) \/ TakeResult(r) \/ CompleteEnd(r) \/ CopyOut(r) \/ Release(r)
    BY <1>s, <1>7, <2>3 DEF Monitor, CompleteBegin, TakeResult, CompleteEnd, CopyOut, Release
  <2>4. CASE Recheck(r)
    BY <1>s, <1>6, <1>7, <2>4 DEF Recheck
  <2>5. CASE MoreToRead(r)
    <3>1. CASE ~eop_found
      BY <1>s, <1>7, <2>5, <3>1 DEF MoreToRead
    <3>2. CASE eop_found
      <4>1. pc[r] # "idle" /\ pc'[r] = "idle" /\ UNCHANGED <<produced, eops>>
        BY <1>s, <2>5, <3>2 DEF MoreToRead, ReadReturns
      <4>2. Ended(g, h) /\ Stream(h, h, t, base)'
        BY <1>1, <1>2, <2>5, <3>2, MoreToReadStream
      <4>3. LastTaken' = h
        BY <1>2, <1>3, <1>4, <4>2 DEF Stream, Returned
      <4>4. h \in eops /\ h > g /\ \A e \in eops : e > g => h <= e
        BY <1>s, <4>2 DEF Ended, Within
      <4>5. Packets!Return
        BY <1>5, <1>6, <4>1, <4>3, <4>4 DEF Packets!Return
      <4> QED
        BY <4>5 DEF Packets!Next
    <3> QED
      BY <3>1, <3>2
  <2> QED
    BY <1>11, <2>0, <2>1, <2>2, <2>3, <2>4, <2>5 DEF ReaderStep
<1> QED
  BY <1>8, <1>9, <1>10, <1>11 DEF Next

\* With credits each read of the one reader returns the next packet of the
\* stream, whole: none is left out, returned twice or out of order.
THEOREM ReadsFollowPackets ==
  ASSUME \A s \in Setups : OneStream(s) PROVE Spec => Packets!InOrder
<1>1. Init => Packets!Init
  <2> SUFFICES ASSUME Init PROVE Packets!Init
    OBVIOUS
  <2>1. Base /\ Undisturbed
    BY InitBase, StreamSetup DEF Base
  <2>2. PICK r \in Readers : setup.readers = {r}
    BY <2>1, SoleReader DEF Base, Undisturbed
  <2>3. TheReader = r /\ ret[r] = NoRead
    BY <2>2 DEF Init, TheReader
  <2>4. LastTaken = 0
    BY <2>3 DEF LastTaken, NoRead
  <2>5. SomeReads = FALSE
    BY DEF Init, SomeReads
  <2> QED
    BY <2>4, <2>5 DEF Init, Packets!Init
<1>2. Base /\ (Undisturbed => Whole) /\ [Next]_vars => [Packets!Next]_<<produced, eops, LastTaken, SomeReads>>
  BY StreamSetup, ChannelStep DEF Base
<1> QED
  BY <1>1, <1>2, WholeAlways, PTL DEF Spec, Packets!InOrder, Packets!vars
===============================================================================
