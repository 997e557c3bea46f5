----------------------------- MODULE XdmaDescProofs -----------------------------
(***************************************************************************)
(* Following the descriptors moves the request, for requests and limits of *)
(* any size: no unit is moved twice, left out or to another's place, and   *)
(* no descriptor or fetch is too long.                                     *)
(***************************************************************************)
EXTENDS XdmaDesc, SequenceTheorems, TLAPS

Piece      == [host : Nat, card : Nat, len : Nat]
Descriptor == [host : Nat, card : Nat, len : Nat, next : Nat, stop : BOOLEAN, adj : Nat]

TypeInv ==
  /\ request \in Requests
  /\ pc \in {"call", "next", "build", "wait", "returned"}
  /\ res \in {"none", "EINVAL", "BUG", "done"}
  /\ loop \in [transfer_addr : Nat, remaining : Nat, done : Nat, pos : Nat]
  /\ build \in [list : Seq(Piece), addr : Nat, stop : Nat, cont_addr : Nat, cont_len : Nat, ep_addr : Nat]
  /\ desc \in Seq(Descriptor)
  /\ hw \in [at : Nat, last : Nat]
  /\ moved \in Seq(Nat \X Nat)

\* transfer_data goes on where it stopped, after whole transfers.
LoopInv ==
  /\ loop.remaining = request.count - loop.done
  /\ loop.transfer_addr = request.buf + loop.done
  /\ loop.pos = request.pos + loop.done
  /\ loop.done = request.count \/ \E k \in Nat : loop.done = k * MaxTransferBytes

\* What has been moved where, whoever looks, and what has passed the tests.
CallInv ==
  /\ pc \in {"next", "build", "wait"} => request.ring \/ check_transfer_align
  /\ pc \in {"build", "wait"} => loop.remaining > 0
  /\ pc = "call" => loop.done = 0
  /\ pc = "next" => ~request.ring
  /\ request.ring => loop.done = 0
  /\ pc # "wait" => hw = Stopped /\ desc = <<>> /\ Len(moved) = loop.done
  /\ res = "done" => pc = "returned" /\ loop.remaining = 0

\* What the transfer in the making, or under way, is to move.
Total == IF request.ring THEN request.count ELSE transfer_len

\* The pieces of list follow one another over the buffer: piece i begins off[i]
\* after the transfer's first unit, and off ends with what they have in all.
Tiles(list, off) ==
  /\ Len(off) = Len(list) + 1 /\ off[1] = 0
  /\ \A i \in 1 .. Len(list) :
       /\ list[i].len > 0 /\ off[i + 1] = off[i] + list[i].len /\ off[i + 1] <= Total
       /\ \A x \in 0 .. list[i].len - 1 : list[i].host + x = Bus(loop.transfer_addr + off[i] + x)
       /\ ~request.iommu => list[i].len <= MaxDescBytes
       /\ request.ring /\ ~request.iommu => off[i] = (i - 1) * PageSize /\ list[i].len = PageSize
  /\ \A i \in 1 .. Len(list) + 1 : request.mode # "mm" => Aligned(off[i])

CardAt(o) == IF request.mode = "fixed" THEN loop.pos ELSE loop.pos + o

\* transfer_build: the pieces that are done, and the block that begins after them.
BuildAt(off) ==
  LET o == off[Len(build.list) + 1] IN
  /\ Tiles(build.list, off)
  /\ \A i \in 1 .. Len(build.list) : build.list[i].card = CardAt(off[i])
  /\ build.addr = loop.transfer_addr + o + build.cont_len
  /\ build.stop = loop.transfer_addr + Total /\ build.addr < build.stop
  /\ build.ep_addr = CardAt(o)
  /\ \A x \in 0 .. build.cont_len : build.cont_addr + x = Bus(loop.transfer_addr + o + x)
  /\ build.addr = loop.transfer_addr \/ build.addr % PageSize = 0
  /\ ~request.iommu => build.cont_len <= MaxDescBytes - PageSize
  /\ request.ring => build.cont_len = 0 /\ (~request.iommu => o = Len(build.list) * PageSize)

BuildInv == pc = "build" => \E off \in Seq(Nat) : BuildAt(off)

\* The hardware is at a descriptor, and has moved what is before it, in the ring
\* after whole laps.
HwAt(off) ==
  IF hw = Stopped THEN ~request.ring /\ Len(moved) = loop.done + Total
  ELSE /\ hw.at \in 1 .. Len(desc) /\ hw.last \in hw.at .. Len(desc)
       /\ (hw.at - 1) \div DescPerPage = (hw.last - 1) \div DescPerPage
       /\ \E lap \in Nat : /\ Len(moved) = loop.done + lap * Total + off[hw.at]
                           /\ ~request.ring => lap = 0

WaitAt(off) ==
  /\ Tiles(desc, off) /\ off[Len(desc) + 1] = Total
  /\ HwAt(off)
  /\ \A i \in 1 .. Len(desc) :
       /\ desc[i].card = IF request.ring THEN i - 1 ELSE CardAt(off[i])
       /\ desc[i].stop <=> i = Len(desc) /\ ~request.ring
       /\ desc[i].next = IF i < Len(desc) THEN i + 1 ELSE IF request.ring THEN 1 ELSE 0
       /\ desc[i].adj = extra_adj(i, Len(desc))

WaitInv == pc = "wait" => \E off \in Seq(Nat) : WaitAt(off)

MovedInv == Promised => \A k \in DOMAIN moved : moved[k] = <<HostOf(k), CardFor(k)>>

Inv == TypeInv /\ LoopInv /\ CallInv /\ BuildInv /\ WaitInv /\ MovedInv
-------------------------------------------------------------------------------
(* Numbers *)

\* % and \div, for a divisor that is not a number of the text.
LEMMA Quotient ==
  ASSUME NEW a \in Nat, NEW n \in Nat \ {0}
  PROVE  /\ a \div n \in Nat /\ a % n \in 0 .. n - 1
         /\ (a \div n) * n \in Nat /\ a = (a \div n) * n + (a % n)
  OBVIOUS

\* The multiples of n are n apart.
LEMMA NextMultiple ==
  ASSUME NEW n \in Nat, NEW i \in Nat, NEW j \in Nat, i < j
  PROVE  i * n + n <= j * n
<1>1. PICK k \in Nat : j = i + 1 + k
  <2>1. j - i - 1 \in Nat /\ j = i + 1 + (j - i - 1)
    OBVIOUS
  <2> QED
    BY <2>1
<1>2. k * n \in Nat /\ j * n = i * n + n + k * n
  BY <1>1
<1> QED
  BY <1>2

\* A number has one quotient and one remainder.
LEMMA OneQuotient ==
  ASSUME NEW n \in Nat \ {0}, NEW q \in Nat, NEW x \in 0 .. n - 1
  PROVE  (q * n + x) \div n = q /\ (q * n + x) % n = x
<1> DEFINE a == q * n + x
           p == a \div n
           y == a % n
<1>1. a \in Nat /\ q * n \in Nat
  OBVIOUS
<1>2. p \in Nat /\ y \in 0 .. n - 1 /\ a = p * n + y
  BY <1>1, Quotient
<1>3. p * n \in Nat
  BY <1>2
<1>4. ~(p < q)
  <2>1. p < q => p * n + n <= q * n
    BY <1>2, NextMultiple
  <2> QED
    BY <2>1, <1>1, <1>2, <1>3
<1>5. ~(q < p)
  <2>1. q < p => q * n + n <= p * n
    BY <1>2, NextMultiple
  <2> QED
    BY <2>1, <1>1, <1>2, <1>3
<1>6. p = q
  BY <1>2, <1>4, <1>5
<1>7. x = y
  <2>1. p * n = q * n
    BY <1>6
  <2> HIDE DEF p, y
  <2> QED
    BY <2>1, <1>1, <1>2, <1>3
<1> QED
  BY <1>6, <1>7

LEMMA Multiples ==
  ASSUME NEW n \in Nat \ {0}, NEW a \in Nat
  PROVE  a % n = 0 <=> \E k \in Nat : a = k * n
<1>1. a % n = 0 => a = (a \div n) * n /\ a \div n \in Nat
  <2> DEFINE k == a \div n
             m == k * n
  <2>1. k \in Nat /\ a = m + (a % n)
    BY Quotient
  <2>2. m \in Nat
    BY <2>1
  <2> HIDE DEF k, m
  <2>3. a % n = 0 => a = m
    BY <2>1, <2>2
  <2> QED
    BY <2>1, <2>3 DEF k, m
<1>2. ASSUME NEW k \in Nat, a = k * n PROVE a % n = 0
  <2>1. (k * n + 0) % n = 0
    BY OneQuotient
  <2>2. k * n \in Nat
    OBVIOUS
  <2> QED
    BY <1>2, <2>1, <2>2
<1> QED
  BY <1>1, <1>2

\* A multiple more or less leaves the remainder as it is.
LEMMA ModMultiple ==
  ASSUME NEW n \in Nat \ {0}, NEW a \in Nat, NEW b \in Nat, b % n = 0
  PROVE  (b + a) % n = a % n
<1>1. PICK k \in Nat : b = k * n
  BY Multiples
<1> DEFINE q == a \div n
           x == a % n
<1>2. q \in Nat /\ x \in 0 .. n - 1 /\ a = q * n + x
  BY Quotient
<1>3. b + a = (k + q) * n + x
  <2>1. (k + q) * n = k * n + q * n /\ k * n \in Nat /\ q * n \in Nat
    BY <1>2
  <2> QED
    BY <1>1, <1>2, <2>1
<1>4. k + q \in Nat
  BY <1>2
<1>5. ((k + q) * n + x) % n = x
  BY <1>2, <1>4, OneQuotient
<1> QED
  BY <1>3, <1>5

\* What is added to numbers of the same remainder does not matter.
LEMMA ModAdd ==
  ASSUME NEW n \in Nat \ {0}, NEW a \in Nat, NEW b \in Nat, NEW c \in Nat, a % n = b % n
  PROVE  (a + c) % n = (b + c) % n
<1> DEFINE Of(m) == (m \div n) * n
<1>1. ASSUME NEW m \in Nat PROVE (m + c) % n = ((m % n) + c) % n
  <2>1. Of(m) \in Nat /\ m % n \in Nat /\ m = Of(m) + (m % n)
    BY Quotient
  <2>2. Of(m) % n = 0
    <3>1. m \div n \in Nat /\ (m \div n) * n \in Nat
      BY Quotient
    <3> QED
      BY <3>1, Multiples
  <2>3. (Of(m) + ((m % n) + c)) % n = ((m % n) + c) % n
    <3>1. (m % n) + c \in Nat
      BY <2>1
    <3> HIDE DEF Of
    <3> QED
      BY <2>1, <2>2, <3>1, ModMultiple
  <2>4. Of(m) + ((m % n) + c) = m + c
    <3> HIDE DEF Of
    <3> QED
      BY <2>1
  <2> QED
    BY <2>3, <2>4
<1> QED
  BY <1>1

LEMMA NextLap ==
  ASSUME NEW n \in Nat, NEW lap \in Nat, NEW done \in Nat, NEW m \in Nat, m = done + lap * n + n
  PROVE  m = done + (lap + 1) * n + 0
<1>1. lap * n \in Nat /\ (lap + 1) * n = lap * n + n
  OBVIOUS
<1> QED
  BY <1>1

\* A sequence and what is put behind it.
LEMMA Appended ==
  ASSUME NEW S, NEW s \in Seq(S), NEW t \in Seq(S)
  PROVE  /\ s \o t \in Seq(S) /\ Len(s \o t) = Len(s) + Len(t) /\ Len(s) \in Nat
         /\ \A k \in 1 .. Len(s) : (s \o t)[k] = s[k]
         /\ \A k \in 1 .. Len(t) : (s \o t)[Len(s) + k] = t[k]
<1>1. s \o t \in Seq(S) /\ Len(s \o t) = Len(s) + Len(t)
  BY ConcatProperties
<1>2. Len(s) \in Nat /\ Len(t) \in Nat
  OBVIOUS
<1>3. \A i \in 1 .. Len(s) + Len(t) : (s \o t)[i] = IF i <= Len(s) THEN s[i] ELSE t[i - Len(s)]
  BY ConcatProperties, Zenon
<1>4. ASSUME NEW k \in 1 .. Len(s) PROVE (s \o t)[k] = s[k]
  BY <1>2, <1>3
<1>5. ASSUME NEW k \in 1 .. Len(t) PROVE (s \o t)[Len(s) + k] = t[k]
  <2>1. Len(s) + k \in 1 .. Len(s) + Len(t) /\ ~(Len(s) + k <= Len(s)) /\ Len(s) + k - Len(s) = k
    BY <1>2
  <2> QED
    BY <2>1, <1>3
<1> QED
  BY <1>1, <1>2, <1>4, <1>5

\* Sums and differences of multiples.
LEMMA SumMultiple ==
  ASSUME NEW n \in Nat \ {0}, NEW a \in Nat, NEW b \in Nat, a % n = 0
  PROVE  (a + b) % n = 0 <=> b % n = 0
BY ModMultiple

LEMMA MultipleOfMultiple ==
  ASSUME NEW n \in Nat \ {0}, NEW m \in Nat \ {0}, NEW a \in Nat, m % n = 0, a % m = 0
  PROVE  a % n = 0
<1>1. PICK j \in Nat : m = j * n
  BY Multiples
<1>2. PICK k \in Nat : a = k * m
  BY Multiples
<1>3. k * j \in Nat /\ a = (k * j) * n
  BY <1>1, <1>2
<1> QED
  BY <1>3, Multiples
-------------------------------------------------------------------------------
(* The buffer *)

LEMMA Sizes ==
  /\ PageSize \in Nat \ {0} /\ DescPerPage \in Nat \ {0} /\ AddrAlign \in Nat \ {0}
  /\ MaxDescBytes \in Nat /\ MaxTransferBytes \in Nat \ {0} /\ MaxExtraAdj \in Nat
  /\ PageSize <= MaxDescBytes /\ MaxExtraAdj < DescPerPage
BY DescAssumption

LEMMA Divide == MaxTransferBytes % PageSize = 0 /\ PageSize % AddrAlign = 0
BY DescAssumption

LEMMA RequestType ==
  ASSUME request \in Requests
  PROVE  /\ request.buf \in Nat /\ request.count \in Nat /\ request.pos \in Nat
         /\ request.frame \in Seq(Nat) /\ request.ring \in BOOLEAN /\ request.iommu \in BOOLEAN
         /\ request.mode \in {"mm", "fixed", "stream"}
         /\ request.buf + request.count <= PageSize * Len(request.frame)
         /\ request.ring => /\ request.mode = "stream" /\ request.buf = 0 /\ request.pos = 0
                            /\ request.count > 0 /\ request.count % PageSize = 0
BY DescAssumption DEF Request

LEMMA PageOf ==
  ASSUME NEW v \in Nat
  PROVE  /\ v \div PageSize \in Nat /\ v % PageSize \in 0 .. PageSize - 1 /\ v % PageSize \in Nat
         /\ (v \div PageSize) * PageSize \in Nat
         /\ v = (v \div PageSize) * PageSize + (v % PageSize)
<1>1. PageSize \in Nat \ {0}
  BY Sizes
<1>2. v \div PageSize \in Nat /\ v % PageSize \in 0 .. PageSize - 1
  BY <1>1, Quotient
<1>3. (v \div PageSize) * PageSize \in Nat /\ v = (v \div PageSize) * PageSize + (v % PageSize)
  BY <1>1, Quotient, Zenon
<1>4. v % PageSize \in Nat
  BY <1>1, <1>2
<1> QED
  BY <1>2, <1>3, <1>4, Zenon

LEMMA BusType ==
  ASSUME request \in Requests, NEW v \in Nat, v < request.buf + request.count
  PROVE  /\ request.frame[v \div PageSize + 1] \in Nat
         /\ Bus(v) \in Nat
<1> DEFINE n == Len(request.frame)
           q == v \div PageSize
<1>1. n \in Nat /\ request.buf + request.count <= n * PageSize /\ request.buf + request.count \in Nat
  BY RequestType, Sizes
<1>2. q \in Nat /\ v % PageSize \in Nat /\ v = q * PageSize + (v % PageSize)
  BY PageOf, Zenon
<1>3. q * PageSize \in Nat /\ n * PageSize \in Nat
  BY <1>1, <1>2, Sizes
<1>4. q < n
  <2>1. n < q => n * PageSize + PageSize <= q * PageSize
    BY <1>1, <1>2, NextMultiple, Sizes
  <2> QED
    BY <2>1, <1>1, <1>2, <1>3, Sizes
<1>5. request.frame[q + 1] \in Nat
  BY <1>1, <1>2, <1>4, RequestType
<1>6. request.frame[q + 1] * PageSize \in Nat
  BY <1>5, Sizes
<1> QED
  BY <1>2, <1>5, <1>6 DEF Bus

\* A page of the buffer is in one page of memory.
LEMMA InPage ==
  ASSUME request \in Requests, NEW v \in Nat, NEW x \in Nat,
         (v % PageSize) + x < PageSize, v + x < request.buf + request.count
  PROVE  Bus(v + x) = Bus(v) + x
<1> DEFINE q == v \div PageSize
           r == v % PageSize
<1>1. q \in Nat /\ r \in Nat /\ v = q * PageSize + r /\ q * PageSize \in Nat
  BY PageOf, Zenon
<1>2. r + x \in 0 .. PageSize - 1
  BY <1>1, Sizes
<1>3. (q * PageSize + (r + x)) \div PageSize = q /\ (q * PageSize + (r + x)) % PageSize = r + x
  BY <1>1, <1>2, OneQuotient, Sizes
<1>4. q * PageSize + (r + x) = v + x
  <2> HIDE DEF q, r
  <2> QED
    BY <1>1
<1>5. Bus(v) \in Nat /\ request.frame[q + 1] \in Nat /\ v < request.buf + request.count
  BY BusType, RequestType
<1>6. Bus(v + x) = request.frame[q + 1] * PageSize + (r + x) /\ Bus(v) = request.frame[q + 1] * PageSize + r
  BY <1>3, <1>4 DEF Bus
<1>7. request.frame[q + 1] * PageSize \in Nat
  BY <1>5, Sizes
<1> HIDE DEF q, r
<1> QED
  BY <1>1, <1>6, <1>7

\* Bus addresses have the alignment of those of the buffer.
LEMMA BusAligned ==
  ASSUME request \in Requests, NEW v \in Nat, v < request.buf + request.count
  PROVE  Bus(v) % AddrAlign = v % AddrAlign
<1> DEFINE q == v \div PageSize
           r == v % PageSize
           f == request.frame[q + 1]
<1>1. q \in Nat /\ r \in Nat /\ v = q * PageSize + r
  BY PageOf, Zenon
<1>2. f \in Nat
  BY BusType
<1>3. ASSUME NEW k \in Nat PROVE k * PageSize \in Nat /\ (k * PageSize) % AddrAlign = 0
  <2>1. k * PageSize \in Nat
    BY Sizes
  <2>2. (k * PageSize) % PageSize = 0
    BY <2>1, Multiples, Sizes
  <2> QED
    BY <2>1, <2>2, MultipleOfMultiple, Sizes, Divide
<1>4. Bus(v) = f * PageSize + r
  BY DEF Bus
<1> HIDE DEF q, r, f
<1>5. (f * PageSize + r) % AddrAlign = r % AddrAlign
  BY <1>1, <1>2, <1>3, ModMultiple, Sizes
<1>6. (q * PageSize + r) % AddrAlign = r % AddrAlign
  BY <1>1, <1>3, ModMultiple, Sizes
<1> QED
  BY <1>1, <1>4, <1>5, <1>6

LEMMA PageEndIs ==
  ASSUME NEW v \in Nat, NEW stop \in Nat, v < stop
  PROVE  LET e == PageEnd(v, stop) IN
         /\ e \in v + 1 .. stop /\ e - v <= PageSize
         /\ e = stop \/ e % PageSize = 0
         /\ \A x \in 0 .. e - v - 1 : (v % PageSize) + x < PageSize
         /\ v % PageSize = 0 /\ stop % PageSize = 0 => e = v + PageSize
<1> DEFINE q == v \div PageSize
           r == v % PageSize
           m == (q + 1) * PageSize
<1>1. q \in Nat /\ r \in 0 .. PageSize - 1 /\ v = q * PageSize + r /\ q * PageSize \in Nat
  BY PageOf, Zenon
<1>2. m = q * PageSize + PageSize /\ m \in Nat
  BY <1>1, Sizes
<1>3. m % PageSize = 0
  BY <1>1, <1>2, Multiples, Sizes
<1>4. PageEnd(v, stop) = IF m <= stop THEN m ELSE stop
  BY DEF PageEnd, Least
<1>5. v % PageSize = 0 /\ stop % PageSize = 0 => m <= stop
  <2> SUFFICES ASSUME v % PageSize = 0, stop % PageSize = 0 PROVE m <= stop
    OBVIOUS
  <2>1. PICK k \in Nat : stop = k * PageSize
    BY Multiples, Sizes
  <2>2. ~(k < q)
    <3>1. k < q => k * PageSize + PageSize <= q * PageSize
      BY <1>1, NextMultiple, Sizes
    <3> HIDE DEF q, r, m
    <3> QED
      BY <3>1, <2>1, <1>1, Sizes
  <2>3. k # q
    <3> HIDE DEF q, r, m
    <3> QED
      BY <2>1, <1>1
  <2>4. q * PageSize + PageSize <= k * PageSize
    BY <2>2, <2>3, <1>1, NextMultiple, Sizes
  <2> HIDE DEF q, r, m
  <2> QED
    BY <2>4, <2>1, <1>2
<1>6. r = v % PageSize
  OBVIOUS
<1> HIDE DEF q, r, m
<1> QED
  BY <1>1, <1>2, <1>3, <1>4, <1>5, <1>6, Sizes

\* An entry of the scatterlist is contiguous, ends with a page or the transfer,
\* and is no longer than a page unless an IOMMU joined pages.
LEMMA EntryIs ==
  ASSUME request \in Requests, NEW v \in Nat, NEW stop \in Nat, v < stop,
         stop <= request.buf + request.count, NEW e \in EntryEnds(v, stop)
  PROVE  /\ e \in v + 1 .. stop
         /\ e = stop \/ e % PageSize = 0
         /\ \A x \in 0 .. e - v - 1 : Bus(v + x) = Bus(v) + x
         /\ ~request.iommu => e - v <= PageSize
         /\ ~request.iommu /\ v % PageSize = 0 /\ stop % PageSize = 0 => e = v + PageSize
<1>0. request.iommu \in BOOLEAN /\ request.buf + request.count \in Nat
  BY RequestType
<1>1. CASE request.iommu
  <2>1. e \in v + 1 .. stop /\ (e % PageSize = 0 \/ e = stop) /\ Contiguous(v, e)
    BY <1>1 DEF EntryEnds, JoinedEnds
  <2>2. ASSUME NEW x \in 0 .. e - v - 1 PROVE Bus(v + x) = Bus(v) + x
    <3>1. v + x \in v .. e - 1 /\ (v + x) - v = x
      BY <2>1
    <3> QED
      BY <2>1, <3>1 DEF Contiguous
  <2> QED
    BY <2>1, <2>2, <1>1
<1>2. CASE ~request.iommu
  <2>1. e = PageEnd(v, stop)
    BY <1>2 DEF EntryEnds
  <2>2. ASSUME NEW x \in 0 .. e - v - 1 PROVE Bus(v + x) = Bus(v) + x
    <3>1. (v % PageSize) + x < PageSize /\ e \in v + 1 .. stop
      BY <2>1, PageEndIs
    <3>2. v + x < request.buf + request.count /\ x \in Nat
      BY <3>1, <1>0
    <3> QED
      BY <3>1, <3>2, InPage
  <2> QED
    BY <2>1, <2>2, PageEndIs
<1> QED
  BY <1>0, <1>1, <1>2
-------------------------------------------------------------------------------
(* The transfer that is in the making, or under way *)

Going == pc \in {"build", "wait"}

\* It lies inside the buffer.
LEMMA TransferInside ==
  ASSUME TypeInv, LoopInv, CallInv, Going
  PROVE  /\ Total \in Nat /\ Total > 0
         /\ loop.transfer_addr \in Nat /\ loop.pos \in Nat /\ loop.done \in Nat
         /\ loop.transfer_addr + Total <= request.buf + request.count
         /\ loop.transfer_addr = request.buf + loop.done /\ loop.pos = request.pos + loop.done
         /\ loop.done + Total <= request.count
         /\ request.buf \in Nat /\ request.count \in Nat /\ request.pos \in Nat
         /\ request.ring => /\ loop.transfer_addr = 0 /\ loop.pos = 0 /\ loop.done = 0
                            /\ Total = request.count /\ Total % PageSize = 0
<1>1. request \in Requests /\ loop \in [transfer_addr : Nat, remaining : Nat, done : Nat, pos : Nat]
  BY DEF TypeInv
<1>2. loop.remaining > 0 /\ (request.ring => loop.done = 0)
  BY DEF CallInv, Going
<1>3. /\ loop.remaining = request.count - loop.done
      /\ loop.transfer_addr = request.buf + loop.done /\ loop.pos = request.pos + loop.done
  BY DEF LoopInv
<1>4. MaxTransferBytes \in Nat \ {0}
  BY Sizes
<1>5. /\ request.buf \in Nat /\ request.count \in Nat /\ request.pos \in Nat /\ request.ring \in BOOLEAN
      /\ request.ring => request.buf = 0 /\ request.pos = 0 /\ request.count > 0 /\ request.count % PageSize = 0
  BY <1>1, RequestType
<1>6. Total = IF request.ring THEN request.count
              ELSE IF loop.remaining <= MaxTransferBytes THEN loop.remaining ELSE MaxTransferBytes
  BY DEF Total, transfer_len, Least
<1> QED
  BY <1>1, <1>2, <1>3, <1>4, <1>5, <1>6

\* Transfers have the alignment of the request, where it has one of its own.
LEMMA TransferAligned ==
  ASSUME TypeInv, LoopInv, CallInv, Going, request.mode # "mm"
  PROVE  loop.transfer_addr % AddrAlign = 0 /\ Total % AddrAlign = 0
<1>1. /\ Total \in Nat /\ loop.done \in Nat /\ request.buf \in Nat /\ request.count \in Nat
      /\ loop.transfer_addr = request.buf + loop.done
      /\ request.ring => loop.transfer_addr = 0 /\ Total % PageSize = 0
  BY TransferInside
<1>2. PageSize \in Nat \ {0} /\ AddrAlign \in Nat \ {0} /\ MaxTransferBytes \in Nat \ {0}
  BY Sizes
<1>3. CASE request.ring
  <2>1. Total % AddrAlign = 0
    BY <1>1, <1>2, <1>3, Divide, MultipleOfMultiple
  <2>2. 0 % AddrAlign = 0
    BY <1>2
  <2> QED
    BY <1>1, <1>3, <2>1, <2>2
<1>4. CASE ~request.ring
  <2>1. request.buf % AddrAlign = 0 /\ request.count % AddrAlign = 0
    BY <1>4 DEF CallInv, Going, check_transfer_align, Aligned
  <2>2. loop.remaining > 0 /\ loop.remaining \in Nat /\ loop.remaining = request.count - loop.done
    BY DEF TypeInv, CallInv, LoopInv, Going
  <2>3. MaxTransferBytes % AddrAlign = 0
    BY <1>2, Divide, MultipleOfMultiple
  <2>4. PICK k \in Nat : loop.done = k * MaxTransferBytes
    BY <1>1, <2>2 DEF LoopInv
  <2>5. loop.done % MaxTransferBytes = 0
    BY <1>1, <1>2, <2>4, Multiples
  <2>6. loop.done % AddrAlign = 0
    BY <1>1, <1>2, <2>3, <2>5, MultipleOfMultiple
  <2>7. loop.transfer_addr % AddrAlign = 0
    BY <1>1, <1>2, <2>1, <2>6, SumMultiple
  <2>8. loop.remaining % AddrAlign = 0
    <3>1. (loop.done + loop.remaining) % AddrAlign = 0
      <4>1. loop.done + loop.remaining = request.count
        BY <1>1, <2>2
      <4> QED
        BY <4>1, <2>1
    <3> QED
      BY <3>1, <1>1, <1>2, <2>2, <2>6, SumMultiple
  <2>9. Total = loop.remaining \/ Total = MaxTransferBytes
    BY <1>4 DEF Total, transfer_len, Least
  <2> QED
    BY <2>3, <2>7, <2>8, <2>9
<1> QED
  BY <1>3, <1>4

\* So has a piece that ends with a page or the transfer.
LEMMA OffsetAligned ==
  ASSUME TypeInv, LoopInv, CallInv, Going, NEW o \in Nat,
         o = Total \/ (loop.transfer_addr + o) % PageSize = 0
  PROVE  request.mode # "mm" => Aligned(o)
<1> SUFFICES ASSUME request.mode # "mm" PROVE o % AddrAlign = 0
  BY DEF Aligned
<1>1. loop.transfer_addr % AddrAlign = 0 /\ Total % AddrAlign = 0
  BY TransferAligned
<1>2. loop.transfer_addr \in Nat /\ loop.transfer_addr + o \in Nat
  BY TransferInside
<1>3. PageSize \in Nat \ {0} /\ AddrAlign \in Nat \ {0}
  BY Sizes
<1>4. CASE (loop.transfer_addr + o) % PageSize = 0
  <2>1. (loop.transfer_addr + o) % AddrAlign = 0
    BY <1>2, <1>3, <1>4, Divide, MultipleOfMultiple
  <2> QED
    BY <1>1, <1>2, <1>3, <2>1, SumMultiple
<1> QED
  BY <1>1, <1>4
-------------------------------------------------------------------------------
(* transfer_build *)

\* Where the block that is being built is.
LEMMA BlockIs ==
  ASSUME TypeInv, LoopInv, CallInv, pc = "build", NEW off \in Seq(Nat), BuildAt(off),
         NEW end \in EntryEnds(build.addr, build.stop)
  PROVE  LET n == Len(build.list)
             o == off[n + 1]
             len == Block(end).len IN
         /\ n \in Nat /\ o \in Nat /\ Len(off) = n + 1
         /\ build.addr \in Nat /\ build.stop \in Nat /\ build.cont_len \in Nat
         /\ build.cont_addr \in Nat /\ build.ep_addr \in Nat
         /\ Block(end) \in Piece /\ end \in build.addr + 1 .. build.stop
         /\ len = build.cont_len + (end - build.addr) /\ len > 0
         /\ loop.transfer_addr + o + len = end /\ o + len <= Total
         /\ end = build.stop => o + len = Total
         /\ end # build.stop => end % PageSize = 0 /\ end < loop.transfer_addr + Total
         /\ \A x \in 0 .. len - 1 : build.cont_addr + x = Bus(loop.transfer_addr + o + x)
         /\ Bus(end) = Bus(build.addr) + (end - build.addr) =>
              build.cont_addr + len = Bus(end)
         /\ ~request.iommu => len <= MaxDescBytes
         /\ request.ring /\ ~request.iommu => o = n * PageSize /\ len = PageSize
         /\ o + len = Total \/ (loop.transfer_addr + (o + len)) % PageSize = 0
<1> DEFINE n == Len(build.list)
           o == off[n + 1]
           len == Block(end).len
<1>1. /\ build.list \in Seq(Piece) /\ build.addr \in Nat /\ build.stop \in Nat
      /\ build.cont_addr \in Nat /\ build.cont_len \in Nat /\ build.ep_addr \in Nat /\ request \in Requests
  BY DEF TypeInv
<1>2. Going
  BY DEF Going
<1>3. n \in Nat /\ Len(off) = n + 1 /\ o \in Nat
  <2>1. n \in Nat /\ Len(off) = n + 1
    BY <1>1 DEF BuildAt, Tiles
  <2> QED
    BY <2>1
<1>4. /\ build.addr = loop.transfer_addr + o + build.cont_len
      /\ build.stop = loop.transfer_addr + Total /\ build.addr < build.stop
      /\ \A x \in 0 .. build.cont_len : build.cont_addr + x = Bus(loop.transfer_addr + o + x)
      /\ build.addr = loop.transfer_addr \/ build.addr % PageSize = 0
      /\ ~request.iommu => build.cont_len <= MaxDescBytes - PageSize
      /\ request.ring => build.cont_len = 0 /\ (~request.iommu => o = n * PageSize)
  BY DEF BuildAt
<1>5. /\ Total \in Nat /\ loop.transfer_addr \in Nat /\ request.buf + request.count \in Nat
      /\ loop.transfer_addr + Total <= request.buf + request.count
      /\ request.ring => loop.transfer_addr = 0 /\ Total % PageSize = 0
  BY <1>2, TransferInside
<1>6. /\ end \in build.addr + 1 .. build.stop
      /\ end = build.stop \/ end % PageSize = 0
      /\ \A x \in 0 .. end - build.addr - 1 : Bus(build.addr + x) = Bus(build.addr) + x
      /\ ~request.iommu => end - build.addr <= PageSize
      /\ ~request.iommu /\ build.addr % PageSize = 0 /\ build.stop % PageSize = 0 => end = build.addr + PageSize
  <2>1. build.stop <= request.buf + request.count /\ build.addr < build.stop
    BY <1>4, <1>5
  <2> QED
    BY <1>1, <2>1, EntryIs
<1>6a. /\ build.addr = loop.transfer_addr + o + build.cont_len
       /\ build.stop = loop.transfer_addr + Total /\ end \in build.addr + 1 .. build.stop
       /\ Total \in Nat /\ loop.transfer_addr \in Nat
       /\ build.addr \in Nat /\ build.stop \in Nat /\ build.cont_len \in Nat /\ o \in Nat
  BY <1>1, <1>3, <1>4, <1>5, <1>6
<1>7. len = build.cont_len + (end - build.addr) /\ Block(end) \in Piece
  BY <1>1, <1>6 DEF Block, Piece
<1>8. build.cont_addr + build.cont_len = Bus(build.addr)
  <2>1. build.cont_len \in 0 .. build.cont_len /\ loop.transfer_addr + o + build.cont_len = build.addr
    BY <1>1, <1>4
  <2> QED
    BY <1>4, <2>1
<1>9. ASSUME NEW x \in 0 .. len - 1 PROVE build.cont_addr + x = Bus(loop.transfer_addr + o + x)
  <2>1. CASE x <= build.cont_len
    <3>1. x \in 0 .. build.cont_len
      BY <2>1, <1>1, <1>6, <1>7
    <3> QED
      BY <3>1, <1>4
  <2>2. CASE x > build.cont_len
    <3>1. x - build.cont_len \in 0 .. end - build.addr - 1
      BY <2>2, <1>1, <1>6, <1>7
    <3>2. Bus(build.addr + (x - build.cont_len)) = Bus(build.addr) + (x - build.cont_len)
      BY <3>1, <1>6
    <3>3. build.addr + (x - build.cont_len) = loop.transfer_addr + o + x
      <4>1. end \in Nat /\ len \in Int /\ x \in Int
        BY <1>6a, <1>7
      <4> HIDE DEF o, len
      <4> QED
        BY <1>6a, <4>1
    <3>4. build.cont_addr + x = Bus(build.addr) + (x - build.cont_len)
      BY <1>1, <1>6, <1>7, <1>8
    <3> QED
      BY <3>2, <3>3, <3>4
  <2> QED
    BY <2>1, <2>2, <1>1, <1>6, <1>7
<1>10. Bus(end) = Bus(build.addr) + (end - build.addr) => build.cont_addr + len = Bus(end)
  BY <1>1, <1>6, <1>7, <1>8
<1>11. loop.transfer_addr + o + len = end /\ len > 0 /\ len \in Nat
  <2>1. end \in Nat /\ end > build.addr
    BY <1>6a
  <2>2. len = build.cont_len + (end - build.addr)
    BY <1>7
  <2> HIDE DEF o, len
  <2>3. len \in Nat /\ len > 0
    BY <1>6a, <2>1, <2>2
  <2>4. loop.transfer_addr + o + build.cont_len + (end - build.addr) = end
    BY <1>6a, <2>1
  <2> QED
    BY <1>6a, <2>1, <2>2, <2>3, <2>4
<1>12. o + len <= Total /\ (end = build.stop <=> o + len = Total)
  <2> HIDE DEF n, o, len
  <2> QED
    BY <1>11, <1>6a
<1>13. ~request.iommu => len <= MaxDescBytes
  BY <1>1, <1>4, <1>6, <1>7, Sizes
<1>14. request.ring /\ ~request.iommu => o = n * PageSize /\ len = PageSize
  <2> SUFFICES ASSUME request.ring, ~request.iommu PROVE len = PageSize
    BY <1>4
  <2>1. build.cont_len = 0 /\ build.stop = Total /\ Total % PageSize = 0
    BY <1>4, <1>5
  <2>2. build.addr % PageSize = 0
    <3>1. 0 % PageSize = 0
      BY Sizes
    <3> QED
      BY <3>1, <1>4, <1>5
  <2>3. end = build.addr + PageSize
    BY <1>6, <2>1, <2>2
  <2> QED
    BY <1>1, <1>7, <2>1, <2>3, Sizes
<1>15. o + len = Total \/ (loop.transfer_addr + (o + len)) % PageSize = 0
  <2>1. loop.transfer_addr + (o + len) = end
    BY <1>3, <1>5, <1>11
  <2> QED
    BY <2>1, <1>6, <1>12
<1>16. end # build.stop => end % PageSize = 0 /\ end < loop.transfer_addr + Total
  BY <1>1, <1>4, <1>6
<1> HIDE DEF n, o, len
<1> QED
  BY <1>1, <1>3, <1>6, <1>7, <1>9, <1>10, <1>11, <1>12, <1>13, <1>14, <1>15, <1>16 DEF n, o, len

\* The block ends there: its piece goes on where the others end.
LEMMA PieceTiles ==
  ASSUME TypeInv, LoopInv, CallInv, pc = "build", NEW off \in Seq(Nat), BuildAt(off),
         NEW end \in EntryEnds(build.addr, build.stop)
  PROVE  LET n    == Len(build.list)
             o    == off[n + 1]
             list == Append(build.list, Block(end))
             next == Append(off, o + Block(end).len) IN
         /\ list \in Seq(Piece) /\ Len(list) = n + 1
         /\ next \in Seq(Nat) /\ Len(next) = n + 2
         /\ next[n + 2] = o + Block(end).len
         /\ Tiles(list, next)
         /\ \A i \in 1 .. n + 1 : list[i].card = CardAt(next[i])
<1> DEFINE n    == Len(build.list)
           o    == off[n + 1]
           b    == Block(end)
           list == Append(build.list, b)
           next == Append(off, o + b.len)
<1>1. /\ n \in Nat /\ o \in Nat /\ Len(off) = n + 1 /\ b \in Piece /\ b.len \in Nat /\ b.len > 0
      /\ o + b.len <= Total
      /\ \A x \in 0 .. b.len - 1 : build.cont_addr + x = Bus(loop.transfer_addr + o + x)
      /\ ~request.iommu => b.len <= MaxDescBytes
      /\ request.ring /\ ~request.iommu => o = n * PageSize /\ b.len = PageSize
      /\ o + b.len = Total \/ (loop.transfer_addr + (o + b.len)) % PageSize = 0
  BY BlockIs DEF Piece
<1>2. build.list \in Seq(Piece) /\ off \in Seq(Nat)
  BY DEF TypeInv
<1>3. /\ list \in Seq(Piece) /\ Len(list) = n + 1 /\ list[n + 1] = b
      /\ \A i \in 1 .. n : list[i] = build.list[i]
  <2> HIDE DEF b
  <2> QED
    BY <1>1, <1>2
<1>4. /\ next \in Seq(Nat) /\ Len(next) = n + 2 /\ next[n + 2] = o + b.len
      /\ \A i \in 1 .. n + 1 : next[i] = off[i]
  <2>1. o + b.len \in Nat
    BY <1>1
  <2> HIDE DEF o, b
  <2> QED
    BY <1>1, <1>2, <2>1
<1>5. b.host = build.cont_addr /\ b.card = build.ep_addr
  BY DEF Block
<1>6. build.ep_addr = CardAt(o)
  BY DEF BuildAt
<1>7. Tiles(build.list, off) /\ \A i \in 1 .. n : build.list[i].card = CardAt(off[i])
  BY DEF BuildAt
<1>8. request.mode # "mm" => Aligned(o + b.len)
  <2>1. Going /\ o + b.len \in Nat
    BY <1>1 DEF Going
  <2> HIDE DEF o, b
  <2> QED
    BY <1>1, <2>1, OffsetAligned
<1> HIDE DEF n, b, list, next
<1>9. ASSUME NEW i \in 1 .. n + 1
      PROVE  /\ list[i].len > 0 /\ next[i + 1] = next[i] + list[i].len /\ next[i + 1] <= Total
             /\ \A x \in 0 .. list[i].len - 1 : list[i].host + x = Bus(loop.transfer_addr + next[i] + x)
             /\ ~request.iommu => list[i].len <= MaxDescBytes
             /\ request.ring /\ ~request.iommu => next[i] = (i - 1) * PageSize /\ list[i].len = PageSize
             /\ list[i].card = CardAt(next[i])
  <2>1. CASE i = n + 1
    <3>1. list[i] = b /\ next[i] = o /\ next[i + 1] = o + b.len /\ i - 1 = n
      BY <1>1, <1>3, <1>4, <2>1
    <3> QED
      BY <3>1, <1>1, <1>5, <1>6
  <2>2. CASE i # n + 1
    <3>1. i \in 1 .. n /\ i + 1 \in 1 .. n + 1
      BY <1>1, <2>2
    <3>2. list[i] = build.list[i] /\ next[i] = off[i] /\ next[i + 1] = off[i + 1]
      BY <3>1, <1>3, <1>4
    <3> QED
      BY <3>1, <3>2, <1>7 DEF Tiles, n
  <2> QED
    BY <2>1, <2>2
<1>10. ASSUME NEW i \in 1 .. n + 2 PROVE request.mode # "mm" => Aligned(next[i])
  <2>1. CASE i = n + 2
    BY <2>1, <1>4, <1>8
  <2>2. CASE i # n + 2
    <3>1. i \in 1 .. n + 1
      BY <1>1, <2>2
    <3> QED
      BY <3>1, <1>4, <1>7 DEF Tiles, n
  <2> QED
    BY <2>1, <2>2
<1>11. next[1] = 0
  BY <1>1, <1>4, <1>7 DEF Tiles
<1>12. Tiles(list, next)
  <2>1. Len(list) = n + 1 /\ Len(next) = Len(list) + 1 /\ Len(list) + 1 = n + 2
    BY <1>1, <1>3, <1>4
  <2> QED
    BY <2>1, <1>9, <1>10, <1>11 DEF Tiles
<1> QED
  BY <1>3, <1>4, <1>9, <1>12 DEF n, b, list, next

\* A step that changes neither request nor loop moves no piece.
LEMMA SameTiles ==
  ASSUME NEW list, NEW off, Tiles(list, off), UNCHANGED <<request, loop>>
  PROVE  /\ list = build.list' => Tiles(build.list, off)'
         /\ list = desc' => Tiles(desc, off)'
         /\ Total' = Total
         /\ \A v : Bus(v)' = Bus(v) /\ CardAt(v)' = CardAt(v)
<1>1. Total' = Total /\ \A v : Bus(v)' = Bus(v) /\ CardAt(v)' = CardAt(v)
  BY DEF Total, transfer_len, Bus, CardAt
<1>2. \A v : Aligned(v)' = Aligned(v)
  BY DEF Aligned
<1> QED
  BY <1>1, <1>2 DEF Tiles
-------------------------------------------------------------------------------
(* The steps *)

LEMMA InitInv == Init => Inv
<1> SUFFICES ASSUME Init PROVE Inv
  OBVIOUS
<1> USE DEF Init
<1>1. /\ request.buf \in Nat /\ request.count \in Nat /\ request.pos \in Nat
  BY RequestType
<1>2. TypeInv
  BY <1>1 DEF TypeInv, NoBuild, Stopped
<1>3. LoopInv
  <2>1. 0 \in Nat /\ 0 = 0 * MaxTransferBytes
    BY Sizes
  <2> QED
    BY <1>1, <2>1 DEF LoopInv
<1>4. CallInv
  BY DEF CallInv
<1>5. BuildInv /\ WaitInv /\ MovedInv
  BY DEF BuildInv, WaitInv, MovedInv
<1> QED
  BY <1>2, <1>3, <1>4, <1>5 DEF Inv

\* What the calls' own steps leave alone.
LEMMA SameMoved == MovedInv /\ UNCHANGED <<request, moved>> => MovedInv'
BY DEF MovedInv, Promised, HostOf, CardFor, Bus

LEMMA CallStep == Inv /\ Call => Inv'
<1> SUFFICES ASSUME Inv, Call PROVE Inv'
  OBVIOUS
<1> USE DEF Inv, Call
<1>1. TypeInv'
  BY DEF TypeInv
<1>2. LoopInv'
  BY DEF LoopInv
<1>3. CallInv'
  BY DEF CallInv, check_transfer_align, AlignedForMM, Aligned
<1>4. BuildInv' /\ WaitInv'
  BY DEF BuildInv, WaitInv
<1> QED
  BY <1>1, <1>2, <1>3, <1>4, SameMoved

LEMMA ReturnStep == Inv /\ Return => Inv'
<1> SUFFICES ASSUME Inv, Return PROVE Inv'
  OBVIOUS
<1> USE DEF Inv, Return
<1>1. TypeInv'
  BY DEF TypeInv
<1>2. LoopInv'
  BY DEF LoopInv
<1>3. CallInv'
  BY DEF CallInv
<1>4. BuildInv' /\ WaitInv'
  BY DEF BuildInv, WaitInv
<1> QED
  BY <1>1, <1>2, <1>3, <1>4, SameMoved

\* transfer_build begins.
LEMMA StartStep ==
  ASSUME Inv, NEW ep_addr \in Nat, ep_addr = loop.pos,
         pc' = "build", build' = StartBuild(loop.transfer_addr, Total, ep_addr),
         UNCHANGED <<request, res, loop, desc, hw, moved>>,
         pc \in {"call", "next"}, loop.remaining > 0,
         request.ring \/ check_transfer_align
  PROVE  Inv'
<1> USE DEF Inv
<1>1. CallInv'
  BY DEF CallInv, check_transfer_align, AlignedForMM, Aligned
<1>2. LoopInv'
  BY DEF LoopInv
<1>3. /\ request \in Requests /\ loop \in [transfer_addr : Nat, remaining : Nat, done : Nat, pos : Nat]
  BY DEF TypeInv
<1>4. /\ request.ring => /\ request.buf = 0 /\ request.count \in Nat /\ request.count > 0
                         /\ request.count % PageSize = 0
      /\ request.buf \in Nat /\ request.count \in Nat
  BY <1>3, RequestType
<1>5. Total \in Nat /\ Total > 0 /\ loop.transfer_addr + Total <= request.buf + request.count
  <2>1. /\ loop.remaining = request.count - loop.done /\ loop.transfer_addr = request.buf + loop.done
        /\ request.ring => loop.done = 0
    BY DEF CallInv, LoopInv
  <2>2. Total = IF request.ring THEN request.count
                ELSE IF loop.remaining <= MaxTransferBytes THEN loop.remaining ELSE MaxTransferBytes
    BY DEF Total, transfer_len, Least
  <2> QED
    BY <1>3, <1>4, <2>1, <2>2, Sizes
<1>6. Bus(loop.transfer_addr) \in Nat
  BY <1>3, <1>4, <1>5, BusType
<1>7. build' = [list |-> <<>>, addr |-> loop.transfer_addr, stop |-> loop.transfer_addr + Total,
                cont_addr |-> Bus(loop.transfer_addr), cont_len |-> 0, ep_addr |-> loop.pos]
  BY DEF StartBuild
<1>8. TypeInv'
  BY <1>3, <1>5, <1>6, <1>7 DEF TypeInv
<1>9. BuildInv'
  <2> DEFINE off == <<0>>
  <2>1. off \in Seq(Nat) /\ Len(off) = 1 /\ off[1] = 0 /\ Len(<<>>) = 0
    OBVIOUS
  <2>2. Aligned(0)
    BY Sizes DEF Aligned
  <2> HIDE DEF off
  <2>3. Tiles(<<>>, off)
    BY <2>1, <2>2 DEF Tiles
  <2>4. Tiles(build.list, off)'
    <3>1. build.list' = <<>>
      BY <1>7
    <3> QED
      BY <3>1, <2>3, SameTiles
  <2>5. Total' = Total /\ CardAt(0)' = CardAt(0) /\ Bus(loop.transfer_addr)' = Bus(loop.transfer_addr)
    BY DEF Total, transfer_len, CardAt, Bus
  <2>6. CardAt(0) = loop.pos
    BY <1>3 DEF CardAt
  <2>7. PageSize <= MaxDescBytes /\ PageSize \in Nat /\ MaxDescBytes \in Nat
    BY Sizes
  <2>8. loop.transfer_addr + 0 + 0 = loop.transfer_addr /\ 0 .. 0 = {0} /\ Bus(loop.transfer_addr) + 0 = Bus(loop.transfer_addr)
    BY <1>3, <1>6
  <2>9. 0 = 0 * PageSize /\ 0 <= MaxDescBytes - PageSize /\ loop.transfer_addr < loop.transfer_addr + Total
    BY <2>7, <1>3, <1>5
  <2>10. /\ build.list' = <<>> /\ build.addr' = loop.transfer_addr /\ build.stop' = loop.transfer_addr + Total
         /\ build.cont_addr' = Bus(loop.transfer_addr) /\ build.cont_len' = 0 /\ build.ep_addr' = loop.pos
    BY <1>7
  <2>11. off[Len(build.list') + 1] = 0
    BY <2>1, <2>10
  <2>12. BuildAt(off)'
    <3>1. \A i \in 1 .. Len(build.list') : build.list'[i].card = CardAt(off[i])'
      BY <2>1, <2>10
    <3>2. \A x \in 0 .. build.cont_len' : build.cont_addr' + x = Bus(loop.transfer_addr + 0 + x)'
      <4>1. ASSUME NEW x \in 0 .. build.cont_len' PROVE build.cont_addr' + x = Bus(loop.transfer_addr + 0 + x)'
        <5>1. x = 0
          BY <2>8, <2>10
        <5>2. loop.transfer_addr' + 0 + x = loop.transfer_addr'
          BY <5>1, <1>3
        <5> QED
          BY <5>1, <5>2, <2>5, <2>8, <2>10
      <4> QED
        BY <4>1
    <3> QED
      BY <2>4, <2>5, <2>6, <2>8, <2>9, <2>10, <2>11, <3>1, <3>2 DEF BuildAt
  <2> QED
    BY <2>1, <2>12 DEF BuildInv
<1>10. WaitInv'
  BY DEF WaitInv
<1> QED
  BY <1>1, <1>2, <1>8, <1>9, <1>10, SameMoved

LEMMA TransferStep == Inv /\ Transfer => Inv'
<1> SUFFICES ASSUME Inv, Transfer PROVE Inv'
  OBVIOUS
<1>1. CASE request.mapped
  <2>1. ~request.ring /\ (request.ring \/ check_transfer_align)
    BY DEF Inv, CallInv, Transfer
  <2>2. Total = transfer_len
    BY <2>1 DEF Total
  <2>3. loop.pos \in Nat
    BY DEF Inv, TypeInv
  <2> QED
    BY <1>1, <2>1, <2>2, <2>3, StartStep DEF Transfer
<1>2. CASE ~request.mapped
  <2> USE <1>2 DEF Inv, Transfer
  <2>1. TypeInv'
    BY DEF TypeInv
  <2>2. LoopInv'
    BY DEF LoopInv
  <2>3. CallInv'
    BY DEF CallInv
  <2>4. BuildInv' /\ WaitInv'
    BY DEF BuildInv, WaitInv
  <2> QED
    BY <2>1, <2>2, <2>3, <2>4, SameMoved
<1> QED
  BY <1>1, <1>2

LEMMA RingSetupStep == Inv /\ RingSetup => Inv'
<1> SUFFICES ASSUME Inv, RingSetup PROVE Inv'
  OBVIOUS
<1>1. /\ request.ring /\ request.buf = 0 /\ request.pos = 0 /\ request.count \in Nat /\ request.count > 0
  BY RequestType DEF Inv, TypeInv, RingSetup
<1>2. loop.done = 0
  BY DEF Inv, CallInv, RingSetup
<1>3. loop.transfer_addr = request.buf /\ loop.pos = request.pos /\ loop.remaining > 0 /\ loop.pos \in Nat
  BY <1>1, <1>2 DEF Inv, LoopInv
<1>4. Total = request.count
  BY <1>1 DEF Total
<1> QED
  BY <1>1, <1>3, <1>4, StartStep DEF RingSetup

LEMMA EntryStep == Inv /\ Entry => Inv'
<1> SUFFICES ASSUME Inv, Entry PROVE Inv'
  OBVIOUS
<1>1. PICK end \in EntryEnds(build.addr, build.stop) :
        /\ end # build.stop
        /\ build' = IF NewDesc(build.addr, end, Block(end).len)
                    THEN [build EXCEPT !.list = Append(@, Block(end)), !.addr = end, !.cont_addr = Bus(end),
                                       !.cont_len = 0, !.ep_addr = @ + NextCard(Block(end).len)]
                    ELSE [build EXCEPT !.addr = end, !.cont_len = Block(end).len]
  BY DEF Entry
<1>2. pc = "build" /\ UNCHANGED <<request, pc, res, loop, desc, hw, moved>>
  BY DEF Entry
<1>3. PICK off \in Seq(Nat) : BuildAt(off)
  BY <1>2 DEF Inv, BuildInv
<1>4. TypeInv /\ LoopInv /\ CallInv
  BY DEF Inv
<1>4a. PICK n \in Nat, o \in Nat, len \in Nat :
        n = Len(build.list) /\ o = off[n + 1] /\ len = Block(end).len
  BY <1>2, <1>3, <1>4, BlockIs DEF Piece
<1>5. /\ Len(off) = n + 1
      /\ Block(end) \in Piece /\ end \in build.addr + 1 .. build.stop
      /\ len > 0
      /\ loop.transfer_addr + o + len = end /\ o + len <= Total
      /\ end % PageSize = 0 /\ end < loop.transfer_addr + Total
      /\ \A x \in 0 .. len - 1 : build.cont_addr + x = Bus(loop.transfer_addr + o + x)
      /\ Bus(end) = Bus(build.addr) + (end - build.addr) => build.cont_addr + len = Bus(end)
      /\ request.ring /\ ~request.iommu => o = n * PageSize /\ len = PageSize
  BY <1>1, <1>2, <1>3, <1>4, <1>4a, BlockIs
<1>6. build \in [list : Seq(Piece), addr : Nat, stop : Nat, cont_addr : Nat, cont_len : Nat, ep_addr : Nat]
  BY <1>4 DEF TypeInv
<1>7. /\ Total \in Nat /\ loop.transfer_addr \in Nat /\ loop.pos \in Nat /\ request.buf + request.count \in Nat
      /\ loop.transfer_addr + Total <= request.buf + request.count
      /\ build.stop = loop.transfer_addr + Total /\ request \in Requests
  <2>1. Going
    BY <1>2 DEF Going
  <2>2. build.stop = loop.transfer_addr + Total
    BY <1>3 DEF BuildAt
  <2>3. request \in Requests
    BY <1>4 DEF TypeInv
  <2> QED
    BY <1>4, <2>1, <2>2, <2>3, TransferInside
<1>8. Bus(end) \in Nat
  <2>1. end \in Nat /\ end < request.buf + request.count
    BY <1>5, <1>6, <1>7
  <2> QED
    BY <1>7, <2>1, BusType
<1>9. /\ Total' = Total /\ \A v : Bus(v)' = Bus(v) /\ CardAt(v)' = CardAt(v)
      /\ \A l, f : Tiles(l, f) /\ l = build.list' => Tiles(build.list, f)'
  BY <1>2, SameTiles, <1>3 DEF BuildAt
<1>10. LoopInv' /\ WaitInv' /\ MovedInv'
  <2>1. LoopInv'
    BY <1>2, <1>4 DEF LoopInv
  <2>2. WaitInv'
    BY <1>2 DEF WaitInv
  <2> QED
    BY <1>2, <2>1, <2>2, SameMoved DEF Inv
<1>11. CallInv'
  BY <1>2, <1>4 DEF CallInv, check_transfer_align, AlignedForMM, Aligned
<1>12. CASE NewDesc(build.addr, end, len)
  <2> DEFINE next == Append(off, o + len)
             list == Append(build.list, Block(end))
  <2>1. /\ list \in Seq(Piece) /\ Len(list) = n + 1
        /\ next \in Seq(Nat) /\ Len(next) = n + 2 /\ next[n + 2] = o + len
        /\ Tiles(list, next)
        /\ \A i \in 1 .. n + 1 : list[i].card = CardAt(next[i])
    BY <1>2, <1>3, <1>4, <1>4a, PieceTiles
  <2> HIDE DEF next, list
  <2>2. /\ build.list' = list /\ build.addr' = end /\ build.cont_addr' = Bus(end)
        /\ build.cont_len' = 0 /\ build.ep_addr' = build.ep_addr + NextCard(len)
        /\ build.stop' = build.stop
        /\ build' = [build EXCEPT !.list = list, !.addr = end, !.cont_addr = Bus(end),
                                  !.cont_len = 0, !.ep_addr = @ + NextCard(len)]
    BY <1>1, <1>4a, <1>6, <1>12 DEF list
  <2>3. NextCard(len) \in Nat /\ end \in Nat
    BY <1>5, <1>6 DEF NextCard
  <2>3a. build' \in [list : Seq(Piece), addr : Nat, stop : Nat, cont_addr : Nat, cont_len : Nat, ep_addr : Nat]
    <3>1. build.ep_addr + NextCard(len) \in Nat
      BY <1>6, <2>3
    <3> QED
      <4> DEFINE bus == Bus(end)
                 ep == build.ep_addr + NextCard(len)
      <4>1. build' = [build EXCEPT !.list = list, !.addr = end, !.cont_addr = bus, !.cont_len = 0, !.ep_addr = ep]
        BY <2>2
      <4>2. bus \in Nat /\ ep \in Nat
        BY <1>8, <3>1
      <4> HIDE DEF bus, ep
      <4> QED
        BY <1>6, <2>1, <2>3, <4>1, <4>2
  <2>4. TypeInv'
    BY <1>2, <1>4, <2>3a DEF TypeInv
  <2>5. Len(build.list') + 1 = n + 2 /\ next[Len(build.list') + 1] = o + len /\ Len(build.list') = n + 1
    BY <2>1, <2>2, <1>5
  <2>6. Tiles(build.list, next)'
    BY <1>9, <2>1, <2>2
  <2>7. \A i \in 1 .. Len(build.list') : build.list'[i].card = CardAt(next[i])'
    BY <1>9, <2>1, <2>2, <2>5
  <2>8. build.ep_addr' = CardAt(o + len)'
    <3>1. build.ep_addr = CardAt(o)
      BY <1>3, <1>4a DEF BuildAt
    <3>2. build.ep_addr + NextCard(len) = CardAt(o + len)
      <4>1. CardAt(o) \in Nat /\ loop.pos \in Nat
        BY <1>7 DEF CardAt
      <4>2. CASE request.mode = "fixed"
        BY <3>1, <4>1, <4>2 DEF CardAt, NextCard
      <4>3. CASE request.mode # "fixed"
        <5>1. build.ep_addr = loop.pos + o /\ NextCard(len) = len /\ CardAt(o + len) = loop.pos + (o + len)
          BY <3>1, <4>3 DEF CardAt, NextCard
        <5> QED
          BY <4>1, <5>1
      <4> QED
        BY <4>2, <4>3
    <3> QED
      BY <3>2, <1>9, <2>2
  <2>9. \A x \in 0 .. build.cont_len' : build.cont_addr' + x = Bus(loop.transfer_addr + (o + len) + x)'
    <3> SUFFICES ASSUME NEW x \in 0 .. build.cont_len'
                 PROVE  build.cont_addr' + x = Bus(loop.transfer_addr + (o + len) + x)'
      OBVIOUS
    <3>1. x = 0
      BY <2>2
    <3>2. loop.transfer_addr' + (o + len) + x = end
      BY <3>1, <1>2, <1>5, <1>7
    <3> QED
      BY <3>1, <3>2, <2>2, <1>8, <1>9
  <2>10. /\ build.addr' = loop.transfer_addr' + (o + len) + build.cont_len'
         /\ build.stop' = loop.transfer_addr' + Total' /\ build.addr' < build.stop'
         /\ build.addr' % PageSize = 0
    BY <1>2, <1>5, <1>7, <1>9, <2>2, <2>3
  <2>11. build.cont_len' <= MaxDescBytes - PageSize
    BY <2>2, Sizes
  <2>12. request.ring' /\ ~request.iommu' => o + len = Len(build.list') * PageSize
    <3>1. (n + 1) * PageSize = n * PageSize + PageSize
      BY <1>5, Sizes
    <3> QED
      BY <3>1, <1>2, <1>5, <2>5
  <2>13. BuildAt(next)'
    BY <2>2, <2>5, <2>6, <2>7, <2>8, <2>9, <2>10, <2>11, <2>12 DEF BuildAt
  <2>14. BuildInv'
    BY <2>1, <2>13 DEF BuildInv
  <2> QED
    BY <2>4, <2>14, <1>10, <1>11 DEF Inv
<1>13. CASE ~NewDesc(build.addr, end, len)
  <2>1. /\ build.list' = build.list /\ build.addr' = end /\ build.cont_addr' = build.cont_addr
        /\ build.cont_len' = len /\ build.ep_addr' = build.ep_addr
        /\ build.stop' = build.stop
        /\ build' = [build EXCEPT !.addr = end, !.cont_len = len]
    BY <1>1, <1>4a, <1>6, <1>13
  <2>2. /\ Bus(end) = Bus(build.addr) + (end - build.addr) /\ ~(len > MaxDescBytes - PageSize)
        /\ ~request.ring
    BY <1>13 DEF NewDesc
  <2>3. end \in Nat
    BY <1>5, <1>6
  <2>4. TypeInv'
    BY <1>2, <1>4, <1>5, <1>6, <2>1, <2>3 DEF TypeInv
  <2>5. Tiles(build.list, off)' /\ (\A i \in 1 .. n : build.list'[i].card = CardAt(off[i])')
        /\ build.ep_addr' = CardAt(o)'
    BY <1>3, <1>4a, <1>9, <2>1 DEF BuildAt
  <2>6. ASSUME NEW x \in 0 .. build.cont_len'
        PROVE  build.cont_addr' + x = Bus(loop.transfer_addr + o + x)'
    <3>1. CASE x = len
      <4>1. loop.transfer_addr' + o + x = end
        BY <3>1, <1>2, <1>5, <1>7
      <4> QED
        BY <4>1, <3>1, <1>5, <1>9, <2>1, <2>2
    <3>2. CASE x # len
      <4>1. x \in 0 .. len - 1
        BY <3>2, <2>1, <1>5
      <4> QED
        BY <4>1, <1>2, <1>5, <1>9, <2>1
    <3> QED
      BY <3>1, <3>2
  <2>7. /\ build.addr' = loop.transfer_addr' + o + build.cont_len'
        /\ build.stop' = loop.transfer_addr' + Total' /\ build.addr' < build.stop'
        /\ build.addr' % PageSize = 0
    BY <1>2, <1>5, <1>7, <1>9, <2>1, <2>3
  <2>8. build.cont_len' <= MaxDescBytes - PageSize /\ ~request.ring'
    BY <1>2, <1>5, <2>1, <2>2, Sizes
  <2>9. o = off[Len(build.list') + 1] /\ n = Len(build.list')
    BY <1>4a, <2>1
  <2>10. BuildAt(off)'
    BY <2>5, <2>6, <2>7, <2>8, <2>9 DEF BuildAt
  <2>11. BuildInv'
    BY <1>3, <2>10 DEF BuildInv
  <2> QED
    BY <2>4, <2>11, <1>10, <1>11 DEF Inv
<1> QED
  BY <1>12, <1>13
-------------------------------------------------------------------------------
(* What the hardware may fetch *)

\* The descriptors fetched with the next one are in the list and in its page.
LEMMA AdjacentInside ==
  ASSUME NEW n \in Nat, NEW i \in 1 .. n
  PROVE  /\ extra_adj(i, n) \in Nat
         /\ i < n => /\ i + 1 + extra_adj(i, n) <= n
                     /\ i \div DescPerPage = (i + extra_adj(i, n)) \div DescPerPage
         /\ i = n => extra_adj(i, n) = 0
<1> DEFINE q == i \div DescPerPage
           r == i % DescPerPage
           adj == extra_adj(i, n)
<1>1. DescPerPage \in Nat \ {0} /\ MaxExtraAdj \in Nat
  BY Sizes
<1>2. q \in Nat /\ r \in 0 .. DescPerPage - 1 /\ q * DescPerPage \in Nat /\ i = q * DescPerPage + r
  <2>1. i \in Nat
    OBVIOUS
  <2> QED
    BY <1>1, <2>1, Quotient, Zenon
<1>2a. q \in Nat /\ r \in Nat /\ r < DescPerPage /\ q * DescPerPage \in Nat /\ i = q * DescPerPage + r
  <2> HIDE DEF q, r
  <2> QED
    BY <1>1, <1>2
<1>3. adj = IF n > i THEN Least(Least(n - i - 1, MaxExtraAdj), DescPerPage - r - 1) ELSE 0
  BY DEF extra_adj
<1> HIDE DEF q, r, adj
<1>4. /\ adj \in Nat
      /\ i < n => i + 1 + adj <= n /\ r + adj < DescPerPage
      /\ i = n => adj = 0
  BY <1>1, <1>2a, <1>3 DEF Least
<1>5. i < n => (i + adj) \div DescPerPage = q
  <2> SUFFICES ASSUME i < n PROVE (i + adj) \div DescPerPage = q
    OBVIOUS
  <2>1. r + adj \in 0 .. DescPerPage - 1 /\ i + adj = q * DescPerPage + (r + adj)
    BY <1>1, <1>2a, <1>4
  <2>2. (q * DescPerPage + (r + adj)) \div DescPerPage = q
    BY <1>1, <1>2a, <2>1, OneQuotient
  <2> QED
    BY <2>1, <2>2
<1> QED
  BY <1>4, <1>5 DEF q, adj

\* What is between two of one page is in it.
LEMMA Between ==
  ASSUME NEW i \in Nat, NEW l \in Nat, i > 0, i < l, (i - 1) \div DescPerPage = (l - 1) \div DescPerPage
  PROVE  ((i + 1) - 1) \div DescPerPage = (l - 1) \div DescPerPage
<1> DEFINE D == DescPerPage
           a == i - 1
           b == l - 1
           q == a \div D
           r == a % D
           p == b \div D
           s == b % D
<1>1. D \in Nat \ {0}
  BY Sizes
<1>2. a \in Nat /\ b \in Nat /\ i <= b /\ i = a + 1 /\ p = q
  OBVIOUS
<1> HIDE DEF D, a, b
<1>3. q \in Nat /\ r \in 0 .. D - 1 /\ q * D \in Nat /\ a = q * D + r
  BY <1>1, <1>2, Quotient, Zenon
<1>4. p \in Nat /\ s \in 0 .. D - 1 /\ p * D \in Nat /\ b = p * D + s
  BY <1>1, <1>2, Quotient, Zenon
<1> HIDE DEF q, r, p, s
<1>5. r + 1 \in 0 .. D - 1 /\ i = q * D + (r + 1)
  BY <1>1, <1>2, <1>3, <1>4
<1>6. (q * D + (r + 1)) \div D = q
  BY <1>1, <1>3, <1>5, OneQuotient
<1>7. i \div D = p /\ (i + 1) - 1 = i
  BY <1>2, <1>5, <1>6
<1> QED
  BY <1>7 DEF D, p, b

\* So are those that it fetches first.
LEMMA FirstInside ==
  ASSUME NEW n \in Nat, n > 0
  PROVE  /\ engine_start(n).at = 1 /\ engine_start(n).last \in 1 .. n
         /\ engine_start(n) \in [at : Nat, last : Nat]
         /\ (engine_start(n).at - 1) \div DescPerPage = (engine_start(n).last - 1) \div DescPerPage
<1> DEFINE x == Least(n - 1, MaxExtraAdj)
<1>1. DescPerPage \in Nat \ {0} /\ MaxExtraAdj \in Nat /\ MaxExtraAdj < DescPerPage
  BY Sizes
<1>2. x \in 0 .. DescPerPage - 1 /\ x \in Nat /\ x <= n - 1
  BY <1>1 DEF Least
<1>3. engine_start(n) = [at |-> 1, last |-> 1 + x]
  BY DEF engine_start
<1> HIDE DEF x
<1>4. \A y \in 0 .. DescPerPage - 1 : y \div DescPerPage = 0
  <2> SUFFICES ASSUME NEW y \in 0 .. DescPerPage - 1 PROVE y \div DescPerPage = 0
    OBVIOUS
  <2>1. (0 * DescPerPage + y) \div DescPerPage = 0
    BY <1>1, OneQuotient
  <2>2. 0 * DescPerPage + y = y
    BY <1>1
  <2> QED
    BY <2>1, <2>2
<1>5. 0 \in 0 .. DescPerPage - 1 /\ 1 - 1 = 0 /\ (1 + x) - 1 = x /\ 1 + x \in 1 .. n
  BY <1>1, <1>2
<1>6. engine_start(n).at = 1 /\ engine_start(n).last = 1 + x
  BY <1>3
<1>7. engine_start(n) \in [at : Nat, last : Nat]
  BY <1>2, <1>3
<1> QED
  BY <1>2, <1>4, <1>5, <1>6, <1>7

LEMMA LastEntryStep == Inv /\ LastEntry => Inv'
<1> SUFFICES ASSUME Inv, LastEntry PROVE Inv'
  OBVIOUS
<1> DEFINE end == build.stop
<1>1. /\ pc = "build" /\ pc' = "wait" /\ build' = NoBuild
      /\ end \in EntryEnds(build.addr, build.stop)
      /\ UNCHANGED <<request, res, loop, moved>>
  BY DEF LastEntry
<1>2. PICK off \in Seq(Nat) : BuildAt(off)
  BY <1>1 DEF Inv, BuildInv
<1>3. TypeInv /\ LoopInv /\ CallInv
  BY DEF Inv
<1>4. PICK n \in Nat, o \in Nat, len \in Nat :
        n = Len(build.list) /\ o = off[n + 1] /\ len = Block(end).len
  BY <1>1, <1>2, <1>3, BlockIs DEF Piece
<1>5. o + len = Total
  BY <1>1, <1>2, <1>3, <1>4, BlockIs
<1> DEFINE m == n + 1
           next == Append(off, o + len)
<1>6. PICK list \in Seq(Piece) : list = Append(build.list, Block(end))
  BY <1>1, <1>2, <1>3, PieceTiles
<1>7. /\ Len(list) = m /\ next \in Seq(Nat) /\ next[m + 1] = Total /\ Tiles(list, next)
      /\ \A i \in 1 .. m : list[i].card = CardAt(next[i])
  <2>1. (n + 1) + 1 = n + 2
    OBVIOUS
  <2> QED
    BY <1>1, <1>2, <1>3, <1>4, <1>5, <1>6, <2>1, PieceTiles
<1>8. m \in Nat /\ m > 0
  OBVIOUS
<1> HIDE DEF m, next, end
<1> DEFINE made == transfer_create(list)
<1>9. /\ desc' = IF request.ring THEN cyclic(made) ELSE made
      /\ hw' = engine_start(Len(made))
  BY <1>6 DEF LastEntry, end
<1>10. made = [i \in 1 .. m |-> [host |-> list[i].host, card |-> list[i].card, len |-> list[i].len,
                                next |-> IF i < m THEN i + 1 ELSE 0, stop |-> i = m,
                                adj |-> extra_adj(i, m)]]
  BY <1>7 DEF transfer_create
<1>11. \A i \in 1 .. m : list[i] \in Piece /\ extra_adj(i, m) \in Nat /\ (i = m => extra_adj(i, m) = 0)
  <2> SUFFICES ASSUME NEW i \in 1 .. m
               PROVE  list[i] \in Piece /\ extra_adj(i, m) \in Nat /\ (i = m => extra_adj(i, m) = 0)
    OBVIOUS
  <2>1. list[i] \in Piece
    BY <1>7
  <2>2. extra_adj(i, m) \in Nat /\ (i = m => extra_adj(i, m) = 0)
    BY <1>8, AdjacentInside
  <2> QED
    BY <2>1, <2>2
<1>12. made \in Seq(Descriptor) /\ Len(made) = m
  <2>1. \A i \in 1 .. m : made[i] \in Descriptor
    <3> SUFFICES ASSUME NEW i \in 1 .. m PROVE made[i] \in Descriptor
      OBVIOUS
    <3>1. list[i].host \in Nat /\ list[i].card \in Nat /\ list[i].len \in Nat /\ extra_adj(i, m) \in Nat
      BY <1>11 DEF Piece
    <3>2. (IF i < m THEN i + 1 ELSE 0) \in Nat
      BY <1>8
    <3> QED
      BY <1>10, <3>1, <3>2 DEF Descriptor
  <2>2. made \in [1 .. m -> Descriptor]
    BY <1>10, <2>1
  <2> HIDE DEF made
  <2> QED
    BY <1>8, <2>2
<1>13. ASSUME NEW i \in 1 .. m
       PROVE  /\ made[i].host = list[i].host /\ made[i].card = list[i].card /\ made[i].len = list[i].len
              /\ made[i].next = IF i < m THEN i + 1 ELSE 0
              /\ made[i].stop = (i = m) /\ made[i].adj = extra_adj(i, m)
  BY <1>10
<1> HIDE DEF made
<1>14. /\ desc' \in Seq(Descriptor) /\ Len(desc') = m
       /\ \A i \in 1 .. m :
            /\ desc'[i].host = list[i].host /\ desc'[i].len = list[i].len
            /\ desc'[i].card = IF request.ring THEN i - 1 ELSE list[i].card
            /\ desc'[i].stop <=> i = m /\ ~request.ring
            /\ desc'[i].next = IF i < m THEN i + 1 ELSE IF request.ring THEN 1 ELSE 0
            /\ desc'[i].adj = extra_adj(i, m)
  <2>1. CASE ~request.ring
    <3>1. desc' = made
      BY <1>9, <2>1
    <3> QED
      BY <3>1, <2>1, <1>12, <1>13
  <2>2. CASE request.ring
    <3>1. desc' = [i \in 1 .. m |-> [made[i] EXCEPT !.card = i - 1, !.stop = FALSE,
                                                     !.next = IF i = m THEN 1 ELSE @,
                                                     !.adj = IF i = m THEN 0 ELSE @]]
      <4>1. desc' = cyclic(made)
        BY <1>9, <2>2
      <4>2. DOMAIN made = 1 .. m
        BY <1>12
      <4> QED
        BY <4>1, <4>2, <1>12 DEF cyclic
    <3>2. ASSUME NEW i \in 1 .. m
          PROVE  /\ desc'[i].host = list[i].host /\ desc'[i].len = list[i].len
                 /\ desc'[i].card = i - 1 /\ desc'[i].stop = FALSE
                 /\ desc'[i].next = (IF i < m THEN i + 1 ELSE 1)
                 /\ desc'[i].adj = extra_adj(i, m)
                 /\ desc'[i] \in Descriptor
      <4>1. made[i] \in Descriptor
        BY <1>12
      <4>2. i - 1 \in Nat /\ 1 \in Nat /\ 0 \in Nat /\ i \in Nat /\ (i < m \/ i = m)
        BY <1>8
      <4>3. desc'[i] = [made[i] EXCEPT !.card = i - 1, !.stop = FALSE,
                                      !.next = IF i = m THEN 1 ELSE @, !.adj = IF i = m THEN 0 ELSE @]
        BY <3>1
      <4>4. made[i].host = list[i].host /\ made[i].len = list[i].len
            /\ (i < m => made[i].next = i + 1) /\ made[i].adj = extra_adj(i, m)
            /\ (i = m => extra_adj(i, m) = 0)
        BY <1>11, <1>13
      <4>5. CASE i = m
        <5>1. desc'[i] = [made[i] EXCEPT !.card = i - 1, !.stop = FALSE, !.next = 1, !.adj = 0]
          BY <4>3, <4>5
        <5>2. /\ desc'[i].host = made[i].host /\ desc'[i].len = made[i].len
              /\ desc'[i].card = i - 1 /\ desc'[i].stop = FALSE /\ desc'[i].next = 1 /\ desc'[i].adj = 0
          BY <4>1, <5>1 DEF Descriptor
        <5>3. desc'[i] \in Descriptor
          BY <4>1, <4>2, <5>1 DEF Descriptor
        <5> QED
          BY <4>2, <4>4, <4>5, <5>2, <5>3
      <4>6. CASE i # m
        <5>1. desc'[i] = [made[i] EXCEPT !.card = i - 1, !.stop = FALSE]
          BY <4>1, <4>3, <4>6 DEF Descriptor
        <5> QED
          BY <4>1, <4>2, <4>4, <4>6, <5>1 DEF Descriptor
      <4> QED
        BY <4>5, <4>6
    <3>3. desc' \in [1 .. m -> Descriptor]
      BY <3>1, <3>2
    <3>4. desc' \in Seq(Descriptor) /\ Len(desc') = m
      BY <1>8, <3>3
    <3> QED
      BY <2>2, <3>2, <3>4
  <2> QED
    BY <2>1, <2>2
<1>15. /\ hw'.at = 1 /\ hw'.last \in 1 .. m /\ hw' \in [at : Nat, last : Nat]
       /\ (hw'.at - 1) \div DescPerPage = (hw'.last - 1) \div DescPerPage
  BY <1>8, <1>9, <1>12, FirstInside
<1>16. TypeInv'
  <2>1. NoBuild \in [list : Seq(Piece), addr : Nat, stop : Nat, cont_addr : Nat, cont_len : Nat, ep_addr : Nat]
    BY DEF NoBuild
  <2> QED
    BY <2>1, <1>1, <1>3, <1>14, <1>15 DEF TypeInv
<1>17. LoopInv' /\ BuildInv'
  <2>1. LoopInv'
    BY <1>1, <1>3 DEF LoopInv
  <2> QED
    BY <2>1, <1>1 DEF BuildInv
<1>18. CallInv'
  BY <1>1, <1>3 DEF CallInv, check_transfer_align, AlignedForMM, Aligned
<1>19. /\ Total' = Total /\ \A v : Bus(v)' = Bus(v) /\ CardAt(v)' = CardAt(v)
  BY <1>1, <1>7, SameTiles
<1>20. Tiles(desc, next)'
  <2>1. \A v : Aligned(v)' = Aligned(v)
    BY DEF Aligned
  <2>2. \A i \in 1 .. m :
          /\ list[i].len > 0 /\ next[i + 1] = next[i] + list[i].len /\ next[i + 1] <= Total
          /\ \A x \in 0 .. list[i].len - 1 : list[i].host + x = Bus(loop.transfer_addr + next[i] + x)
          /\ ~request.iommu => list[i].len <= MaxDescBytes
          /\ request.ring /\ ~request.iommu => next[i] = (i - 1) * PageSize /\ list[i].len = PageSize
    BY <1>7 DEF Tiles
  <2>3. /\ Len(next) = m + 1 /\ next[1] = 0
        /\ \A i \in 1 .. m + 1 : request.mode # "mm" => Aligned(next[i])
    BY <1>7 DEF Tiles
  <2> QED
    <3>1. ASSUME NEW i \in 1 .. Len(desc')
          PROVE  /\ desc'[i].len > 0 /\ next[i + 1] = next[i] + desc'[i].len /\ next[i + 1] <= Total'
                 /\ \A x \in 0 .. desc'[i].len - 1 : desc'[i].host + x = Bus(loop.transfer_addr + next[i] + x)'
                 /\ ~request'.iommu => desc'[i].len <= MaxDescBytes
                 /\ request'.ring /\ ~request'.iommu => next[i] = (i - 1) * PageSize /\ desc'[i].len = PageSize
      <4>1. i \in 1 .. m /\ desc'[i].host = list[i].host /\ desc'[i].len = list[i].len
        BY <1>14
      <4>2. ASSUME NEW x \in 0 .. desc'[i].len - 1
            PROVE  desc'[i].host + x = Bus(loop.transfer_addr + next[i] + x)'
        <5>1. list[i].host + x = Bus(loop.transfer_addr + next[i] + x)
          BY <2>2, <4>1
        <5>2. Bus(loop.transfer_addr + next[i] + x)' = Bus(loop.transfer_addr + next[i] + x)
          BY <1>1 DEF Bus
        <5> QED
          BY <4>1, <5>1, <5>2
      <4> QED
        BY <2>2, <4>1, <4>2, <1>1, <1>19
    <3>2. ASSUME NEW i \in 1 .. Len(desc') + 1 PROVE request'.mode # "mm" => Aligned(next[i])'
      BY <2>1, <2>3, <1>1, <1>14
    <3>3. Len(next) = Len(desc') + 1 /\ next[1] = 0
      BY <2>3, <1>14
    <3> QED
      BY <3>1, <3>2, <3>3 DEF Tiles
<1>21. HwAt(next)'
  <2>1. next[1] = 0
    BY <1>7 DEF Tiles
  <2>2. hw' # Stopped
    BY <1>15 DEF Stopped
  <2>3. Len(moved') = loop'.done
    BY <1>1, <1>3 DEF CallInv, Going
  <2>4. loop'.done \in Nat /\ Total' \in Nat
    <3>1. Going
      BY <1>1 DEF Going
    <3> QED
      BY <3>1, <1>1, <1>3, <1>19, TransferInside
  <2>5. Len(moved') = loop'.done + 0 * Total' + next[hw'.at]
    BY <2>1, <2>3, <2>4, <1>15
  <2>6. hw'.at \in 1 .. Len(desc') /\ hw'.last \in hw'.at .. Len(desc')
    BY <1>8, <1>14, <1>15
  <2> QED
    BY <2>2, <2>5, <2>6, <1>15 DEF HwAt, Stopped
<1>22. WaitInv'
  <2>1. WaitAt(next)'
    BY <1>1, <1>7, <1>14, <1>19, <1>20, <1>21 DEF WaitAt
  <2> QED
    BY <2>1, <1>7 DEF WaitInv
<1> QED
  BY <1>1, <1>16, <1>17, <1>18, <1>22, SameMoved DEF Inv

LEMMA TransferDoneStep == Inv /\ TransferDone => Inv'
<1> SUFFICES ASSUME Inv, TransferDone PROVE Inv'
  OBVIOUS
<1>1. /\ pc = "wait" /\ hw = Stopped /\ ~request.ring /\ pc' = "next" /\ desc' = <<>>
      /\ loop' = [transfer_addr |-> loop.transfer_addr + transfer_len, done |-> loop.done + transfer_len,
                  remaining |-> loop.remaining - transfer_len, pos |-> loop.pos + transfer_len]
      /\ UNCHANGED <<request, res, build, hw, moved>>
  BY DEF TransferDone
<1>2. TypeInv /\ LoopInv /\ CallInv
  BY DEF Inv
<1>3. PICK off \in Seq(Nat) : WaitAt(off)
  BY <1>1 DEF Inv, WaitInv
<1>4. Total = transfer_len /\ Len(moved) = loop.done + Total
  BY <1>1, <1>3 DEF Total, WaitAt, HwAt
<1>5. /\ Total \in Nat /\ loop.done \in Nat /\ request.count \in Nat /\ loop.done + Total <= request.count
      /\ request.buf \in Nat /\ request.pos \in Nat /\ loop.transfer_addr \in Nat /\ loop.pos \in Nat
  <2>1. Going
    BY <1>1 DEF Going
  <2> QED
    BY <1>2, <2>1, TransferInside
<1>6. /\ loop.remaining = request.count - loop.done /\ loop.remaining > 0
      /\ loop.transfer_addr = request.buf + loop.done /\ loop.pos = request.pos + loop.done
  BY <1>1, <1>2 DEF LoopInv, CallInv
<1>7. /\ loop'.transfer_addr = loop.transfer_addr + Total /\ loop'.done = loop.done + Total
      /\ loop'.remaining = loop.remaining - Total /\ loop'.pos = loop.pos + Total
  BY <1>1, <1>4
<1>8. TypeInv'
  <2>1. loop' \in [transfer_addr : Nat, remaining : Nat, done : Nat, pos : Nat]
    <3> HIDE DEF Total
    <3>1. loop.remaining - Total \in Nat
      BY <1>5, <1>6
    <3> QED
      BY <1>1, <1>4, <1>5, <3>1
  <2> QED
    BY <1>1, <1>2, <2>1 DEF TypeInv
<1>9. LoopInv'
  <2>1. loop'.done = request.count \/ \E k \in Nat : loop'.done = k * MaxTransferBytes
    <3>1. PICK k \in Nat : loop.done = k * MaxTransferBytes
      BY <1>2, <1>5, <1>6 DEF LoopInv
    <3>2. Total = loop.remaining \/ Total = MaxTransferBytes
      BY <1>4 DEF transfer_len, Least
    <3>3. CASE Total = loop.remaining
      BY <3>3, <1>5, <1>6, <1>7
    <3>4. CASE Total = MaxTransferBytes
      <4>1. (k + 1) * MaxTransferBytes = k * MaxTransferBytes + MaxTransferBytes /\ k + 1 \in Nat
        BY Sizes
      <4> QED
        BY <3>1, <3>4, <4>1, <1>7
    <3> QED
      BY <3>2, <3>3, <3>4
  <2>2. /\ loop'.remaining = request.count - loop'.done
        /\ loop'.transfer_addr = request.buf + loop'.done
        /\ loop'.pos = request.pos + loop'.done
    <3> DEFINE done == loop'.done
    <3>1. done = loop.done + Total /\ done \in Nat
      BY <1>5, <1>7
    <3>2. loop.remaining - Total = request.count - done
      BY <3>1, <1>5, <1>6
    <3>3. loop.transfer_addr + Total = request.buf + done
      BY <3>1, <1>5, <1>6
    <3>4. loop.pos + Total = request.pos + done
      BY <3>1, <1>5, <1>6
    <3> QED
      BY <3>2, <3>3, <3>4, <1>7
  <2> QED
    BY <1>1, <2>1, <2>2 DEF LoopInv
<1>10. CallInv'
  <2>1. check_transfer_align' = check_transfer_align
    BY <1>1 DEF check_transfer_align, AlignedForMM, Aligned
  <2>2. Len(moved') = loop'.done
    BY <1>1, <1>4, <1>7
  <2> QED
    BY <1>1, <1>2, <2>1, <2>2 DEF CallInv, Stopped
<1>11. BuildInv' /\ WaitInv'
  BY <1>1 DEF BuildInv, WaitInv
<1> QED
  BY <1>1, <1>8, <1>9, <1>10, <1>11, SameMoved DEF Inv

\* Unit k of the request is one of the descriptor's: what is moved there.
LEMMA UnitMoved ==
  ASSUME Inv, Promised, pc = "wait", NEW off \in Seq(Nat), WaitAt(off), hw # Stopped,
         NEW x \in Nat, x < desc[hw.at].len
  PROVE  LET k == Len(moved) + 1 + x IN
         <<desc[hw.at].host + x, CardOf(desc[hw.at], x)>> = <<HostOf(k), CardFor(k)>>
<1>1. TypeInv /\ LoopInv /\ CallInv /\ Going
  BY DEF Inv, Going
<1>2. request \in Requests
  BY <1>1 DEF TypeInv
<1> DEFINE i == hw.at
           d == desc[i]
           n == Len(desc)
           o == off[i]
           k == Len(moved) + 1 + x
<1>3. PICK lap \in Nat : Len(moved) = loop.done + lap * Total + o /\ (~request.ring => lap = 0)
  BY DEF WaitAt, HwAt
<1>4. i \in 1 .. n /\ Tiles(desc, off) /\ n \in Nat /\ desc \in Seq(Descriptor)
  BY <1>1 DEF WaitAt, HwAt, TypeInv
<1>5. d \in Descriptor /\ o \in Nat
  BY <1>4 DEF Tiles
<1>6. /\ d.host + x = Bus(loop.transfer_addr + o + x)
      /\ off[i + 1] = o + d.len /\ off[i + 1] <= Total
      /\ request.ring /\ ~request.iommu => o = (i - 1) * PageSize /\ d.len = PageSize
  <2>1. x \in 0 .. d.len - 1
    BY <1>5 DEF Descriptor
  <2> QED
    BY <1>4, <2>1 DEF Tiles
<1>7. d.card = IF request.ring THEN i - 1 ELSE CardAt(o)
  BY <1>4 DEF WaitAt
<1>8. d.len \in Nat /\ d.card \in Nat /\ d.host \in Nat /\ x < d.len
  BY <1>5 DEF Descriptor
<1>9. /\ Total \in Nat /\ loop.done \in Nat /\ request.count \in Nat /\ loop.done + Total <= request.count
      /\ loop.transfer_addr = request.buf + loop.done /\ loop.pos = request.pos + loop.done
      /\ request.buf \in Nat /\ request.pos \in Nat /\ Total > 0
      /\ request.ring => loop.transfer_addr = 0 /\ loop.pos = 0 /\ loop.done = 0 /\ Total = request.count
  BY <1>1, TransferInside
<1>10. request.ring \in BOOLEAN /\ request.mode \in {"mm", "fixed", "stream"}
       /\ (request.ring => request.mode = "stream" /\ request.buf = 0)
  BY <1>2, RequestType
<1>11. o + x \in 0 .. Total - 1
  <2> HIDE DEF i, d, n, o
  <2>1. o + d.len <= Total
    BY <1>6
  <2> QED
    BY <2>1, <1>5, <1>8, <1>9
<1>12. lap * Total \in Nat
  BY <1>9
<1> HIDE DEF i, d, n, o
<1>13. CASE ~request.ring
  <2>1. k - 1 = loop.done + (o + x)
    <3>1. lap * Total = 0
      BY <1>3, <1>9, <1>13
    <3> QED
      BY <3>1, <1>3, <1>5, <1>9
  <2>2. k - 1 \in 0 .. request.count - 1
    BY <2>1, <1>9, <1>11
  <2>3. (k - 1) % request.count = k - 1
    <3> DEFINE y == k - 1
               c == request.count
    <3>0. y \in 0 .. c - 1 /\ c \in Nat
      BY <2>2, <1>9
    <3> HIDE DEF y, c
    <3>1. c \in Nat \ {0}
      BY <3>0
    <3>2. (0 * c + y) % c = y
      BY <3>0, <3>1, OneQuotient
    <3>3. 0 * c + y = y
      BY <3>0
    <3>4. y % c = y
      BY <3>2, <3>3
    <3> QED
      BY <3>4 DEF y, c
  <2>4. request.buf + (k - 1) = loop.transfer_addr + o + x
    BY <2>1, <1>5, <1>9
  <2>5. HostOf(k) = d.host + x
    BY <2>3, <2>4, <1>6 DEF HostOf
  <2>6. CardOf(d, x) = CardFor(k)
    <3>1. CASE request.mode = "mm"
      <4>1. d.card = loop.pos + o
        BY <3>1, <1>7, <1>13 DEF CardAt
      <4>2. CardOf(d, x) = d.card + x /\ CardFor(k) = request.pos + k - 1
        BY <3>1 DEF CardOf, CardFor
      <4>3. request.pos + k - 1 = request.pos + (k - 1)
        BY <1>9, <1>3, <1>5, <1>12
      <4> QED
        BY <4>1, <4>2, <4>3, <2>1, <1>5, <1>9
    <3>2. CASE request.mode = "fixed"
      <4>1. request.count <= MaxTransferBytes
        BY <3>2 DEF Promised
      <4>2. loop.done = 0
        <5>1. PICK j \in Nat : loop.done = j * MaxTransferBytes
          <6>1. loop.done # request.count
            BY <1>9
          <6> QED
            BY <6>1, <1>1 DEF LoopInv
        <5>2. loop.done < MaxTransferBytes /\ MaxTransferBytes \in Nat
          BY <4>1, <1>9, Sizes
        <5>3. 0 < j => 0 * MaxTransferBytes + MaxTransferBytes <= j * MaxTransferBytes
          BY <5>2, NextMultiple
        <5>4. 0 * MaxTransferBytes = 0 /\ j * MaxTransferBytes \in Nat
          BY <5>2
        <5>5. ~(0 < j)
          BY <5>1, <5>2, <5>3, <5>4
        <5>6. j = 0
          BY <5>5
        <5> QED
          BY <5>1, <5>4, <5>6
      <4>3. d.card = loop.pos /\ loop.pos = request.pos
        BY <4>2, <3>2, <1>7, <1>9, <1>13 DEF CardAt
      <4> QED
        BY <4>3, <3>2 DEF CardOf, CardFor
    <3>3. CASE request.mode = "stream"
      BY <3>3, <1>13 DEF CardOf, CardFor
    <3> QED
      BY <3>1, <3>2, <3>3, <1>10
  <2> QED
    BY <2>5, <2>6 DEF d, i
<1>14. CASE request.ring
  <2>1. ~request.iommu
    BY <1>14 DEF Promised
  <2>2. k - 1 = lap * request.count + (o + x)
    <3>1. lap * Total = lap * request.count /\ loop.done = 0
      BY <1>9, <1>14
    <3>2. Len(moved) = lap * request.count + o /\ lap * request.count \in Nat
      BY <3>1, <1>3, <1>5, <1>12
    <3> QED
      BY <3>2, <1>5
  <2>3. (k - 1) % request.count = o + x
    <3>1. request.count \in Nat \ {0} /\ o + x \in 0 .. request.count - 1
      BY <1>9, <1>11, <1>14
    <3>2. (lap * request.count + (o + x)) % request.count = o + x
      BY <3>1, OneQuotient
    <3> QED
      BY <2>2, <3>2
  <2>4. HostOf(k) = d.host + x
    <3>1. request.buf + (o + x) = loop.transfer_addr + o + x
      BY <1>5, <1>9, <1>10, <1>14
    <3> QED
      BY <2>3, <3>1, <1>6 DEF HostOf
  <2>5. (o + x) \div PageSize = i - 1
    <3>1. o = (i - 1) * PageSize /\ d.len = PageSize
      BY <1>6, <1>14, <2>1
    <3>2. i - 1 \in Nat /\ x \in 0 .. PageSize - 1 /\ PageSize \in Nat \ {0}
      BY <1>4, <3>1, Sizes DEF d, i
    <3>3. ((i - 1) * PageSize + x) \div PageSize = i - 1
      BY <3>2, OneQuotient
    <3> QED
      BY <3>1, <3>3
  <2>6. CardOf(d, x) = i - 1 /\ CardFor(k) = i - 1
    BY <1>7, <1>10, <1>14, <2>3, <2>5 DEF CardOf, CardFor
  <2> QED
    BY <2>4, <2>6 DEF d, i
<1> QED
  BY <1>13, <1>14

LEMMA HwDescStep == Inv /\ HwDesc => Inv'
<1> SUFFICES ASSUME Inv, HwDesc PROVE Inv'
  OBVIOUS
<1> DEFINE d == desc[hw.at]
           units == [x \in 1 .. d.len |-> <<d.host + x - 1, CardOf(d, x - 1)>>]
<1>1. /\ hw # Stopped /\ moved' = moved \o units
      /\ hw' = IF d.stop THEN Stopped
               ELSE IF hw.at < hw.last THEN [hw EXCEPT !.at = @ + 1]
               ELSE [at |-> d.next, last |-> d.next + d.adj]
      /\ UNCHANGED <<request, pc, res, loop, build, desc>>
  BY DEF HwDesc
<1>2. TypeInv /\ LoopInv /\ CallInv
  BY DEF Inv
<1>3. pc = "wait" /\ Going
  BY <1>1, <1>2 DEF CallInv, Going
<1>4. PICK off \in Seq(Nat) : WaitAt(off)
  BY <1>3 DEF Inv, WaitInv
<1>5. PICK n \in Nat, i \in Nat, l \in Nat :
        n = Len(desc) /\ i = hw.at /\ l = hw.last /\ i \in 1 .. n /\ l \in i .. n
  <2>1. Len(desc) \in Nat /\ hw.last \in Nat
    BY <1>2 DEF TypeInv
  <2> QED
    BY <2>1, <1>1, <1>4 DEF WaitAt, HwAt
<1>6. PICK lap \in Nat : Len(moved) = loop.done + lap * Total + off[i] /\ (~request.ring => lap = 0)
  BY <1>1, <1>4, <1>5 DEF WaitAt, HwAt
<1>7. /\ Tiles(desc, off) /\ off[n + 1] = Total
      /\ d.stop <=> i = n /\ ~request.ring
      /\ d.next = IF i < n THEN i + 1 ELSE IF request.ring THEN 1 ELSE 0
      /\ d.adj = extra_adj(i, n)
      /\ (i - 1) \div DescPerPage = (l - 1) \div DescPerPage
  BY <1>1, <1>4, <1>5 DEF WaitAt, HwAt
<1>8. d \in Descriptor /\ d.len \in Nat /\ d.host \in Nat /\ d.card \in Nat /\ d.stop \in BOOLEAN
  <2>1. d \in Descriptor
    BY <1>2, <1>5 DEF TypeInv
  <2> QED
    BY <2>1 DEF Descriptor
<1>9. /\ Len(off) = n + 1 /\ off[1] = 0 /\ off[i + 1] = off[i] + d.len
      /\ off[i] \in Nat /\ off[i + 1] \in Nat
  <2>1. i \in 1 .. Len(desc) /\ d = desc[i] /\ n = Len(desc)
    BY <1>5
  <2>2. Len(off) = n + 1 /\ off[1] = 0 /\ off[i + 1] = off[i] + d.len
    BY <2>1, <1>7 DEF Tiles
  <2>3. i \in 1 .. Len(off) /\ i + 1 \in 1 .. Len(off)
    BY <2>1, <2>2
  <2> QED
    BY <2>2, <2>3
<1>10. Total \in Nat /\ loop.done \in Nat /\ lap * Total \in Nat
  <2>1. Total \in Nat /\ loop.done \in Nat
    BY <1>2, <1>3, TransferInside
  <2> QED
    BY <2>1
<1>11. units \in Seq(Nat \X Nat) /\ Len(units) = d.len
  <2>1. ASSUME NEW x \in 1 .. d.len PROVE units[x] \in Nat \X Nat
    <3>1. d.host + x - 1 \in Nat /\ CardOf(d, x - 1) \in Nat
      <4>1. d.card + (x - 1) \in Nat
        BY <1>8
      <4>2. CardOf(d, x - 1) \in {d.card + (x - 1), d.card, 0}
        BY DEF CardOf
      <4> QED
        BY <4>1, <4>2, <1>8
    <3> QED
      BY <3>1
  <2>2. units \in [1 .. d.len -> Nat \X Nat]
    BY <2>1
  <2> HIDE DEF units, d
  <2> QED
    BY <2>2, <1>8
<1>12. /\ moved' \in Seq(Nat \X Nat) /\ Len(moved') = Len(moved) + d.len /\ Len(moved) \in Nat
       /\ \A k \in 1 .. Len(moved) : moved'[k] = moved[k]
       /\ \A x \in 1 .. d.len : moved'[Len(moved) + x] = units[x]
  <2>1. moved \in Seq(Nat \X Nat)
    BY <1>2 DEF TypeInv
  <2>2. moved' = moved \o units
    BY <1>1
  <2>3. units \in Seq(Nat \X Nat) /\ Len(units) = d.len
    BY <1>11
  <2> HIDE DEF units, d
  <2>4. units \in Seq(Nat \X Nat)
    BY <2>3
  <2> DEFINE all == moved \o units
  <2>5. /\ all \in Seq(Nat \X Nat) /\ Len(all) = Len(moved) + Len(units) /\ Len(moved) \in Nat
        /\ \A k \in 1 .. Len(moved) : all[k] = moved[k]
        /\ \A x \in 1 .. Len(units) : all[Len(moved) + x] = units[x]
    BY <2>1, <2>4, Appended
  <2>6. moved' = all
    BY <2>2
  <2> HIDE DEF all
  <2> QED
    BY <2>3, <2>5, <2>6
<1>20. Len(moved') = loop.done + lap * Total + off[i + 1]
  <2> DEFINE laps == lap * Total
  <2>1. /\ Len(moved) = loop.done + laps + off[i] /\ Len(moved') = Len(moved) + d.len
        /\ off[i + 1] = off[i] + d.len /\ off[i] \in Nat /\ loop.done \in Nat /\ laps \in Nat /\ d.len \in Nat
    BY <1>6, <1>8, <1>9, <1>10, <1>12
  <2> HIDE DEF laps, d
  <2>2. Len(moved') = loop.done + laps + off[i + 1]
    BY <2>1
  <2> QED
    BY <2>2 DEF laps
<1>13. MovedInv'
  <2> SUFFICES ASSUME Promised', NEW k \in DOMAIN moved'
               PROVE  moved'[k] = <<HostOf(k), CardFor(k)>>'
    BY DEF MovedInv
  <2>1. <<HostOf(k), CardFor(k)>>' = <<HostOf(k), CardFor(k)>> /\ Promised
    BY <1>1 DEF HostOf, CardFor, Bus, Promised
  <2>2. DOMAIN moved' = 1 .. Len(moved')
    BY <1>12
  <2>3. CASE k <= Len(moved)
    <3>1. k \in 1 .. Len(moved) /\ k \in DOMAIN moved
      BY <2>2, <2>3, <1>2, <1>8, <1>12 DEF TypeInv
    <3> QED
      BY <3>1, <2>1, <1>12 DEF Inv, MovedInv
  <2>4. CASE k > Len(moved)
    <3>1. PICK x \in Nat : k = Len(moved) + 1 + x /\ x < d.len
      <4>1. k - Len(moved) - 1 \in Nat /\ k = Len(moved) + 1 + (k - Len(moved) - 1)
            /\ k - Len(moved) - 1 < d.len
        <5>1. k \in 1 .. Len(moved) + d.len /\ Len(moved) \in Nat /\ d.len \in Nat
          BY <2>2, <1>8, <1>12
        <5> HIDE DEF d, units
        <5> QED
          BY <5>1, <2>4
      <4> QED
        BY <4>1
    <3>2. moved'[k] = <<d.host + x, CardOf(d, x)>>
      <4>1. 1 + x \in 1 .. d.len /\ k = Len(moved) + (1 + x) /\ (1 + x) - 1 = x
            /\ d.host + (1 + x) - 1 = d.host + x
        <5>1. Len(moved) \in Nat /\ d.len \in Nat /\ d.host \in Nat
          BY <1>8, <1>12
        <5> HIDE DEF d, units
        <5> QED
          BY <5>1, <3>1
      <4>2. units[1 + x] = <<d.host + x, CardOf(d, x)>>
        BY <4>1
      <4> QED
        BY <4>1, <4>2, <1>12
    <3>3. <<d.host + x, CardOf(d, x)>> = <<HostOf(k), CardFor(k)>>
      BY <3>1, <2>1, <1>1, <1>3, <1>4, UnitMoved
    <3> QED
      BY <3>2, <3>3, <2>1
  <2> QED
    BY <2>2, <2>3, <2>4, <1>12
<1>14. LoopInv' /\ BuildInv'
  <2>1. LoopInv'
    BY <1>1, <1>2 DEF LoopInv
  <2> QED
    BY <2>1, <1>1, <1>3 DEF BuildInv
<1>15. CallInv'
  <2>1. check_transfer_align' = check_transfer_align
    BY <1>1 DEF check_transfer_align, AlignedForMM, Aligned
  <2> QED
    BY <2>1, <1>1, <1>2, <1>3 DEF CallInv
<1>16. /\ Tiles(desc, off)' /\ Total' = Total
       /\ \A v : CardAt(v)' = CardAt(v)
  BY <1>1, <1>7, SameTiles
<1>17. hw' \in [at : Nat, last : Nat] /\ HwAt(off)'
  <2>1. CASE i = n /\ ~request.ring
    <3>1. hw' = Stopped
      BY <2>1, <1>1, <1>7
    <3>2. Len(moved') = loop.done + Total
      <4>1. lap * Total = 0 /\ off[i + 1] = Total
        BY <2>1, <1>6, <1>7, <1>10
      <4> QED
        BY <4>1, <1>10, <1>20
    <3> QED
      BY <3>1, <3>2, <2>1, <1>1, <1>16 DEF HwAt, Stopped
  <2>2. CASE i = n /\ request.ring
    <3>1. d.next = 1 /\ d.adj = 0 /\ ~d.stop /\ ~(hw.at < hw.last)
      <4>1. i \in 1 .. n /\ extra_adj(i, n) = 0
        BY <2>2, <1>5, AdjacentInside
      <4>2. d.next = 1 /\ ~d.stop /\ d.adj = 0
        BY <4>1, <2>2, <1>7
      <4> QED
        BY <4>2, <2>2, <1>5
    <3>2. hw' = [at |-> 1, last |-> 1]
      BY <3>1, <1>1
    <3>3. Len(moved') = loop.done + (lap + 1) * Total + off[1]
      <4>1. (lap + 1) * Total = lap * Total + Total /\ off[i + 1] = Total
        BY <2>2, <1>7, <1>10
      <4>2. Len(moved') \in Nat /\ Len(moved') = loop.done + lap * Total + Total
        BY <4>1, <1>12, <1>20
      <4>3. Len(moved') = loop.done + (lap + 1) * Total + 0
        BY <4>2, <1>10, NextLap
      <4> QED
        BY <4>3, <1>9
    <3>4. lap + 1 \in Nat /\ 1 \in 1 .. n /\ 1 \in 1 .. 1
      BY <1>5
    <3> QED
      BY <3>2, <3>3, <3>4, <2>2, <1>1, <1>5, <1>16 DEF HwAt, Stopped
  <2>3. CASE i # n
    <3>1. i < n /\ ~d.stop /\ d.next = i + 1
      BY <2>3, <1>5, <1>7
    <3>2. PICK at \in Nat, last \in Nat :
            /\ hw' = [at |-> at, last |-> last] /\ at = i + 1 /\ last \in at .. n
            /\ (at - 1) \div DescPerPage = (last - 1) \div DescPerPage
      <4>1. CASE i < l
        <5>1. hw' = [at |-> i + 1, last |-> l]
          BY <4>1, <3>1, <1>1, <1>2, <1>5 DEF TypeInv
        <5>2. (i - 1) \div DescPerPage = (l - 1) \div DescPerPage
          BY <1>7
        <5>3. ((i + 1) - 1) \div DescPerPage = (l - 1) \div DescPerPage
          BY <4>1, <5>2, <1>5, Between
        <5> QED
          BY <4>1, <5>1, <5>3, <1>5
      <4>2. CASE ~(i < l)
        <5> DEFINE adj == extra_adj(i, n)
        <5>1. hw' = [at |-> i + 1, last |-> i + 1 + adj]
          BY <4>2, <3>1, <1>1, <1>5, <1>7
        <5>2. adj \in Nat /\ i + 1 + adj <= n /\ i \div DescPerPage = (i + adj) \div DescPerPage
          BY <3>1, <1>5, AdjacentInside
        <5> HIDE DEF adj
        <5>3. (i + 1) - 1 = i /\ (i + 1 + adj) - 1 = i + adj /\ i + 1 + adj \in i + 1 .. n /\ i + 1 \in Nat
          BY <5>2, <1>5
        <5> QED
          BY <5>1, <5>2, <5>3
      <4> QED
        BY <4>1, <4>2
    <3>3. hw'.at = at /\ hw'.last = last /\ hw' # Stopped /\ hw' \in [at : Nat, last : Nat]
      BY <3>2, <1>5 DEF Stopped
    <3>4. Len(moved') = loop.done + lap * Total + off[at]
      BY <3>2, <1>20
    <3>5. at \in 1 .. n
      BY <3>1, <3>2, <1>5
    <3> QED
      BY <3>2, <3>3, <3>4, <3>5, <1>1, <1>5, <1>6, <1>16 DEF HwAt
  <2> QED
    BY <2>1, <2>2, <2>3
<1>18. TypeInv'
  BY <1>1, <1>2, <1>12, <1>17 DEF TypeInv
<1>19. WaitInv'
  <2>1. WaitAt(off)'
    BY <1>1, <1>4, <1>16, <1>17 DEF WaitAt
  <2> QED
    BY <2>1, <1>4 DEF WaitInv
<1> QED
  BY <1>13, <1>14, <1>15, <1>18, <1>19 DEF Inv

LEMMA NextInv == Inv /\ [Next]_vars => Inv'
<1> SUFFICES ASSUME Inv, [Next]_vars PROVE Inv'
  OBVIOUS
<1>1. CASE Call
  BY <1>1, CallStep
<1>2. CASE Transfer
  BY <1>2, TransferStep
<1>3. CASE Entry
  BY <1>3, EntryStep
<1>4. CASE LastEntry
  BY <1>4, LastEntryStep
<1>5. CASE TransferDone
  BY <1>5, TransferDoneStep
<1>6. CASE Return
  BY <1>6, ReturnStep
<1>7. CASE RingSetup
  BY <1>7, RingSetupStep
<1>8. CASE HwDesc
  BY <1>8, HwDescStep
<1>9. CASE UNCHANGED vars
  <2> USE <1>9 DEF vars
  <2>1. TypeInv' /\ LoopInv' /\ MovedInv'
    BY SameMoved DEF Inv, TypeInv, LoopInv
  <2>2. CallInv'
    BY DEF Inv, CallInv, check_transfer_align, AlignedForMM, Aligned
  <2>3. BuildInv'
    <3> SUFFICES ASSUME pc = "build" PROVE \E off \in Seq(Nat) : BuildAt(off)'
      BY DEF BuildInv
    <3>1. PICK off \in Seq(Nat) : BuildAt(off)
      BY DEF Inv, BuildInv
    <3>2. Tiles(build.list, off)' /\ Total' = Total /\ \A v : Bus(v)' = Bus(v) /\ CardAt(v)' = CardAt(v)
      BY <3>1, SameTiles DEF BuildAt
    <3> QED
      BY <3>1, <3>2 DEF BuildAt
  <2>4. WaitInv'
    <3> SUFFICES ASSUME pc = "wait" PROVE \E off \in Seq(Nat) : WaitAt(off)'
      BY DEF WaitInv
    <3>1. PICK off \in Seq(Nat) : WaitAt(off)
      BY DEF Inv, WaitInv
    <3>2. Tiles(desc, off)' /\ Total' = Total /\ \A v : Bus(v)' = Bus(v) /\ CardAt(v)' = CardAt(v)
      BY <3>1, SameTiles DEF WaitAt
    <3> QED
      BY <3>1, <3>2 DEF WaitAt, HwAt
  <2> QED
    BY <2>1, <2>2, <2>3, <2>4 DEF Inv
<1> QED
  BY <1>1, <1>2, <1>3, <1>4, <1>5, <1>6, <1>7, <1>8, <1>9 DEF Next

LEMMA SpecInv == Spec => []Inv
BY InitInv, NextInv, PTL DEF Spec
-------------------------------------------------------------------------------
(* The theorems *)

\* For requests of any size and place, over any pages and with any limits: the
\* loops of transfer_data and transfer_build and the adjacent fetches together
\* move each unit of the request once, in order, between its two places.
THEOREM RequestIsMoved == Spec => []MovesTheRequest
<1>1. Inv => MovesTheRequest
  <2> SUFFICES ASSUME Inv, Promised
               PROVE  /\ \A k \in DOMAIN moved : moved[k] = <<HostOf(k), CardFor(k)>>
                      /\ res = "done" => Len(moved) = request.count /\ loop.done = request.count
    BY DEF MovesTheRequest
  <2>1. ASSUME res = "done" PROVE Len(moved) = request.count /\ loop.done = request.count
    <3>1. pc = "returned" /\ loop.remaining = 0 /\ Len(moved) = loop.done
      BY <2>1 DEF Inv, CallInv
    <3>2. request.count \in Nat /\ loop.done \in Nat /\ loop.remaining = request.count - loop.done
      BY RequestType DEF Inv, TypeInv, LoopInv
    <3> QED
      BY <3>1, <3>2
  <2> QED
    BY <2>1 DEF Inv, MovedInv
<1> QED
  BY <1>1, SpecInv, PTL

\* xdma_desc_set is given no length beyond the hardware's limit, none of zero,
\* and the alignment that check_transfer_align tested.
THEOREM DescriptorsAlwaysFit == Spec => []DescriptorsFit
<1>1. Inv => DescriptorsFit
  <2> SUFFICES ASSUME Inv, NEW i \in DOMAIN desc
               PROVE  /\ desc[i].len > 0 /\ (~request.iommu => desc[i].len <= MaxDescBytes)
                      /\ request.mode = "mm" => desc[i].host % AddrAlign = desc[i].card % AddrAlign
                      /\ request.mode # "mm" => Aligned(desc[i].host) /\ Aligned(desc[i].len)
    BY DEF DescriptorsFit
  <2>1. TypeInv /\ LoopInv /\ CallInv
    BY DEF Inv
  <2>2. pc = "wait" /\ Going /\ i \in 1 .. Len(desc)
    BY <2>1 DEF TypeInv, CallInv, Going
  <2>3. PICK off \in Seq(Nat) : WaitAt(off)
    BY <2>2 DEF Inv, WaitInv
  <2>4. request \in Requests /\ desc \in Seq(Descriptor)
    BY <2>1 DEF TypeInv
  <2> DEFINE d == desc[i]
             o == off[i]
             v == loop.transfer_addr + o
  <2>5. d.len \in Nat /\ d.host \in Nat /\ o \in Nat /\ off[i + 1] \in Nat
    <3>1. d \in Descriptor /\ Len(off) = Len(desc) + 1
      BY <2>2, <2>3, <2>4 DEF WaitAt, Tiles
    <3>2. i \in 1 .. Len(off) /\ i + 1 \in 1 .. Len(off)
      BY <3>1, <2>2, <2>4
    <3>3. o \in Nat /\ off[i + 1] \in Nat
      BY <3>2
    <3> QED
      BY <3>1, <3>3 DEF Descriptor
  <2>6. /\ d.len > 0 /\ off[i + 1] = o + d.len /\ off[i + 1] <= Total
        /\ \A x \in 0 .. d.len - 1 : d.host + x = Bus(v + x)
        /\ ~request.iommu => d.len <= MaxDescBytes
        /\ request.mode # "mm" => o % AddrAlign = 0 /\ off[i + 1] % AddrAlign = 0
    BY <2>2, <2>3 DEF WaitAt, Tiles, Aligned
  <2>7. /\ Total \in Nat /\ loop.transfer_addr \in Nat /\ loop.done \in Nat
        /\ loop.transfer_addr + Total <= request.buf + request.count
        /\ loop.transfer_addr = request.buf + loop.done /\ loop.pos = request.pos + loop.done
        /\ request.buf \in Nat /\ request.pos \in Nat /\ request.count \in Nat
    BY <2>1, <2>2, TransferInside
  <2>8. v \in Nat /\ v < request.buf + request.count
    <3>1. d.len > 0 /\ off[i + 1] = o + d.len /\ off[i + 1] <= Total
      BY <2>6
    <3> DEFINE from == loop.transfer_addr
               end == off[i + 1]
               stop == request.buf + request.count
               len == d.len
    <3>2. /\ len > 0 /\ end = o + len /\ end <= Total /\ from + Total <= stop
          /\ len \in Nat /\ o \in Nat /\ end \in Nat /\ from \in Nat /\ Total \in Nat
      BY <3>1, <2>5, <2>7, Zenon
    <3>4. stop \in Nat
      BY <2>7
    <3> HIDE DEF from, end, stop, len, o
    <3>3. from + o \in Nat /\ from + o < stop
      BY <3>2, <3>4
    <3> QED
      BY <3>3 DEF from, stop
  <2>9. d.host % AddrAlign = v % AddrAlign
    <3>1. 0 \in 0 .. d.len - 1 /\ d.host + 0 = d.host /\ v + 0 = v
      BY <2>5, <2>6, <2>8
    <3>2. d.host = Bus(v)
      BY <3>1, <2>6
    <3> QED
      BY <3>2, <2>4, <2>8, BusAligned
  <2>10. ASSUME request.mode = "mm" PROVE d.host % AddrAlign = d.card % AddrAlign
    <3>1. ~request.ring
      BY <2>4, <2>10, RequestType
    <3>2. request.buf % AddrAlign = request.pos % AddrAlign
      BY <3>1, <2>1, <2>2, <2>10 DEF CallInv, check_transfer_align, AlignedForMM
    <3>3. d.card = loop.pos + o
      BY <3>1, <2>2, <2>3, <2>10 DEF WaitAt, CardAt
    <3>4. v = request.buf + (loop.done + o) /\ d.card = request.pos + (loop.done + o) /\ loop.done + o \in Nat
      <4>1. o \in Nat /\ loop.done \in Nat
        BY <2>5, <2>7
      <4> HIDE DEF o
      <4>2. d.card = loop.pos + o
        BY <3>3
      <4> DEFINE done == loop.done
                 from == loop.transfer_addr
                 pos == loop.pos
      <4>3. /\ from = request.buf + done /\ pos = request.pos + done /\ d.card = pos + o
            /\ request.buf \in Nat /\ request.pos \in Nat /\ done \in Nat /\ o \in Nat
        BY <4>1, <4>2, <2>7
      <4> HIDE DEF d, done, from, pos
      <4>4. from + o = request.buf + (done + o) /\ d.card = request.pos + (done + o) /\ done + o \in Nat
        BY <4>3
      <4> QED
        BY <4>4 DEF done, from
    <3>5. (request.buf + (loop.done + o)) % AddrAlign = (request.pos + (loop.done + o)) % AddrAlign
      <4> DEFINE done == loop.done + o
      <4>1. done \in Nat /\ AddrAlign \in Nat \ {0} /\ request.buf \in Nat /\ request.pos \in Nat
        BY <3>4, <2>7, Sizes
      <4> HIDE DEF done
      <4>2. (request.buf + done) % AddrAlign = (request.pos + done) % AddrAlign
        BY <4>1, <3>2, ModAdd
      <4> QED
        BY <4>2 DEF done
    <3> QED
      BY <3>4, <3>5, <2>9
  <2>11. ASSUME request.mode # "mm" PROVE Aligned(d.host) /\ Aligned(d.len)
    <3>1. loop.transfer_addr % AddrAlign = 0
      BY <2>1, <2>2, <2>11, TransferAligned
    <3>2. AddrAlign \in Nat \ {0}
      BY Sizes
    <3>3. v % AddrAlign = 0
      <4> HIDE DEF d, o
      <4> QED
        BY <3>1, <3>2, <2>5, <2>6, <2>7, <2>11, SumMultiple
    <3>4. d.len % AddrAlign = 0
      <4>1. (o + d.len) % AddrAlign = 0
        BY <2>6, <2>11
      <4> HIDE DEF d, o
      <4> QED
        BY <4>1, <3>2, <2>5, <2>6, <2>11, SumMultiple
    <3> QED
      BY <3>3, <3>4, <2>9 DEF Aligned
  <2> QED
    BY <2>6, <2>10, <2>11
<1> QED
  BY <1>1, SpecInv, PTL

\* The number of adjacent descriptors that engine_start and xdma_desc_adjacent
\* give the hardware never leads out of the list or across a page.
THEOREM FetchesStayInside == Spec => []FetchesInside
<1>1. Inv => FetchesInside
  <2> SUFFICES ASSUME Inv, hw # Stopped
               PROVE  /\ hw.at \in DOMAIN desc /\ hw.last \in DOMAIN desc
                      /\ (hw.at - 1) \div DescPerPage = (hw.last - 1) \div DescPerPage
    BY DEF FetchesInside
  <2>1. pc = "wait" /\ desc \in Seq(Descriptor) /\ hw \in [at : Nat, last : Nat]
    BY DEF Inv, TypeInv, CallInv
  <2>2. PICK off \in Seq(Nat) : WaitAt(off)
    BY <2>1 DEF Inv, WaitInv
  <2>3. /\ hw.at \in 1 .. Len(desc) /\ hw.last \in hw.at .. Len(desc)
        /\ (hw.at - 1) \div DescPerPage = (hw.last - 1) \div DescPerPage
    BY <2>2 DEF WaitAt, HwAt
  <2>4. DOMAIN desc = 1 .. Len(desc) /\ hw.last \in 1 .. Len(desc)
    BY <2>1, <2>3
  <2> QED
    BY <2>3, <2>4
<1> QED
  BY <1>1, SpecInv, PTL
===============================================================================
