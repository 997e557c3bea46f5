------------------------------- MODULE XdmaDesc -------------------------------
(***************************************************************************)
(* From a request to descriptors: how read() and write() cut a request in  *)
(* transfers, a transfer in the pages of the user's buffer, these in       *)
(* descriptors, and what the hardware moves when it follows them.  Also    *)
(* the cyclic transfer of the ring.  That transfers are queued, complete   *)
(* and fail is XdmaEngine; here each one is executed and done.  A step of   *)
(* transfer_build is an iteration of its loop.                             *)
(*                                                                         *)
(* Addresses are counted in units of the smallest transfer, those of       *)
(* descriptors in descriptors (32 bytes); the list begins a page.          *)
(***************************************************************************)
EXTENDS Integers, Sequences

CONSTANTS
  PageSize,
  DescPerPage,      \* descriptors in 0x1000 bytes
  AddrAlign,        \* engine->addr_align and len_granularity
  MaxDescBytes,     \* XDMA_DESC_MAX_BYTES
  MaxTransferBytes, \* XDMA_TRANSFER_MAX_BYTES
  MaxExtraAdj,      \* MAX_EXTRA_ADJ
  Requests,         \* the requests to look at
  Laps              \* bound: how often the ring goes round

Request == [
  ring : BOOLEAN,                    \* the cyclic transfer, not a read() or write()
  mode : {"mm", "fixed", "stream"},  \* fixed: non_incr_addr
  matches : BOOLEAN,                 \* the call has the direction of the engine
  buf : Nat, count : Nat, pos : Nat,
  frame : Seq(Nat),                  \* the page frames of the buffer
  mapped : BOOLEAN,                  \* they can be mapped
  iommu : BOOLEAN]                   \* pci_map_sg may put adjacent entries together

ASSUME DescAssumption ==
  /\ {PageSize, DescPerPage, AddrAlign, MaxDescBytes, MaxTransferBytes, MaxExtraAdj, Laps} \subseteq Nat \ {0}
  /\ PageSize <= MaxDescBytes /\ MaxExtraAdj < DescPerPage
  /\ MaxTransferBytes % PageSize = 0 /\ PageSize % AddrAlign = 0
  /\ \A r \in Requests :
       /\ r \in Request /\ r.buf < PageSize /\ r.buf + r.count <= PageSize * Len(r.frame)
       /\ r.ring => r.mode = "stream" /\ r.buf = 0 /\ r.count > 0 /\ r.count % PageSize = 0 /\ r.pos = 0 /\ r.mapped

VARIABLES
  request,  \* never changes
  pc, res,
  loop,     \* the variables of transfer_data
  build,    \* those of transfer_build
  desc,     \* the descriptors of the transfer
  hw,       \* those the hardware has fetched and not executed
  moved     \* what it moved: pairs of host and card addresses

vars == <<request, pc, res, loop, build, desc, hw, moved>>

Stopped == [at |-> 0, last |-> 0]
NoBuild == [list |-> <<>>, addr |-> 0, stop |-> 0, cont_addr |-> 0, cont_len |-> 0, ep_addr |-> 0]

Init ==
  /\ request \in Requests
  /\ pc = "call" /\ res = "none"
  /\ loop = [transfer_addr |-> request.buf, remaining |-> request.count, done |-> 0, pos |-> request.pos]
  /\ build = NoBuild /\ desc = <<>> /\ hw = Stopped /\ moved = <<>>

Least(a, b) == IF a <= b THEN a ELSE b
-------------------------------------------------------------------------------
(* The scatterlist: entries, each from one address of the buffer to another *)

Bus(addr) == request.frame[addr \div PageSize + 1] * PageSize + (addr % PageSize)

\* sgm_get_user_pages, sgm_kernel_pages: an entry for each page.
PageEnd(addr, stop) == Least((addr \div PageSize + 1) * PageSize, stop)

\* pci_map_sg behind an IOMMU: it may join entries that follow one another.
Contiguous(addr, end) == \A x \in addr .. end - 1 : Bus(x) = Bus(addr) + (x - addr)
JoinedEnds(addr, stop) ==
  {end \in addr + 1 .. stop : (end % PageSize = 0 \/ end = stop) /\ Contiguous(addr, end)}

EntryEnds(addr, stop) == IF request.iommu THEN JoinedEnds(addr, stop) ELSE {PageEnd(addr, stop)}
-------------------------------------------------------------------------------
(* The descriptors *)

ContiguousOnly(addr, end, cont_len) == request.ring \/ Bus(end) # Bus(addr) + (end - addr) \* mutant
\* A new descriptor begins after the entry from addr to end.
NewDesc(addr, end, cont_len) ==
  \/ Bus(end) # Bus(addr) + (end - addr)
  \/ cont_len > MaxDescBytes - PageSize
  \/ request.ring  \* force_new_desc

AlwaysForward(cont_len) == cont_len \* mutant
NextCard(cont_len) == IF request.mode = "fixed" THEN 0 ELSE cont_len

WithoutPages(i, n) == IF n > i THEN Least(n - i - 1, MaxExtraAdj) ELSE 0 \* mutant
\* xdma_desc_adjacent: how many descriptors the hardware may fetch together with
\* the next one, which is the one at bus address i.
extra_adj(i, n) ==
  IF n > i THEN Least(Least(n - i - 1, MaxExtraAdj), DescPerPage - (i % DescPerPage) - 1) ELSE 0

\* transfer_create: linked and terminated.
transfer_create(list) ==
  LET n == Len(list)
  IN [i \in 1 .. n |-> [host |-> list[i].host, card |-> list[i].card, len |-> list[i].len,
                        next |-> IF i < n THEN i + 1 ELSE 0, stop |-> i = n,
                        adj |-> extra_adj(i, n)]]

\* cyclic_transfer_setup: results for source addresses, and the last linked to
\* the first.
cyclic(list) ==
  [i \in DOMAIN list |->
     [list[i] EXCEPT !.card = i - 1, !.stop = FALSE,
                     !.next = IF i = Len(list) THEN 1 ELSE @,
                     !.adj = IF i = Len(list) THEN 0 ELSE @]]

\* engine_start: what the hardware fetches first.
engine_start(n) == [at |-> 1, last |-> 1 + Least(n - 1, MaxExtraAdj)]
-------------------------------------------------------------------------------
(* transfer_build *)

StartBuild(addr, len, ep_addr) ==
  [list |-> <<>>, addr |-> addr, stop |-> addr + len, cont_addr |-> Bus(addr), cont_len |-> 0, ep_addr |-> ep_addr]

\* The descriptor of the contiguous block that ends at end.
Block(end) ==
  [host |-> build.cont_addr, card |-> build.ep_addr, len |-> build.cont_len + (end - build.addr)]

\* An iteration: an entry before the last is added to the block.
Entry ==
  /\ pc = "build"
  /\ \E end \in EntryEnds(build.addr, build.stop) \ {build.stop} :
       LET cont_len == Block(end).len IN
       build' = IF NewDesc(build.addr, end, cont_len)
                THEN [build EXCEPT !.list = Append(@, Block(end)), !.addr = end, !.cont_addr = Bus(end),
                                   !.cont_len = 0, !.ep_addr = @ + NextCard(cont_len)]
                ELSE [build EXCEPT !.addr = end, !.cont_len = cont_len]
  /\ UNCHANGED <<request, pc, res, loop, desc, hw, moved>>

\* The last entry: the list is complete, and its transfer is queued and started.
LastEntry ==
  /\ pc = "build" /\ build.stop \in EntryEnds(build.addr, build.stop)
  /\ LET list == transfer_create(Append(build.list, Block(build.stop))) IN
       /\ desc' = IF request.ring THEN cyclic(list) ELSE list
       /\ hw' = engine_start(Len(list))
  /\ pc' = "wait" /\ build' = NoBuild
  /\ UNCHANGED <<request, res, loop, moved>>
-------------------------------------------------------------------------------
(* The calls *)

Aligned(x) == x % AddrAlign = 0

AlignedForMM == request.buf % AddrAlign = request.pos % AddrAlign
\* check_transfer_align
check_transfer_align ==
  IF request.mode = "mm" THEN AlignedForMM
  ELSE Aligned(request.buf) /\ Aligned(request.count) /\ (request.mode = "fixed" => Aligned(request.pos))

\* char_sgdma_read_write
Call ==
  /\ pc = "call" /\ ~request.ring
  /\ IF request.matches /\ check_transfer_align
     THEN pc' = "next" /\ UNCHANGED res
     ELSE pc' = "returned" /\ res' = "EINVAL"
  /\ UNCHANGED <<request, loop, build, desc, hw, moved>>

transfer_len == Least(loop.remaining, MaxTransferBytes)

\* Pages that cannot be mapped are a BUG_ON.
Transfer ==
  /\ pc = "next" /\ loop.remaining > 0
  /\ IF request.mapped
     THEN /\ build' = StartBuild(loop.transfer_addr, transfer_len, loop.pos)
          /\ pc' = "build" /\ UNCHANGED res
     ELSE /\ pc' = "returned" /\ res' = "BUG" /\ UNCHANGED build
  /\ UNCHANGED <<request, loop, desc, hw, moved>>

TransferDone ==
  /\ pc = "wait" /\ hw = Stopped /\ ~request.ring
  /\ loop' = [transfer_addr |-> loop.transfer_addr + transfer_len, done |-> loop.done + transfer_len,
              remaining |-> loop.remaining - transfer_len, pos |-> loop.pos + transfer_len]
  /\ desc' = <<>> /\ pc' = "next"
  /\ UNCHANGED <<request, res, build, hw, moved>>

Return ==
  /\ pc = "next" /\ loop.remaining = 0
  /\ pc' = "returned" /\ res' = "done"
  /\ UNCHANGED <<request, loop, build, desc, hw, moved>>

\* cyclic_transfer_setup, which makes one transfer of the whole ring.
RingSetup ==
  /\ pc = "call" /\ request.ring
  /\ build' = StartBuild(request.buf, request.count, request.pos) /\ pc' = "build"
  /\ UNCHANGED <<request, res, loop, desc, hw, moved>>

\* What the hardware makes of the card address: a stream has none, except that
\* the ring's is where the result is written.
CardOf(d, x) ==
  IF request.mode = "mm" THEN d.card + x
  ELSE IF request.mode = "fixed" \/ request.ring THEN d.card ELSE 0

\* It executes a descriptor, and after the last of a block fetches the next.
HwDesc ==
  /\ hw # Stopped /\ Len(moved) < Laps * request.count
  /\ LET d == desc[hw.at] IN
     /\ moved' = moved \o [x \in 1 .. d.len |-> <<d.host + x - 1, CardOf(d, x - 1)>>]
     /\ hw' = IF d.stop THEN Stopped
              ELSE IF hw.at < hw.last THEN [hw EXCEPT !.at = @ + 1]
              ELSE [at |-> d.next, last |-> d.next + d.adj]
  /\ UNCHANGED <<request, pc, res, loop, build, desc>>

Next == Call \/ Transfer \/ Entry \/ LastEntry \/ TransferDone \/ Return \/ RingSetup \/ HwDesc

Spec == Init /\ [][Next]_vars
-------------------------------------------------------------------------------
(* Properties *)

\* Unit k of the request: the ring begins anew after its last page.
HostOf(k) == Bus(request.buf + ((k - 1) % request.count))
CardFor(k) ==
  IF request.mode = "mm" THEN request.pos + k - 1
  ELSE IF request.mode = "fixed" THEN request.pos
  ELSE IF request.ring THEN ((k - 1) % request.count) \div PageSize ELSE 0

Promised ==
  /\ request.mode = "fixed" => request.count <= MaxTransferBytes
  /\ request.ring => ~request.iommu

\* "Iterate over the userspace buffer" (char_sgdma_read_write): the units of the
\* request are moved in their order, each once, between its place in the user's
\* pages and its place on the card, and a request that is done is moved whole; a
\* ring's pages are filled in turn, each with its own result.  transfer_data
\* advances *pos in the fixed mode too, so there only for one transfer; and a ring
\* needs a descriptor for each page.
MovesTheRequest == Promised =>
  /\ \A k \in DOMAIN moved : moved[k] = <<HostOf(k), CardFor(k)>>
  /\ res = "done" => Len(moved) = request.count /\ loop.done = request.count

\* "maximum size of a single DMA transfer descriptor" (XDMA_DESC_MAX_BYTES): no
\* descriptor is longer, unless an IOMMU joined its pages, none is empty, and each
\* has the alignment that check_transfer_align asked of the request.
DescriptorsFit ==
  \A i \in DOMAIN desc : LET d == desc[i] IN
    /\ d.len > 0 /\ (~request.iommu => d.len <= MaxDescBytes)
    /\ request.mode = "mm" => d.host % AddrAlign = d.card % AddrAlign
    /\ request.mode # "mm" => Aligned(d.host) /\ Aligned(d.len)

\* "any adjacent descriptors?" (xdma_desc_alloc, xdma_desc_adjacent): what the
\* hardware fetches together is in the list and in one page of bus addresses.
FetchesInside ==
  hw # Stopped =>
    /\ hw.at \in DOMAIN desc /\ hw.last \in DOMAIN desc
    /\ (hw.at - 1) \div DescPerPage = (hw.last - 1) \div DescPerPage
===============================================================================
