------------------------------ MODULE MCXdmaDesc ------------------------------
(***************************************************************************)
(* The instance of XdmaDesc that TLC checks, and the requests of its run.  *)
(***************************************************************************)
EXTENDS XdmaDesc

\* Contiguous, scattered, backward, and in pieces.
Frames == {[i \in 1 .. 10 |-> i], [i \in 1 .. 10 |-> 2 * i], [i \in 1 .. 10 |-> 11 - i],
           <<1, 2, 4, 5, 6, 7, 3, 8, 9, 10>>}

Of(ring, mode, matches, buf, count, pos, frame, mapped, iommu) ==
  {[ring |-> ring, mode |-> m, matches |-> x, buf |-> b, count |-> c, pos |-> p, frame |-> f,
    mapped |-> y, iommu |-> i]
     : m \in mode, x \in matches, b \in buf, c \in count, p \in pos, f \in frame, y \in mapped, i \in iommu}

\* Every alignment, and every length up to more than two transfers.
Calls == Of(FALSE, {"mm", "fixed", "stream"}, {TRUE}, 0 .. 3, 0 .. 36, {0, 1, 2}, Frames, {TRUE}, {FALSE})

\* With an IOMMU; refused; and not mapped.
OtherCalls ==
  Of(FALSE, {"mm"}, {TRUE}, {0, 3}, {1, 16, 17, 21}, {1, 2}, Frames, {TRUE}, {TRUE})
  \cup Of(FALSE, {"mm"}, BOOLEAN, {0}, {9}, {0}, Frames, BOOLEAN, {FALSE})

Rings == Of(TRUE, {"stream"}, {TRUE}, {0}, {24}, {0}, Frames, {TRUE}, BOOLEAN)

All == Calls \cup OtherCalls \cup Rings
===============================================================================
