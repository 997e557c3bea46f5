----------------------------- MODULE MCXdmaCalls -----------------------------
(***************************************************************************)
(* The instance of XdmaCalls that TLC checks.                              *)
(***************************************************************************)
EXTENDS XdmaCalls

CONSTANTS c1, c2

Segs(n) == [chunks |-> n, aligned |-> TRUE]
Bent == [chunks |-> 1, aligned |-> FALSE]

Users(first, second, patient, ioctls, bad, errs) ==
  {[requests |-> (c1 :> first) @@ (c2 :> second), patient |-> patient, starts |-> ioctls,
    errors |-> errs, bad_version |-> bad, bad_copy |-> bad]}

\* Two requests at once and an error: one of several chunks, of two segments,
\* with an empty or with a misaligned second segment.
Asynchronous ==
  UNION {Users(first, <<Segs(1)>>, TRUE, 0, FALSE, 1) :
           first \in {<<Segs(2)>>, <<Segs(1), Segs(2)>>, <<Segs(1), Segs(0)>>, <<Segs(1), Bent>>}}

\* Measurements beside one request, with an error or with failing ioctls.
Measured ==
  Users(<<Segs(2)>>, <<>>, TRUE, 2, TRUE, 0) \cup Users(<<Segs(1)>>, <<>>, TRUE, 2, FALSE, 1)

\* Measurements stopped at any time, beside two requests.
Hasty == Users(<<Segs(1)>>, <<Segs(1)>>, FALSE, 2, FALSE, 0)

All == Asynchronous \cup Measured \cup Hasty
===============================================================================
