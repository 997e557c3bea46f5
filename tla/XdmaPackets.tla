------------------------------- MODULE XdmaPackets -------------------------------
(***************************************************************************)
(* What a C2H stream channel with one reader promises: the source sends    *)
(* blocks, some of which end a packet, and each read returns the next      *)
(* whole packet, as soon as there is one.                                  *)
(***************************************************************************)
EXTENDS Naturals

CONSTANT MaxBlocks  \* bound: blocks the source sends

VARIABLES
  sent,     \* blocks sent so far
  ends,     \* those that end a packet
  taken,    \* the last block that was read
  reading   \* a read is going on

vars == <<sent, ends, taken, reading>>

Init == sent = 0 /\ ends = {} /\ taken = 0 /\ reading = FALSE

Send ==
  /\ sent < MaxBlocks
  /\ sent' = sent + 1
  /\ ends' \in {ends, ends \cup {sent + 1}}
  /\ UNCHANGED <<taken, reading>>

Begin == ~reading /\ reading' = TRUE /\ UNCHANGED <<sent, ends, taken>>

\* The next end of a packet is the last block read now.
Return ==
  /\ reading
  /\ \E e \in ends :
       /\ e > taken
       /\ \A f \in ends : f > taken => e <= f
       /\ taken' = e
  /\ reading' = FALSE
  /\ UNCHANGED <<sent, ends>>

Next == Send \/ Begin \/ Return

InOrder == Init /\ [][Next]_vars
Spec == InOrder /\ WF_vars(Return)
===============================================================================
