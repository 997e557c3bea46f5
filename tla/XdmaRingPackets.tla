----------------------------- MODULE XdmaRingPackets -----------------------------
(***************************************************************************)
(* The ring with one reader implements the channel of XdmaPackets.         *)
(***************************************************************************)
EXTENDS XdmaRing

TheReader == CHOOSE r \in setup.readers : TRUE

\* The last block of its last read.
LastTaken ==
  LET read == ret[TheReader].blocks IN
  IF read = <<>> THEN 0 ELSE read[Len(read)]

SomeReads == \E r \in Readers : pc[r] # "idle"

Packets == INSTANCE XdmaPackets WITH
  sent <- produced, ends <- eops, taken <- LastTaken, reading <- SomeReads

\* With credits, each read returns the next packet of the stream, whole, and
\* does so when the packet has come.
ImplementsPackets == Packets!Spec
===============================================================================
