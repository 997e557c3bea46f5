------------------------------ MODULE MCXdmaRing ------------------------------
(***************************************************************************)
(* The instance of XdmaRing that TLC checks, and the setups of its runs.   *)
(***************************************************************************)
EXTENDS XdmaRingPackets, TLC

ReaderSymmetry == Permutations(Readers)

One == {R \in SUBSET Readers : Cardinality(R) = 1}

InterruptMode(c, readers, signals, errors, bad, blocks, ahead) ==
  {[poll_mode |-> FALSE, enable_credit_mp |-> c, readers |-> R, signals |-> signals,
    errors |-> errors, bad |-> bad, blocks |-> blocks, ahead |-> ahead] : R \in readers}

\* One reader and a source that has a credit for each page.
Credit == InterruptMode(TRUE, One, FALSE, 0, 0, MaxBlocks, MaxBlocks)

\* Two threads that read from one open file.
Shared == InterruptMode(TRUE, {Readers}, FALSE, 0, 0, 4, 4)

\* A source without credits that waits for its reader.
Paced == InterruptMode(FALSE, One, TRUE, 1, 0, 5, Pages - 1)

\* Signals, an error that halts the engine, and a bad result.
Faults == InterruptMode(TRUE, One, TRUE, 1, 1, 5, 5)

Polled ==
  {[poll_mode |-> TRUE, enable_credit_mp |-> c, readers |-> R, signals |-> FALSE,
    errors |-> 1, bad |-> 0, blocks |-> 6, ahead |-> Pages - 1] : R \in One, c \in BOOLEAN}

Modes == Credit \cup Shared \cup Paced \cup Faults \cup Polled
===============================================================================
