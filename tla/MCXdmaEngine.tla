----------------------------- MODULE MCXdmaEngine -----------------------------
(* XdmaEngine on a small instance: interchangeable threads, a short u32. *)
EXTENDS XdmaEngineFifo, TLC

Symmetry == Permutations(Threads)
===============================================================================
