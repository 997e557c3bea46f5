------------------------------- MODULE XdmaFifo -------------------------------
(***************************************************************************)
(* What an engine promises the threads that queue transfers on it: the     *)
(* transfers are executed one at a time in the order they were queued,     *)
(* each exactly once, and a transfer is reported complete only after it    *)
(* was executed and before the next one starts.                            *)
(***************************************************************************)
EXTENDS Sequences

CONSTANT Xfers

VARIABLES queue, phase

vars == <<queue, phase>>

Init ==
  /\ queue = <<>>
  /\ phase = [t \in Xfers |-> "new"]

Submit(t) ==
  /\ phase[t] = "new"
  /\ queue' = Append(queue, t)
  /\ phase' = [phase EXCEPT ![t] = "queued"]

Execute ==
  /\ queue # <<>>
  /\ phase[Head(queue)] = "queued"
  /\ phase' = [phase EXCEPT ![Head(queue)] = "executed"]
  /\ UNCHANGED queue

Report ==
  /\ queue # <<>>
  /\ phase[Head(queue)] = "executed"
  /\ phase' = [phase EXCEPT ![Head(queue)] = "reported"]
  /\ queue' = Tail(queue)

Next == (\E t \in Xfers : Submit(t)) \/ Execute \/ Report

InOrder == Init /\ [][Next]_vars
Served == WF_vars(Execute) /\ WF_vars(Report)
Spec == InOrder /\ Served
===============================================================================
