---------------------------- MODULE XdmaEngineFifo ----------------------------
(* The engine of XdmaEngine implements the queue of XdmaFifo. *)
EXTENDS XdmaEngine

\* A transfer the hardware has executed to its last descriptor is executed; it
\* is reported when engine_service stores its state.
Phase(t) ==
  CASE state[t] = "unallocated" -> "new"
    [] state[t] = "SUBMITTED" -> IF moved[t] = desc_num[t] THEN "executed" ELSE "queued"
    [] OTHER -> "reported"

\* The service stores the state of the first transfer before it takes it off.
Unreported ==
  IF transfer_list # <<>> /\ state[Head(transfer_list)] # "SUBMITTED"
  THEN Tail(transfer_list) ELSE transfer_list

Phases == [t \in Xfers |-> Phase(t)]

Fifo == INSTANCE XdmaFifo WITH queue <- Unreported, phase <- Phases

\* Without hardware errors the queue of transfers behind engine->lock, the
\* interrupt and the work item executes and reports transfers in order, and it
\* reports all of them unless a use of freed memory has stopped the service.
ImplementsFifo == Fifo!InOrder /\ ([](svc # "oops") => Fifo!Served)
===============================================================================
