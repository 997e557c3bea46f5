----------------------------- MODULE MCXdmaCyclic -----------------------------
(***************************************************************************)
(* The instance of XdmaCyclic that TLC checks, and the setups of its runs. *)
(***************************************************************************)
EXTENDS XdmaCyclic

Of(mode, users, signals, errors, fails) ==
  {[poll_mode |-> m, users |-> U, signals |-> s, errors |-> e, fails |-> fails]
     : m \in mode, U \in users, s \in signals, e \in errors}

One == {{u} : u \in Users}

\* One process, in both modes, with and without signals and errors.
Single == Of(BOOLEAN, One, BOOLEAN, 0 .. MaxErrors, {"pci_alloc"})

\* All processes, and every allocation may fail.
Several == Of({FALSE}, {Users}, {FALSE}, {0}, {"rvmalloc", "transfer_create", "pci_alloc"})

All == Single \cup Several
===============================================================================
