----------------------------- MODULE MCXdmaDevice -----------------------------
(***************************************************************************)
(* The instance of XdmaDevice that TLC checks, and the setups of its runs. *)
(***************************************************************************)
EXTENDS XdmaDevice

Of(poll, devices, early, irq, present, layout, readers, fails) ==
  {[poll_mode |-> p, devices |-> D, early |-> y, irq |-> i, present |-> E, layout |-> l,
    readers |-> R, fails |-> F]
     : p \in poll, D \in devices, y \in early, i \in irq, E \in present, l \in layout,
       R \in readers, F \in fails}

Irqs == {"legacy", "msi", "msix"}

\* One device, where anything may fail.
Failing == Of(BOOLEAN, {{Watched}}, {FALSE}, Irqs, {{1, 2, 3}},
              {<<"config">>, <<"user", "config", "bypass">>}, {{}}, {Steps})

\* Every layout of the BARs, and no H2C engine.
Layered == Of({FALSE}, {{Watched}}, {FALSE}, {"msix"}, {{3, 4}}, Layouts, {{}}, {{"engine"}})

\* Two devices, present when the module is loaded or not.
Two == Of({TRUE}, {Devices}, BOOLEAN, {"msi"}, {{}}, {<<"config">>}, {{}}, {{"interface"}})

\* One device with its events.
Eventful == Of({FALSE}, {{Watched}}, {FALSE}, {"msi", "msix"}, {{3}}, {<<"config">>},
               SUBSET Readers, {{}})

All == Failing \cup Layered \cup Two \cup Eventful
===============================================================================
