------------------------------- MODULE XdmaDevice -------------------------------
(***************************************************************************)
(* The life of the devices of one driver: probe() with the failure of each *)
(* step and its unwinding, the interrupt handlers and work items of a      *)
(* device that is up, its events devices (XdmaEvents), and remove().  What *)
(* the engines do is XdmaEngine; here a work item is pending or not.       *)
(*                                                                         *)
(* In lro[d] the fields named as in struct xdma_dev are what the driver    *)
(* knows; those under "held" are what it really holds, and outlive lro.    *)
(* remove() is that of rmmod, which waits until no file is open; the       *)
(* parameter major is 0, and its number is not given back by any code.     *)
(***************************************************************************)
EXTENDS Integers, Sequences, FiniteSets

CONSTANTS
  Devices,
  Watched,     \* the device whose user interrupt is looked at
  Readers,     \* processes that may open its events device
  Channels,    \* XDMA_CHANNEL_NUM_MAX
  MaxDevices,  \* MAX_XDMA_DEVICES
  MaxProbes,   \* bound: how often each device is probed
  Setups       \* the setups to look at

\* Engines and character devices in the order in which probe() makes them.
H2C     == 1 .. Channels
C2H     == Channels + 1 .. 2 * Channels
Engines == H2C \cup C2H

User == 0
Ctrl == 1
Event == 2
Sg(e) == 2 + e
Bypass(e) == 2 + 2 * Channels + e
Base == 3 + 4 * Channels
Chars == User .. Base

\* The BARs of a device, in order.
Layouts == {<<"config">>, <<"user", "config">>, <<"config", "bypass">>,
            <<"user", "config", "bypass">>}

Steps == {"enable", "msi", "regions", "bars", "mask", "irq", "engine", "interface", "file"}

\* How the module was loaded, its devices, and what may fail.
Setup == [
  poll_mode : BOOLEAN,                \* module parameter
  devices : SUBSET Devices,
  early : BOOLEAN,                    \* they are present when the module is loaded
  irq : {"legacy", "msi", "msix"},    \* what their bus offers
  present : SUBSET Engines,
  layout : Layouts,
  readers : SUBSET Readers,
  fails : SUBSET Steps]

ASSUME DeviceAssumption ==
  /\ Watched \in Devices /\ IsFiniteSet(Readers)
  /\ {Channels, MaxDevices} \subseteq Nat \ {0} /\ MaxProbes \in Nat
  /\ Setups \subseteq Setup

VARIABLES
  setup,        \* never changes
  registering,  \* xdma_init is in pci_register_driver
  dev_present,
  lro,
  probes,
  events_irq, epc, got  \* the user interrupt of Watched

Events == INSTANCE XdmaEvents

eventsVars == <<events_irq, epc, got>>
vars == <<setup, registering, dev_present, lro, probes, eventsVars>>

Labels == {"rmv_cdev", "rmv_interface", "rmv_engine", "disable_irq", "unmap_bar", "rel_region",
           "disable_msi", "free_alloc"}

Device == [
  pc : {"none", "msi", "regions", "map", "mask", "irq", "engines", "interfaces", "enable", "file",
        "up"} \cup Labels,
  removing : BOOLEAN,              \* the labels are passed by remove(), not by probe()
  failed : SUBSET Steps,           \* the steps that ever made a probe fail
  oops : {"none", "freed twice", "handler", "work"},  \* a use of freed memory, by whom
  warned : BOOLEAN,                \* free_irq was called for a handler that is not there
  \* struct xdma_dev
  bar : BOOLEAN, regions_in_use : BOOLEAN, irq_line : BOOLEAN, irq_user_count : BOOLEAN,
  engine : SUBSET Engines, char_dev : SUBSET Chars, instance : -1 .. MaxDevices - 1,
  \* held: 0 in irqs are the device's own handlers, e that of engine e; slots are of dev_present
  alive : BOOLEAN, enabled : BOOLEAN, msi : BOOLEAN, regions : BOOLEAN, irqs : SUBSET (0 .. 2 * Channels),
  engines : SUBSET Engines, wb : SUBSET Engines, chars : SUBSET Chars, file : BOOLEAN,
  slots : SUBSET (0 .. MaxDevices - 1),
  \* the interrupts of the device, and the work of its engines
  ints : BOOLEAN, raised : BOOLEAN, work : SUBSET Engines, orphan : BOOLEAN]

Absent == [
  pc |-> "none", removing |-> FALSE, failed |-> {}, oops |-> "none", warned |-> FALSE,
  bar |-> FALSE, regions_in_use |-> FALSE, irq_line |-> FALSE, irq_user_count |-> FALSE,
  engine |-> {}, char_dev |-> {}, instance |-> -1,
  alive |-> FALSE, enabled |-> FALSE, msi |-> FALSE, regions |-> FALSE, irqs |-> {},
  engines |-> {}, wb |-> {}, chars |-> {}, file |-> FALSE, slots |-> {},
  ints |-> FALSE, raised |-> FALSE, work |-> {}, orphan |-> FALSE]

TypeOK ==
  /\ setup \in Setups /\ registering \in BOOLEAN
  /\ dev_present \in [0 .. MaxDevices - 1 -> BOOLEAN]
  /\ lro \in [Devices -> Device]
  /\ probes \in [Devices -> 0 .. MaxProbes]
  /\ Events!TypeOK

Init ==
  /\ setup \in Setups
  /\ registering = setup.early
  /\ dev_present = [i \in 0 .. MaxDevices - 1 |-> FALSE]
  /\ lro = [d \in Devices |-> Absent]
  /\ probes = [d \in Devices |-> 0]
  /\ Events!Init

\* A step of probe() that fails: where it goes to.
Fails(r, step, label) == [r EXCEPT !.pc = label, !.failed = @ \cup {step}]
MayFail(d, pc, step) == lro[d].pc = pc /\ step \in setup.fails
deviceRest == <<setup, registering, dev_present, probes, eventsVars>>
-------------------------------------------------------------------------------
(* probe() *)

Probe(d) ==
  /\ d \in setup.devices /\ lro[d].pc = "none" /\ probes[d] < MaxProbes
  /\ probes' = [probes EXCEPT ![d] = @ + 1]
  /\ LET r == [lro[d] EXCEPT !.alive = TRUE] IN
     \/ lro' = [lro EXCEPT ![d] = [r EXCEPT !.enabled = TRUE, !.pc = "msi"]]
     \/ /\ "enable" \in setup.fails
        /\ lro' = [lro EXCEPT ![d] = Fails(r, "enable", "free_alloc")]
  /\ UNCHANGED <<setup, registering, dev_present, eventsVars>>

\* msix_enabled or msi_enabled is set even when the bus says no.
ScanForMsi(d) ==
  /\ \/ lro[d].pc = "msi"
        /\ lro' = [lro EXCEPT ![d].msi = setup.irq # "legacy", ![d].pc = "regions"]
     \/ MayFail(d, "msi", "msi") /\ setup.irq # "legacy"
        /\ lro' = [lro EXCEPT ![d] = Fails(@, "msi", "disable_msi")]
  /\ UNCHANGED deviceRest

RequestRegions(d) ==
  /\ \/ lro[d].pc = "regions"
        /\ lro' = [lro EXCEPT ![d].regions = TRUE, ![d].pc = "map"]
     \/ MayFail(d, "regions", "regions")
        /\ lro' = [lro EXCEPT ![d] = Fails([@ EXCEPT !.regions_in_use = TRUE], "regions", "rel_region")]
  /\ UNCHANGED deviceRest

\* Failing, it has unmapped what it had mapped.
MapBars(d) ==
  /\ \/ lro[d].pc = "map"
        /\ lro' = [lro EXCEPT ![d].bar = TRUE, ![d].pc = "mask"]
     \/ MayFail(d, "map", "bars")
        /\ lro' = [lro EXCEPT ![d] = Fails(@, "bars", "unmap_bar")]
  /\ UNCHANGED deviceRest

SetDmaMask(d) ==
  /\ \/ lro[d].pc = "mask" /\ lro' = [lro EXCEPT ![d].pc = "irq"]
     \/ MayFail(d, "mask", "mask")
        /\ lro' = [lro EXCEPT ![d] = Fails(@, "mask", "unmap_bar")]
  /\ UNCHANGED deviceRest

CountAnyway == setup.irq = "msix" \* mutant
UserCountOnFailure == FALSE

\* msix_irq_setup gives its vectors back when one is refused; without MSI-X
\* irq_line is set before the line is requested.
IrqSetup(d) ==
  /\ \/ lro[d].pc = "irq"
        /\ lro' = [lro EXCEPT ![d].irqs = {0}, ![d].irq_user_count = setup.irq = "msix",
                              ![d].irq_line = setup.irq # "msix", ![d].pc = "engines"]
     \/ MayFail(d, "irq", "irq")
        /\ lro' = [lro EXCEPT ![d] = Fails([@ EXCEPT !.irq_user_count = UserCountOnFailure,
                                                     !.irq_line = setup.irq # "msix"], "irq", "disable_irq")]
  /\ UNCHANGED deviceRest

Below(S, n) == {x \in S : x < n}

\* engine_create for the engines of S, in MSI-X mode with a vector each.
WithEngines(r, S) ==
  [r EXCEPT !.engine = S, !.engines = S,
            !.wb = IF setup.poll_mode THEN S ELSE {},
            !.irqs = @ \cup (IF setup.irq = "msix" THEN S ELSE {})]

\* engine_destroy for each of them; the pointers stay.
remove_engines(r) ==
  [r EXCEPT !.engines = {}, !.wb = {}, !.irqs = @ \ r.engine,
            !.orphan = @ \/ r.work # {}, !.work = {}]

\* probe_for_engine: those whose identifier registers say so.
Found == setup.present

VectorKept(r, e) == IF setup.irq = "msix" THEN [r EXCEPT !.irqs = @ \cup {e}] ELSE r \* mutant
\* A failing engine_create gives back what it had taken for engine e.
EngineFails(r, e) == r

\* A failing H2C engine makes probe_engines take the others down; a failing C2H
\* engine ends the scan.
ProbeEngines(d) ==
  /\ \/ /\ lro[d].pc = "engines"
        /\ lro' = [lro EXCEPT ![d] = [WithEngines(@, Found) EXCEPT !.pc = "interfaces"]]
     \/ /\ MayFail(d, "engines", "engine")
        /\ \E e \in Found \cap H2C :
             lro' = [lro EXCEPT ![d] =
               Fails(remove_engines(EngineFails(WithEngines(@, Below(Found, e)), e)),
                     "engine", "rmv_engine")]
     \/ /\ MayFail(d, "engines", "engine")
        /\ \E e \in Found \cap C2H :
             lro' = [lro EXCEPT ![d] =
               [EngineFails(WithEngines(@, Below(Found, e)), e) EXCEPT !.pc = "interfaces"]]
  /\ UNCHANGED deviceRest

\* identify_bars: what the BARs are for, from their number and the position of
\* the config BAR.
num_bars == Len(setup.layout)
config_bar_pos == CHOOSE i \in 0 .. num_bars - 1 : setup.layout[i + 1] = "config"
ByPosition == config_bar_pos = 0 /\ num_bars > 2 \* mutant
UserBar   == num_bars \in {2, 3} /\ config_bar_pos = 1
BypassBar == (num_bars = 2 /\ config_bar_pos = 0) \/ (num_bars = 3 /\ config_bar_pos = 1)

\* What create_interfaces makes.
Wanted(r) ==
  (IF UserBar THEN {User} ELSE {}) \cup {Ctrl, Event} \cup {Sg(e) : e \in r.engine}
  \cup (IF BypassBar THEN {Bypass(e) : e \in r.engine} \cup {Base} ELSE {})

\* Those whose failure is not noticed.
Unnoticed == IF "interface" \in setup.fails THEN SUBSET {Event, Base} ELSE {{}}

\* create_sg_char for the first device of an instance looks for a free slot.
AnySlot == 0 .. MaxDevices - 1 \* mutant
FreeSlots == {i \in 0 .. MaxDevices - 1 : ~dev_present[i]}
FirstFree == CHOOSE i \in FreeSlots : \A j \in FreeSlots : i <= j

\* Mutant: the number after the slot.
NextSlot(r) == [r EXCEPT !.instance = FirstFree + 1, !.slots = @ \cup {FirstFree}]
TakeSlot(r) == [r EXCEPT !.instance = FirstFree, !.slots = @ \cup {FirstFree}]

CreateInterfaces(d) ==
  /\ lro[d].pc = "interfaces" /\ FreeSlots # {}
  /\ dev_present' = [dev_present EXCEPT ![FirstFree] = TRUE]
  /\ \E missing \in Unnoticed :
       lro' = [lro EXCEPT ![d] = [TakeSlot(@) EXCEPT !.char_dev = Wanted(lro[d]) \ missing,
                                                     !.chars = Wanted(lro[d]) \ missing, !.pc = "enable"]]
  /\ UNCHANGED <<setup, registering, probes, eventsVars>>

\* The device cannot be made, not even the first one ...
CreateNothing(d) ==
  /\ lro[d].pc = "interfaces"
  /\ FreeSlots = {} \/ "interface" \in setup.fails
  /\ lro' = [lro EXCEPT ![d] = Fails(@, "interface", "rmv_interface")]
  /\ UNCHANGED deviceRest

\* ... or a later one, and it takes those before it down; the slot stays taken.
CreateSome(d) ==
  /\ MayFail(d, "interfaces", "interface") /\ FreeSlots # {}
  /\ dev_present' = [dev_present EXCEPT ![FirstFree] = TRUE]
  /\ \E c \in Wanted(lro[d]) \ {Event, Base}, missing \in Unnoticed :
       lro' = [lro EXCEPT ![d] = Fails([TakeSlot(@) EXCEPT !.char_dev = Below(Wanted(lro[d]), c) \ missing],
                                       "interface", "rmv_interface")]
  /\ UNCHANGED <<setup, registering, probes, eventsVars>>

EnableInterrupts(d) ==
  /\ lro[d].pc = "enable"
  /\ lro' = [lro EXCEPT ![d].ints = TRUE, ![d].pc = "file"]
  /\ UNCHANGED deviceRest

CreateFile(d) ==
  /\ \/ lro[d].pc = "file" /\ lro' = [lro EXCEPT ![d].file = TRUE, ![d].pc = "up"]
     \/ MayFail(d, "file", "file")
        /\ lro' = [lro EXCEPT ![d] = Fails(@, "file", "rmv_cdev")]
  /\ UNCHANGED deviceRest
-------------------------------------------------------------------------------
(* The unwinding of probe(), and remove() *)

\* rmmod: no file is open.
Remove(d) ==
  /\ lro[d].pc = "up" /\ ~registering
  /\ d = Watched => \A r \in Readers : epc[r] = "idle"
  /\ lro' = [lro EXCEPT ![d].ints = FALSE, ![d].removing = TRUE, ![d].pc = "rmv_interface"]
  /\ UNCHANGED deviceRest

RmvCdev(d) ==
  /\ lro[d].pc = "rmv_cdev"
  /\ dev_present' = [dev_present EXCEPT ![lro[d].instance] = FALSE]
  /\ lro' = [lro EXCEPT ![d].slots = @ \ {lro[d].instance}, ![d].pc = "rmv_interface"]
  /\ UNCHANGED <<setup, registering, probes, eventsVars>>

\* destroy_interfaces follows its pointers, to what create_interfaces may have freed.
DestroyInterfaces(d) ==
  /\ lro[d].pc = "rmv_interface"
  /\ lro' = [lro EXCEPT ![d] =
       IF @.char_dev \subseteq @.chars THEN [@ EXCEPT !.chars = {}, !.pc = "rmv_engine"]
                                       ELSE [@ EXCEPT !.oops = "freed twice"]]
  /\ UNCHANGED deviceRest

BarsFirst == "unmap_bar" \* mutant
AfterEngines == "disable_irq"

\* So does remove_engines.  A work item that is pending stays so.
RemoveEngines(d) ==
  /\ lro[d].pc = "rmv_engine"
  /\ lro' = [lro EXCEPT ![d] =
       IF @.engine \subseteq @.engines THEN [remove_engines(@) EXCEPT !.pc = AfterEngines]
                                       ELSE [@ EXCEPT !.oops = "freed twice"]]
  /\ UNCHANGED deviceRest

\* free_irq, for a handler that should be there.
free_irqs(r) == [r EXCEPT !.irqs = @ \ {0}, !.warned = @ \/ 0 \notin r.irqs, !.raised = FALSE]

IrqTeardown(d) ==
  /\ lro[d].pc = "disable_irq"
  /\ lro' = [lro EXCEPT ![d] =
       [(IF @.irq_user_count \/ @.irq_line THEN free_irqs(@) ELSE @) EXCEPT !.pc = "unmap_bar"]]
  /\ UNCHANGED deviceRest

UnmapBars(d) ==
  /\ lro[d].pc = "unmap_bar"
  /\ lro' = [lro EXCEPT ![d].bar = FALSE, ![d].pc = "rel_region"]
  /\ UNCHANGED deviceRest

RelRegion(d) ==
  /\ lro[d].pc = "rel_region"
  /\ lro' = [lro EXCEPT ![d].regions = FALSE, ![d].pc = "disable_msi"]
  /\ UNCHANGED deviceRest

\* A device whose regions are in use stays enabled.
DisableMsi(d) ==
  /\ lro[d].pc = "disable_msi"
  /\ lro' = [lro EXCEPT ![d].msi = FALSE, ![d].enabled = @ /\ lro[d].regions_in_use,
                        ![d].pc = "free_alloc"]
  /\ UNCHANGED deviceRest

\* What the driver knew is gone; what it still held is lost.
Freed(r) ==
  [Absent EXCEPT !.failed = r.failed, !.warned = r.warned, !.irqs = r.irqs, !.bar = r.bar,
     !.enabled = r.enabled, !.msi = r.msi, !.regions = r.regions, !.engines = r.engines,
     !.wb = r.wb, !.chars = r.chars, !.file = r.file, !.slots = r.slots,
     !.ints = r.ints, !.orphan = r.orphan]

\* kfree(lro); remove() first gives its slot and its attribute file back.
FreeAlloc(d) ==
  LET r == lro[d] IN
  /\ r.pc = "free_alloc"
  /\ IF r.removing
     THEN /\ dev_present' = [dev_present EXCEPT ![r.instance] = FALSE]
          /\ lro' = [lro EXCEPT ![d] =
               Freed([r EXCEPT !.file = FALSE, !.slots = @ \ {r.instance}])]
     ELSE lro' = [lro EXCEPT ![d] = Freed(r)] /\ UNCHANGED dev_present
  /\ IF d = Watched THEN events_irq' = FALSE /\ got' = [x \in Readers |-> "none"] /\ UNCHANGED epc
                    ELSE UNCHANGED eventsVars
  /\ UNCHANGED <<setup, registering, probes>>

\* xdma_init: the driver is registered, which probes the devices that are there;
\* only then are the slots cleared.
XdmaInit ==
  /\ registering
  /\ \A d \in setup.devices : probes[d] > 0 /\ lro[d].pc \in {"none", "up"}
  /\ registering' = FALSE
  /\ dev_present' = [i \in DOMAIN dev_present |-> FALSE]
  /\ UNCHANGED <<setup, lro, probes, eventsVars>>
-------------------------------------------------------------------------------
(* Interrupts *)

Raise(d) ==
  /\ lro[d].ints /\ ~lro[d].raised /\ lro[d].irqs # {}
  /\ lro' = [lro EXCEPT ![d].raised = TRUE]
  /\ UNCHANGED deviceRest

\* A user interrupt of the device, or none.
UserIrq(d) ==
  \/ d = Watched /\ Events!user_irq_service
  \/ UNCHANGED eventsVars

Dangling(r) == r.engine \ r.engines

\* xdma_isr looks at every engine it has a pointer to; with a legacy interrupt
\* it also runs for the other devices on the line.
Isr(d) ==
  /\ setup.irq # "msix" /\ 0 \in lro[d].irqs
  /\ IF Dangling(lro[d]) # {}
     THEN /\ lro[d].raised \/ setup.irq = "legacy"
          /\ lro' = [lro EXCEPT ![d].oops = "handler"] /\ UNCHANGED eventsVars
     ELSE /\ lro[d].raised
          /\ \E S \in SUBSET lro[d].engine :
               /\ setup.poll_mode => S = {}
               /\ lro' = [lro EXCEPT ![d].raised = FALSE, ![d].work = @ \cup S]
          /\ UserIrq(d)
  /\ UNCHANGED <<setup, registering, dev_present, probes>>

\* xdma_user_irq
UserVector(d) ==
  /\ setup.irq = "msix" /\ 0 \in lro[d].irqs /\ lro[d].raised
  /\ lro' = [lro EXCEPT ![d].raised = FALSE]
  /\ UserIrq(d)
  /\ UNCHANGED <<setup, registering, dev_present, probes>>

\* xdma_channel_irq
ChannelVector(d, e) ==
  /\ setup.irq = "msix" /\ e \in lro[d].irqs /\ lro[d].raised /\ ~setup.poll_mode
  /\ lro' = [lro EXCEPT ![d].raised = FALSE, ![d].work = @ \cup {e}]
  /\ UNCHANGED deviceRest

EngineWork(d, e) ==
  /\ e \in lro[d].work
  /\ lro' = [lro EXCEPT ![d].work = @ \ {e}]
  /\ UNCHANGED deviceRest

\* A work item of an engine that was freed.
OrphanWork(d) ==
  /\ lro[d].orphan
  /\ lro' = [lro EXCEPT ![d].oops = "work"]
  /\ UNCHANGED deviceRest

\* Processes open the events device of a device that is up and has one.
EventsOf(r) ==
  /\ r \in setup.readers
  /\ \/ /\ lro[Watched].pc = "up" /\ Event \in lro[Watched].char_dev
        /\ Events!ReadStart(r) \/ Events!PollStart(r)
     \/ Events!ReadInterrupted(r) \/ Events!ReaderStep(r)
  /\ UNCHANGED <<setup, registering, dev_present, lro, probes>>
-------------------------------------------------------------------------------
ProbeStep(d) ==
  \/ Probe(d) \/ ScanForMsi(d) \/ RequestRegions(d) \/ MapBars(d) \/ SetDmaMask(d) \/ IrqSetup(d)
  \/ ProbeEngines(d) \/ CreateInterfaces(d) \/ CreateNothing(d) \/ CreateSome(d)
  \/ EnableInterrupts(d) \/ CreateFile(d)

RemoveStep(d) ==
  \/ Remove(d) \/ RmvCdev(d) \/ DestroyInterfaces(d) \/ RemoveEngines(d) \/ IrqTeardown(d)
  \/ UnmapBars(d) \/ RelRegion(d) \/ DisableMsi(d) \/ FreeAlloc(d)

Interrupt(d) ==
  \/ Raise(d) \/ Isr(d) \/ UserVector(d) \/ OrphanWork(d)
  \/ \E e \in Engines : ChannelVector(d, e) \/ EngineWork(d, e)

\* After a use of freed memory anything may happen: the behaviour ends.
Sane == \A d \in Devices : lro[d].oops = "none"

Next ==
  /\ Sane
  /\ \/ \E d \in Devices : ProbeStep(d) \/ RemoveStep(d) \/ Interrupt(d)
     \/ XdmaInit
     \/ \E r \in Readers : EventsOf(r)

ReaderStep(r) ==
  Sane /\ Events!ReaderStep(r) /\ UNCHANGED <<setup, registering, dev_present, lro, probes>>

\* A runnable reader is scheduled.
Fairness == \A r \in Readers : WF_vars(ReaderStep(r))

Spec == Init /\ [][Next]_vars
FairSpec == Spec /\ Fairness
-------------------------------------------------------------------------------
(* Properties *)

\* "Unmap the BAR regions" only after the handlers are gone (probe, remove): a
\* handler finds the registers mapped, lro and, in MSI-X mode, its engine.
HandlersSafe ==
  \A d \in Devices : \A i \in lro[d].irqs :
    lro[d].alive /\ lro[d].bar /\ (i # 0 => i \in lro[d].engines)

\* A failed probe() and remove() give everything back, except what probe() says
\* ("assume device is in use so do not disable it later"), the slot of a device
\* whose character devices could not be made, and the interrupts of one whose
\* attribute file could not.
NothingLeft ==
  \A d \in Devices : LET r == lro[d] IN r.pc = "none" =>
    /\ r.irqs = {} /\ ~r.bar /\ ~r.regions /\ ~r.msi /\ ~r.file
    /\ r.engines = {} /\ r.wb = {} /\ r.chars = {}
    /\ r.enabled => "regions" \in r.failed
    /\ r.slots # {} => "interface" \in r.failed
    /\ r.ints => "file" \in r.failed

\* "unwind; unmap any BARs that we did map" (map_bars): what a step has given back
\* itself is not given back again by probe(), except for its engines, its
\* character devices and its one interrupt line.
UnwindsOnce ==
  \A d \in Devices :
    /\ lro[d].oops = "freed twice" => lro[d].failed \cap {"engine", "interface"} # {}
    /\ lro[d].warned => setup.irq # "msix" /\ "irq" \in lro[d].failed

\* A device that is up has a handler for every engine, a character device for
\* every engine and BAR (identify_bars), and every H2C engine of the hardware.
UpMeansServed ==
  \A d \in Devices : LET r == lro[d] IN r.pc = "up" =>
    /\ r.engine = r.engines /\ setup.present \cap H2C \subseteq r.engine
    /\ 0 \in r.irqs /\ (setup.irq = "msix" => r.engine \subseteq r.irqs)
    /\ {Ctrl} \cup {Sg(e) : e \in r.engine} \subseteq r.chars
    /\ User \in r.chars <=> \E i \in DOMAIN setup.layout : setup.layout[i] = "user"
    /\ {c \in r.chars : c > 2 + 2 * Channels /\ c < Base} =
         IF \E i \in DOMAIN setup.layout : setup.layout[i] = "bypass"
         THEN {Bypass(e) : e \in r.engine} ELSE {}

\* "new instance?" (create_sg_char): devices that are up have different instance
\* numbers, hence names, when they came after the module was loaded.
InstancesDiffer ==
  \A d1, d2 \in Devices : lro[d1].pc = "up" /\ lro[d2].pc = "up" /\ d1 # d2 =>
    lro[d1].instance # lro[d2].instance
InstancesDifferLater == ~setup.early => InstancesDiffer

\* "Disable interrupts to stop processing new events during shutdown"
\* (engine_destroy): no work item outlives its engine.
NoOrphanWork == \A d \in Devices : ~lro[d].orphan

\* "sleep until any interrupt events have occurred" (char_events_read): the only
\* reader of an events device returns with an event, and finds the one that
\* poll() has told it of.
SoleReaderSeesEvents ==
  Cardinality(setup.readers) <= 1 => Events!ReadMeansEvent /\ Events!ReadableStays

\* Every wait for events ends when there is one, unless the kernel has crashed.
Crashed == ~Sane
EventWakes ==
  \A r \in Readers : events_irq /\ epc[r] # "idle" ~> epc[r] = "idle" \/ ~events_irq \/ Crashed
===============================================================================
