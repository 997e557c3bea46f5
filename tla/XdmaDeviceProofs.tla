---------------------------- MODULE XdmaDeviceProofs ----------------------------
(***************************************************************************)
(* The safety of XdmaDevice, for any devices, engines and setups: each     *)
(* failure of probe() is unwound, and the handlers of a device find what   *)
(* they use.                                                               *)
(***************************************************************************)
EXTENDS XdmaDevice, FiniteSetTheorems, WellFoundedInduction, TLAPS

\* Where a device has its character devices, its engines, its handlers, and its
\* registers.
UpPcs     == {"enable", "file", "up", "rmv_cdev"}
CharPcs   == UpPcs \cup {"rmv_interface"}
EnginePcs == CharPcs \cup {"interfaces", "rmv_engine"}
IrqPcs    == EnginePcs \cup {"engines", "disable_irq"}
BarPcs    == IrqPcs \cup {"mask", "irq"}

\* What is held, where probe() has come to, or its unwinding, or remove().
HeldInv(r) ==
  /\ r.alive <=> r.pc # "none"
  /\ r.removing => r.pc \in Labels \ {"rmv_cdev"}
  /\ r.bar => r.pc \in BarPcs \cup {"unmap_bar"}
  /\ r.pc \in BarPcs => r.bar
  /\ r.irqs # {} => r.pc \in IrqPcs
  /\ r.irqs \subseteq {0} \cup r.engines
  /\ r.regions => r.pc \notin {"none", "msi", "regions", "disable_msi", "free_alloc"}
  /\ r.msi => r.pc \notin {"none", "msi", "free_alloc"}
  /\ r.file => r.pc = "up" \/ r.removing
  /\ r.regions_in_use => "regions" \in r.failed
  /\ r.enabled /\ r.pc \in {"none", "free_alloc"} => "regions" \in r.failed
  /\ r.engines # {} \/ r.wb # {} => r.pc \in EnginePcs
  /\ r.engines \subseteq r.engine
  /\ r.chars # {} => r.pc \in CharPcs
  /\ r.ints => "file" \in r.failed \/ r.pc \in {"file", "up"}

\* The slot of dev_present that a device has is the one of its number.
Owns(r) == r.pc \in UpPcs \/ r.removing
SlotInv(r) ==
  "interface" \notin r.failed => r.slots \subseteq {r.instance} /\ (r.slots # {} => Owns(r))

\* The driver's pointers lead to what it holds, unless create_interfaces or
\* probe_engines has failed.
PointerInv(r) ==
  /\ r.pc \in EnginePcs \ {"rmv_engine"} => r.engine = r.engines
  /\ r.pc = "rmv_engine" => r.engine \subseteq r.engines \/ "engine" \in r.failed
  /\ r.pc \in UpPcs => r.char_dev = r.chars
  /\ r.pc = "rmv_interface" => r.char_dev \subseteq r.chars \/ "interface" \in r.failed
  /\ r.oops = "freed twice" => r.failed \cap {"engine", "interface"} # {}

\* It knows of the handlers that are there, and of one more if their request failed
\* without MSI-X.
HandlerInv(r) ==
  /\ r.pc \in IrqPcs =>
       \/ 0 \in r.irqs /\ (r.irq_user_count \/ r.irq_line)
       \/ /\ r.pc = "disable_irq" /\ 0 \notin r.irqs /\ ~r.irq_user_count
          /\ r.irq_line => setup.irq # "msix" /\ "irq" \in r.failed
  /\ r.warned => setup.irq # "msix" /\ "irq" \in r.failed

\* A probe() that goes on has made what a device that is up has.
MadeInv(r) ==
  /\ r.pc \in {"interfaces", "enable", "file", "up"} =>
       setup.present \cap H2C \subseteq r.engine /\ (setup.irq = "msix" => r.engine \subseteq r.irqs)
  /\ r.pc \in {"enable", "file", "up"} => \E missing \in SUBSET {Event, Base} : r.chars = Wanted(r) \ missing

DeviceInv(r) ==
  HeldInv(r) /\ SlotInv(r) /\ PointerInv(r) /\ HandlerInv(r) /\ MadeInv(r)

\* Once the module is loaded, no two devices have one number.
NumberInv ==
  ~setup.early =>
    /\ ~registering
    /\ \A d \in Devices : Owns(lro[d]) =>
         lro[d].instance \in 0 .. MaxDevices - 1 /\ dev_present[lro[d].instance]
    /\ \A c, d \in Devices : Owns(lro[c]) /\ Owns(lro[d]) /\ c # d => lro[c].instance # lro[d].instance

\* What a sole reader has seen no other takes.
SeenInv ==
  /\ \A x \in Readers : epc[x] = "take" => events_irq
  /\ Events!ReadMeansEvent /\ Events!ReadableStays

\* Processes are in a call only while the device is up.
EventsInv ==
  /\ \A x \in Readers : epc[x] # "idle" => x \in setup.readers /\ lro[Watched].pc = "up"
  /\ \A x \in Readers : got[x] # "none" => x \in setup.readers
  /\ Cardinality(setup.readers) <= 1 => SeenInv
-------------------------------------------------------------------------------
(* The records of one device *)

Fields == {"pc", "removing", "failed", "oops", "warned", "bar", "regions_in_use", "irq_line",
  "irq_user_count", "engine", "char_dev", "instance", "alive", "enabled", "msi", "regions", "irqs",
  "engines", "wb", "chars", "file", "slots", "ints", "raised", "work", "orphan"}

Typed(r) ==
  /\ r.pc \in {"none", "msi", "regions", "map", "mask", "irq", "engines", "interfaces", "enable",
               "file", "up"} \cup Labels
  /\ r.removing \in BOOLEAN /\ r.failed \subseteq Steps
  /\ r.oops \in {"none", "freed twice", "handler", "work"} /\ r.warned \in BOOLEAN
  /\ r.bar \in BOOLEAN /\ r.regions_in_use \in BOOLEAN /\ r.irq_line \in BOOLEAN
  /\ r.irq_user_count \in BOOLEAN /\ r.engine \subseteq Engines /\ r.char_dev \subseteq Chars
  /\ r.instance \in -1 .. MaxDevices - 1 /\ r.alive \in BOOLEAN /\ r.enabled \in BOOLEAN
  /\ r.msi \in BOOLEAN /\ r.regions \in BOOLEAN /\ r.irqs \subseteq 0 .. 2 * Channels
  /\ r.engines \subseteq Engines /\ r.wb \subseteq Engines /\ r.chars \subseteq Chars
  /\ r.file \in BOOLEAN /\ r.slots \subseteq 0 .. MaxDevices - 1
  /\ r.ints \in BOOLEAN /\ r.raised \in BOOLEAN /\ r.work \subseteq Engines /\ r.orphan \in BOOLEAN

\* struct xdma_dev and what is held, field by field.
LEMMA DeviceFields == \A r : r \in Device <=> r = [f \in Fields |-> r[f]] /\ Typed(r)
BY DEF Device, Fields, Typed

\* Each is a field (cited, so that the set need not be expanded).
LEMMA AllFields ==
  /\ "pc" \in Fields /\ "removing" \in Fields /\ "failed" \in Fields /\ "oops" \in Fields
  /\ "warned" \in Fields /\ "bar" \in Fields /\ "regions_in_use" \in Fields /\ "irq_line" \in Fields
  /\ "irq_user_count" \in Fields /\ "engine" \in Fields /\ "char_dev" \in Fields /\ "instance" \in Fields
  /\ "alive" \in Fields /\ "enabled" \in Fields /\ "msi" \in Fields /\ "regions" \in Fields
  /\ "irqs" \in Fields /\ "engines" \in Fields /\ "wb" \in Fields /\ "chars" \in Fields
  /\ "file" \in Fields /\ "slots" \in Fields /\ "ints" \in Fields /\ "raised" \in Fields
  /\ "work" \in Fields /\ "orphan" \in Fields
BY DEF Fields

LEMMA Sizes ==
  Channels \in Nat \ {0} /\ MaxDevices \in Nat \ {0} /\ MaxProbes \in Nat /\ {0} \subseteq 0 .. 2 * Channels
  /\ (setup \in Setups => setup \in Setup)
BY DeviceAssumption

LEMMA AbsentFields ==
  Absent = [f \in Fields |-> Absent[f]] /\ Typed(Absent)
BY Sizes DEF Absent, Fields, Typed, Labels

LEMMA SomeEngines ==
  ASSUME setup \in Setups
  PROVE  /\ Found \subseteq Engines /\ 0 \notin Engines /\ Engines \subseteq 0 .. 2 * Channels
         /\ \A e \in Found : Below(Found, e) \subseteq Engines
         /\ \A e \in Found \cap C2H : Found \cap H2C \subseteq Below(Found, e)
<1>1. setup.present \subseteq Engines
  BY Sizes DEF Setup
<1> QED
  BY <1>1, Sizes DEF Found, Engines, H2C, C2H, Below

LEMMA WantedChars ==
  ASSUME NEW r, r.engine \subseteq Engines
  PROVE  Wanted(r) \subseteq Chars
<1>1. \A e \in Engines : Sg(e) \in Chars /\ Bypass(e) \in Chars
  BY Sizes DEF Engines, H2C, C2H, Sg, Bypass, Chars, User, Base
<1>2. {User, Ctrl, Event, Base} \subseteq Chars
  BY Sizes DEF Chars, User, Ctrl, Event, Base
<1> QED
  BY <1>1, <1>2 DEF Wanted

\* create_sg_char finds the first free slot when there is one.
LEMMA AFreeSlot ==
  ASSUME FreeSlots # {}
  PROVE  /\ FirstFree \in FreeSlots /\ FirstFree \in 0 .. MaxDevices - 1
         /\ FirstFree \in -1 .. MaxDevices - 1 /\ {FirstFree} \subseteq 0 .. MaxDevices - 1
<1>1. FreeSlots \subseteq Nat /\ FreeSlots \subseteq 0 .. MaxDevices - 1
  BY Sizes DEF FreeSlots
<1>2. PICK i \in FreeSlots : \A j \in FreeSlots : <<j, i>> \notin OpToRel(<, Nat)
  BY <1>1, NatLessThanWellFounded, WFMin
<1>3. ASSUME NEW j \in FreeSlots, j < i
      PROVE  <<j, i>> \in OpToRel(<, Nat)
  <2>1. <<j, i>> \in Nat \X Nat
    BY <1>1
  <2> QED
    BY <2>1, <1>3 DEF OpToRel
<1>4. ASSUME NEW j \in FreeSlots
      PROVE  i <= j
  <2>1. ~(j < i)
    BY <1>2, <1>3
  <2> QED
    BY <1>1, <2>1
<1>5. FirstFree \in FreeSlots
  BY <1>4 DEF FirstFree
<1> QED
  BY <1>1, <1>5, Sizes

\* s is r but for the fields in changed.
Keeps(r, s, changed) ==
  s = [f \in Fields |-> s[f]] /\ \A f \in Fields : f \in changed \/ s[f] = r[f]

\* What is to show of the record of a device after a step.
Sound(s) == Typed(s) /\ DeviceInv(s) /\ s = [f \in Fields |-> s[f]]

\* What it does to the numbers and to the processes: a number is taken, or given back, or
\* none is; a device goes down when nobody is in a call.
Goes(d, r, s) ==
  /\ \/ dev_present' = dev_present /\ (Owns(s) => Owns(r) /\ s.instance = r.instance)
     \/ /\ FreeSlots # {} /\ dev_present' = [dev_present EXCEPT ![FirstFree] = TRUE]
        /\ Owns(s) => s.instance = FirstFree
     \/ Owns(r) /\ ~Owns(s) /\ dev_present' = [dev_present EXCEPT ![r.instance] = FALSE]
  /\ d = Watched /\ r.pc = "up" /\ s.pc # "up" => \A x \in Readers : epc[x] = "idle"

\* HeldInv looks at no other field.
LEMMA HeldSame ==
  ASSUME NEW r, NEW s, HeldInv(r),
         s.pc = r.pc /\ s.removing = r.removing /\ s.failed = r.failed /\ s.bar = r.bar,
         s.regions_in_use = r.regions_in_use /\ s.engine = r.engine /\ s.alive = r.alive,
         s.enabled = r.enabled /\ s.msi = r.msi /\ s.regions = r.regions /\ s.irqs = r.irqs,
         s.engines = r.engines /\ s.wb = r.wb /\ s.chars = r.chars /\ s.file = r.file /\ s.ints = r.ints
  PROVE  HeldInv(s)
BY DEF HeldInv

\* The steps that change nothing but the interrupts, the work, and an oops.
LEMMA QuietSteps ==
  ASSUME NEW r, NEW s, Typed(r), DeviceInv(r), Keeps(r, s, {"raised", "work", "oops"}),
         s.raised \in BOOLEAN, s.work \subseteq Engines,
         \/ s.oops = r.oops \/ s.oops \in {"handler", "work"}
         \/ s.oops = "freed twice" /\ r.failed \cap {"engine", "interface"} # {}
  PROVE  Sound(s) /\ s.pc = r.pc /\ (Owns(s) => Owns(r) /\ s.instance = r.instance)
<1>1. /\ s.pc = r.pc /\ s.removing = r.removing /\ s.failed = r.failed /\ s.warned = r.warned /\ s.bar = r.bar
      /\ s.regions_in_use = r.regions_in_use /\ s.irq_line = r.irq_line
      /\ s.irq_user_count = r.irq_user_count /\ s.engine = r.engine /\ s.char_dev = r.char_dev
      /\ s.instance = r.instance /\ s.alive = r.alive /\ s.enabled = r.enabled /\ s.msi = r.msi
      /\ s.regions = r.regions /\ s.irqs = r.irqs /\ s.engines = r.engines /\ s.wb = r.wb
      /\ s.chars = r.chars /\ s.file = r.file /\ s.slots = r.slots /\ s.ints = r.ints /\ s.orphan = r.orphan
  BY AllFields DEF Keeps
<1>2. Typed(s)
  BY <1>1 DEF Typed
<1>3. HeldInv(s)
  BY <1>1, HeldSame DEF DeviceInv
<1>s. SlotInv(s)
  BY <1>1 DEF DeviceInv, SlotInv, Owns
<1>4. PointerInv(s)
  BY <1>1 DEF DeviceInv, PointerInv
<1>5. HandlerInv(s)
  BY <1>1 DEF DeviceInv, HandlerInv
<1>6. MadeInv(s)
  BY <1>1 DEF DeviceInv, MadeInv, Wanted
<1> QED
  BY <1>1, <1>2, <1>3, <1>s, <1>4, <1>5, <1>6 DEF Sound, Keeps, DeviceInv, Owns

\* The steps of probe() up to the handlers.
LEMMA ProbeBegins ==
  ASSUME NEW d \in Devices, lro \in [Devices -> Device], DeviceInv(lro[d]),
         Probe(d) \/ ScanForMsi(d) \/ RequestRegions(d) \/ MapBars(d) \/ SetDmaMask(d) \/ IrqSetup(d)
  PROVE  Sound(lro'[d]) /\ Goes(d, lro[d], lro'[d])
<1> DEFINE r == lro[d]
           s == lro'[d]
<1> USE DEF UpPcs, CharPcs, EnginePcs, IrqPcs, BarPcs, Owns
<1>r. r = [f \in Fields |-> r[f]] /\ Typed(r) /\ DeviceInv(r)
  BY DeviceFields
<1>1. CASE Probe(d)
  <2>1. \/ r.pc = "none" /\ s = [[r EXCEPT !.alive = TRUE] EXCEPT !.enabled = TRUE, !.pc = "msi"]
        \/ r.pc = "none" /\ s = [[r EXCEPT !.alive = TRUE] EXCEPT !.pc = "free_alloc", !.failed = @ \cup {"enable"}]
    BY <1>1 DEF Probe, Fails
  <2>d. dev_present' = dev_present
    BY <1>1 DEF Probe, Fails, deviceRest
  <2> HIDE DEF r, s
  <2>2. /\ r.pc = "none" /\ s.alive /\ s.alive \in BOOLEAN
        /\ \/ s.pc = "msi" /\ s.enabled \in BOOLEAN /\ Keeps(r, s, {"pc", "alive", "enabled"})
           \/ /\ s.pc = "free_alloc" /\ s.failed = r.failed \cup {"enable"}
              /\ Keeps(r, s, {"pc", "alive", "failed"})
    BY <1>r, <2>1, AllFields DEF Keeps
  <2>3. Typed(s)
    BY <1>r, <2>2, AllFields DEF Keeps, Typed, Labels, Steps
  <2>4. HeldInv(s)
    BY <1>r, <2>2, AllFields DEF DeviceInv, HeldInv, Labels, Keeps
  <2>5. SlotInv(s)
    BY <1>r, <2>2, AllFields DEF DeviceInv, HeldInv, SlotInv, Labels, Keeps
  <2>6. PointerInv(s)
    BY <1>r, <2>2, AllFields DEF DeviceInv, PointerInv, Labels, Keeps
  <2>7. HandlerInv(s)
    BY <1>r, <2>2, AllFields DEF DeviceInv, HandlerInv, Labels, Keeps
  <2>8. MadeInv(s)
    BY <1>r, <2>2, AllFields DEF DeviceInv, MadeInv, Labels, Keeps
  <2>g. Goes(d, r, s)
    BY <1>r, <2>2, <2>d, AllFields DEF Goes, Labels, Keeps
  <2>9. Sound(s) /\ Goes(d, r, s)
    BY <2>2, <2>3, <2>4, <2>5, <2>6, <2>7, <2>8, <2>g DEF Sound, Keeps, DeviceInv
  <2> QED
    BY <2>9 DEF r, s
<1>2. CASE ScanForMsi(d)
  <2>1. \/ r.pc = "msi" /\ s = [r EXCEPT !.msi = setup.irq # "legacy", !.pc = "regions"]
        \/ r.pc = "msi" /\ s = [r EXCEPT !.pc = "disable_msi", !.failed = @ \cup {"msi"}]
    BY <1>2 DEF ScanForMsi, MayFail, Fails
  <2>d. dev_present' = dev_present
    BY <1>2 DEF ScanForMsi, MayFail, Fails, deviceRest
  <2> HIDE DEF r, s
  <2>2. /\ r.pc = "msi"
        /\ \/ s.pc = "regions" /\ s.msi \in BOOLEAN /\ Keeps(r, s, {"pc", "msi"})
           \/ s.pc = "disable_msi" /\ s.failed = r.failed \cup {"msi"} /\ Keeps(r, s, {"pc", "failed"})
    BY <1>r, <2>1, AllFields DEF Keeps
  <2>3. Typed(s)
    BY <1>r, <2>2, AllFields DEF Keeps, Typed, Labels, Steps
  <2>4. HeldInv(s)
    BY <1>r, <2>2, AllFields DEF DeviceInv, HeldInv, Labels, Keeps
  <2>5. SlotInv(s)
    BY <1>r, <2>2, AllFields DEF DeviceInv, HeldInv, SlotInv, Labels, Keeps
  <2>6. PointerInv(s)
    BY <1>r, <2>2, AllFields DEF DeviceInv, PointerInv, Labels, Keeps
  <2>7. HandlerInv(s)
    BY <1>r, <2>2, AllFields DEF DeviceInv, HandlerInv, Labels, Keeps
  <2>8. MadeInv(s)
    BY <1>r, <2>2, AllFields DEF DeviceInv, MadeInv, Labels, Keeps
  <2>g. Goes(d, r, s)
    BY <1>r, <2>2, <2>d, AllFields DEF Goes, Labels, Keeps
  <2>9. Sound(s) /\ Goes(d, r, s)
    BY <2>2, <2>3, <2>4, <2>5, <2>6, <2>7, <2>8, <2>g DEF Sound, Keeps, DeviceInv
  <2> QED
    BY <2>9 DEF r, s
<1>3. CASE RequestRegions(d)
  <2>1. \/ r.pc = "regions" /\ s = [r EXCEPT !.regions = TRUE, !.pc = "map"]
        \/ /\ r.pc = "regions"
           /\ s = [[r EXCEPT !.regions_in_use = TRUE] EXCEPT !.pc = "rel_region", !.failed = @ \cup {"regions"}]
    BY <1>3 DEF RequestRegions, MayFail, Fails
  <2>d. dev_present' = dev_present
    BY <1>3 DEF RequestRegions, MayFail, Fails, deviceRest
  <2> HIDE DEF r, s
  <2>2. /\ r.pc = "regions"
        /\ \/ s.pc = "map" /\ s.regions \in BOOLEAN /\ Keeps(r, s, {"pc", "regions"})
           \/ /\ s.pc = "rel_region" /\ s.failed = r.failed \cup {"regions"} /\ s.regions_in_use = TRUE
              /\ Keeps(r, s, {"pc", "failed", "regions_in_use"})
    BY <1>r, <2>1, AllFields DEF Keeps
  <2>3. Typed(s)
    BY <1>r, <2>2, AllFields DEF Keeps, Typed, Labels, Steps
  <2>4. HeldInv(s)
    BY <1>r, <2>2, AllFields DEF DeviceInv, HeldInv, Labels, Keeps
  <2>5. SlotInv(s)
    BY <1>r, <2>2, AllFields DEF DeviceInv, HeldInv, SlotInv, Labels, Keeps
  <2>6. PointerInv(s)
    BY <1>r, <2>2, AllFields DEF DeviceInv, PointerInv, Labels, Keeps
  <2>7. HandlerInv(s)
    BY <1>r, <2>2, AllFields DEF DeviceInv, HandlerInv, Labels, Keeps
  <2>8. MadeInv(s)
    BY <1>r, <2>2, AllFields DEF DeviceInv, MadeInv, Labels, Keeps
  <2>g. Goes(d, r, s)
    BY <1>r, <2>2, <2>d, AllFields DEF Goes, Labels, Keeps
  <2>9. Sound(s) /\ Goes(d, r, s)
    BY <2>2, <2>3, <2>4, <2>5, <2>6, <2>7, <2>8, <2>g DEF Sound, Keeps, DeviceInv
  <2> QED
    BY <2>9 DEF r, s
<1>4. CASE MapBars(d)
  <2>1. \/ r.pc = "map" /\ s = [r EXCEPT !.bar = TRUE, !.pc = "mask"]
        \/ r.pc = "map" /\ s = [r EXCEPT !.pc = "unmap_bar", !.failed = @ \cup {"bars"}]
    BY <1>4 DEF MapBars, MayFail, Fails
  <2>d. dev_present' = dev_present
    BY <1>4 DEF MapBars, MayFail, Fails, deviceRest
  <2> HIDE DEF r, s
  <2>2. /\ r.pc = "map"
        /\ \/ s.pc = "mask" /\ s.bar = TRUE /\ Keeps(r, s, {"pc", "bar"})
           \/ s.pc = "unmap_bar" /\ s.failed = r.failed \cup {"bars"} /\ Keeps(r, s, {"pc", "failed"})
    BY <1>r, <2>1, AllFields DEF Keeps
  <2>3. Typed(s)
    BY <1>r, <2>2, AllFields DEF Keeps, Typed, Labels, Steps
  <2>4. HeldInv(s)
    BY <1>r, <2>2, AllFields DEF DeviceInv, HeldInv, Labels, Keeps
  <2>5. SlotInv(s)
    BY <1>r, <2>2, AllFields DEF DeviceInv, HeldInv, SlotInv, Labels, Keeps
  <2>6. PointerInv(s)
    BY <1>r, <2>2, AllFields DEF DeviceInv, PointerInv, Labels, Keeps
  <2>7. HandlerInv(s)
    BY <1>r, <2>2, AllFields DEF DeviceInv, HandlerInv, Labels, Keeps
  <2>8. MadeInv(s)
    BY <1>r, <2>2, AllFields DEF DeviceInv, MadeInv, Labels, Keeps
  <2>g. Goes(d, r, s)
    BY <1>r, <2>2, <2>d, AllFields DEF Goes, Labels, Keeps
  <2>9. Sound(s) /\ Goes(d, r, s)
    BY <2>2, <2>3, <2>4, <2>5, <2>6, <2>7, <2>8, <2>g DEF Sound, Keeps, DeviceInv
  <2> QED
    BY <2>9 DEF r, s
<1>5. CASE SetDmaMask(d)
  <2>1. \/ r.pc = "mask" /\ s = [r EXCEPT !.pc = "irq"]
        \/ r.pc = "mask" /\ s = [r EXCEPT !.pc = "unmap_bar", !.failed = @ \cup {"mask"}]
    BY <1>5 DEF SetDmaMask, MayFail, Fails
  <2>d. dev_present' = dev_present
    BY <1>5 DEF SetDmaMask, MayFail, Fails, deviceRest
  <2> HIDE DEF r, s
  <2>2. /\ r.pc = "mask"
        /\ \/ s.pc = "irq" /\ Keeps(r, s, {"pc"})
           \/ s.pc = "unmap_bar" /\ s.failed = r.failed \cup {"mask"} /\ Keeps(r, s, {"pc", "failed"})
    BY <1>r, <2>1, AllFields DEF Keeps
  <2>3. Typed(s)
    BY <1>r, <2>2, AllFields DEF Keeps, Typed, Labels, Steps
  <2>4. HeldInv(s)
    BY <1>r, <2>2, AllFields DEF DeviceInv, HeldInv, Labels, Keeps
  <2>5. SlotInv(s)
    BY <1>r, <2>2, AllFields DEF DeviceInv, HeldInv, SlotInv, Labels, Keeps
  <2>6. PointerInv(s)
    BY <1>r, <2>2, AllFields DEF DeviceInv, PointerInv, Labels, Keeps
  <2>7. HandlerInv(s)
    BY <1>r, <2>2, AllFields DEF DeviceInv, HandlerInv, Labels, Keeps
  <2>8. MadeInv(s)
    BY <1>r, <2>2, AllFields DEF DeviceInv, MadeInv, Labels, Keeps
  <2>g. Goes(d, r, s)
    BY <1>r, <2>2, <2>d, AllFields DEF Goes, Labels, Keeps
  <2>9. Sound(s) /\ Goes(d, r, s)
    BY <2>2, <2>3, <2>4, <2>5, <2>6, <2>7, <2>8, <2>g DEF Sound, Keeps, DeviceInv
  <2> QED
    BY <2>9 DEF r, s
<1>6. CASE IrqSetup(d) /\ s = [r EXCEPT !.irqs = {0}, !.irq_user_count = setup.irq = "msix",
                                    !.irq_line = setup.irq # "msix", !.pc = "engines"]
  <2>1. /\ r.pc = "irq" /\ s.pc = "engines"
        /\ s = [r EXCEPT !.irqs = {0}, !.irq_user_count = setup.irq = "msix",
                         !.irq_line = setup.irq # "msix", !.pc = "engines"]
    BY <1>6 DEF IrqSetup, MayFail, Fails
  <2>d. dev_present' = dev_present
    BY <1>6 DEF IrqSetup, MayFail, Fails, deviceRest
  <2> HIDE DEF r, s
  <2>2. /\ r.pc = "irq" /\ s.pc = "engines" /\ s.irqs = {0}
        /\ s.irq_line \in BOOLEAN /\ (s.irq_line <=> setup.irq # "msix")
        /\ s.irq_user_count \in BOOLEAN /\ (s.irq_user_count <=> setup.irq = "msix")
        /\ Keeps(r, s, {"pc", "irqs", "irq_user_count", "irq_line"})
    BY <1>r, <2>1, AllFields DEF Keeps
  <2>3. Typed(s)
    BY <1>r, <2>2, AllFields, Sizes DEF Keeps, Typed, Labels, Steps
  <2>4. HeldInv(s)
    BY <1>r, <2>2, AllFields DEF DeviceInv, HeldInv, Labels, Keeps
  <2>5. SlotInv(s)
    BY <1>r, <2>2, AllFields DEF DeviceInv, HeldInv, SlotInv, Labels, Keeps
  <2>6. PointerInv(s)
    BY <1>r, <2>2, AllFields DEF DeviceInv, PointerInv, Labels, Keeps
  <2>7. HandlerInv(s)
    BY <1>r, <2>2, AllFields DEF DeviceInv, HandlerInv, Labels, Keeps
  <2>8. MadeInv(s)
    BY <1>r, <2>2, AllFields DEF DeviceInv, MadeInv, Labels, Keeps
  <2>g. Goes(d, r, s)
    BY <1>r, <2>2, <2>d, AllFields DEF Goes, Labels, Keeps
  <2>9. Sound(s) /\ Goes(d, r, s)
    BY <2>2, <2>3, <2>4, <2>5, <2>6, <2>7, <2>8, <2>g DEF Sound, Keeps, DeviceInv
  <2> QED
    BY <2>9 DEF r, s
<1>7. CASE IrqSetup(d) /\ s = [[r EXCEPT !.irq_user_count = FALSE, !.irq_line = setup.irq # "msix"]
                                EXCEPT !.pc = "disable_irq", !.failed = @ \cup {"irq"}]
  <2>1. /\ r.pc = "irq"
        /\ s = [[r EXCEPT !.irq_user_count = FALSE, !.irq_line = setup.irq # "msix"]
                  EXCEPT !.pc = "disable_irq", !.failed = @ \cup {"irq"}]
    BY <1>7 DEF IrqSetup, MayFail, Fails, UserCountOnFailure
  <2>d. dev_present' = dev_present
    BY <1>7 DEF IrqSetup, MayFail, Fails, UserCountOnFailure, deviceRest
  <2> HIDE DEF r, s
  <2>2. /\ r.pc = "irq" /\ s.pc = "disable_irq" /\ s.failed = r.failed \cup {"irq"}
        /\ ~s.irq_user_count /\ s.irq_user_count \in BOOLEAN
        /\ s.irq_line \in BOOLEAN /\ (s.irq_line <=> setup.irq # "msix")
        /\ Keeps(r, s, {"pc", "failed", "irq_user_count", "irq_line"})
    BY <1>r, <2>1, AllFields DEF Keeps
  <2>3. Typed(s)
    BY <1>r, <2>2, AllFields DEF Keeps, Typed, Labels, Steps
  <2>4. HeldInv(s)
    BY <1>r, <2>2, AllFields DEF DeviceInv, HeldInv, Labels, Keeps
  <2>5. SlotInv(s)
    BY <1>r, <2>2, AllFields DEF DeviceInv, HeldInv, SlotInv, Labels, Keeps
  <2>6. PointerInv(s)
    BY <1>r, <2>2, AllFields DEF DeviceInv, PointerInv, Labels, Keeps
  <2>7. HandlerInv(s)
    BY <1>r, <2>2, AllFields DEF DeviceInv, HandlerInv, HeldInv, Labels, Keeps
  <2>8. MadeInv(s)
    BY <1>r, <2>2, AllFields DEF DeviceInv, MadeInv, Labels, Keeps
  <2>g. Goes(d, r, s)
    BY <1>r, <2>2, <2>d, AllFields DEF Goes, Labels, Keeps
  <2>9. Sound(s) /\ Goes(d, r, s)
    BY <2>2, <2>3, <2>4, <2>5, <2>6, <2>7, <2>8, <2>g DEF Sound, Keeps, DeviceInv
  <2> QED
    BY <2>9 DEF r, s
<1> QED
  BY <1>1, <1>2, <1>3, <1>4, <1>5, <1>6, <1>7 DEF IrqSetup, MayFail, Fails, UserCountOnFailure

\* probe_engines, and what it gives back when an engine fails.
LEMMA ProbeEnginesSound ==
  ASSUME NEW d \in Devices, lro \in [Devices -> Device], DeviceInv(lro[d]),
         setup \in Setups,
         ProbeEngines(d)
  PROVE  Sound(lro'[d]) /\ Goes(d, lro[d], lro'[d])
<1> DEFINE r == lro[d]
           s == lro'[d]
<1> USE DEF UpPcs, CharPcs, EnginePcs, IrqPcs, BarPcs, Owns
<1>r. r = [f \in Fields |-> r[f]] /\ Typed(r) /\ DeviceInv(r)
  BY DeviceFields
<1>1. CASE ProbeEngines(d) /\ r.pc = "engines" /\ s = [WithEngines(r, Found) EXCEPT !.pc = "interfaces"]
  <2>1. /\ r.pc = "engines"
        /\ s = [[r EXCEPT !.engine = Found, !.engines = Found, !.wb = IF setup.poll_mode THEN Found ELSE {},
                          !.irqs = @ \cup (IF setup.irq = "msix" THEN Found ELSE {})] EXCEPT !.pc = "interfaces"]
    BY <1>1 DEF WithEngines
  <2>d. dev_present' = dev_present
    BY <1>1 DEF ProbeEngines, deviceRest
  <2> HIDE DEF r, s
  <2>2. /\ r.pc = "engines" /\ s.pc = "interfaces" /\ s.engine = Found /\ s.engines = Found /\ s.wb \subseteq Found
        /\ s.irqs = r.irqs \cup (IF setup.irq = "msix" THEN Found ELSE {})
        /\ Keeps(r, s, {"pc", "engine", "engines", "wb", "irqs"})
    BY <1>r, <2>1, AllFields DEF Keeps
  <2>3. Typed(s)
    BY <1>r, <2>2, AllFields, SomeEngines DEF Keeps, Typed, Labels, Steps
  <2>4. HeldInv(s)
    BY <1>r, <2>2, AllFields, SomeEngines DEF DeviceInv, HeldInv, Labels, Keeps
  <2>5. SlotInv(s)
    BY <1>r, <2>2, AllFields, SomeEngines DEF DeviceInv, HeldInv, SlotInv, Labels, Keeps
  <2>6. PointerInv(s)
    BY <1>r, <2>2, AllFields, SomeEngines DEF DeviceInv, PointerInv, Labels, Keeps
  <2>7. HandlerInv(s)
    BY <1>r, <2>2, AllFields, SomeEngines DEF DeviceInv, HandlerInv, HeldInv, Labels, Keeps
  <2>8. MadeInv(s)
    BY <1>r, <2>2, AllFields, SomeEngines DEF DeviceInv, MadeInv, Found, Labels, Keeps
  <2>g. Goes(d, r, s)
    BY <1>r, <2>2, <2>d, AllFields DEF Goes, Labels, Keeps
  <2>9. Sound(s) /\ Goes(d, r, s)
    BY <2>2, <2>3, <2>4, <2>5, <2>6, <2>7, <2>8, <2>g DEF Sound, Keeps, DeviceInv
  <2> QED
    BY <2>9 DEF r, s
<1>2. CASE ProbeEngines(d) /\ \E e \in Found \cap H2C :
           /\ r.pc = "engines"
           /\ s = Fails(remove_engines(EngineFails(WithEngines(r, Below(Found, e)), e)), "engine", "rmv_engine")
  <2>e. PICK e \in Found \cap H2C :
           /\ r.pc = "engines"
           /\ s = Fails(remove_engines(EngineFails(WithEngines(r, Below(Found, e)), e)), "engine", "rmv_engine")
    BY <1>2
  <2> DEFINE S == Below(Found, e)
  <2>f. S \subseteq Engines /\ 0 \notin S
    BY <2>e, SomeEngines
  <2>1. /\ r.pc = "engines"
        /\ s = [[[r EXCEPT !.engine = S, !.engines = S, !.wb = IF setup.poll_mode THEN S ELSE {},
                           !.irqs = @ \cup (IF setup.irq = "msix" THEN S ELSE {})]
                  EXCEPT !.engines = {}, !.wb = {}, !.irqs = @ \ S, !.orphan = @ \/ r.work # {}, !.work = {}]
                  EXCEPT !.pc = "rmv_engine", !.failed = @ \cup {"engine"}]
    BY <1>2, <2>e DEF Fails, remove_engines, EngineFails, WithEngines
  <2>d. dev_present' = dev_present
    BY <1>2 DEF ProbeEngines, deviceRest
  <2> HIDE DEF r, s, S
  <2>2. /\ r.pc = "engines" /\ s.pc = "rmv_engine" /\ s.failed = r.failed \cup {"engine"} /\ s.engine = S
        /\ s.engines = {} /\ s.wb = {} /\ s.irqs = (r.irqs \cup (IF setup.irq = "msix" THEN S ELSE {})) \ S
        /\ s.orphan \in BOOLEAN /\ s.work = {}
        /\ Keeps(r, s, {"pc", "failed", "engine", "engines", "wb", "irqs", "orphan", "work"})
    BY <1>r, <2>1, AllFields DEF Keeps
  <2>3. Typed(s)
    BY <1>r, <2>2, AllFields, <2>f, SomeEngines DEF Keeps, Typed, Labels, Steps
  <2>4. HeldInv(s)
    BY <1>r, <2>2, AllFields, <2>f, SomeEngines DEF DeviceInv, HeldInv, Labels, Keeps
  <2>5. SlotInv(s)
    BY <1>r, <2>2, AllFields, <2>f, SomeEngines DEF DeviceInv, HeldInv, SlotInv, Labels, Keeps
  <2>6. PointerInv(s)
    BY <1>r, <2>2, AllFields, <2>f, SomeEngines DEF DeviceInv, PointerInv, Labels, Keeps
  <2>7. HandlerInv(s)
    BY <1>r, <2>2, AllFields, <2>f, SomeEngines DEF DeviceInv, HandlerInv, HeldInv, Labels, Keeps
  <2>8. MadeInv(s)
    BY <1>r, <2>2, AllFields, <2>f, SomeEngines DEF DeviceInv, MadeInv, Labels, Keeps
  <2>g. Goes(d, r, s)
    BY <1>r, <2>2, <2>d, AllFields DEF Goes, Labels, Keeps
  <2>9. Sound(s) /\ Goes(d, r, s)
    BY <2>2, <2>3, <2>4, <2>5, <2>6, <2>7, <2>8, <2>g DEF Sound, Keeps, DeviceInv
  <2> QED
    BY <2>9 DEF r, s
<1>3. CASE ProbeEngines(d) /\ \E e \in Found \cap C2H :
           r.pc = "engines" /\ s = [EngineFails(WithEngines(r, Below(Found, e)), e) EXCEPT !.pc = "interfaces"]
  <2>e. PICK e \in Found \cap C2H :
           r.pc = "engines" /\ s = [EngineFails(WithEngines(r, Below(Found, e)), e) EXCEPT !.pc = "interfaces"]
    BY <1>3
  <2> DEFINE S == Below(Found, e)
  <2>f. S \subseteq Engines /\ 0 \notin S /\ Found \cap H2C \subseteq S
    BY <2>e, SomeEngines
  <2>1. /\ r.pc = "engines"
        /\ s = [[r EXCEPT !.engine = S, !.engines = S, !.wb = IF setup.poll_mode THEN S ELSE {},
                          !.irqs = @ \cup (IF setup.irq = "msix" THEN S ELSE {})] EXCEPT !.pc = "interfaces"]
    BY <1>3, <2>e DEF EngineFails, WithEngines
  <2>d. dev_present' = dev_present
    BY <1>3 DEF ProbeEngines, deviceRest
  <2> HIDE DEF r, s, S
  <2>2. /\ r.pc = "engines" /\ s.pc = "interfaces" /\ s.engine = S /\ s.engines = S /\ s.wb \subseteq S
        /\ s.irqs = r.irqs \cup (IF setup.irq = "msix" THEN S ELSE {})
        /\ Keeps(r, s, {"pc", "engine", "engines", "wb", "irqs"})
    BY <1>r, <2>1, AllFields DEF Keeps
  <2>3. Typed(s)
    BY <1>r, <2>2, AllFields, <2>f, SomeEngines DEF Keeps, Typed, Labels, Steps
  <2>4. HeldInv(s)
    BY <1>r, <2>2, AllFields, <2>f, SomeEngines DEF DeviceInv, HeldInv, Labels, Keeps
  <2>5. SlotInv(s)
    BY <1>r, <2>2, AllFields, <2>f, SomeEngines DEF DeviceInv, HeldInv, SlotInv, Labels, Keeps
  <2>6. PointerInv(s)
    BY <1>r, <2>2, AllFields, <2>f, SomeEngines DEF DeviceInv, PointerInv, Labels, Keeps
  <2>7. HandlerInv(s)
    BY <1>r, <2>2, AllFields, <2>f, SomeEngines DEF DeviceInv, HandlerInv, HeldInv, Labels, Keeps
  <2>8. MadeInv(s)
    BY <1>r, <2>2, AllFields, <2>f, SomeEngines DEF DeviceInv, MadeInv, Found, Labels, Keeps
  <2>g. Goes(d, r, s)
    BY <1>r, <2>2, <2>d, AllFields DEF Goes, Labels, Keeps
  <2>9. Sound(s) /\ Goes(d, r, s)
    BY <2>2, <2>3, <2>4, <2>5, <2>6, <2>7, <2>8, <2>g DEF Sound, Keeps, DeviceInv
  <2> QED
    BY <2>9 DEF r, s
<1> QED
  BY <1>1, <1>2, <1>3 DEF ProbeEngines, MayFail

\* create_interfaces.
LEMMA CreateInterfacesSound ==
  ASSUME NEW d \in Devices, lro \in [Devices -> Device], DeviceInv(lro[d]),
         CreateInterfaces(d) \/ CreateNothing(d) \/ CreateSome(d)
  PROVE  Sound(lro'[d]) /\ Goes(d, lro[d], lro'[d])
<1> DEFINE r == lro[d]
           s == lro'[d]
<1> USE DEF UpPcs, CharPcs, EnginePcs, IrqPcs, BarPcs, Owns
<1>r. r = [f \in Fields |-> r[f]] /\ Typed(r) /\ DeviceInv(r)
  BY DeviceFields
<1>1. CASE /\ CreateInterfaces(d) /\ r.pc = "interfaces" /\ FreeSlots # {}
           /\ \E missing \in Unnoticed : s = [TakeSlot(r) EXCEPT
                !.char_dev = Wanted(r) \ missing, !.chars = Wanted(r) \ missing, !.pc = "enable"]
  <2>e. PICK missing \in Unnoticed : 
           s = [TakeSlot(r) EXCEPT !.char_dev = Wanted(r) \ missing, !.chars = Wanted(r) \ missing, !.pc = "enable"]
    BY <1>1
  <2>f. /\ FirstFree \in -1 .. MaxDevices - 1 /\ {FirstFree} \subseteq 0 .. MaxDevices - 1
    BY <1>1, AFreeSlot
  <2>w. Wanted(r) \subseteq Chars
    BY <1>r, WantedChars DEF Typed
  <2>m. missing \in SUBSET {Event, Base}
    BY <2>e DEF Unnoticed
  <2>1. /\ r.pc = "interfaces"
        /\ s = [[r EXCEPT !.instance = FirstFree, !.slots = @ \cup {FirstFree}]
                 EXCEPT !.char_dev = Wanted(r) \ missing, !.chars = Wanted(r) \ missing, !.pc = "enable"]
    BY <1>1, <2>e DEF TakeSlot
  <2>d. FreeSlots # {} /\ dev_present' = [dev_present EXCEPT ![FirstFree] = TRUE]
    BY <1>1 DEF CreateInterfaces, deviceRest
  <2> HIDE DEF r, s
  <2>2. /\ r.pc = "interfaces" /\ s.pc = "enable" 
        /\ s.instance = FirstFree /\ s.slots = r.slots \cup {FirstFree}
        /\ s.char_dev = Wanted(r) \ missing /\ s.chars = Wanted(r) \ missing
        /\ Keeps(r, s, {"pc", "instance", "slots", "char_dev", "chars"})
    BY <1>r, <2>1, AllFields DEF Keeps
  <2>3. Typed(s)
    BY <1>r, <2>2, AllFields, <2>f, <2>w, <2>m DEF Keeps, Typed, Labels, Steps
  <2>4. HeldInv(s)
    BY <1>r, <2>2, AllFields, <2>f, <2>w, <2>m DEF DeviceInv, HeldInv, Labels, Keeps
  <2>5. SlotInv(s)
    BY <1>r, <2>2, AllFields, <2>f, <2>w, <2>m DEF DeviceInv, HeldInv, SlotInv, Labels, Keeps
  <2>6. PointerInv(s)
    BY <1>r, <2>2, AllFields, <2>f, <2>w, <2>m DEF DeviceInv, PointerInv, Labels, Keeps
  <2>7. HandlerInv(s)
    BY <1>r, <2>2, AllFields, <2>f, <2>w, <2>m DEF DeviceInv, HandlerInv, Labels, Keeps
  <2>8. MadeInv(s)
    BY <1>r, <2>2, AllFields, <2>f, <2>w, <2>m DEF DeviceInv, MadeInv, Wanted, Labels, Keeps
  <2>g. Goes(d, r, s)
    BY <1>r, <2>2, <2>d, AllFields DEF Goes, Labels, Keeps
  <2>9. Sound(s) /\ Goes(d, r, s)
    BY <2>2, <2>3, <2>4, <2>5, <2>6, <2>7, <2>8, <2>g DEF Sound, Keeps, DeviceInv
  <2> QED
    BY <2>9 DEF r, s
<1>2. CASE CreateNothing(d)
  <2>1. r.pc = "interfaces" /\ s = [r EXCEPT !.pc = "rmv_interface", !.failed = @ \cup {"interface"}]
    BY <1>2 DEF CreateNothing, Fails
  <2>d. dev_present' = dev_present
    BY <1>2 DEF CreateNothing, Fails, deviceRest
  <2> HIDE DEF r, s
  <2>2. /\ r.pc = "interfaces" /\ s.pc = "rmv_interface" /\ s.failed = r.failed \cup {"interface"}
        /\ Keeps(r, s, {"pc", "failed"})
    BY <1>r, <2>1, AllFields DEF Keeps
  <2>3. Typed(s)
    BY <1>r, <2>2, AllFields DEF Keeps, Typed, Labels, Steps
  <2>4. HeldInv(s)
    BY <1>r, <2>2, AllFields DEF DeviceInv, HeldInv, Labels, Keeps
  <2>5. SlotInv(s)
    BY <1>r, <2>2, AllFields DEF DeviceInv, HeldInv, SlotInv, Labels, Keeps
  <2>6. PointerInv(s)
    BY <1>r, <2>2, AllFields DEF DeviceInv, PointerInv, Labels, Keeps
  <2>7. HandlerInv(s)
    BY <1>r, <2>2, AllFields DEF DeviceInv, HandlerInv, Labels, Keeps
  <2>8. MadeInv(s)
    BY <1>r, <2>2, AllFields DEF DeviceInv, MadeInv, Labels, Keeps
  <2>g. Goes(d, r, s)
    BY <1>r, <2>2, <2>d, AllFields DEF Goes, Labels, Keeps
  <2>9. Sound(s) /\ Goes(d, r, s)
    BY <2>2, <2>3, <2>4, <2>5, <2>6, <2>7, <2>8, <2>g DEF Sound, Keeps, DeviceInv
  <2> QED
    BY <2>9 DEF r, s
<1>3. CASE /\ CreateSome(d) /\ r.pc = "interfaces" /\ FreeSlots # {}
           /\ \E c \in Wanted(r) \ {Event, Base}, missing \in Unnoticed :
                s = Fails([TakeSlot(r) EXCEPT !.char_dev = Below(Wanted(r), c) \ missing],
                          "interface", "rmv_interface")
  <2>e. PICK c \in Wanted(r) \ {Event, Base}, missing \in Unnoticed :
           s = Fails([TakeSlot(r) EXCEPT !.char_dev = Below(Wanted(r), c) \ missing],
                     "interface", "rmv_interface")
    BY <1>3
  <2>f. /\ FirstFree \in -1 .. MaxDevices - 1 /\ {FirstFree} \subseteq 0 .. MaxDevices - 1
    BY <1>3, AFreeSlot
  <2>w. Below(Wanted(r), c) \subseteq Chars
    BY <1>r, WantedChars DEF Typed, Below
  <2>1. /\ r.pc = "interfaces"
        /\ s = [[[r EXCEPT !.instance = FirstFree, !.slots = @ \cup {FirstFree}]
                  EXCEPT !.char_dev = Below(Wanted(r), c) \ missing]
                  EXCEPT !.pc = "rmv_interface", !.failed = @ \cup {"interface"}]
    BY <1>3, <2>e DEF TakeSlot, Fails
  <2>d. FreeSlots # {} /\ dev_present' = [dev_present EXCEPT ![FirstFree] = TRUE]
    BY <1>3 DEF CreateSome, deviceRest
  <2> HIDE DEF r, s
  <2>2. /\ r.pc = "interfaces" /\ s.pc = "rmv_interface" 
        /\ s.instance = FirstFree /\ s.slots = r.slots \cup {FirstFree}
        /\ s.char_dev = Below(Wanted(r), c) \ missing /\ s.failed = r.failed \cup {"interface"}
        /\ Keeps(r, s, {"pc", "failed", "instance", "slots", "char_dev"})
    BY <1>r, <2>1, AllFields DEF Keeps
  <2>3. Typed(s)
    BY <1>r, <2>2, AllFields, <2>f, <2>w DEF Keeps, Typed, Labels, Steps
  <2>4. HeldInv(s)
    BY <1>r, <2>2, AllFields, <2>f, <2>w DEF DeviceInv, HeldInv, Labels, Keeps
  <2>5. SlotInv(s)
    BY <1>r, <2>2, AllFields, <2>f, <2>w DEF DeviceInv, HeldInv, SlotInv, Labels, Keeps
  <2>6. PointerInv(s)
    BY <1>r, <2>2, AllFields, <2>f, <2>w DEF DeviceInv, PointerInv, Labels, Keeps
  <2>7. HandlerInv(s)
    BY <1>r, <2>2, AllFields, <2>f, <2>w DEF DeviceInv, HandlerInv, Labels, Keeps
  <2>8. MadeInv(s)
    BY <1>r, <2>2, AllFields, <2>f, <2>w DEF DeviceInv, MadeInv, Labels, Keeps
  <2>g. Goes(d, r, s)
    BY <1>r, <2>2, <2>d, AllFields DEF Goes, Labels, Keeps
  <2>9. Sound(s) /\ Goes(d, r, s)
    BY <2>2, <2>3, <2>4, <2>5, <2>6, <2>7, <2>8, <2>g DEF Sound, Keeps, DeviceInv
  <2> QED
    BY <2>9 DEF r, s
<1> QED
  BY <1>1, <1>2, <1>3 DEF CreateInterfaces, CreateSome, MayFail

\* The end of probe().
LEMMA ProbeEnds ==
  ASSUME NEW d \in Devices, lro \in [Devices -> Device], DeviceInv(lro[d]),
         EnableInterrupts(d) \/ CreateFile(d)
  PROVE  Sound(lro'[d]) /\ Goes(d, lro[d], lro'[d])
<1> DEFINE r == lro[d]
           s == lro'[d]
<1> USE DEF UpPcs, CharPcs, EnginePcs, IrqPcs, BarPcs, Owns
<1>r. r = [f \in Fields |-> r[f]] /\ Typed(r) /\ DeviceInv(r)
  BY DeviceFields
<1>1. CASE EnableInterrupts(d)
  <2>1. r.pc = "enable" /\ s = [r EXCEPT !.ints = TRUE, !.pc = "file"]
    BY <1>1 DEF EnableInterrupts
  <2>d. dev_present' = dev_present
    BY <1>1 DEF EnableInterrupts, deviceRest
  <2> HIDE DEF r, s
  <2>2. r.pc = "enable" /\ s.pc = "file" /\ s.ints \in BOOLEAN /\ Keeps(r, s, {"pc", "ints"})
    BY <1>r, <2>1, AllFields DEF Keeps
  <2>3. Typed(s)
    BY <1>r, <2>2, AllFields DEF Keeps, Typed, Labels, Steps
  <2>4. HeldInv(s)
    BY <1>r, <2>2, AllFields DEF DeviceInv, HeldInv, Labels, Keeps
  <2>5. SlotInv(s)
    BY <1>r, <2>2, AllFields DEF DeviceInv, HeldInv, SlotInv, Labels, Keeps
  <2>6. PointerInv(s)
    BY <1>r, <2>2, AllFields DEF DeviceInv, PointerInv, Labels, Keeps
  <2>7. HandlerInv(s)
    BY <1>r, <2>2, AllFields DEF DeviceInv, HandlerInv, Labels, Keeps
  <2>8. MadeInv(s)
    BY <1>r, <2>2, AllFields DEF DeviceInv, MadeInv, Wanted, Labels, Keeps
  <2>g. Goes(d, r, s)
    BY <1>r, <2>2, <2>d, AllFields DEF Goes, Labels, Keeps
  <2>9. Sound(s) /\ Goes(d, r, s)
    BY <2>2, <2>3, <2>4, <2>5, <2>6, <2>7, <2>8, <2>g DEF Sound, Keeps, DeviceInv
  <2> QED
    BY <2>9 DEF r, s
<1>2. CASE CreateFile(d)
  <2>1. \/ r.pc = "file" /\ s = [r EXCEPT !.file = TRUE, !.pc = "up"]
        \/ r.pc = "file" /\ s = [r EXCEPT !.pc = "rmv_cdev", !.failed = @ \cup {"file"}]
    BY <1>2 DEF CreateFile, MayFail, Fails
  <2>d. dev_present' = dev_present
    BY <1>2 DEF CreateFile, MayFail, Fails, deviceRest
  <2> HIDE DEF r, s
  <2>2. /\ r.pc = "file"
        /\ \/ s.pc = "up" /\ s.file \in BOOLEAN /\ Keeps(r, s, {"pc", "file"})
           \/ s.pc = "rmv_cdev" /\ s.failed = r.failed \cup {"file"} /\ Keeps(r, s, {"pc", "failed"})
    BY <1>r, <2>1, AllFields DEF Keeps
  <2>3. Typed(s)
    BY <1>r, <2>2, AllFields DEF Keeps, Typed, Labels, Steps
  <2>4. HeldInv(s)
    BY <1>r, <2>2, AllFields DEF DeviceInv, HeldInv, Labels, Keeps
  <2>5. SlotInv(s)
    BY <1>r, <2>2, AllFields DEF DeviceInv, HeldInv, SlotInv, Labels, Keeps
  <2>6. PointerInv(s)
    BY <1>r, <2>2, AllFields DEF DeviceInv, PointerInv, Labels, Keeps
  <2>7. HandlerInv(s)
    BY <1>r, <2>2, AllFields DEF DeviceInv, HandlerInv, Labels, Keeps
  <2>8. MadeInv(s)
    BY <1>r, <2>2, AllFields DEF DeviceInv, MadeInv, Wanted, Labels, Keeps
  <2>g. Goes(d, r, s)
    BY <1>r, <2>2, <2>d, AllFields DEF Goes, Labels, Keeps
  <2>9. Sound(s) /\ Goes(d, r, s)
    BY <2>2, <2>3, <2>4, <2>5, <2>6, <2>7, <2>8, <2>g DEF Sound, Keeps, DeviceInv
  <2> QED
    BY <2>9 DEF r, s
<1> QED
  BY <1>1, <1>2

\* remove(), and the unwinding down to the engines.
LEMMA RemoveBegins ==
  ASSUME NEW d \in Devices, lro \in [Devices -> Device], DeviceInv(lro[d]),
         setup \in Setups,
         Remove(d) \/ RmvCdev(d) \/ DestroyInterfaces(d) \/ RemoveEngines(d)
  PROVE  Sound(lro'[d]) /\ Goes(d, lro[d], lro'[d])
<1> DEFINE r == lro[d]
           s == lro'[d]
<1> USE DEF UpPcs, CharPcs, EnginePcs, IrqPcs, BarPcs, Owns
<1>r. r = [f \in Fields |-> r[f]] /\ Typed(r) /\ DeviceInv(r)
  BY DeviceFields
<1>1. CASE Remove(d)
  <2>1. r.pc = "up" /\ s = [r EXCEPT !.ints = FALSE, !.removing = TRUE, !.pc = "rmv_interface"]
    BY <1>1 DEF Remove
  <2>d. dev_present' = dev_present
    BY <1>1 DEF Remove, deviceRest
  <2>e. d = Watched => \A x \in Readers : epc[x] = "idle"
    BY <1>1 DEF Remove
  <2> HIDE DEF r, s
  <2>2. /\ r.pc = "up" /\ s.pc = "rmv_interface" /\ s.removing /\ s.removing \in BOOLEAN
        /\ ~s.ints /\ s.ints \in BOOLEAN /\ Keeps(r, s, {"pc", "ints", "removing"})
    BY <1>r, <2>1, AllFields DEF Keeps
  <2>3. Typed(s)
    BY <1>r, <2>2, AllFields DEF Keeps, Typed, Labels, Steps
  <2>4. HeldInv(s)
    BY <1>r, <2>2, AllFields DEF DeviceInv, HeldInv, Labels, Keeps
  <2>5. SlotInv(s)
    BY <1>r, <2>2, AllFields DEF DeviceInv, HeldInv, SlotInv, Labels, Keeps
  <2>6. PointerInv(s)
    BY <1>r, <2>2, AllFields DEF DeviceInv, PointerInv, Labels, Keeps
  <2>7. HandlerInv(s)
    BY <1>r, <2>2, AllFields DEF DeviceInv, HandlerInv, Labels, Keeps
  <2>8. MadeInv(s)
    BY <1>r, <2>2, AllFields DEF DeviceInv, MadeInv, Labels, Keeps
  <2>g. Goes(d, r, s)
    BY <1>r, <2>2, <2>d, AllFields, <2>e DEF Goes, Labels, Keeps, DeviceInv, HeldInv
  <2>9. Sound(s) /\ Goes(d, r, s)
    BY <2>2, <2>3, <2>4, <2>5, <2>6, <2>7, <2>8, <2>g DEF Sound, Keeps, DeviceInv
  <2> QED
    BY <2>9 DEF r, s
<1>2. CASE RmvCdev(d)
  <2>1. r.pc = "rmv_cdev" /\ s = [r EXCEPT !.slots = @ \ {r.instance}, !.pc = "rmv_interface"]
    BY <1>2 DEF RmvCdev
  <2>d. dev_present' = [dev_present EXCEPT ![r.instance] = FALSE]
    BY <1>2 DEF RmvCdev, deviceRest
  <2> HIDE DEF r, s
  <2>2. /\ r.pc = "rmv_cdev" /\ s.pc = "rmv_interface" /\ s.slots = r.slots \ {r.instance}
        /\ Keeps(r, s, {"pc", "slots"})
    BY <1>r, <2>1, AllFields DEF Keeps
  <2>3. Typed(s)
    BY <1>r, <2>2, AllFields DEF Keeps, Typed, Labels, Steps
  <2>4. HeldInv(s)
    BY <1>r, <2>2, AllFields DEF DeviceInv, HeldInv, Labels, Keeps
  <2>5. SlotInv(s)
    BY <1>r, <2>2, AllFields DEF DeviceInv, HeldInv, SlotInv, Labels, Keeps
  <2>6. PointerInv(s)
    BY <1>r, <2>2, AllFields DEF DeviceInv, PointerInv, Labels, Keeps
  <2>7. HandlerInv(s)
    BY <1>r, <2>2, AllFields DEF DeviceInv, HandlerInv, Labels, Keeps
  <2>8. MadeInv(s)
    BY <1>r, <2>2, AllFields DEF DeviceInv, MadeInv, Labels, Keeps
  <2>g. Goes(d, r, s)
    BY <1>r, <2>2, <2>d, AllFields, <2>d DEF Goes, Labels, Keeps, DeviceInv, HeldInv
  <2>9. Sound(s) /\ Goes(d, r, s)
    BY <2>2, <2>3, <2>4, <2>5, <2>6, <2>7, <2>8, <2>g DEF Sound, Keeps, DeviceInv
  <2> QED
    BY <2>9 DEF r, s
<1>3. CASE DestroyInterfaces(d) /\ r.char_dev \subseteq r.chars
  <2>1. r.pc = "rmv_interface" /\ r.char_dev \subseteq r.chars /\ s = [r EXCEPT !.chars = {}, !.pc = "rmv_engine"]
    BY <1>3 DEF DestroyInterfaces
  <2>d. dev_present' = dev_present
    BY <1>3 DEF DestroyInterfaces, deviceRest
  <2> HIDE DEF r, s
  <2>2. r.pc = "rmv_interface" /\ s.pc = "rmv_engine" /\ s.chars = {} /\ Keeps(r, s, {"pc", "chars"})
    BY <1>r, <2>1, AllFields DEF Keeps
  <2>3. Typed(s)
    BY <1>r, <2>2, AllFields DEF Keeps, Typed, Labels, Steps
  <2>4. HeldInv(s)
    BY <1>r, <2>2, AllFields DEF DeviceInv, HeldInv, Labels, Keeps
  <2>5. SlotInv(s)
    BY <1>r, <2>2, AllFields DEF DeviceInv, HeldInv, SlotInv, Labels, Keeps
  <2>6. PointerInv(s)
    BY <1>r, <2>2, AllFields DEF DeviceInv, PointerInv, Labels, Keeps
  <2>7. HandlerInv(s)
    BY <1>r, <2>2, AllFields DEF DeviceInv, HandlerInv, Labels, Keeps
  <2>8. MadeInv(s)
    BY <1>r, <2>2, AllFields DEF DeviceInv, MadeInv, Labels, Keeps
  <2>g. Goes(d, r, s)
    BY <1>r, <2>2, <2>d, AllFields DEF Goes, Labels, Keeps
  <2>9. Sound(s) /\ Goes(d, r, s)
    BY <2>2, <2>3, <2>4, <2>5, <2>6, <2>7, <2>8, <2>g DEF Sound, Keeps, DeviceInv
  <2> QED
    BY <2>9 DEF r, s
<1>4. CASE RemoveEngines(d) /\ r.engine \subseteq r.engines
  <2>1. /\ r.pc = "rmv_engine"
        /\ s = [[r EXCEPT !.engines = {}, !.wb = {}, !.irqs = @ \ r.engine, !.orphan = @ \/ r.work # {},
                          !.work = {}] EXCEPT !.pc = "disable_irq"]
    BY <1>4 DEF RemoveEngines, remove_engines, AfterEngines
  <2>d. dev_present' = dev_present
    BY <1>4 DEF RemoveEngines, remove_engines, AfterEngines, deviceRest
  <2> HIDE DEF r, s
  <2>2. /\ r.pc = "rmv_engine" /\ s.pc = "disable_irq" /\ s.engines = {} /\ s.wb = {}
        /\ s.irqs = r.irqs \ r.engine /\ s.orphan \in BOOLEAN /\ s.work = {}
        /\ Keeps(r, s, {"pc", "engines", "wb", "irqs", "orphan", "work"})
    BY <1>r, <2>1, AllFields DEF Keeps
  <2>3. Typed(s)
    BY <1>r, <2>2, AllFields DEF Keeps, Typed, Labels, Steps
  <2>4. HeldInv(s)
    BY <1>r, <2>2, AllFields DEF DeviceInv, HeldInv, Labels, Keeps
  <2>5. SlotInv(s)
    BY <1>r, <2>2, AllFields DEF DeviceInv, HeldInv, SlotInv, Labels, Keeps
  <2>6. PointerInv(s)
    BY <1>r, <2>2, AllFields DEF DeviceInv, PointerInv, Labels, Keeps
  <2>7. HandlerInv(s)
    BY <1>r, <2>2, AllFields, SomeEngines DEF DeviceInv, HandlerInv, Typed, Labels, Keeps
  <2>8. MadeInv(s)
    BY <1>r, <2>2, AllFields DEF DeviceInv, MadeInv, Labels, Keeps
  <2>g. Goes(d, r, s)
    BY <1>r, <2>2, <2>d, AllFields DEF Goes, Labels, Keeps
  <2>9. Sound(s) /\ Goes(d, r, s)
    BY <2>2, <2>3, <2>4, <2>5, <2>6, <2>7, <2>8, <2>g DEF Sound, Keeps, DeviceInv
  <2> QED
    BY <2>9 DEF r, s
<1>5. CASE DestroyInterfaces(d) /\ ~(r.char_dev \subseteq r.chars)
  <2>1. r.pc = "rmv_interface" /\ ~(r.char_dev \subseteq r.chars) /\ s = [r EXCEPT !.oops = "freed twice"]
    BY <1>5 DEF DestroyInterfaces
  <2>d. dev_present' = dev_present
    BY <1>5 DEF DestroyInterfaces, deviceRest
  <2> HIDE DEF r, s
  <2>2. r.failed \cap {"engine", "interface"} # {}
    BY <1>r, <2>1 DEF DeviceInv, PointerInv
  <2>3. Keeps(r, s, {"raised", "work", "oops"}) /\ s.raised \in BOOLEAN /\ s.work \subseteq Engines
        /\ (s.oops = r.oops \/ s.oops \in {"handler", "work"} \/ s.oops = "freed twice")
    BY <1>r, <2>1, AllFields DEF Keeps, Typed
  <2>4. Sound(s) /\ Goes(d, r, s)
    BY <1>r, <2>2, <2>3, <2>d, QuietSteps DEF Goes
  <2> QED
    BY <2>4 DEF r, s
<1>6. CASE RemoveEngines(d) /\ ~(r.engine \subseteq r.engines)
  <2>1. r.pc = "rmv_engine" /\ ~(r.engine \subseteq r.engines) /\ s = [r EXCEPT !.oops = "freed twice"]
    BY <1>6 DEF RemoveEngines
  <2>d. dev_present' = dev_present
    BY <1>6 DEF RemoveEngines, deviceRest
  <2> HIDE DEF r, s
  <2>2. r.failed \cap {"engine", "interface"} # {}
    BY <1>r, <2>1 DEF DeviceInv, PointerInv
  <2>3. Keeps(r, s, {"raised", "work", "oops"}) /\ s.raised \in BOOLEAN /\ s.work \subseteq Engines
        /\ (s.oops = r.oops \/ s.oops \in {"handler", "work"} \/ s.oops = "freed twice")
    BY <1>r, <2>1, AllFields DEF Keeps, Typed
  <2>4. Sound(s) /\ Goes(d, r, s)
    BY <1>r, <2>2, <2>3, <2>d, QuietSteps DEF Goes
  <2> QED
    BY <2>4 DEF r, s
<1> QED
  BY <1>1, <1>2, <1>3, <1>4, <1>5, <1>6

\* The unwinding from the handlers on.
LEMMA RemoveEnds ==
  ASSUME NEW d \in Devices, lro \in [Devices -> Device], DeviceInv(lro[d]),
         IrqTeardown(d) \/ UnmapBars(d) \/ RelRegion(d) \/ DisableMsi(d)
  PROVE  Sound(lro'[d]) /\ Goes(d, lro[d], lro'[d])
<1> DEFINE r == lro[d]
           s == lro'[d]
<1> USE DEF UpPcs, CharPcs, EnginePcs, IrqPcs, BarPcs, Owns
<1>r. r = [f \in Fields |-> r[f]] /\ Typed(r) /\ DeviceInv(r)
  BY DeviceFields
<1>1. CASE IrqTeardown(d) /\ (r.irq_user_count \/ r.irq_line)
  <2>1. r.pc = "disable_irq" /\ (r.irq_user_count \/ r.irq_line) /\ s = [free_irqs(r) EXCEPT !.pc = "unmap_bar"]
    BY <1>1 DEF IrqTeardown
  <2>d. dev_present' = dev_present
    BY <1>1 DEF IrqTeardown, deviceRest
  <2> HIDE DEF r, s
  <2>2. /\ r.pc = "disable_irq" /\ s.pc = "unmap_bar"
        /\ s.irqs = r.irqs \ {0} /\ s.warned \in BOOLEAN /\ (s.warned <=> r.warned \/ 0 \notin r.irqs)
        /\ s.raised \in BOOLEAN /\ Keeps(r, s, {"pc", "irqs", "warned", "raised"})
    BY <1>r, <2>1, AllFields DEF Keeps, free_irqs, Typed
  <2>h. 0 \notin r.irqs => setup.irq # "msix" /\ "irq" \in r.failed
    BY <1>r, <2>1 DEF DeviceInv, HandlerInv
  <2>3. Typed(s)
    BY <1>r, <2>2, AllFields DEF Keeps, Typed, Labels, Steps
  <2>4. HeldInv(s)
    BY <1>r, <2>2, AllFields DEF DeviceInv, HeldInv, HandlerInv, Labels, Keeps
  <2>5. SlotInv(s)
    BY <1>r, <2>2, AllFields DEF DeviceInv, HeldInv, SlotInv, Labels, Keeps
  <2>6. PointerInv(s)
    BY <1>r, <2>2, AllFields DEF DeviceInv, PointerInv, Labels, Keeps
  <2>7. HandlerInv(s)
    BY <1>r, <2>2, AllFields, <2>h DEF DeviceInv, HandlerInv, Typed, Labels, Keeps
  <2>8. MadeInv(s)
    BY <1>r, <2>2, AllFields DEF DeviceInv, MadeInv, Labels, Keeps
  <2>g. Goes(d, r, s)
    BY <1>r, <2>2, <2>d, AllFields DEF Goes, Labels, Keeps
  <2>9. Sound(s) /\ Goes(d, r, s)
    BY <2>2, <2>3, <2>4, <2>5, <2>6, <2>7, <2>8, <2>g DEF Sound, Keeps, DeviceInv
  <2> QED
    BY <2>9 DEF r, s
<1>2. CASE IrqTeardown(d) /\ ~(r.irq_user_count \/ r.irq_line)
  <2>1. r.pc = "disable_irq" /\ ~(r.irq_user_count \/ r.irq_line) /\ s = [r EXCEPT !.pc = "unmap_bar"]
    BY <1>2 DEF IrqTeardown
  <2>d. dev_present' = dev_present
    BY <1>2 DEF IrqTeardown, deviceRest
  <2> HIDE DEF r, s
  <2>2. r.pc = "disable_irq" /\ s.pc = "unmap_bar" /\ ~(r.irq_user_count \/ r.irq_line) /\ Keeps(r, s, {"pc"})
    BY <1>r, <2>1, AllFields DEF Keeps
  <2>3. Typed(s)
    BY <1>r, <2>2, AllFields DEF Keeps, Typed, Labels, Steps
  <2>4. HeldInv(s)
    BY <1>r, <2>2, AllFields DEF DeviceInv, HeldInv, HandlerInv, Labels, Keeps
  <2>5. SlotInv(s)
    BY <1>r, <2>2, AllFields DEF DeviceInv, HeldInv, SlotInv, Labels, Keeps
  <2>6. PointerInv(s)
    BY <1>r, <2>2, AllFields DEF DeviceInv, PointerInv, Labels, Keeps
  <2>7. HandlerInv(s)
    BY <1>r, <2>2, AllFields DEF DeviceInv, HandlerInv, Labels, Keeps
  <2>8. MadeInv(s)
    BY <1>r, <2>2, AllFields DEF DeviceInv, MadeInv, Labels, Keeps
  <2>g. Goes(d, r, s)
    BY <1>r, <2>2, <2>d, AllFields DEF Goes, Labels, Keeps
  <2>9. Sound(s) /\ Goes(d, r, s)
    BY <2>2, <2>3, <2>4, <2>5, <2>6, <2>7, <2>8, <2>g DEF Sound, Keeps, DeviceInv
  <2> QED
    BY <2>9 DEF r, s
<1>3. CASE UnmapBars(d)
  <2>1. r.pc = "unmap_bar" /\ s = [r EXCEPT !.bar = FALSE, !.pc = "rel_region"]
    BY <1>3 DEF UnmapBars
  <2>d. dev_present' = dev_present
    BY <1>3 DEF UnmapBars, deviceRest
  <2> HIDE DEF r, s
  <2>2. /\ r.pc = "unmap_bar" /\ s.pc = "rel_region" /\ ~s.bar /\ s.bar \in BOOLEAN
        /\ Keeps(r, s, {"pc", "bar"})
    BY <1>r, <2>1, AllFields DEF Keeps
  <2>3. Typed(s)
    BY <1>r, <2>2, AllFields DEF Keeps, Typed, Labels, Steps
  <2>4. HeldInv(s)
    BY <1>r, <2>2, AllFields DEF DeviceInv, HeldInv, Labels, Keeps
  <2>5. SlotInv(s)
    BY <1>r, <2>2, AllFields DEF DeviceInv, HeldInv, SlotInv, Labels, Keeps
  <2>6. PointerInv(s)
    BY <1>r, <2>2, AllFields DEF DeviceInv, PointerInv, Labels, Keeps
  <2>7. HandlerInv(s)
    BY <1>r, <2>2, AllFields DEF DeviceInv, HandlerInv, Labels, Keeps
  <2>8. MadeInv(s)
    BY <1>r, <2>2, AllFields DEF DeviceInv, MadeInv, Labels, Keeps
  <2>g. Goes(d, r, s)
    BY <1>r, <2>2, <2>d, AllFields DEF Goes, Labels, Keeps
  <2>9. Sound(s) /\ Goes(d, r, s)
    BY <2>2, <2>3, <2>4, <2>5, <2>6, <2>7, <2>8, <2>g DEF Sound, Keeps, DeviceInv
  <2> QED
    BY <2>9 DEF r, s
<1>4. CASE RelRegion(d)
  <2>1. r.pc = "rel_region" /\ s = [r EXCEPT !.regions = FALSE, !.pc = "disable_msi"]
    BY <1>4 DEF RelRegion
  <2>d. dev_present' = dev_present
    BY <1>4 DEF RelRegion, deviceRest
  <2> HIDE DEF r, s
  <2>2. /\ r.pc = "rel_region" /\ s.pc = "disable_msi" /\ ~s.regions /\ s.regions \in BOOLEAN
        /\ Keeps(r, s, {"pc", "regions"})
    BY <1>r, <2>1, AllFields DEF Keeps
  <2>3. Typed(s)
    BY <1>r, <2>2, AllFields DEF Keeps, Typed, Labels, Steps
  <2>4. HeldInv(s)
    BY <1>r, <2>2, AllFields DEF DeviceInv, HeldInv, Labels, Keeps
  <2>5. SlotInv(s)
    BY <1>r, <2>2, AllFields DEF DeviceInv, HeldInv, SlotInv, Labels, Keeps
  <2>6. PointerInv(s)
    BY <1>r, <2>2, AllFields DEF DeviceInv, PointerInv, Labels, Keeps
  <2>7. HandlerInv(s)
    BY <1>r, <2>2, AllFields DEF DeviceInv, HandlerInv, Labels, Keeps
  <2>8. MadeInv(s)
    BY <1>r, <2>2, AllFields DEF DeviceInv, MadeInv, Labels, Keeps
  <2>g. Goes(d, r, s)
    BY <1>r, <2>2, <2>d, AllFields DEF Goes, Labels, Keeps
  <2>9. Sound(s) /\ Goes(d, r, s)
    BY <2>2, <2>3, <2>4, <2>5, <2>6, <2>7, <2>8, <2>g DEF Sound, Keeps, DeviceInv
  <2> QED
    BY <2>9 DEF r, s
<1>5. CASE DisableMsi(d)
  <2>1. r.pc = "disable_msi" /\ s = [r EXCEPT !.msi = FALSE, !.enabled = @ /\ r.regions_in_use, !.pc = "free_alloc"]
    BY <1>5 DEF DisableMsi
  <2>d. dev_present' = dev_present
    BY <1>5 DEF DisableMsi, deviceRest
  <2> HIDE DEF r, s
  <2>2. /\ r.pc = "disable_msi" /\ s.pc = "free_alloc" /\ ~s.msi /\ s.msi \in BOOLEAN
        /\ s.enabled \in BOOLEAN /\ (s.enabled <=> r.enabled /\ r.regions_in_use)
        /\ Keeps(r, s, {"pc", "msi", "enabled"})
    BY <1>r, <2>1, AllFields DEF Keeps
  <2>3. Typed(s)
    BY <1>r, <2>2, AllFields DEF Keeps, Typed, Labels, Steps
  <2>4. HeldInv(s)
    BY <1>r, <2>2, AllFields DEF DeviceInv, HeldInv, Labels, Keeps
  <2>5. SlotInv(s)
    BY <1>r, <2>2, AllFields DEF DeviceInv, HeldInv, SlotInv, Labels, Keeps
  <2>6. PointerInv(s)
    BY <1>r, <2>2, AllFields DEF DeviceInv, PointerInv, Labels, Keeps
  <2>7. HandlerInv(s)
    BY <1>r, <2>2, AllFields DEF DeviceInv, HandlerInv, Labels, Keeps
  <2>8. MadeInv(s)
    BY <1>r, <2>2, AllFields DEF DeviceInv, MadeInv, Labels, Keeps
  <2>g. Goes(d, r, s)
    BY <1>r, <2>2, <2>d, AllFields DEF Goes, Labels, Keeps
  <2>9. Sound(s) /\ Goes(d, r, s)
    BY <2>2, <2>3, <2>4, <2>5, <2>6, <2>7, <2>8, <2>g DEF Sound, Keeps, DeviceInv
  <2> QED
    BY <2>9 DEF r, s
<1> QED
  BY <1>1, <1>2, <1>3, <1>4, <1>5

\* What the driver knew is gone.
LEMMA FreeAllocSound ==
  ASSUME NEW d \in Devices, lro \in [Devices -> Device], DeviceInv(lro[d]), FreeAlloc(d)
  PROVE  Sound(lro'[d]) /\ Goes(d, lro[d], lro'[d])
<1> DEFINE r == lro[d]
           s == lro'[d]
           f == r.file /\ ~r.removing
           slots == IF r.removing THEN r.slots \ {r.instance} ELSE r.slots
<1> USE DEF UpPcs, CharPcs, EnginePcs, IrqPcs, BarPcs, Owns
<1>r. r = [k \in Fields |-> r[k]] /\ Typed(r) /\ DeviceInv(r)
  BY DeviceFields
<1>1. \/ r.removing /\ s = Freed([r EXCEPT !.file = FALSE, !.slots = @ \ {r.instance}])
      \/ ~r.removing /\ s = Freed(r)
  BY DEF FreeAlloc
<1>d. dev_present' = IF r.removing THEN [dev_present EXCEPT ![r.instance] = FALSE] ELSE dev_present
  BY DEF FreeAlloc
<1>p. r.pc = "free_alloc"
  BY DEF FreeAlloc
<1> HIDE DEF r, s
<1>2. PICK t : /\ s = Freed(t) /\ t.failed = r.failed /\ t.warned = r.warned /\ t.irqs = r.irqs /\ t.bar = r.bar
               /\ t.enabled = r.enabled /\ t.msi = r.msi /\ t.regions = r.regions /\ t.engines = r.engines
               /\ t.wb = r.wb /\ t.chars = r.chars /\ t.ints = r.ints /\ t.orphan = r.orphan
               /\ t.file \in BOOLEAN /\ (t.file <=> f) /\ t.slots = slots
  <2>1. CASE r.removing
    <3> DEFINE t == [r EXCEPT !.file = FALSE, !.slots = @ \ {r.instance}]
    <3>1. s = Freed(t)
      BY <1>1, <2>1
    <3>2. /\ t.failed = r.failed /\ t.warned = r.warned /\ t.irqs = r.irqs /\ t.bar = r.bar
          /\ t.enabled = r.enabled /\ t.msi = r.msi /\ t.regions = r.regions /\ t.engines = r.engines
          /\ t.wb = r.wb /\ t.chars = r.chars /\ t.ints = r.ints /\ t.orphan = r.orphan
          /\ t.file \in BOOLEAN /\ (t.file <=> f) /\ t.slots = slots
      BY <1>r, <2>1, AllFields
    <3> HIDE DEF t
    <3> QED
      BY <3>1, <3>2
  <2>2. CASE ~r.removing
    BY <1>1, <1>r, <2>2 DEF Typed
  <2> QED
    BY <2>1, <2>2
<1>3. /\ s.pc = "none" /\ ~s.removing /\ s.failed = r.failed /\ s.oops = "none" /\ s.warned = r.warned
      /\ s.bar = r.bar /\ ~s.regions_in_use /\ ~s.irq_line /\ ~s.irq_user_count /\ s.engine = {}
      /\ s.char_dev = {} /\ s.instance = -1 /\ ~s.alive /\ s.enabled = r.enabled /\ s.msi = r.msi
      /\ s.regions = r.regions /\ s.irqs = r.irqs /\ s.engines = r.engines /\ s.wb = r.wb
      /\ s.chars = r.chars /\ s.file \in BOOLEAN /\ (s.file <=> f) /\ s.slots = slots /\ s.ints = r.ints
      /\ ~s.raised /\ s.work = {} /\ s.orphan = r.orphan
      /\ \A b \in {"removing", "regions_in_use", "irq_line", "irq_user_count", "alive", "raised"} :
           s[b] \in BOOLEAN
  BY <1>2 DEF Freed, Absent
<1>4. s = [k \in Fields |-> s[k]]
  BY <1>2, AbsentFields DEF Freed
<1>t. slots \subseteq 0 .. MaxDevices - 1
  BY <1>r DEF Typed
<1>u. -1 \in -1 .. MaxDevices - 1
  BY Sizes
<1> HIDE DEF slots
<1>5. Typed(s)
  BY <1>r, <1>3, <1>t, <1>u DEF Typed
<1>6. HeldInv(s)
  BY <1>r, <1>p, <1>3 DEF DeviceInv, HeldInv
<1>7. SlotInv(s)
  BY <1>r, <1>p, <1>3 DEF DeviceInv, SlotInv, slots
<1>8. PointerInv(s) /\ HandlerInv(s) /\ MadeInv(s)
  BY <1>r, <1>p, <1>3 DEF DeviceInv, PointerInv, HandlerInv, MadeInv
<1>g. Goes(d, r, s)
  BY <1>d, <1>p, <1>3 DEF Goes
<1>9. Sound(s) /\ Goes(d, r, s)
  BY <1>4, <1>5, <1>6, <1>7, <1>8, <1>g DEF Sound, DeviceInv
<1> QED
  BY <1>9 DEF r, s

\* The interrupts, and the work they begin.
LEMMA InterruptSound ==
  ASSUME NEW d \in Devices, lro \in [Devices -> Device], DeviceInv(lro[d]),
         Interrupt(d)
  PROVE  Sound(lro'[d]) /\ Goes(d, lro[d], lro'[d])
<1> DEFINE r == lro[d]
           s == lro'[d]
<1> USE DEF UpPcs, CharPcs, EnginePcs, IrqPcs, BarPcs, Owns
<1>r. r = [f \in Fields |-> r[f]] /\ Typed(r) /\ DeviceInv(r)
  BY DeviceFields
<1>1. CASE Raise(d)
  <2>1. s = [r EXCEPT !.raised = TRUE]
    BY <1>1 DEF Raise
  <2>d. dev_present' = dev_present
    BY <1>1 DEF Raise, deviceRest
  <2> HIDE DEF r, s
  <2>3. Keeps(r, s, {"raised", "work", "oops"}) /\ s.raised \in BOOLEAN /\ s.work \subseteq Engines
        /\ (s.oops = r.oops \/ s.oops \in {"handler", "work"})
    BY <1>r, <2>1, AllFields DEF Keeps, Typed
  <2>4. Sound(s) /\ Goes(d, r, s)
    BY <1>r, <2>3, <2>d, QuietSteps DEF Goes
  <2> QED
    BY <2>4 DEF r, s
<1>2. CASE Isr(d) /\ Dangling(r) # {}
  <2>1. s = [r EXCEPT !.oops = "handler"]
    BY <1>2 DEF Isr
  <2>d. dev_present' = dev_present
    BY <1>2 DEF Isr, deviceRest
  <2> HIDE DEF r, s
  <2>3. Keeps(r, s, {"raised", "work", "oops"}) /\ s.raised \in BOOLEAN /\ s.work \subseteq Engines
        /\ (s.oops = r.oops \/ s.oops \in {"handler", "work"})
    BY <1>r, <2>1, AllFields DEF Keeps, Typed
  <2>4. Sound(s) /\ Goes(d, r, s)
    BY <1>r, <2>3, <2>d, QuietSteps DEF Goes
  <2> QED
    BY <2>4 DEF r, s
<1>3. CASE Isr(d) /\ Dangling(r) = {}
  <2>1. PICK S \in SUBSET r.engine : s = [r EXCEPT !.raised = FALSE, !.work = @ \cup S]
    BY <1>3 DEF Isr
  <2>d. dev_present' = dev_present
    BY <1>3 DEF Isr, deviceRest
  <2> HIDE DEF r, s
  <2>3. Keeps(r, s, {"raised", "work", "oops"}) /\ s.raised \in BOOLEAN /\ s.work \subseteq Engines
        /\ (s.oops = r.oops \/ s.oops \in {"handler", "work"})
    BY <1>r, <2>1, AllFields DEF Keeps, Typed
  <2>4. Sound(s) /\ Goes(d, r, s)
    BY <1>r, <2>3, <2>d, QuietSteps DEF Goes
  <2> QED
    BY <2>4 DEF r, s
<1>4. CASE UserVector(d)
  <2>1. s = [r EXCEPT !.raised = FALSE]
    BY <1>4 DEF UserVector
  <2>d. dev_present' = dev_present
    BY <1>4 DEF UserVector, deviceRest
  <2> HIDE DEF r, s
  <2>3. Keeps(r, s, {"raised", "work", "oops"}) /\ s.raised \in BOOLEAN /\ s.work \subseteq Engines
        /\ (s.oops = r.oops \/ s.oops \in {"handler", "work"})
    BY <1>r, <2>1, AllFields DEF Keeps, Typed
  <2>4. Sound(s) /\ Goes(d, r, s)
    BY <1>r, <2>3, <2>d, QuietSteps DEF Goes
  <2> QED
    BY <2>4 DEF r, s
<1>5. CASE OrphanWork(d)
  <2>1. s = [r EXCEPT !.oops = "work"]
    BY <1>5 DEF OrphanWork
  <2>d. dev_present' = dev_present
    BY <1>5 DEF OrphanWork, deviceRest
  <2> HIDE DEF r, s
  <2>3. Keeps(r, s, {"raised", "work", "oops"}) /\ s.raised \in BOOLEAN /\ s.work \subseteq Engines
        /\ (s.oops = r.oops \/ s.oops \in {"handler", "work"})
    BY <1>r, <2>1, AllFields DEF Keeps, Typed
  <2>4. Sound(s) /\ Goes(d, r, s)
    BY <1>r, <2>3, <2>d, QuietSteps DEF Goes
  <2> QED
    BY <2>4 DEF r, s
<1>6. CASE \E e \in Engines : ChannelVector(d, e)
  <2>1. PICK e \in Engines : s = [r EXCEPT !.raised = FALSE, !.work = @ \cup {e}]
    BY <1>6 DEF ChannelVector
  <2>d. dev_present' = dev_present
    BY <1>6 DEF ChannelVector, deviceRest
  <2> HIDE DEF r, s
  <2>3. Keeps(r, s, {"raised", "work", "oops"}) /\ s.raised \in BOOLEAN /\ s.work \subseteq Engines
        /\ (s.oops = r.oops \/ s.oops \in {"handler", "work"})
    BY <1>r, <2>1, AllFields DEF Keeps, Typed
  <2>4. Sound(s) /\ Goes(d, r, s)
    BY <1>r, <2>3, <2>d, QuietSteps DEF Goes
  <2> QED
    BY <2>4 DEF r, s
<1>7. CASE \E e \in Engines : EngineWork(d, e)
  <2>1. PICK e \in Engines : s = [r EXCEPT !.work = @ \ {e}]
    BY <1>7 DEF EngineWork
  <2>d. dev_present' = dev_present
    BY <1>7 DEF EngineWork, deviceRest
  <2> HIDE DEF r, s
  <2>3. Keeps(r, s, {"raised", "work", "oops"}) /\ s.raised \in BOOLEAN /\ s.work \subseteq Engines
        /\ (s.oops = r.oops \/ s.oops \in {"handler", "work"})
    BY <1>r, <2>1, AllFields DEF Keeps, Typed
  <2>4. Sound(s) /\ Goes(d, r, s)
    BY <1>r, <2>3, <2>d, QuietSteps DEF Goes
  <2> QED
    BY <2>4 DEF r, s
<1> QED
  BY <1>1, <1>2, <1>3, <1>4, <1>5, <1>6, <1>7 DEF Interrupt

\* The record of one device changes.
OnlyOf(d) ==
  lro' = [c \in Devices |-> lro'[c]] /\ \A c \in Devices : c # d => lro'[c] = lro[c]

LEMMA OneDevice ==
  ASSUME NEW d \in Devices, lro \in [Devices -> Device], ProbeStep(d) \/ RemoveStep(d) \/ Interrupt(d)
  PROVE  OnlyOf(d)
<1>1. CASE Probe(d) \/ ScanForMsi(d) \/ RequestRegions(d) \/ MapBars(d) \/ SetDmaMask(d) \/ IrqSetup(d)
  BY <1>1 DEF OnlyOf, Probe, ScanForMsi, RequestRegions, MapBars, SetDmaMask, IrqSetup
<1>2. CASE \/ ProbeEngines(d) \/ CreateInterfaces(d) \/ CreateNothing(d) \/ CreateSome(d)
           \/ EnableInterrupts(d) \/ CreateFile(d)
  BY <1>2 DEF OnlyOf, ProbeEngines, CreateInterfaces, CreateNothing, CreateSome, EnableInterrupts, CreateFile
<1>3. CASE Remove(d) \/ RmvCdev(d) \/ DestroyInterfaces(d) \/ RemoveEngines(d) \/ IrqTeardown(d)
  BY <1>3 DEF OnlyOf, Remove, RmvCdev, DestroyInterfaces, RemoveEngines, IrqTeardown
<1>4. CASE UnmapBars(d) \/ RelRegion(d) \/ DisableMsi(d) \/ FreeAlloc(d)
  BY <1>4 DEF OnlyOf, UnmapBars, RelRegion, DisableMsi, FreeAlloc
<1>5. CASE Interrupt(d)
  BY <1>5 DEF OnlyOf, Interrupt, Raise, Isr, UserVector, OrphanWork, ChannelVector, EngineWork
<1> QED
  BY <1>1, <1>2, <1>3, <1>4, <1>5 DEF ProbeStep, RemoveStep

LEMMA EveryStep ==
  ASSUME NEW d \in Devices, setup \in Setups, lro \in [Devices -> Device], DeviceInv(lro[d]),
         ProbeStep(d) \/ RemoveStep(d) \/ Interrupt(d)
  PROVE  Sound(lro'[d]) /\ Goes(d, lro[d], lro'[d])
BY ProbeBegins, ProbeEnginesSound, CreateInterfacesSound, ProbeEnds, RemoveBegins, RemoveEnds, FreeAllocSound,
   InterruptSound DEF ProbeStep, RemoveStep
-------------------------------------------------------------------------------
(* The rest of the state *)

LEMMA EventSteps ==
  ASSUME Events!TypeOK, [Events!user_irq_service \/ \E x \in Readers :
           Events!ReadStart(x) \/ Events!PollStart(x) \/ Events!ReadInterrupted(x) \/ Events!ReaderStep(x)]_eventsVars
  PROVE  Events!TypeOK'
<1> USE DEF Events!TypeOK, Events!Pcs, Events!Results
<1>1. CASE Events!user_irq_service
  BY <1>1 DEF Events!user_irq_service, Events!wake_up
<1>2. ASSUME NEW x \in Readers, Events!ReadStart(x) \/ Events!PollStart(x) \/ Events!ReadInterrupted(x)
      PROVE  Events!TypeOK'
  BY <1>2 DEF Events!ReadStart, Events!PollStart, Events!ReadInterrupted, Events!Return
<1>3. ASSUME NEW x \in Readers, Events!ReaderStep(x) PROVE Events!TypeOK'
  BY <1>3 DEF Events!ReaderStep, Events!ReadWait, Events!ReadTake, Events!Poll, Events!Return
<1>4. CASE UNCHANGED eventsVars
  BY <1>4 DEF eventsVars
<1> QED
  BY <1>1, <1>2, <1>3, <1>4

\* What every step leaves alone, and what it does to the events device.
LEMMA SharedSteps ==
  ASSUME NEW d \in Devices, TypeOK, ProbeStep(d) \/ RemoveStep(d) \/ Interrupt(d)
  PROVE  /\ setup' = setup /\ registering' = registering
         /\ dev_present' \in [0 .. MaxDevices - 1 -> BOOLEAN]
         /\ probes' \in [Devices -> 0 .. MaxProbes]
         /\ \/ UNCHANGED eventsVars
            \/ d = Watched /\ Events!user_irq_service /\ lro'[d].pc = lro[d].pc
            \/ /\ d = Watched /\ lro[d].pc = "free_alloc"
               /\ events_irq' = FALSE /\ got' = [x \in Readers |-> "none"] /\ epc' = epc
<1> USE DEF TypeOK, deviceRest
<1>1. CASE Probe(d)
  <2>1. probes[d] \in 0 .. MaxProbes /\ probes[d] < MaxProbes /\ probes' = [probes EXCEPT ![d] = @ + 1]
    BY <1>1 DEF Probe
  <2>2. probes[d] + 1 \in 0 .. MaxProbes
    BY <2>1, Sizes
  <2>3. probes' \in [Devices -> 0 .. MaxProbes]
    BY <2>1, <2>2
  <2> QED
    BY <1>1, <2>3 DEF Probe
<1>2. CASE ScanForMsi(d) \/ RequestRegions(d) \/ MapBars(d) \/ SetDmaMask(d) \/ IrqSetup(d)
  BY <1>2 DEF ScanForMsi, RequestRegions, MapBars, SetDmaMask, IrqSetup
<1>3. CASE ProbeEngines(d) \/ CreateNothing(d) \/ EnableInterrupts(d) \/ CreateFile(d)
  BY <1>3 DEF ProbeEngines, CreateNothing, EnableInterrupts, CreateFile
<1>4. CASE CreateInterfaces(d) \/ CreateSome(d)
  BY <1>4 DEF CreateInterfaces, CreateSome
<1>5. CASE Remove(d) \/ DestroyInterfaces(d) \/ RemoveEngines(d) \/ IrqTeardown(d)
  BY <1>5 DEF Remove, DestroyInterfaces, RemoveEngines, IrqTeardown
<1>6. CASE RmvCdev(d)
  BY <1>6 DEF RmvCdev
<1>7. CASE UnmapBars(d) \/ RelRegion(d) \/ DisableMsi(d)
  BY <1>7 DEF UnmapBars, RelRegion, DisableMsi
<1>8. CASE FreeAlloc(d)
  BY <1>8 DEF FreeAlloc
<1>9. CASE Interrupt(d)
  <2>1. CASE Raise(d) \/ OrphanWork(d) \/ \E e \in Engines : ChannelVector(d, e) \/ EngineWork(d, e)
    BY <2>1 DEF Raise, OrphanWork, ChannelVector, EngineWork
  <2>2. CASE Isr(d)
    <3>1. lro'[d].pc = lro[d].pc
      BY <2>2, DeviceFields, AllFields DEF Isr
    <3> QED
      BY <2>2, <3>1 DEF Isr, UserIrq
  <2>3. CASE UserVector(d)
    <3>1. lro'[d].pc = lro[d].pc
      BY <2>3, DeviceFields, AllFields DEF UserVector
    <3> QED
      BY <2>3, <3>1 DEF UserVector, UserIrq
  <2> QED
    BY <1>9, <2>1, <2>2, <2>3 DEF Interrupt
<1> QED
  BY <1>1, <1>2, <1>3, <1>4, <1>5, <1>6, <1>7, <1>8, <1>9 DEF ProbeStep, RemoveStep

\* What holds of each device on its own.
DevicesInv == TypeOK /\ \A d \in Devices : DeviceInv(lro[d])

LEMMA InitDevices == Init => DevicesInv
<1> SUFFICES ASSUME Init PROVE DevicesInv
  OBVIOUS
<1>1. Absent \in Device
  BY AbsentFields, DeviceFields
<1>2. TypeOK
  <2>1. setup \in Setups /\ registering \in BOOLEAN
    BY Sizes DEF Init, Setup
  <2>2. Events!TypeOK
    BY DEF Init, Events!Init, Events!TypeOK, Events!Pcs, Events!Results
  <2>3. /\ dev_present \in [0 .. MaxDevices - 1 -> BOOLEAN] /\ lro \in [Devices -> Device]
        /\ probes \in [Devices -> 0 .. MaxProbes]
    BY <1>1, Sizes DEF Init
  <2> QED
    BY <2>1, <2>2, <2>3 DEF TypeOK
<1>3. HeldInv(Absent)
  BY DEF Absent, HeldInv, UpPcs, CharPcs, EnginePcs, IrqPcs, BarPcs
<1>4. SlotInv(Absent) /\ PointerInv(Absent) /\ HandlerInv(Absent) /\ MadeInv(Absent)
  BY DEF Absent, SlotInv, PointerInv, HandlerInv, MadeInv, UpPcs, CharPcs, EnginePcs, IrqPcs
<1> QED
  BY <1>2, <1>3, <1>4 DEF DevicesInv, Init, DeviceInv

\* Nothing that DeviceInv looks at but the record and the setup.
LEMMA SameSetup ==
  ASSUME setup' = setup, NEW d \in Devices, DeviceInv(lro'[d])
  PROVE  DeviceInv(lro[d])'
<1>1. HeldInv(lro[d])' /\ SlotInv(lro[d])' /\ PointerInv(lro[d])'
  BY DEF DeviceInv, HeldInv, SlotInv, PointerInv
<1>2. HandlerInv(lro[d])'
  BY DEF DeviceInv, HandlerInv
<1>3. UserBar' = UserBar /\ BypassBar' = BypassBar
  BY DEF UserBar, BypassBar, num_bars, config_bar_pos
<1>4. Wanted(lro[d])' = Wanted(lro'[d])
  BY <1>3 DEF Wanted
<1>5. MadeInv(lro[d])'
  BY <1>4 DEF DeviceInv, MadeInv
<1> QED
  BY <1>1, <1>2, <1>5 DEF DeviceInv

LEMMA DeviceStep ==
  ASSUME DevicesInv, NEW d \in Devices, ProbeStep(d) \/ RemoveStep(d) \/ Interrupt(d)
  PROVE  DevicesInv'
<1>1. /\ setup \in Setups /\ lro \in [Devices -> Device] /\ Events!TypeOK /\ registering \in BOOLEAN
      /\ \A c \in Devices : DeviceInv(lro[c])
  BY DEF DevicesInv, TypeOK
<1>2. Sound(lro'[d]) /\ OnlyOf(d)
  BY <1>1, EveryStep, OneDevice
<1>3. \A c \in Devices : lro'[c] \in Device /\ DeviceInv(lro'[c])
  <2>1. lro'[d] \in Device /\ DeviceInv(lro'[d])
    BY <1>2, DeviceFields DEF Sound
  <2>2. \A c \in Devices : c # d => lro'[c] = lro[c]
    BY <1>2 DEF OnlyOf
  <2> QED
    BY <1>1, <2>1, <2>2
<1>4. lro' \in [Devices -> Device]
  BY <1>2, <1>3 DEF OnlyOf
<1>5. /\ setup' = setup /\ registering' = registering
      /\ dev_present' \in [0 .. MaxDevices - 1 -> BOOLEAN] /\ probes' \in [Devices -> 0 .. MaxProbes]
  BY SharedSteps DEF DevicesInv
<1>6. Events!TypeOK'
  <2>1. CASE UNCHANGED eventsVars
    BY <1>1, <2>1, EventSteps
  <2>2. CASE Events!user_irq_service
    BY <1>1, <2>2, EventSteps
  <2>3. CASE events_irq' = FALSE /\ got' = [x \in Readers |-> "none"] /\ epc' = epc
    BY <1>1, <2>3 DEF Events!TypeOK, Events!Results
  <2> QED
    BY <2>1, <2>2, <2>3, SharedSteps DEF DevicesInv
<1>7. \A c \in Devices : DeviceInv(lro[c])'
  BY <1>3, <1>5, SameSetup
<1> QED
  BY <1>1, <1>4, <1>5, <1>6, <1>7 DEF DevicesInv, TypeOK

LEMMA DevicesStep == DevicesInv /\ [Next]_vars => DevicesInv'
<1> SUFFICES ASSUME DevicesInv, [Next]_vars PROVE DevicesInv'
  OBVIOUS
<1>1. CASE \E d \in Devices : ProbeStep(d) \/ RemoveStep(d) \/ Interrupt(d)
  BY <1>1, DeviceStep
<1>2. ASSUME UNCHANGED <<setup, lro>>, TypeOK' PROVE DevicesInv'
  <2>1. \A d \in Devices : DeviceInv(lro'[d])
    BY <1>2 DEF DevicesInv
  <2>2. \A d \in Devices : DeviceInv(lro[d])'
    BY <1>2, <2>1, SameSetup
  <2> QED
    BY <1>2, <2>2 DEF DevicesInv
<1>3. CASE XdmaInit
  <2>1. TypeOK'
    BY <1>3 DEF XdmaInit, DevicesInv, TypeOK, eventsVars, Events!TypeOK
  <2> QED
    BY <1>2, <1>3, <2>1 DEF XdmaInit
<1>4. CASE \E x \in Readers : EventsOf(x)
  <2>1. Events!TypeOK'
    BY <1>4, EventSteps DEF DevicesInv, TypeOK, EventsOf
  <2>2. TypeOK'
    BY <1>4, <2>1 DEF EventsOf, DevicesInv, TypeOK
  <2> QED
    BY <1>2, <1>4, <2>2 DEF EventsOf
<1>5. CASE UNCHANGED vars
  <2>1. TypeOK'
    BY <1>5 DEF vars, eventsVars, DevicesInv, TypeOK, Events!TypeOK
  <2> QED
    BY <1>2, <1>5, <2>1 DEF vars
<1> QED
  BY <1>1, <1>3, <1>4, <1>5 DEF Next

LEMMA SpecDevices == Spec => []DevicesInv
BY InitDevices, DevicesStep, PTL DEF Spec

-------------------------------------------------------------------------------
(* What follows of each device *)

\* The state of a device that is being probed, is up, or is being removed, and the
\* events it has seen, are always those of the specification.
THEOREM DeviceTyped == Spec => []TypeOK
<1>1. DevicesInv => TypeOK
  BY DEF DevicesInv
<1> QED
  BY <1>1, SpecDevices, PTL

\* A handler runs only while the registers are mapped, the device is there and its
\* engine too (irq_teardown and remove_engines come before unmap_bars and kfree),
\* whatever step of probe() has failed.
THEOREM HandlersAreSafe == Spec => []HandlersSafe
<1>1. ASSUME DevicesInv PROVE HandlersSafe
  <2> SUFFICES ASSUME NEW d \in Devices, NEW i \in lro[d].irqs
               PROVE  lro[d].alive /\ lro[d].bar /\ (i # 0 => i \in lro[d].engines)
    BY DEF HandlersSafe
  <2>1. HeldInv(lro[d])
    BY <1>1 DEF DevicesInv, DeviceInv
  <2> QED
    BY <2>1 DEF HeldInv, BarPcs, IrqPcs, EnginePcs, CharPcs, UpPcs
<1> QED
  BY <1>1, SpecDevices, PTL

\* A failed probe() and remove() give back what they have taken (the labels of probe()
\* and the calls of remove()).
THEOREM LeavesNothing == Spec => []NothingLeft
<1>1. ASSUME DevicesInv PROVE NothingLeft
  <2> SUFFICES ASSUME NEW d \in Devices, lro[d].pc = "none"
               PROVE  LET r == lro[d] IN
                        /\ r.irqs = {} /\ ~r.bar /\ ~r.regions /\ ~r.msi /\ ~r.file
                        /\ r.engines = {} /\ r.wb = {} /\ r.chars = {}
                        /\ r.enabled => "regions" \in r.failed
                        /\ r.slots # {} => "interface" \in r.failed
                        /\ r.ints => "file" \in r.failed
    BY DEF NothingLeft
  <2>1. HeldInv(lro[d]) /\ SlotInv(lro[d])
    BY <1>1 DEF DevicesInv, DeviceInv
  <2> USE DEF BarPcs, IrqPcs, EnginePcs, CharPcs, UpPcs
  <2>2. ~lro[d].removing /\ ~Owns(lro[d])
    BY <2>1 DEF HeldInv, Owns, Labels
  <2>3. lro[d].slots # {} => "interface" \in lro[d].failed
    BY <2>1, <2>2 DEF SlotInv
  <2> QED
    BY <2>1, <2>2, <2>3 DEF HeldInv
<1> QED
  BY <1>1, SpecDevices, PTL

\* Nothing is freed twice and no handler is freed that is not there, but after a failure of
\* probe_engines, create_interfaces or irq_setup.
THEOREM UnwindsOnlyOnce == Spec => []UnwindsOnce
<1>1. DevicesInv => UnwindsOnce
  BY DEF DevicesInv, DeviceInv, PointerInv, HandlerInv, UnwindsOnce
<1> QED
  BY <1>1, SpecDevices, PTL

\* identify_bars finds the BARs of every layout.
LEMMA BarsFound ==
  ASSUME setup \in Setups
  PROVE  /\ UserBar <=> \E i \in DOMAIN setup.layout : setup.layout[i] = "user"
         /\ BypassBar <=> \E i \in DOMAIN setup.layout : setup.layout[i] = "bypass"
<1>1. setup.layout \in Layouts
  BY Sizes DEF Setup
<1>2. CASE setup.layout = <<"config">>
  <2>1. num_bars = 1 /\ DOMAIN setup.layout = {1} /\ setup.layout[1] = "config"
    BY <1>2 DEF num_bars
  <2> QED
    BY <2>1 DEF UserBar, BypassBar
<1>3. CASE setup.layout = <<"user", "config">>
  <2>1. num_bars = 2 /\ DOMAIN setup.layout = {1, 2} /\ setup.layout[1] = "user" /\ setup.layout[2] = "config"
    BY <1>3 DEF num_bars
  <2>2. config_bar_pos = 1
    BY <2>1 DEF config_bar_pos
  <2> QED
    BY <2>1, <2>2 DEF UserBar, BypassBar
<1>4. CASE setup.layout = <<"config", "bypass">>
  <2>1. num_bars = 2 /\ DOMAIN setup.layout = {1, 2} /\ setup.layout[1] = "config" /\ setup.layout[2] = "bypass"
    BY <1>4 DEF num_bars
  <2>2. config_bar_pos = 0
    BY <2>1 DEF config_bar_pos
  <2> QED
    BY <2>1, <2>2 DEF UserBar, BypassBar
<1>5. CASE setup.layout = <<"user", "config", "bypass">>
  <2>1. /\ num_bars = 3 /\ DOMAIN setup.layout = {1, 2, 3}
        /\ setup.layout[1] = "user" /\ setup.layout[2] = "config" /\ setup.layout[3] = "bypass"
    BY <1>5 DEF num_bars
  <2>2. config_bar_pos = 1
    BY <2>1 DEF config_bar_pos
  <2> QED
    BY <2>1, <2>2 DEF UserBar, BypassBar
<1> QED
  BY <1>1, <1>2, <1>3, <1>4, <1>5 DEF Layouts

\* A device that is up has its handlers and what create_interfaces is to make.
THEOREM UpIsServed == Spec => []UpMeansServed
<1>1. ASSUME DevicesInv PROVE UpMeansServed
  <2> SUFFICES ASSUME NEW d \in Devices, lro[d].pc = "up"
               PROVE  LET r == lro[d] IN
                        /\ r.engine = r.engines /\ setup.present \cap H2C \subseteq r.engine
                        /\ 0 \in r.irqs /\ (setup.irq = "msix" => r.engine \subseteq r.irqs)
                        /\ {Ctrl} \cup {Sg(e) : e \in r.engine} \subseteq r.chars
                        /\ User \in r.chars <=> \E i \in DOMAIN setup.layout : setup.layout[i] = "user"
                        /\ {c \in r.chars : c > 2 + 2 * Channels /\ c < Base} =
                             IF \E i \in DOMAIN setup.layout : setup.layout[i] = "bypass"
                             THEN {Bypass(e) : e \in r.engine} ELSE {}
    BY DEF UpMeansServed
  <2> DEFINE r == lro[d]
  <2> USE DEF IrqPcs, EnginePcs, CharPcs, UpPcs
  <2>1. setup \in Setups /\ Typed(r) /\ DeviceInv(r) /\ r.engine \subseteq Engines
    BY <1>1, DeviceFields DEF DevicesInv, TypeOK, Typed
  <2>2. /\ r.engine = r.engines /\ setup.present \cap H2C \subseteq r.engine
        /\ 0 \in r.irqs /\ (setup.irq = "msix" => r.engine \subseteq r.irqs)
    BY <2>1 DEF DeviceInv, PointerInv, HandlerInv, MadeInv
  <2>3. PICK missing \in SUBSET {Event, Base} : r.chars = Wanted(r) \ missing
    BY <2>1 DEF DeviceInv, MadeInv
  <2>4. /\ User = 0 /\ Ctrl = 1 /\ Event = 2 /\ Base = 3 + 4 * Channels
        /\ \A e \in Engines : /\ e \in Nat /\ e >= 1 /\ e <= 2 * Channels
                              /\ Sg(e) = 2 + e /\ Bypass(e) = 2 + 2 * Channels + e
    BY Sizes DEF User, Ctrl, Event, Base, Engines, H2C, C2H, Sg, Bypass
  <2> HIDE DEF r
  <2>5. {Ctrl} \cup {Sg(e) : e \in r.engine} \subseteq r.chars
    BY <2>1, <2>3, <2>4, Sizes DEF Wanted
  <2>6. User \in r.chars <=> UserBar
    BY <2>1, <2>3, <2>4, Sizes DEF Wanted
  <2>7. {c \in r.chars : c > 2 + 2 * Channels /\ c < Base} =
          IF BypassBar THEN {Bypass(e) : e \in r.engine} ELSE {}
    BY <2>1, <2>3, <2>4, Sizes DEF Wanted
  <2>8. /\ UserBar <=> \E i \in DOMAIN setup.layout : setup.layout[i] = "user"
        /\ BypassBar <=> \E i \in DOMAIN setup.layout : setup.layout[i] = "bypass"
    BY <2>1, BarsFound
  <2> QED
    BY <2>2, <2>5, <2>6, <2>7, <2>8 DEF r
<1> QED
  BY <1>1, SpecDevices, PTL

-------------------------------------------------------------------------------
(* The numbers of the devices *)

LEMMA NumbersKept ==
  ASSUME DevicesInv, NumberInv, ~setup.early, NEW d \in Devices, OnlyOf(d), Goes(d, lro[d], lro'[d])
  PROVE  /\ \A c \in Devices : Owns(lro'[c]) =>
              lro'[c].instance \in 0 .. MaxDevices - 1 /\ dev_present'[lro'[c].instance]
         /\ \A b, c \in Devices : Owns(lro'[b]) /\ Owns(lro'[c]) /\ b # c => lro'[b].instance # lro'[c].instance
<1>1. /\ \A c \in Devices : Owns(lro[c]) =>
           lro[c].instance \in 0 .. MaxDevices - 1 /\ dev_present[lro[c].instance]
      /\ \A b, c \in Devices : Owns(lro[b]) /\ Owns(lro[c]) /\ b # c => lro[b].instance # lro[c].instance
      /\ dev_present \in [0 .. MaxDevices - 1 -> BOOLEAN]
  BY DEF NumberInv, DevicesInv, TypeOK
<1>2. \A c \in Devices : c # d => lro'[c] = lro[c]
  BY DEF OnlyOf
<1>3. CASE dev_present' = dev_present /\ (Owns(lro'[d]) => Owns(lro[d]) /\ lro'[d].instance = lro[d].instance)
  <2>1. \A c \in Devices : Owns(lro'[c]) => Owns(lro[c]) /\ lro'[c].instance = lro[c].instance
    BY <1>2, <1>3
  <2> QED
    BY <1>1, <1>3, <2>1
<1>4. CASE /\ FreeSlots # {} /\ dev_present' = [dev_present EXCEPT ![FirstFree] = TRUE]
           /\ Owns(lro'[d]) => lro'[d].instance = FirstFree
  <2>1. FirstFree \in 0 .. MaxDevices - 1 /\ ~dev_present[FirstFree]
    BY <1>4, AFreeSlot DEF FreeSlots
  <2>2. \A c \in Devices : c # d /\ Owns(lro'[c]) =>
          /\ lro'[c].instance \in 0 .. MaxDevices - 1 /\ lro'[c].instance # FirstFree
          /\ dev_present'[lro'[c].instance]
    BY <1>1, <1>2, <1>4, <2>1
  <2>3. Owns(lro'[d]) => lro'[d].instance \in 0 .. MaxDevices - 1 /\ dev_present'[lro'[d].instance]
    BY <1>1, <1>4, <2>1
  <2> QED
    BY <1>1, <1>2, <1>4, <2>2, <2>3
<1>5. CASE /\ Owns(lro[d]) /\ ~Owns(lro'[d])
           /\ dev_present' = [dev_present EXCEPT ![lro[d].instance] = FALSE]
  <2>1. \A c \in Devices : Owns(lro'[c]) => c # d /\ Owns(lro[c]) /\ lro'[c].instance = lro[c].instance
    BY <1>2, <1>5
  <2>2. \A c \in Devices : Owns(lro'[c]) =>
          lro'[c].instance \in 0 .. MaxDevices - 1 /\ dev_present'[lro'[c].instance]
    BY <1>1, <1>5, <2>1
  <2> QED
    BY <1>1, <2>1, <2>2
<1> QED
  BY <1>3, <1>4, <1>5 DEF Goes

LEMMA InitNumbers == Init => NumberInv
BY DEF Init, NumberInv, Absent, Owns, UpPcs

LEMMA NumbersStep == DevicesInv /\ NumberInv /\ [Next]_vars => NumberInv'
<1> SUFFICES ASSUME DevicesInv, NumberInv, [Next]_vars, ~setup'.early PROVE NumberInv'
  BY DEF NumberInv
<1>1. ASSUME NEW d \in Devices, ProbeStep(d) \/ RemoveStep(d) \/ Interrupt(d) PROVE NumberInv'
  <2>1. setup' = setup /\ registering' = registering
    BY <1>1, SharedSteps DEF DevicesInv
  <2>2. OnlyOf(d) /\ Goes(d, lro[d], lro'[d])
    BY <1>1, EveryStep, OneDevice DEF DevicesInv, TypeOK
  <2>3. /\ \A c \in Devices : Owns(lro'[c]) =>
             lro'[c].instance \in 0 .. MaxDevices - 1 /\ dev_present'[lro'[c].instance]
        /\ \A b, c \in Devices : Owns(lro'[b]) /\ Owns(lro'[c]) /\ b # c => lro'[b].instance # lro'[c].instance
    BY <2>1, <2>2, NumbersKept
  <2> QED
    BY <2>1, <2>3 DEF NumberInv, Owns
<1>2. CASE UNCHANGED <<setup, registering, lro, dev_present>>
  BY <1>2 DEF NumberInv, Owns
<1>3. CASE XdmaInit
  BY <1>3 DEF XdmaInit, NumberInv
<1> QED
  BY <1>1, <1>2, <1>3 DEF Next, EventsOf, vars

\* Devices that came after the module was loaded never share a number: create_sg_char
\* finds a slot nobody has, and remove() clears its own.
THEOREM InstancesAreDistinct == Spec => []InstancesDifferLater
<1>1. NumberInv => InstancesDifferLater
  BY DEF NumberInv, InstancesDifferLater, InstancesDiffer, Owns, UpPcs
<1>2. Spec => []NumberInv
  BY InitNumbers, NumbersStep, SpecDevices, PTL DEF Spec
<1> QED
  BY <1>1, <1>2, PTL
-------------------------------------------------------------------------------
(* The events device *)

LEMMA SoleReader ==
  ASSUME setup \in Setups, Cardinality(setup.readers) <= 1, NEW x \in setup.readers, NEW y \in setup.readers
  PROVE  x = y
<1>1. IsFiniteSet(setup.readers)
  BY Sizes, DeviceAssumption, FS_Subset DEF Setup
<1>2. {x, y} \in SUBSET setup.readers /\ Cardinality({x, y}) <= 1
  BY <1>1, FS_Subset, FS_CardinalityType
<1>3. IsFiniteSet({x}) /\ Cardinality({x}) = 1 /\ {x, y} = {x} \cup {y}
  BY FS_Singleton
<1>4. y \notin {x} => Cardinality({x} \cup {y}) = 2
  <2> DEFINE S == {x}
  <2>1. IsFiniteSet(S) /\ Cardinality(S) = 1
    BY <1>3
  <2> HIDE DEF S
  <2>2. y \notin S => Cardinality(S \cup {y}) = Cardinality(S) + 1
    BY <2>1, FS_AddElement
  <2> QED
    BY <2>1, <2>2 DEF S
<1> QED
  BY <1>2, <1>3, <1>4

LEMMA InitEvents == Init => EventsInv
BY DEF Init, Events!Init, EventsInv, SeenInv, Events!ReadMeansEvent, Events!ReadableStays

LEMMA EventsStep == DevicesInv /\ EventsInv /\ [Next]_vars => EventsInv'
<1> SUFFICES ASSUME DevicesInv, EventsInv, [Next]_vars PROVE EventsInv'
  OBVIOUS
<1> USE DEF Events!ReadMeansEvent, Events!ReadableStays
<1>1. /\ setup \in Setups /\ events_irq \in BOOLEAN
      /\ epc \in [Readers -> Events!Pcs] /\ got \in [Readers -> Events!Results]
      /\ \A x \in Readers : epc[x] # "idle" => x \in setup.readers /\ lro[Watched].pc = "up"
      /\ \A x \in Readers : got[x] # "none" => x \in setup.readers
      /\ Cardinality(setup.readers) <= 1 => SeenInv
  BY DEF DevicesInv, TypeOK, Events!TypeOK, EventsInv, SeenInv
<1>2. ASSUME setup' = setup,
             \A x \in Readers : epc'[x] # "idle" => x \in setup.readers /\ lro'[Watched].pc = "up",
             \A x \in Readers : got'[x] # "none" => x \in setup.readers,
             Cardinality(setup.readers) <= 1 => SeenInv'
      PROVE  EventsInv'
  BY <1>2 DEF EventsInv, SeenInv
<1>3. ASSUME NEW d \in Devices, ProbeStep(d) \/ RemoveStep(d) \/ Interrupt(d) PROVE EventsInv'
  <2>1. setup' = setup
    BY <1>3, SharedSteps DEF DevicesInv
  <2>2. OnlyOf(d) /\ Goes(d, lro[d], lro'[d])
    BY <1>3, EveryStep, OneDevice DEF DevicesInv, TypeOK
  <2>3. lro[Watched].pc = "up" => lro'[Watched].pc = "up" \/ \A x \in Readers : epc[x] = "idle"
    BY <2>2, DeviceAssumption DEF OnlyOf, Goes
  <2>4. CASE UNCHANGED eventsVars
    BY <1>1, <1>2, <2>1, <2>3, <2>4 DEF eventsVars, SeenInv
  <2>5. CASE d = Watched /\ Events!user_irq_service /\ lro'[d].pc = lro[d].pc
    <3>1. events_irq' = TRUE /\ got' = got
      BY <2>5 DEF Events!user_irq_service
    <3>2. \A x \in Readers : epc[x] = "idle" => epc'[x] = "idle"
      BY <2>5, <1>1 DEF Events!user_irq_service, Events!wake_up
    <3>3. \A x \in Readers : epc'[x] # "idle" => x \in setup.readers /\ lro'[Watched].pc = "up"
      BY <1>1, <2>5, <3>2
    <3>4. Cardinality(setup.readers) <= 1 => SeenInv'
      BY <1>1, <3>1 DEF SeenInv
    <3> QED
      BY <1>1, <1>2, <2>1, <3>1, <3>3, <3>4
  <2>6. CASE /\ d = Watched /\ lro[d].pc = "free_alloc"
             /\ events_irq' = FALSE /\ got' = [x \in Readers |-> "none"] /\ epc' = epc
    <3>1. \A x \in Readers : epc'[x] = "idle" /\ got'[x] = "none"
      BY <1>1, <2>6
    <3> QED
      BY <1>2, <2>1, <3>1 DEF SeenInv
  <2> QED
    BY <1>3, <2>4, <2>5, <2>6, SharedSteps DEF DevicesInv
<1>4. ASSUME NEW y \in Readers, EventsOf(y) PROVE EventsInv'
  <2>1. setup' = setup /\ lro' = lro /\ y \in setup.readers
    BY <1>4 DEF EventsOf
  <2>2. ASSUME NEW x \in Readers, x # y PROVE epc'[x] = epc[x] /\ got'[x] = got[x]
    BY <1>1, <1>4, <2>2 DEF EventsOf, Events!ReadStart, Events!PollStart, Events!ReadInterrupted,
       Events!ReaderStep, Events!ReadWait, Events!ReadTake, Events!Poll, Events!Return
  <2>3. epc'[y] # "idle" => lro[Watched].pc = "up"
    BY <1>1, <1>4 DEF EventsOf, Events!ReadStart, Events!PollStart, Events!ReadInterrupted,
       Events!ReaderStep, Events!ReadWait, Events!ReadTake, Events!Poll, Events!Return
  <2>4. ASSUME Cardinality(setup.readers) <= 1 PROVE SeenInv'
    <3>1. /\ epc[y] = "take" => events_irq
          /\ got[y] # "no event"
          /\ got[y] = "readable" /\ epc[y] = "idle" => events_irq
      BY <1>1, <2>4 DEF SeenInv
    <3>2. /\ epc'[y] = "take" => events_irq'
          /\ got'[y] # "no event"
          /\ got'[y] = "readable" /\ epc'[y] = "idle" => events_irq'
      <4>1. CASE Events!ReadStart(y) \/ Events!PollStart(y) \/ Events!ReadInterrupted(y)
        BY <1>1, <3>1, <4>1 DEF Events!ReadStart, Events!PollStart, Events!ReadInterrupted, Events!Return
      <4>2. CASE Events!ReadWait(y)
        BY <1>1, <3>1, <4>2 DEF Events!ReadWait, Events!EventSeen
      <4>3. CASE Events!ReadTake(y)
        BY <1>1, <3>1, <4>3 DEF Events!ReadTake, Events!Return
      <4>4. CASE Events!Poll(y)
        BY <1>1, <3>1, <4>4 DEF Events!Poll, Events!Return
      <4> QED
        BY <1>4, <4>1, <4>2, <4>3, <4>4 DEF EventsOf, Events!ReaderStep
    <3>3. ASSUME NEW x \in Readers, x # y PROVE epc'[x] = "idle" /\ got'[x] = "none"
      <4>1. x \notin setup.readers
        BY <1>1, <2>1, <2>4, <3>3, SoleReader
      <4> QED
        BY <1>1, <2>2, <3>3, <4>1
    <3> QED
      BY <3>2, <3>3 DEF SeenInv
  <2>5. \A x \in Readers : epc'[x] # "idle" => x \in setup.readers /\ lro'[Watched].pc = "up"
    BY <1>1, <2>1, <2>2, <2>3
  <2>6. \A x \in Readers : got'[x] # "none" => x \in setup.readers
    BY <1>1, <2>1, <2>2
  <2> QED
    BY <1>2, <2>1, <2>4, <2>5, <2>6
<1>5. CASE UNCHANGED <<setup, lro, eventsVars>>
  BY <1>1, <1>2, <1>5 DEF eventsVars, SeenInv
<1> QED
  BY <1>3, <1>4, <1>5 DEF Next, XdmaInit, vars

\* The only reader of an events device never returns without an event, and one that poll() has
\* called readable still is.
THEOREM SoleReaderServed == Spec => []SoleReaderSeesEvents
<1>1. EventsInv => SoleReaderSeesEvents
  BY DEF EventsInv, SeenInv, SoleReaderSeesEvents
<1>2. Spec => []EventsInv
  BY InitEvents, EventsStep, SpecDevices, PTL DEF Spec
<1> QED
  BY <1>1, <1>2, PTL
===============================================================================
