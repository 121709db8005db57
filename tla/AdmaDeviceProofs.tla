-------------------------- MODULE AdmaDeviceProofs --------------------------
(***************************************************************************)
(* The safety properties of AdmaDevice, for any number of user events, any *)
(* BARs the driver has places for, any interrupts that restarts may bring, *)
(* any number of starts and of files open over them.                       *)
(***************************************************************************)
EXTENDS AdmaDevice, TLAPS

\* The places of a start: before the engines, with them, with objects of
\* interrupts, with these bound to the engines, with queues.
Early    == {"map", "engines"}
Queued   == {"prepared", "started", "disabled"}
Bound    == Queued \cup {"queues"}
SetUp    == Bound \cup {"assign"}
Created  == SetUp \cup {"interrupts"}
Gone     == {"stopped", "removed"}

\* Until it is closed the device has in each slot the BAR that was mapped
\* there, if one was, and then the one of the registers, or it has faulted.
BarsMapped ==
    /\ phase \in Gone => mapped = {}
    /\ phase \notin Gone =>
           /\ start > 0 /\ numBars <= Len(layout)
           /\ \A k \in BarSlots :
                  bar[k] = IF k < numBars /\ layout[k + 1] # "large" THEN <<start, k>> ELSE Null
           /\ mapped = {<<start, k>> : k \in {x \in 0 .. numBars - 1 : layout[x + 1] # "large"}}
    /\ phase \in Created \cup {"engines"} =>
           numBars = Len(layout) /\ (fault = NoFault => bar[ConfigBar] \in mapped)

\* The engines are created in order, in the BAR of the registers.
EnginesCreated ==
    /\ \A e \in Engines : engines[e] <= start
    /\ phase = "map" => \A e \in Engines : engines[e] < start
    /\ phase = "engines" =>
           /\ engines[C2H] < start
           /\ engines[H2C] = start => H2C \in enabled /\ regs[H2C] = bar[ConfigBar]
    /\ phase \in Created =>
           \A e \in Engines : e \in enabled /\ engines[e] = start /\ regs[e] = bar[ConfigBar]
    /\ phase \in Queued => \A e \in Engines : queue[e] = start

\* An object of a channel is bound to the engine of its number before its
\* routines can run, and these run on a started device only.
InterruptsBound ==
    /\ \A i \in Engines : chanIrq[i] <= start
    /\ phase \in SetUp =>
           /\ \A i \in Engines : Channel(i) \in objects => chanIrq[i] = start
           /\ irq = "msix" => \A i \in Engines : chanIrq[i] = start
    /\ phase \in Bound => \A i \in Engines : Channel(i) \in objects => irqEngine[i] = i
    /\ dpcs # {} => Connected
    /\ \A o \in objects : o[1] = "channel" => \E i \in Engines : o = Channel(i)

NullExplained == Len(layout) < 2 \/ \E i \in DOMAIN layout : layout[i] = "large"

\* A file of an engine has a queue, others have none; the pointer of a file
\* into a BAR is null only if the BAR has its place without being mapped, and
\* is mapped while the start lasts in which the file was opened.
FilesOrderly ==
    \A f \in Files :
        /\ file[f].queue # 0 <=> file[f].kind = "engine"
        /\ file[f].kind = "engine" => file[f].engine \in Engines
        /\ file[f].opened <= start
        /\ phase \in Early \cup (Created \ {"started", "disabled"}) => file[f].opened < start
        /\ file[f].kind \in {"control", "user"} =>
               /\ file[f].ptr = Null => NullExplained
               /\ phase = "started" /\ file[f].opened = start => file[f].ptr \in mapped \cup {Null}

DeviceInv ==
    /\ TypeOK /\ BarsMapped /\ EnginesCreated /\ InterruptsBound /\ FilesOrderly
    /\ FaultsExplained

-----------------------------------------------------------------------------
LEMMA LayoutTyped ==
    ASSUME layout \in BarLayouts
    PROVE  layout \in Seq(BarKinds) /\ Len(layout) \in 0 .. 6
<1>1. layout \in Seq(BarKinds)
  BY AdmaDeviceAssumption DEF AdmaDeviceAssumption
<1>2. Len(layout) <= 6
  BY AdmaDeviceAssumption DEF AdmaDeviceAssumption
<1>3. Len(layout) \in Nat
  BY <1>1
<1>4. \A n \in Nat : n <= 6 => n \in 0 .. 6
  OBVIOUS
<1>5. Len(layout) \in 0 .. 6
  BY <1>2, <1>3, <1>4
<1> QED
  BY <1>1, <1>5

\* What a pointer faults of.
LEMMA FaultValue ==
    ASSUME NEW ptr, NEW beyond
    PROVE  /\ Fault(ptr, beyond) \in {"none", "null", "unmapped", "beyond"}
           /\ Fault(ptr, beyond) = "null" => ptr = Null
           /\ Fault(ptr, beyond) = "unmapped" => ptr # Null /\ ptr \notin mapped
           /\ Fault(ptr, beyond) = "beyond" =>
                  ptr \in mapped /\ beyond /\ layout[ptr[2] + 1] = "large40"
BY DEF Fault

LEMMA UseFaults ==
    ASSUME NEW ptr, NEW beyond, NEW f, Use(ptr, beyond, f)
    PROVE  \/ fault' = NoFault /\ ptr # Null /\ ptr \in mapped
           \/ /\ fault'.what \in {"null", "unmapped", "beyond"} /\ fault'.file = f /\ fault' # NoFault
              /\ fault'.what = "null" => ptr = Null
              /\ fault'.what = "unmapped" => ptr # Null /\ ptr \notin mapped
              /\ fault'.what = "beyond" =>
                     ptr \in mapped /\ beyond /\ layout[ptr[2] + 1] = "large40"
<1>1. CASE Fault(ptr, beyond) = "none"
  <2>1. ptr # Null /\ ptr \in mapped
    BY <1>1 DEF Fault
  <2> QED
    BY <1>1, <2>1 DEF Use
<1>2. CASE Fault(ptr, beyond) # "none"
  <2>1. fault'.what = Fault(ptr, beyond) /\ fault'.file = f
    BY <1>2 DEF Use
  <2> QED
    BY <1>2, <2>1, FaultValue DEF NoFault
<1> QED
  BY <1>1, <1>2

-----------------------------------------------------------------------------
(* What does not depend on the files and on faults.                        *)

DeviceTyped ==
    /\ phase \in {"stopped", "map", "engines", "interrupts", "assign", "queues", "prepared",
                  "started", "disabled", "failed", "removed"}
    /\ start \in Starts /\ layout \in BarLayouts /\ irq \in Interrupts
    /\ mapped \subseteq Pointers /\ bar \in [BarSlots -> Pointers] /\ numBars \in 0 .. 6
    /\ engines \in [Engines -> Starts] /\ enabled \subseteq Engines
    /\ regs \in [Engines -> Pointers]
    /\ objects \subseteq Objects /\ chanIrq \in [Engines -> Starts]
    /\ irqEngine \in [Engines -> Engines \cup {None}] /\ dpcs \subseteq objects
    /\ queue \in [Engines -> Starts]

FlagsTyped == pciEnable \in BOOLEAN /\ global \in BOOLEAN

FilesTyped ==
    file \in [Files -> [kind : {"closed", "control", "user", "engine"},
                       engine : Engines \cup {None}, ptr : Pointers, queue : Starts,
                       opened : Starts]]
FaultTyped ==
    fault.what \in {"none", "null", "unmapped", "beyond", "offset", "noInterrupt",
                   "deletedInterrupt", "noEngine", "noQueue", "noRegs"}

DeviceParts == DeviceTyped /\ BarsMapped /\ EnginesCreated /\ InterruptsBound
FileParts == FilesTyped /\ FilesOrderly
FaultParts == FaultTyped /\ FaultsExplained

LEMMA Parts == DeviceInv <=> (DeviceParts /\ FlagsTyped /\ FileParts /\ FaultParts)
<1>1. TypeOK <=> (DeviceTyped /\ FlagsTyped /\ FilesTyped /\ FaultTyped)
  BY DEF TypeOK, DeviceTyped, FlagsTyped, FilesTyped, FaultTyped
<1> QED
  BY <1>1 DEF DeviceInv, DeviceParts, FileParts, FaultParts

LEMMA PartsNext == DeviceInv' <=> (DeviceParts' /\ FlagsTyped' /\ FileParts' /\ FaultParts')
BY Parts, PTL

LEMMA StartTyped ==
    ASSUME DeviceInv
    PROVE  /\ start \in Nat /\ start <= MaxStarts /\ MaxStarts \in Nat /\ NumUsers \in Nat
           /\ Null \in Pointers /\ layout \in Seq(BarKinds) /\ Len(layout) \in 0 .. 6
           /\ Interrupts \subseteq {"single", "multi", "msix"}
<1>1. MaxStarts \in Nat /\ NumUsers \in Nat /\ Interrupts \subseteq {"single", "multi", "msix"}
  BY AdmaDeviceAssumption DEF AdmaDeviceAssumption
<1>2. start \in 0 .. MaxStarts /\ layout \in BarLayouts
  BY Parts DEF DeviceParts, DeviceTyped, Starts
<1>3. Null \in Pointers
  BY <1>1 DEF Null, Pointers, Starts, BarSlots
<1> QED
  BY <1>1, <1>2, <1>3, LayoutTyped

LEMMA FlagsStay == ASSUME DeviceInv, UNCHANGED <<pciEnable, global>> PROVE FlagsTyped'
BY Parts DEF FlagsTyped

\* Nothing faults.
LEMMA NoFaultHolds == ASSUME fault' = NoFault PROVE FaultParts'
BY DEF FaultParts, FaultTyped, FaultsExplained, NoFault

\* The files see of a step only what it does to the phase, the starts and the
\* mapping.
LEMMA FilesStay ==
    ASSUME DeviceInv, UNCHANGED <<file, layout, start, mapped>>,
           phase' = "started" => phase \in {"started", "prepared"},
           phase' \in Early \cup (Created \ {"started", "disabled"}) =>
               phase \in Early \cup (Created \ {"started", "disabled"})
    PROVE  FileParts'
<1>1. FilesTyped'
  BY Parts DEF FileParts, FilesTyped, Pointers
<1>2. NullExplained' = NullExplained
  BY DEF NullExplained
<1>3. FilesOrderly'
  BY <1>2, Parts, StartTyped DEF FileParts, FilesOrderly, Early, Created, SetUp, Bound, Queued, FilesTyped, Starts
<1> QED
  BY <1>1, <1>3 DEF FileParts

-----------------------------------------------------------------------------
LEMMA InitHolds == ASSUME Init PROVE DeviceInv
<1>1. MaxStarts \in Nat /\ Null \in Pointers
  BY AdmaDeviceAssumption DEF AdmaDeviceAssumption, Null, Pointers, Starts, BarSlots
<1>2. DeviceTyped
  BY <1>1 DEF Init, DeviceTyped, Starts, Engines
<1>3. FlagsTyped /\ FaultParts
  BY DEF Init, FlagsTyped, FaultParts, FaultTyped, FaultsExplained, NoFault
<1>4. BarsMapped /\ EnginesCreated /\ InterruptsBound
  BY DEF Init, BarsMapped, EnginesCreated, InterruptsBound, Created, SetUp, Bound, Queued, Gone
<1>5. FileParts
  BY <1>1 DEF Init, FileParts, FilesTyped, FilesOrderly, Closed, Early, Created, SetUp, Bound, Queued,
     Starts
<1> QED
  BY <1>2, <1>3, <1>4, <1>5, Parts DEF DeviceParts

-----------------------------------------------------------------------------
(* The steps.                                                              *)

\* The registers are where they were mapped by this start.
LEMMA ConfigMapped ==
    ASSUME DeviceInv, fault = NoFault, phase \in Created \cup {"engines"}
    PROVE  /\ bar[ConfigBar] \in mapped /\ bar[ConfigBar] # Null /\ bar[ConfigBar] = <<start, ConfigBar>>
           /\ bar[ConfigBar] \in Pointers /\ start > 0 /\ Len(layout) >= 2
           /\ phase \in Created => \A e \in Engines : regs[e] = bar[ConfigBar] /\ e \in enabled
<1>1. /\ start > 0 /\ numBars = Len(layout) /\ bar[ConfigBar] \in mapped
      /\ \A k \in BarSlots :
             bar[k] = IF k < numBars /\ layout[k + 1] # "large" THEN <<start, k>> ELSE Null
      /\ mapped = {<<start, k>> : k \in {x \in 0 .. numBars - 1 : layout[x + 1] # "large"}}
  BY Parts DEF DeviceParts, BarsMapped, Created, SetUp, Bound, Queued, Gone
<1>2. Null \notin mapped
  BY <1>1, StartTyped DEF Null
<1>3. bar[ConfigBar] = <<start, ConfigBar>> /\ ConfigBar < numBars
  BY <1>1, <1>2 DEF ConfigBar, BarSlots
<1>4. phase \in Created => \A e \in Engines : regs[e] = bar[ConfigBar] /\ e \in enabled
  BY Parts DEF DeviceParts, EnginesCreated
<1>5. mapped \subseteq Pointers
  BY Parts DEF DeviceParts, DeviceTyped
<1> QED
  BY <1>1, <1>2, <1>3, <1>4, <1>5, StartTyped DEF ConfigBar

\* So nothing that goes to the registers faults, but for the engines' ones in a
\* BAR that is mapped in part.
LEMMA ConfigUsed ==
    ASSUME DeviceInv, fault = NoFault, phase \in Created \cup {"engines"}, UseConfig
    PROVE  fault' = NoFault
BY ConfigMapped, UseFaults DEF UseConfig

LEMMA EngineUsed ==
    ASSUME DeviceInv, fault = NoFault, phase \in Created, NEW e \in Engines, NEW f, UseEngine(e, f),
           layout' = layout
    PROVE  FaultParts'
<1>1. regs[e] \in mapped /\ regs[e] # Null /\ regs[e][2] + 1 = ConfigBar + 1
  BY ConfigMapped DEF ConfigBar
<1>2. \/ fault' = NoFault
      \/ fault'.what = "beyond" /\ layout[ConfigBar + 1] = "large40"
  BY <1>1, UseFaults DEF UseEngine
<1>3. CASE fault' = NoFault
  BY <1>3, NoFaultHolds
<1>4. CASE fault'.what = "beyond" /\ layout[ConfigBar + 1] = "large40"
  BY <1>4 DEF FaultParts, FaultTyped, FaultsExplained
<1> QED
  BY <1>2, <1>3, <1>4

\* What a step that neither maps nor creates keeps of the device.
LEMMA DeviceStays ==
    ASSUME DeviceInv, fault = NoFault, UNCHANGED <<given, barVars, engineVars, irqVars, queue>>,
           \/ phase' = phase
           \/ phase' = "failed" /\ phase \notin Gone
           \/ phase \in Queued /\ phase' \in Queued,
           dpcs' \subseteq objects, dpcs' # {} => phase' \in {"started", "disabled"}
    PROVE  DeviceParts'
<1> USE DEF given, barVars, engineVars, irqVars
<1>1. phase' \in {"stopped", "map", "engines", "interrupts", "assign", "queues", "prepared",
                  "started", "disabled", "failed", "removed"}
  BY Parts DEF DeviceParts, DeviceTyped, Queued
<1>2. DeviceTyped'
  BY <1>1, Parts DEF DeviceParts, DeviceTyped, Pointers
<1>3. BarsMapped'
  BY Parts DEF DeviceParts, BarsMapped, Created, SetUp, Bound, Queued, Gone
<1>4. EnginesCreated'
  BY Parts DEF DeviceParts, EnginesCreated, Created, SetUp, Bound, Queued
<1>5. InterruptsBound'
  BY Parts DEF DeviceParts, InterruptsBound, SetUp, Bound, Queued, Connected
<1> QED
  BY <1>2, <1>3, <1>4, <1>5 DEF DeviceParts

LEMMA DeviceOpenHolds ==
    ASSUME DeviceInv, fault = NoFault, DeviceOpen
    PROVE  DeviceInv'
<1> USE DEF given, barVars, engineVars, irqVars, intVars
<1>1. /\ phase = "stopped" /\ start < MaxStarts /\ start' = start + 1 /\ irq' \in Interrupts
      /\ bar' = [i \in BarSlots |-> Null] /\ numBars' = 0 /\ enabled' = {} /\ phase' = "map"
      /\ UNCHANGED <<layout, mapped, engines, regs, irqVars, intVars, queue, file, fault>>
  BY DEF DeviceOpen, DeviceDefaultInitialize
<1>2. DeviceTyped'
  BY <1>1, StartTyped, Parts DEF DeviceParts, DeviceTyped, Starts, Pointers
<1>3. BarsMapped'
  <2>1. mapped' = {} /\ {x \in 0 .. 0 - 1 : layout[x + 1] # "large"} = {}
    BY <1>1, Parts DEF DeviceParts, BarsMapped, Gone
  <2>2. {<<start', k>> : k \in {x \in 0 .. numBars' - 1 : layout'[x + 1] # "large"}} = {}
    BY <1>1, <2>1
  <2>3. \A k \in BarSlots : ~(k < 0)
    BY DEF BarSlots
  <2> QED
    BY <1>1, <2>1, <2>2, <2>3, StartTyped DEF BarsMapped, Gone, Created, SetUp, Bound, Queued
<1>4. EnginesCreated'
  BY <1>1, StartTyped, Parts
  DEF DeviceParts, DeviceTyped, Starts, EnginesCreated, Created, SetUp, Bound, Queued
<1>5. InterruptsBound'
  BY <1>1, StartTyped, Parts
  DEF DeviceParts, DeviceTyped, Starts, InterruptsBound, Connected, SetUp, Bound, Queued
<1>6. FileParts'
  <2>1. NullExplained' = NullExplained
    BY <1>1 DEF NullExplained
  <2>2. FilesTyped'
    BY <1>1, Parts DEF FileParts, FilesTyped, Pointers
  <2>3. FilesOrderly'
    BY <1>1, <2>1, StartTyped, Parts DEF FileParts, FilesTyped, Starts, FilesOrderly
  <2> QED
    BY <2>2, <2>3 DEF FileParts
<1> QED
  BY <1>1, <1>2, <1>3, <1>4, <1>5, <1>6, FlagsStay, NoFaultHolds, PartsNext DEF DeviceParts

LEMMA MapBarHolds ==
    ASSUME DeviceInv, fault = NoFault, MapBar
    PROVE  DeviceInv'
<1> USE DEF given, barVars, engineVars, irqVars, intVars
<1>1. /\ phase = "map" /\ numBars < Len(layout) /\ numBars' = numBars + 1
      /\ IF layout[numBars + 1] = "large"
         THEN UNCHANGED <<mapped, bar>>
         ELSE /\ bar' = [bar EXCEPT ![numBars] = <<start, numBars>>]
              /\ mapped' = mapped \cup {<<start, numBars>>}
      /\ UNCHANGED <<phase, given, engineVars, irqVars, intVars, queue, file, fault>>
  BY DEF MapBar
<1>2. /\ numBars \in 0 .. 5 /\ numBars \in BarSlots /\ start > 0 /\ <<start, numBars>> \in Pointers
      /\ bar \in [BarSlots -> Pointers]
      /\ \A k \in BarSlots :
             bar[k] = IF k < numBars /\ layout[k + 1] # "large" THEN <<start, k>> ELSE Null
      /\ mapped = {<<start, k>> : k \in {x \in 0 .. numBars - 1 : layout[x + 1] # "large"}}
  <2>1. numBars \in 0 .. 5
    <3>1. numBars \in 0 .. 6
      BY Parts DEF DeviceParts, DeviceTyped
    <3> QED
      BY <1>1, <3>1, StartTyped
  <2>2. start \in Starts /\ bar \in [BarSlots -> Pointers]
    BY Parts DEF DeviceParts, DeviceTyped
  <2>3. BarsMapped
    BY Parts DEF DeviceParts
  <2> QED
    BY <1>1, <2>1, <2>2, <2>3 DEF BarsMapped, BarSlots, Gone, Pointers
<1>3. DeviceTyped'
  <2>1. mapped' \subseteq Pointers /\ bar' \in [BarSlots -> Pointers]
    <3>1. mapped \subseteq Pointers
      BY Parts DEF DeviceParts, DeviceTyped
    <3> QED
      BY <1>1, <1>2, <3>1
  <2>2. numBars' \in 0 .. 6
    BY <1>1, <1>2
  <2> QED
    BY <1>1, <2>1, <2>2, Parts DEF DeviceParts, DeviceTyped, Pointers
<1>4. BarsMapped'
  <2>1. \A k \in BarSlots :
            bar'[k] = IF k < numBars' /\ layout[k + 1] # "large" THEN <<start, k>> ELSE Null
    <3> SUFFICES ASSUME NEW k \in BarSlots
                 PROVE  bar'[k] = IF k < numBars' /\ layout[k + 1] # "large"
                                  THEN <<start, k>> ELSE Null
      OBVIOUS
    <3>1. numBars' = numBars + 1 /\ k \in Int /\ numBars \in Int
      BY <1>1, <1>2 DEF BarSlots
    <3>2. bar[k] = IF k < numBars /\ layout[k + 1] # "large" THEN <<start, k>> ELSE Null
      BY <1>2
    <3>3. CASE k # numBars
      <4>1. bar'[k] = bar[k]
        BY <1>1, <1>2, <3>3
      <4>2. k < numBars' <=> k < numBars
        BY <3>1, <3>3
      <4> QED
        BY <3>2, <4>1, <4>2
    <3>4. CASE k = numBars /\ layout[numBars + 1] = "large"
      <4>1. bar'[k] = bar[k]
        BY <1>1, <3>4
      <4> QED
        BY <3>2, <3>4, <4>1
    <3>5. CASE k = numBars /\ layout[numBars + 1] # "large"
      <4>1. bar'[k] = <<start, k>>
        BY <1>1, <1>2, <3>5
      <4>2. k < numBars'
        BY <3>1, <3>5
      <4> QED
        BY <3>5, <4>1, <4>2
    <3> QED
      BY <3>3, <3>4, <3>5
  <2>2. 0 .. numBars' - 1 = (0 .. numBars - 1) \cup {numBars}
    BY <1>1, <1>2
  <2>3. mapped' = {<<start, k>> : k \in {x \in 0 .. numBars' - 1 : layout[x + 1] # "large"}}
    <3>1. CASE layout[numBars + 1] = "large"
      BY <1>1, <1>2, <2>2, <3>1
    <3>2. CASE layout[numBars + 1] # "large"
      BY <1>1, <1>2, <2>2, <3>2
    <3> QED
      BY <3>1, <3>2
  <2> QED
    BY <1>1, <1>2, <2>1, <2>3, StartTyped DEF BarsMapped, Gone, Created, SetUp, Bound, Queued
<1>5. EnginesCreated'
  BY <1>1, Parts DEF DeviceParts, EnginesCreated, Created, SetUp, Bound, Queued
<1>6. InterruptsBound'
  BY <1>1, Parts DEF DeviceParts, InterruptsBound, Connected, SetUp, Bound, Queued
<1>7. FileParts'
  <2>1. NullExplained' = NullExplained
    BY <1>1 DEF NullExplained
  <2>2. FilesTyped'
    BY <1>1, Parts DEF FileParts, FilesTyped, Pointers
  <2>3. FilesOrderly'
    BY <1>1, <2>1, Parts DEF FileParts, FilesOrderly
  <2> QED
    BY <2>2, <2>3 DEF FileParts
<1> QED
  BY <1>1, <1>3, <1>4, <1>5, <1>6, <1>7, FlagsStay, NoFaultHolds, PartsNext DEF DeviceParts

LEMMA IdentifyBarsHolds ==
    ASSUME DeviceInv, fault = NoFault, IdentifyBars
    PROVE  DeviceInv'
<1> USE DEF given, barVars, engineVars, irqVars, intVars
<1>1. /\ phase = "map" /\ numBars = Len(layout) /\ phase' = "engines" /\ UseConfig
      /\ UNCHANGED <<given, barVars, engineVars, irqVars, intVars, queue, file>>
  BY DEF IdentifyBars
<1>2. /\ \A k \in BarSlots :
             bar[k] = IF k < numBars /\ layout[k + 1] # "large" THEN <<start, k>> ELSE Null
      /\ mapped = {<<start, k>> : k \in {x \in 0 .. numBars - 1 : layout[x + 1] # "large"}}
  BY <1>1, Parts DEF DeviceParts, BarsMapped, Gone
<1>3. bar[ConfigBar] # Null => bar[ConfigBar] \in mapped
  BY <1>1, <1>2, StartTyped DEF BarSlots, ConfigBar
<1>4. bar[ConfigBar] = Null => NullExplained
  <2>1. 2 <= Len(layout) => 2 \in DOMAIN layout
    BY StartTyped
  <2>2. start > 0
    BY <1>1, Parts DEF DeviceParts, BarsMapped, Gone
  <2>3. bar[ConfigBar] = Null => ~(1 < Len(layout) /\ layout[2] # "large")
    BY <1>1, <1>2, <2>2, StartTyped DEF BarSlots, ConfigBar, Null
  <2> QED
    BY <2>1, <2>3, StartTyped DEF NullExplained
<1>5. \/ fault' = NoFault /\ bar[ConfigBar] \in mapped
      \/ fault' # NoFault /\ fault'.what = "null" /\ NullExplained
  <2>1. CASE bar[ConfigBar] = Null
    BY <1>1, <1>4, <2>1, UseFaults DEF UseConfig
  <2>2. CASE bar[ConfigBar] # Null
    <3>1. Use(bar[ConfigBar], FALSE, NoFile)
      BY <1>1 DEF UseConfig
    <3>2. \/ fault' = NoFault /\ bar[ConfigBar] # Null /\ bar[ConfigBar] \in mapped
          \/ /\ fault'.what \in {"null", "unmapped", "beyond"}
             /\ fault'.what = "null" => bar[ConfigBar] = Null
             /\ fault'.what = "unmapped" => bar[ConfigBar] \notin mapped
             /\ fault'.what # "beyond"
      BY <3>1, UseFaults
    <3> QED
      BY <1>3, <2>2, <3>2
  <2> QED
    BY <2>1, <2>2
<1>6. FaultParts'
  <2>1. CASE fault' = NoFault
    BY <2>1, NoFaultHolds
  <2>2. CASE fault'.what = "null" /\ NullExplained
    BY <1>1, <2>2 DEF FaultParts, FaultTyped, FaultsExplained, NullExplained
  <2> QED
    BY <1>5, <2>1, <2>2
<1>7. DeviceTyped'
  BY <1>1, Parts DEF DeviceParts, DeviceTyped, Pointers
<1>8. BarsMapped'
  BY <1>1, <1>5, Parts DEF DeviceParts, BarsMapped, Gone, Created, SetUp, Bound, Queued
<1>9. EnginesCreated'
  BY <1>1, Parts, StartTyped
  DEF DeviceParts, DeviceTyped, Starts, EnginesCreated, Engines, H2C, C2H, Created, SetUp, Bound, Queued
<1>10. InterruptsBound'
  BY <1>1, Parts DEF DeviceParts, InterruptsBound, Connected, SetUp, Bound, Queued
<1>11. FileParts'
  BY <1>1, FilesStay DEF Early
<1> QED
  BY <1>1, <1>6, <1>7, <1>8, <1>9, <1>10, <1>11, FlagsStay, PartsNext DEF DeviceParts

LEMMA EngineCreateHolds ==
    ASSUME DeviceInv, fault = NoFault, NEW e \in Engines, EngineCreate(e)
    PROVE  DeviceInv'
<1> USE DEF given, barVars, engineVars, irqVars, intVars
<1>1. /\ phase = "engines" /\ \A x \in Engines : x < e <=> engines[x] = start
      /\ regs' = [regs EXCEPT ![e] = bar[ConfigBar]] /\ engines' = [engines EXCEPT ![e] = start]
      /\ enabled' = enabled \cup {e} /\ phase' = IF e = C2H THEN "interrupts" ELSE phase
      /\ UNCHANGED <<given, barVars, irqVars, intVars, queue, file, fault>>
  BY DEF EngineCreate, ProbeEngines
<1>2. bar[ConfigBar] \in Pointers /\ bar[ConfigBar] \in mapped /\ start > 0
  BY <1>1, ConfigMapped
<1>3. DeviceTyped'
  BY <1>1, <1>2, Parts DEF DeviceParts, DeviceTyped, Pointers
<1>4. BarsMapped'
  BY <1>1, <1>2, Parts DEF DeviceParts, BarsMapped, Gone, Created, SetUp, Bound, Queued
<1>5. EnginesCreated'
  <2>1. CASE e = H2C
    BY <1>1, <2>1, StartTyped, Parts
    DEF DeviceParts, DeviceTyped, EnginesCreated, Engines, H2C, C2H, Starts, Created, SetUp, Bound, Queued
  <2>2. CASE e = C2H
    <3>1. engines[H2C] = start /\ H2C \in enabled /\ regs[H2C] = bar[ConfigBar]
      BY <1>1, <2>2, Parts DEF DeviceParts, EnginesCreated, Engines, H2C, C2H
    <3> QED
      BY <1>1, <2>2, <3>1, StartTyped, Parts
      DEF DeviceParts, DeviceTyped, EnginesCreated, Engines, H2C, C2H, Starts, Created, SetUp, Bound, Queued
  <2> QED
    BY <2>1, <2>2 DEF Engines
<1>6. InterruptsBound'
  BY <1>1, Parts DEF DeviceParts, InterruptsBound, Connected, SetUp, Bound, Queued
<1>7. FileParts'
  BY <1>1, FilesStay DEF Early, Created
<1> QED
  BY <1>1, <1>3, <1>4, <1>5, <1>6, <1>7, FlagsStay, NoFaultHolds, PartsNext DEF DeviceParts

LEMMA SetupInterruptsHolds ==
    ASSUME DeviceInv, fault = NoFault, SetupInterrupts
    PROVE  DeviceInv'
<1> USE DEF given, barVars, engineVars, irqVars, intVars
<1>1. /\ phase = "interrupts" /\ phase' = "assign"
      /\ (SetupSingle \/ SetupMsix \/ SetupMultiMsi)
      /\ irqEngine' = [i \in Engines |-> None]
      /\ UNCHANGED <<given, barVars, engineVars, intVars, queue, file, fault>>
  BY DEF SetupInterrupts
<1>2. start \in Starts /\ chanIrq \in [Engines -> Starts] /\ dpcs = {}
  BY <1>1, Parts DEF DeviceParts, DeviceTyped, InterruptsBound, Connected
<1>3. /\ objects' \subseteq Objects /\ chanIrq' \in [Engines -> Starts]
      /\ \A i \in Engines : Channel(i) \in objects' => chanIrq'[i] = start
      /\ irq = "msix" => \A i \in Engines : chanIrq'[i] = start
      /\ \A i \in Engines : chanIrq'[i] <= start
  <2>1. CASE SetupSingle
    BY <1>1, <1>2, <2>1, Parts
    DEF SetupSingle, Objects, Device, Channel, DeviceParts, InterruptsBound
  <2>2. CASE SetupMsix
    <3>1. objects' \subseteq Objects
      BY <2>2, StartTyped DEF SetupMsix, Objects, User, Channel, Engines, H2C, C2H
    <3> QED
      BY <1>2, <2>2, <3>1, StartTyped DEF SetupMsix, Starts
  <2>3. CASE SetupMultiMsi
    <3>1. objects' \subseteq Objects
      BY <2>3, StartTyped DEF SetupMultiMsi, Objects, User, Channel, H2C
    <3>2. \A i \in Engines : Channel(i) \in objects' => i = H2C
      BY <2>3 DEF SetupMultiMsi, User, Channel
    <3>3. chanIrq' = [chanIrq EXCEPT ![H2C] = start] /\ irq = "multi" /\ H2C \in Engines
      BY <2>3 DEF SetupMultiMsi, Engines
    <3> QED
      BY <1>2, <3>1, <3>2, <3>3, StartTyped, Parts DEF DeviceParts, InterruptsBound
  <2> QED
    BY <1>1, <2>1, <2>2, <2>3
<1>4. DeviceTyped'
  BY <1>1, <1>2, <1>3, Parts DEF DeviceParts, DeviceTyped, Pointers
<1>5. BarsMapped' /\ EnginesCreated'
  BY <1>1, Parts DEF DeviceParts, BarsMapped, EnginesCreated, Gone, Created, SetUp, Bound, Queued
<1>6. InterruptsBound'
  <2>1. \A o \in objects' : o[1] = "channel" => \E i \in Engines : o = Channel(i)
    <3>1. CASE SetupSingle
      BY <3>1 DEF SetupSingle, Device
    <3>2. CASE SetupMsix
      BY <3>2 DEF SetupMsix, User
    <3>3. CASE SetupMultiMsi
      BY <3>3 DEF SetupMultiMsi, User, Engines
    <3> QED
      BY <1>1, <3>1, <3>2, <3>3
  <2> QED
    BY <1>1, <1>2, <1>3, <2>1 DEF InterruptsBound, SetUp, Bound, Queued
<1>7. FileParts'
  BY <1>1, FilesStay DEF Created, SetUp, Bound, Queued, Early
<1> QED
  BY <1>1, <1>4, <1>5, <1>6, <1>7, FlagsStay, NoFaultHolds, PartsNext DEF DeviceParts

LEMMA AssignHolds ==
    ASSUME DeviceInv, fault = NoFault, EnginesAssignInterrupt
    PROVE  DeviceInv'
<1> USE DEF given, barVars, engineVars, irqVars, intVars
<1>1. /\ phase = "assign" /\ phase' = "queues"
      /\ IF \A i \in Engines : chanIrq[i] \in {0, start}
         THEN fault' = fault
         ELSE fault' = [what |-> "deletedInterrupt", file |-> NoFile]
      /\ irqEngine' = [i \in Engines |-> IF chanIrq[i] = start THEN i ELSE None]
      /\ UNCHANGED <<given, barVars, engineVars, objects, chanIrq, intVars, queue, file>>
  BY DEF EnginesAssignInterrupt, EngineOfChannel
<1>2. /\ \A i \in Engines : Channel(i) \in objects => chanIrq[i] = start
      /\ irq = "msix" => \A i \in Engines : chanIrq[i] = start
      /\ \A i \in Engines : chanIrq[i] <= start /\ chanIrq[i] \in Nat
      /\ dpcs = {}
      /\ \A o \in objects : o[1] = "channel" => \E i \in Engines : o = Channel(i)
  BY <1>1, StartTyped, Parts DEF DeviceParts, DeviceTyped, Starts, InterruptsBound, Connected, SetUp
<1>3. FaultParts'
  <2>1. CASE \A i \in Engines : chanIrq[i] \in {0, start}
    BY <1>1, <2>1, NoFaultHolds
  <2>2. CASE ~ \A i \in Engines : chanIrq[i] \in {0, start}
    <3>1. start > 1 /\ irq # "msix"
      BY <1>2, <2>2, StartTyped
    <3>2. fault'.what = "deletedInterrupt"
      BY <1>1, <2>2
    <3> QED
      BY <1>1, <3>1, <3>2 DEF FaultParts, FaultTyped, FaultsExplained
  <2> QED
    BY <2>1, <2>2
<1>4. DeviceTyped'
  BY <1>1, Parts DEF DeviceParts, DeviceTyped, Pointers
<1>5. BarsMapped' /\ EnginesCreated'
  BY <1>1, Parts DEF DeviceParts, BarsMapped, EnginesCreated, Gone, Created, SetUp, Bound, Queued
<1>6. InterruptsBound'
  BY <1>1, <1>2 DEF InterruptsBound, SetUp, Bound, Queued
<1>7. FileParts'
  BY <1>1, FilesStay DEF Created, SetUp, Bound, Queued, Early
<1> QED
  BY <1>1, <1>3, <1>4, <1>5, <1>6, <1>7, FlagsStay, PartsNext DEF DeviceParts

LEMMA CreateQueuesHolds ==
    ASSUME DeviceInv, fault = NoFault, CreateQueues
    PROVE  DeviceInv'
<1> USE DEF given, barVars, engineVars, irqVars, intVars
<1>1. /\ phase = "queues" /\ phase' = "prepared"
      /\ queue' = [e \in Engines |-> IF e \in enabled THEN start ELSE queue[e]]
      /\ UNCHANGED <<given, barVars, engineVars, irqVars, intVars, file, fault>>
  BY DEF CreateQueues
<1>2. DeviceTyped'
  BY <1>1, Parts DEF DeviceParts, DeviceTyped, Pointers
<1>3. BarsMapped' /\ EnginesCreated'
  BY <1>1, Parts DEF DeviceParts, BarsMapped, EnginesCreated, Gone, Created, SetUp, Bound, Queued
<1>4. InterruptsBound'
  BY <1>1, Parts DEF DeviceParts, InterruptsBound, Connected, SetUp, Bound, Queued
<1>5. FileParts'
  BY <1>1, FilesStay DEF Created, SetUp, Bound, Queued, Early
<1> QED
  BY <1>1, <1>2, <1>3, <1>4, <1>5, FlagsStay, NoFaultHolds, PartsNext DEF DeviceParts

\* A start that fails, and an interrupt that cannot be created.
LEMMA StartFailsHolds ==
    ASSUME DeviceInv, fault = NoFault, StartFails \/ InterruptCreateFails
    PROVE  DeviceInv'
<1> USE DEF given, barVars, engineVars, irqVars, intVars
<1>1. /\ UNCHANGED <<given, barVars, engineVars, irqVars, intVars, queue, file>>
      /\ phase \in {"map", "engines", "interrupts", "queues"} /\ phase' \in {phase, "failed"}
  BY DEF StartFails, InterruptCreateFails
<1>2. dpcs' = {} /\ dpcs' \subseteq objects
  BY <1>1, Parts DEF DeviceParts, InterruptsBound, Connected
<1>3. DeviceParts'
  BY <1>1, <1>2, DeviceStays DEF Gone
<1>4. FileParts'
  BY <1>1, FilesStay DEF Created, SetUp, Bound, Queued, Early
<1>5. FaultParts'
  <2>1. fault' = NoFault \/ (phase' = "interrupts" /\ fault' = [what |-> "noInterrupt", file |-> NoFile])
    BY DEF StartFails, InterruptCreateFails
  <2> QED
    BY <2>1, NoFaultHolds DEF FaultParts, FaultTyped, FaultsExplained
<1> QED
  BY <1>1, <1>3, <1>4, <1>5, FlagsStay, PartsNext

-----------------------------------------------------------------------------
(* Interrupts, and the stop.                                               *)

\* The device is enabled and disabled with its interrupts.
LEMMA EnableHolds ==
    ASSUME DeviceInv, fault = NoFault, InterruptEnable \/ InterruptDisable
    PROVE  DeviceInv'
<1> USE DEF given, barVars, engineVars, irqVars
<1>1. /\ phase \in Queued /\ phase' \in Queued
      /\ phase \in {"prepared", "started"} /\ phase' \in {"started", "disabled"}
      /\ phase' = "started" => phase = "prepared"
      /\ UNCHANGED <<given, barVars, engineVars, irqVars, dpcs, queue, file>>
  BY DEF InterruptEnable, InterruptDisable, Queued
<1>2. dpcs' \subseteq objects
  BY <1>1, Parts DEF DeviceParts, DeviceTyped
<1>3. DeviceParts'
  BY <1>1, <1>2, DeviceStays
<1>4. FileParts'
  BY <1>1, FilesStay DEF Created, SetUp, Bound, Queued, Early
<1>5. phase \in Created /\ H2C \in Engines
  BY <1>1 DEF Created, SetUp, Bound, Engines
<1>6. CASE Device \in objects
  <2>1. FaultParts'
    BY <1>1, <1>5, <1>6, EngineUsed
    DEF InterruptEnable, InterruptDisable, EngineEnableInterrupt, EngineDisableInterrupt
  <2>2. (pciEnable' = TRUE /\ global' = TRUE) \/ (pciEnable' = FALSE /\ global' = FALSE)
    BY <1>6
    DEF InterruptEnable, InterruptDisable, EngineEnableInterrupt, EngineDisableInterrupt
  <2>3. FlagsTyped'
    BY <2>2, Zenon DEF FlagsTyped
  <2> QED
    BY <1>3, <1>4, <2>1, <2>3, PartsNext
<1>7. CASE Device \notin objects
  <2>1. UNCHANGED <<pciEnable, global, fault>>
    BY <1>7 DEF InterruptEnable, InterruptDisable
  <2> QED
    BY <1>3, <1>4, <2>1, FlagsStay, NoFaultHolds, PartsNext
<1> QED
  BY <1>6, <1>7

\* What a service or deferred routine, or an access of a file, leaves to show.
LEMMA RoutineStays ==
    ASSUME DeviceInv, fault = NoFault, Connected,
           UNCHANGED <<phase, given, barVars, engineVars, irqVars, queue>>,
           dpcs' \subseteq objects
    PROVE  DeviceParts' /\ (UNCHANGED file => FileParts')
<1> USE DEF given, barVars, engineVars, irqVars
<1>1. DeviceParts'
  BY DeviceStays DEF Connected
<1>2. file' = file => FileParts'
  BY FilesStay
<1> QED
  BY <1>1, <1>2

LEMMA RoutinesTyped ==
    ASSUME DeviceInv, UNCHANGED pciEnable, global' \in {TRUE, FALSE, global}
    PROVE  FlagsTyped'
<1>1. pciEnable \in BOOLEAN /\ global \in BOOLEAN
  BY Parts DEF FlagsTyped
<1>2. pciEnable' \in BOOLEAN
  BY <1>1
<1>3. global' \in BOOLEAN
  BY <1>1, Zenon
<1> QED
  BY <1>2, <1>3 DEF FlagsTyped

LEMMA ServiceHolds ==
    ASSUME DeviceInv, fault = NoFault,
           EvtInterruptIsr \/ \E u \in 0 .. NumUsers - 1 : EvtUserInterruptIsr(u)
    PROVE  DeviceInv'
<1> USE DEF given, barVars, engineVars, irqVars
<1>1. /\ Connected
      /\ UNCHANGED <<phase, given, barVars, engineVars, irqVars, pciEnable, global, queue, file>>
  BY DEF EvtInterruptIsr, EvtUserInterruptIsr
<1>2. dpcs \subseteq objects
  BY Parts DEF DeviceParts, DeviceTyped
<1>3. dpcs' \subseteq objects
  BY <1>2 DEF EvtInterruptIsr, EvtUserInterruptIsr
<1>4. fault' = NoFault
  <2>1. CASE EvtInterruptIsr
    BY <1>1, <2>1, ConfigUsed DEF EvtInterruptIsr, Connected, Created, SetUp, Bound, Queued
  <2>2. CASE \E u \in 0 .. NumUsers - 1 : EvtUserInterruptIsr(u)
    BY <2>2 DEF EvtUserInterruptIsr
  <2> QED
    BY <2>1, <2>2
<1> QED
  BY <1>1, <1>3, <1>4, RoutineStays, FlagsStay, NoFaultHolds, PartsNext

\* The routines of a channel have an engine to go by.
LEMMA ChannelServiceHolds ==
    ASSUME DeviceInv, fault = NoFault, NEW i \in Engines, EvtChannelInterruptIsr(i)
    PROVE  DeviceInv'
<1> USE DEF given, barVars, engineVars, irqVars
<1>1. /\ Connected /\ Channel(i) \in objects
      /\ UNCHANGED <<phase, given, barVars, engineVars, irqVars, pciEnable, queue, file>>
  BY DEF EvtChannelInterruptIsr
<1>2. irqEngine[i] = i /\ i # None
  BY <1>1, Parts DEF DeviceParts, InterruptsBound, Connected, Bound, Queued, Engines, H2C, C2H, None
<1>3. global' = FALSE /\ UseEngine(i, NoFile) /\ dpcs' = dpcs \cup {Channel(i)}
  BY <1>2 DEF EvtChannelInterruptIsr, EngineDisableInterrupt
<1>4. dpcs' \subseteq objects
  BY <1>1, <1>3, Parts DEF DeviceParts, DeviceTyped
<1>5. FaultParts'
  BY <1>1, <1>3, EngineUsed DEF Connected, Created, SetUp, Bound, Queued
<1> QED
  BY <1>1, <1>3, <1>4, <1>5, RoutineStays, RoutinesTyped, PartsNext

LEMMA DpcHolds ==
    ASSUME DeviceInv, fault = NoFault, NEW o \in dpcs, InterruptDpc(o)
    PROVE  DeviceInv'
<1> USE DEF given, barVars, engineVars, irqVars
<1>1. /\ Connected /\ o \in objects /\ dpcs' \subseteq objects
      /\ UNCHANGED <<phase, given, barVars, engineVars, irqVars, pciEnable, queue, file>>
  BY Parts DEF InterruptDpc, DeviceParts, DeviceTyped, InterruptsBound
<1>2. CASE o[1] = "channel"
  <2>1. PICK i \in Engines : o = Channel(i)
    BY <1>1, <1>2, Parts DEF DeviceParts, InterruptsBound
  <2>2. irqEngine[i] = i /\ o[2] = i
    BY <1>1, <2>1, Parts DEF DeviceParts, InterruptsBound, Connected, Bound, Queued, Channel
  <2>3. global' = TRUE /\ UseEngine(i, NoFile)
    BY <1>2, <2>2 DEF InterruptDpc, EngineEnableInterrupt
  <2>4. FaultParts'
    BY <1>1, <2>3, EngineUsed DEF Connected, Created, SetUp, Bound, Queued
  <2> QED
    BY <1>1, <2>3, <2>4, RoutineStays, RoutinesTyped, PartsNext
<1>3. CASE o[1] # "channel"
  <2>1. UNCHANGED <<global, fault>>
    BY <1>3 DEF InterruptDpc
  <2> QED
    BY <1>1, <2>1, RoutineStays, FlagsStay, NoFaultHolds, PartsNext
<1> QED
  BY <1>2, <1>3

LEMMA DeviceCloseHolds ==
    ASSUME DeviceInv, fault = NoFault, DeviceClose
    PROVE  DeviceInv'
<1> USE DEF given, barVars, engineVars, irqVars, intVars
<1>1. /\ phase \in {"failed", "disabled"} /\ phase' \in {"stopped", "removed"}
      /\ mapped' = mapped \ {bar[i] : i \in 0 .. numBars - 1}
      /\ bar' = [i \in BarSlots |-> IF i < numBars THEN Null ELSE bar[i]]
      /\ objects' = {} /\ dpcs = {}
      /\ UNCHANGED <<given, numBars, engineVars, chanIrq, irqEngine, intVars, queue, file, fault>>
  BY DEF DeviceClose
<1>2. /\ start > 0 /\ numBars \in 0 .. 6 /\ dpcs = {}
      /\ \A k \in BarSlots :
             bar[k] = IF k < numBars /\ layout[k + 1] # "large" THEN <<start, k>> ELSE Null
      /\ mapped = {<<start, k>> : k \in {x \in 0 .. numBars - 1 : layout[x + 1] # "large"}}
  BY <1>1, Parts DEF DeviceParts, DeviceTyped, BarsMapped, InterruptsBound, Gone
<1>3. mapped' = {}
  <2>1. \A k \in 0 .. numBars - 1 : k \in BarSlots /\ (layout[k + 1] # "large" => bar[k] = <<start, k>>)
    BY <1>2 DEF BarSlots
  <2> QED
    BY <1>1, <1>2, <2>1
<1>4. DeviceTyped'
  <2>1. bar' \in [BarSlots -> Pointers]
    BY <1>1, StartTyped, Parts DEF DeviceParts, DeviceTyped, Pointers
  <2> QED
    BY <1>1, <1>2, <1>3, <2>1, Parts DEF DeviceParts, DeviceTyped, Pointers
<1>5. BarsMapped'
  BY <1>1, <1>3 DEF BarsMapped, Gone, Created, SetUp, Bound, Queued
<1>6. EnginesCreated'
  BY <1>1, Parts DEF DeviceParts, EnginesCreated, Created, SetUp, Bound, Queued
<1>7. InterruptsBound'
  BY <1>1, <1>2, Parts DEF DeviceParts, InterruptsBound, Connected, SetUp, Bound, Queued
<1>8. FileParts'
  <2>1. NullExplained' = NullExplained
    BY <1>1 DEF NullExplained
  <2>2. FilesTyped'
    BY <1>1, Parts DEF FileParts, FilesTyped, Pointers
  <2>3. FilesOrderly'
    BY <1>1, <2>1, Parts DEF FileParts, FilesOrderly, Early, Created, SetUp, Bound, Queued
  <2> QED
    BY <2>2, <2>3 DEF FileParts
<1> QED
  BY <1>1, <1>4, <1>5, <1>6, <1>7, <1>8, FlagsStay, NoFaultHolds, PartsNext DEF DeviceParts

-----------------------------------------------------------------------------
(* Files.                                                                  *)

FileContexts == [kind : {"closed", "control", "user", "engine"}, engine : Engines \cup {None},
                 ptr : Pointers, queue : Starts, opened : Starts]

\* What the context of one file is to be.
Orderly(c) ==
    /\ c.queue # 0 <=> c.kind = "engine"
    /\ c.kind = "engine" => c.engine \in Engines
    /\ c.opened <= start
    /\ phase \in Early \cup (Created \ {"started", "disabled"}) => c.opened < start
    /\ c.kind \in {"control", "user"} =>
           /\ c.ptr = Null => NullExplained
           /\ phase = "started" /\ c.opened = start => c.ptr \in mapped \cup {Null}

\* A step that only sets the context of one file.
LEMMA OneFileHolds ==
    ASSUME DeviceInv, fault = NoFault, NEW f \in Files, NEW c \in FileContexts, Orderly(c),
           file' = [file EXCEPT ![f] = c],
           UNCHANGED <<phase, given, barVars, engineVars, irqVars, intVars, queue, fault>>
    PROVE  DeviceInv'
<1> USE DEF given, barVars, engineVars, irqVars, intVars
<1>1. file \in [Files -> FileContexts]
  BY Parts DEF FileParts, FilesTyped, FileContexts
<1>2. file'[f] = c /\ \A g \in Files \ {f} : file'[g] = file[g]
  BY <1>1
<1>3. FilesTyped'
  BY <1>1 DEF FilesTyped, FileContexts, Pointers
<1>4. \A g \in Files : Orderly(file[g])
  BY Parts DEF FileParts, FilesOrderly, Orderly
<1>5. \A g \in Files : Orderly(file'[g])
  BY <1>2, <1>4
<1>6. NullExplained' = NullExplained
  BY DEF NullExplained
<1>7. FilesOrderly'
  BY <1>5, <1>6 DEF FilesOrderly, Orderly
<1>8. DeviceParts'
  <2>1. dpcs' \subseteq objects /\ (dpcs' # {} => phase' \in {"started", "disabled"})
    BY Parts DEF DeviceParts, DeviceTyped, InterruptsBound, Connected
  <2> QED
    BY <2>1, DeviceStays
<1> QED
  BY <1>3, <1>7, <1>8, FlagsStay, NoFaultHolds, PartsNext DEF FileParts

\* What a started device has.
LEMMA Started ==
    ASSUME DeviceInv, fault = NoFault, phase = "started"
    PROVE  /\ start > 0 /\ start \in Starts /\ start \in Nat
           /\ bar[ConfigBar] \in mapped /\ bar[ConfigBar] \in Pointers /\ bar[ConfigBar] # Null
           /\ bar[UserBar] \in mapped \cup {Null} /\ bar[UserBar] \in Pointers
           /\ \A e \in Engines : queue[e] = start
<1>1. phase \in Created /\ phase \in Queued /\ phase \notin Gone
  BY DEF Created, SetUp, Bound, Queued, Gone
<1>2. /\ start > 0 /\ start \in Nat
      /\ bar[ConfigBar] \in mapped /\ bar[ConfigBar] \in Pointers /\ bar[ConfigBar] # Null
  BY <1>1, ConfigMapped, StartTyped
<1>3. start \in Starts /\ bar[UserBar] \in Pointers
  BY Parts DEF DeviceParts, DeviceTyped, BarSlots, UserBar
<1>4. bar[UserBar] \in mapped \cup {Null}
  BY <1>1, StartTyped, Parts DEF DeviceParts, DeviceTyped, BarsMapped, UserBar, BarSlots
<1>5. \A e \in Engines : queue[e] = start
  BY <1>1, Parts DEF DeviceParts, EnginesCreated
<1> QED
  BY <1>2, <1>3, <1>4, <1>5

LEMMA UserBarExplained ==
    ASSUME DeviceInv, fault = NoFault, phase = "started", bar[UserBar] = Null
    PROVE  NullExplained
<1>1. start > 0 /\ numBars = Len(layout) /\ 0 \in BarSlots
  BY Parts DEF DeviceParts, BarsMapped, Created, SetUp, Bound, Queued, Gone, BarSlots
<1>2. bar[0] = IF 0 < numBars /\ layout[0 + 1] # "large" THEN <<start, 0>> ELSE Null
  BY <1>1, Parts DEF DeviceParts, BarsMapped, Created, SetUp, Bound, Queued, Gone
<1>3. ~(0 < Len(layout) /\ layout[1] # "large")
  BY <1>1, <1>2, StartTyped DEF UserBar, Null
<1>4. 0 < Len(layout) => 1 \in DOMAIN layout
  BY StartTyped
<1> QED
  BY <1>3, <1>4, StartTyped DEF NullExplained

LEMMA OpenHolds ==
    ASSUME DeviceInv, fault = NoFault, NEW f \in Files, OpenBar(f) \/ OpenEngine(f)
    PROVE  DeviceInv'
<1>1. phase = "started"
  BY DEF OpenBar, OpenEngine, NewFile
<1>2. Null \in Pointers /\ 0 \in Starts /\ enabled \subseteq Engines
  BY StartTyped, Parts DEF DeviceParts, DeviceTyped, Starts
<1>3. "started" \notin Early \cup (Created \ {"started", "disabled"})
  BY DEF Early
<1>4. ASSUME NEW kind \in {"control", "user"}, NEW ptr \in {bar[ConfigBar], bar[UserBar]},
             NewFile(f, kind, None, ptr, 0)
      PROVE  DeviceInv'
  <2> DEFINE c == [kind |-> kind, engine |-> None, ptr |-> ptr, queue |-> 0, opened |-> start]
  <2>1. ptr \in Pointers /\ ptr \in mapped \cup {Null} /\ (ptr = Null => NullExplained)
    BY <1>1, Started, UserBarExplained
  <2>2. c \in FileContexts
    BY <1>1, <1>2, <2>1, Started DEF FileContexts
  <2>3. /\ c.kind = kind /\ c.engine = None /\ c.ptr = ptr /\ c.queue = 0 /\ c.opened = start
        /\ kind # "engine" /\ start <= start
    BY <1>1, Started
  <2>4. file' = [file EXCEPT ![f] = c]
    BY <1>4 DEF NewFile
  <2> HIDE DEF c
  <2>5. Orderly(c)
    BY <1>1, <1>3, <2>1, <2>3 DEF Orderly
  <2> QED
    BY <1>4, <2>2, <2>4, <2>5, OneFileHolds DEF NewFile
<1>5. ASSUME NEW e \in enabled, NewFile(f, "engine", e, Null, queue[e])
      PROVE  DeviceInv'
  <2> DEFINE c == [kind |-> "engine", engine |-> e, ptr |-> Null, queue |-> queue[e],
                   opened |-> start]
  <2>1. e \in Engines /\ queue[e] = start /\ start # 0
    BY <1>1, <1>2, Started
  <2>2. c \in FileContexts
    BY <1>1, <1>2, <2>1, Started DEF FileContexts
  <2>3. /\ c.kind = "engine" /\ c.engine = e /\ c.queue # 0 /\ c.opened = start /\ start <= start
    BY <1>1, <2>1, Started
  <2>4. file' = [file EXCEPT ![f] = c]
    BY <1>5 DEF NewFile
  <2> HIDE DEF c
  <2>5. Orderly(c)
    BY <1>1, <1>3, <2>1, <2>3 DEF Orderly
  <2> QED
    BY <1>5, <2>2, <2>4, <2>5, OneFileHolds DEF NewFile
<1> QED
  BY <1>4, <1>5 DEF OpenBar, OpenEngine

LEMMA CloseFileHolds ==
    ASSUME DeviceInv, fault = NoFault, NEW f \in Files, CloseFile(f)
    PROVE  DeviceInv'
<1>1. Closed \in FileContexts
  BY StartTyped DEF Closed, FileContexts, Starts
<1>2. /\ Closed.kind = "closed" /\ Closed.queue = 0 /\ Closed.opened = 0
  BY DEF Closed
<1>3. start \in Nat /\ (phase \notin Gone => start > 0)
  BY StartTyped, Parts DEF DeviceParts, BarsMapped
<1>4. Orderly(Closed)
  BY <1>2, <1>3 DEF Orderly, Gone, Early, Created, SetUp, Bound, Queued
<1> QED
  BY <1>1, <1>4, OneFileHolds DEF CloseFile

\* An access can fault of a pointer the file has had since it was opened, or of
\* registers beyond what is mapped.
LEMMA AccessHolds ==
    ASSUME DeviceInv, fault = NoFault, NEW f \in Files,
           AccessBar(f) \/ Transfer(f) \/ DeviceControl(f)
    PROVE  DeviceInv'
<1> USE DEF given, barVars, engineVars, irqVars, intVars
<1>1. /\ phase = "started"
      /\ UNCHANGED <<phase, given, barVars, engineVars, irqVars, intVars, queue, file>>
  BY DEF AccessBar, Transfer, DeviceControl, Access
<1>2. dpcs' \subseteq objects
  BY <1>1, Parts DEF DeviceParts, DeviceTyped
<1>3. /\ file[f].queue # 0 <=> file[f].kind = "engine"
      /\ file[f].kind = "engine" => file[f].engine \in Engines
      /\ file[f].kind \in {"control", "user"} =>
             /\ file[f].ptr = Null => NullExplained
             /\ file[f].opened = start => file[f].ptr \in mapped \cup {Null}
  BY <1>1, Parts DEF FileParts, FilesOrderly
<1>4. FaultParts'
  <2>1. CASE AccessBar(f)
    <3>1. /\ file[f].kind \in {"control", "user"}
          /\ \/ Use(file[f].ptr, FALSE, f)
             \/ file[f].ptr \in mapped /\ fault' = [what |-> "offset", file |-> f]
      BY <2>1 DEF AccessBar
    <3>2. \/ fault' = NoFault
          \/ file[f].ptr \in mapped /\ fault' = [what |-> "offset", file |-> f]
          \/ /\ fault'.what \in {"null", "unmapped"} /\ fault'.file = f
             /\ fault'.what = "null" => file[f].ptr = Null
             /\ fault'.what = "unmapped" => file[f].ptr # Null /\ file[f].ptr \notin mapped
      BY <3>1, UseFaults
    <3>3. CASE fault' = NoFault
      BY <3>3, NoFaultHolds
    <3>4. CASE fault'.what = "null" /\ NullExplained
      BY <1>1, <3>4 DEF FaultParts, FaultTyped, FaultsExplained, NullExplained
    <3>5. CASE fault'.what = "unmapped" /\ fault'.file = f /\ file[f].opened # start
      BY <1>1, <3>5 DEF FaultParts, FaultTyped, FaultsExplained
    <3>6. CASE file[f].ptr \in mapped /\ fault' = [what |-> "offset", file |-> f]
      BY <1>1, <3>1, <3>6 DEF FaultParts, FaultTyped, FaultsExplained
    <3> QED
      BY <1>3, <3>1, <3>2, <3>3, <3>4, <3>5, <3>6
  <2>2. CASE Transfer(f)
    BY <1>1, <1>3, <2>2, EngineUsed DEF Transfer, Created, SetUp, Bound, Queued
  <2>3. CASE DeviceControl(f)
    <3>1. \/ fault' = NoFault
          \/ fault' = [what |-> "noRegs", file |-> f] /\ file[f].kind = "engine"
          \/ fault' = [what |-> "noQueue", file |-> f] /\ file[f].kind # "engine"
      BY <1>3, <2>3 DEF DeviceControl
    <3>2. CASE fault' = NoFault
      BY <3>2, NoFaultHolds
    <3>3. CASE fault' = [what |-> "noRegs", file |-> f] /\ file[f].kind = "engine"
      BY <1>1, <3>3 DEF FaultParts, FaultTyped, FaultsExplained
    <3>4. CASE fault' = [what |-> "noQueue", file |-> f] /\ file[f].kind # "engine"
      BY <1>1, <3>4 DEF FaultParts, FaultTyped, FaultsExplained
    <3> QED
      BY <3>1, <3>2, <3>3, <3>4
  <2> QED
    BY <2>1, <2>2, <2>3
<1> QED
  BY <1>1, <1>2, <1>4, RoutineStays, FlagsStay, PartsNext DEF Connected

LEMMA EnableByFileHolds ==
    ASSUME DeviceInv, fault = NoFault, NEW f \in Files, EnableByFile(f)
    PROVE  DeviceInv'
<1> USE DEF given, barVars, engineVars, irqVars
<1>1. /\ phase = "started" /\ global' = TRUE
      /\ UNCHANGED <<phase, given, barVars, engineVars, irqVars, pciEnable, dpcs, queue, file, fault>>
  BY DEF EnableByFile
<1>2. dpcs' \subseteq objects
  BY <1>1, Parts DEF DeviceParts, DeviceTyped
<1> QED
  BY <1>1, <1>2, RoutineStays, RoutinesTyped, NoFaultHolds, PartsNext DEF Connected

-----------------------------------------------------------------------------
LEMMA PrepareHolds ==
    ASSUME DeviceInv, fault = NoFault, PrepareHardware PROVE DeviceInv'
BY DeviceOpenHolds, MapBarHolds, IdentifyBarsHolds, StartFailsHolds, EngineCreateHolds,
   SetupInterruptsHolds, AssignHolds, CreateQueuesHolds DEF PrepareHardware

LEMMA StutterHolds ==
    ASSUME DeviceInv, UNCHANGED vars PROVE DeviceInv'
BY DEF vars, given, barVars, engineVars, irqVars, intVars, DeviceInv, TypeOK, BarsMapped,
   EnginesCreated, InterruptsBound, Connected, FilesOrderly, FaultsExplained, NullExplained, Pointers

LEMMA StepHolds == ASSUME DeviceInv, [Next]_vars PROVE DeviceInv'
<1>1. CASE fault = NoFault /\ PrepareHardware
  BY <1>1, PrepareHolds
<1>2. CASE fault = NoFault /\ Interrupt
  BY <1>2, EnableHolds, ServiceHolds, ChannelServiceHolds, DpcHolds DEF Interrupt
<1>3. CASE fault = NoFault /\ DeviceClose
  BY <1>3, DeviceCloseHolds
<1>4. CASE fault = NoFault /\ \E f \in Files : FileStep(f)
  BY <1>4, OpenHolds, CloseFileHolds, AccessHolds, EnableByFileHolds DEF FileStep
<1>5. CASE UNCHANGED vars
  BY <1>5, StutterHolds
<1> QED
  BY <1>1, <1>2, <1>3, <1>4, <1>5 DEF Next

\* What every reachable state satisfies.
THEOREM DeviceInvariant == Spec => []DeviceInv
<1>1. Init => DeviceInv
  BY InitHolds
<1>2. DeviceInv /\ [Next]_vars => DeviceInv'
  BY StepHolds
<1> QED
  BY <1>1, <1>2, PTL DEF Spec

\* Every variable keeps to its range over all starts, stops and failures.
THEOREM TypeCorrect == Spec => []TypeOK
<1>1. DeviceInv => TypeOK
  BY DEF DeviceInv
<1> QED
  BY <1>1, DeviceInvariant, PTL

\* A started device has engines, registers and queues of this start only, and
\* no channel interrupt without its engine (adevice.c:328-338).
THEOREM StartedBound == Spec => []StartedIsBound
<1>1. DeviceInv => StartedIsBound
  <2> SUFFICES ASSUME DeviceInv, phase = "started"
               PROVE  StartedIsBound
    BY DEF StartedIsBound
  <2>1. phase \in Created /\ phase \in Queued /\ phase \in Bound
    BY DEF Created, SetUp, Bound, Queued
  <2> QED
    BY <2>1 DEF DeviceInv, BarsMapped, EnginesCreated, InterruptsBound, StartedIsBound
<1> QED
  BY <1>1, DeviceInvariant, PTL

\* Nothing stops the system but what the property lists, each with its cause
\* (an application's offset past a BAR among them, ADMA_Driver/file_io.c:236,
\* 278), and never an interrupt routine that finds no engine.
THEOREM FaultsHaveCauses == Spec => []FaultsExplained
<1>1. DeviceInv => FaultsExplained
  BY DEF DeviceInv
<1> QED
  BY <1>1, DeviceInvariant, PTL
==============================================================================
