-------------------------- MODULE XdmaDeviceProofs --------------------------
(***************************************************************************)
(* The safety properties of XdmaDevice, for any number of channels and     *)
(* user events, any cards, BARs and interrupts that restarts may bring,    *)
(* any number of starts and of files open over them.                       *)
(***************************************************************************)
EXTENDS XdmaDevice, FiniteSetTheorems, TLAPS

\* A start has the interrupts set up, and it has the engines looked for.
SetUp == {"enabler", "probe", "poll", "queues", "started"}
Probing == SetUp \ {"enabler"}

\* Until it is closed the device has its BARs mapped in their slots, and the
\* pointers and numbers that were taken from them are of this start.
BarsMapped ==
    /\ phase \in {"stopped", "removed"} => mapped = {}
    /\ phase \notin {"stopped", "removed"} =>
           /\ start > 0 /\ numBars <= layout.num
           /\ \A i \in BarSlots : bar[i] = IF i < numBars THEN <<start, i>> ELSE Null
           /\ mapped = {<<start, i>> : i \in 0 .. numBars - 1}
    /\ phase = "map" => intRegs = Null
    /\ phase = "failed" => intRegs \in mapped \cup {Null}
    /\ phase \in SetUp \cup {"interrupts"} =>
           /\ layout.config < numBars /\ intRegs = bar[layout.config]
           /\ userBar = None \/ userBar < numBars
           /\ bypassBar = None \/ bypassBar < numBars

\* The vector registers agree with the objects that are connected.
Single ==
    /\ irq.kind \in {"line", "msi"} /\ objects = {<<irq.pin, Device>>}
    /\ \A u \in Users : userVector[u] = IF u % RegWidth = 0 THEN irq.pin ELSE 0
    /\ \A i \in Slots : chanVector[i] = IF i % RegWidth = 0 THEN irq.pin ELSE 0

Vectors ==
    /\ irq.kind \in {"multi", "msix"}
    /\ objects = {<<u, User(u)>> : u \in Users} \cup {<<NumUsers + i, Channel(i)>> : i \in Slots}
    /\ \A u \in Users : userVector[u] = u
    /\ \A i \in Slots : chanVector[i] = NumUsers + i /\ chanIrq[i] = start

InterruptsSetUp ==
    /\ \A i \in Slots : chanIrq[i] <= start
    /\ phase \in SetUp => Single \/ Vectors

\* The engines before the one that is probed are those of the card, numbered
\* as the card numbers them and bound to the objects of these numbers.
EnginesProbed ==
    /\ phase \in {"map", "interrupts", "enabler"} =>
           enabled = {} /\ probing = 0 /\ engineIndex = 0
    /\ phase = "probe" =>
           engineIndex = HwBit(probing) /\ enabled = {e \in card.engines : e < probing}
    /\ phase \in Probing \ {"probe"} => enabled = card.engines
    /\ phase \in Probing =>
           \A e \in enabled :
               /\ regs[e] = intRegs /\ irqIndex[e] = HwBit(e)
               /\ irq.kind \in {"multi", "msix"} => irqEngine[HwBit(e)] = e
    /\ phase = "started" => \A e \in enabled : queue[e] = start

\* A file of an engine has a queue, others have none; a file that was opened
\* since the last start has a pointer into its BARs or one of its engines.
FilesOrderly ==
    \A f \in Files :
        /\ file[f].queue # 0 <=> file[f].kind = "engine"
        /\ file[f].kind # "engine" => file[f].engine = None
        /\ file[f].opened <= start
        /\ phase \in {"map", "interrupts"} \cup (SetUp \ {"started"}) => file[f].opened < start
        /\ phase = "started" /\ file[f].opened = start =>
               /\ file[f].kind \in {"control", "user", "bypass"} => file[f].ptr \in mapped
               /\ file[f].kind = "engine" => file[f].engine \in enabled

DeviceInv ==
    /\ TypeOK /\ BarsMapped /\ InterruptsSetUp /\ EnginesProbed /\ FilesOrderly
    /\ FaultsExplained

-----------------------------------------------------------------------------
SlotsBelow(e) == {x \in card.engines : x < e}

LEMMA SlotNumbers == NumChannels \in Nat /\ Slots \subseteq Nat /\ \A e \in Slots : e < 2 * NumChannels
BY DeviceAssumption DEF DeviceAssumption, Slots

LEMMA CardTyped ==
    ASSUME card \in Cards
    PROVE  card.engines \subseteq Slots /\ \A x \in card.engines : x \in Slots /\ x \in Nat
<1>1. card.engines \subseteq Slots
  BY DeviceAssumption, Zenon DEF DeviceAssumption
<1> QED
  BY <1>1, SlotNumbers

\* The card numbers the engines it has without gaps, in order.
LEMMA BitsCount ==
    ASSUME card \in Cards, NEW e \in Nat
    PROVE  /\ IsFiniteSet(SlotsBelow(e)) /\ HwBit(e) = Cardinality(SlotsBelow(e))
           /\ HwBit(e) \in Nat /\ HwBit(e) <= e
<1>1. SlotsBelow(e) \subseteq 0 .. e - 1
  BY CardTyped, SlotNumbers DEF SlotsBelow
<1>2. IsFiniteSet(0 .. e - 1) /\ Cardinality(0 .. e - 1) = e
  BY FS_Interval
<1>3. IsFiniteSet(SlotsBelow(e)) /\ Cardinality(SlotsBelow(e)) <= e
  BY <1>1, <1>2, FS_Subset
<1> QED
  BY <1>3, FS_CardinalityType DEF HwBit, SlotsBelow

LEMMA FirstBit == ASSUME card \in Cards PROVE HwBit(0) = 0
<1>1. SlotsBelow(0) = {}
  BY CardTyped, SlotNumbers DEF SlotsBelow
<1> QED
  BY <1>1, BitsCount, FS_EmptySet

LEMMA NextBit ==
    ASSUME card \in Cards, NEW e \in Slots
    PROVE  HwBit(e + 1) = IF e \in card.engines THEN HwBit(e) + 1 ELSE HwBit(e)
<1>1. e \in Nat /\ e + 1 \in Nat /\ \A x \in card.engines : x \in Nat
  BY SlotNumbers, CardTyped
<1>2. CASE e \in card.engines
  <2>1. SlotsBelow(e + 1) = SlotsBelow(e) \cup {e} /\ e \notin SlotsBelow(e)
    BY <1>1, <1>2 DEF SlotsBelow
  <2>2. Cardinality(SlotsBelow(e) \cup {e}) = Cardinality(SlotsBelow(e)) + 1
    BY <1>1, <2>1, BitsCount, FS_AddElement
  <2> QED
    BY <1>1, <1>2, <2>1, <2>2, BitsCount
<1>3. CASE e \notin card.engines
  <2>1. SlotsBelow(e + 1) = SlotsBelow(e)
    BY <1>1, <1>3 DEF SlotsBelow
  <2> QED
    BY <1>1, <1>3, <2>1, BitsCount
<1> QED
  BY <1>2, <1>3

LEMMA BitsDiffer ==
    ASSUME card \in Cards, NEW e \in card.engines, NEW p \in Nat, e < p
    PROVE  HwBit(e) < HwBit(p) /\ HwBit(e) \in Slots
<1>1. e \in Slots /\ e \in Nat /\ e + 1 \in Nat /\ \A x \in card.engines : x \in Nat
  BY SlotNumbers, CardTyped
<1>2. SlotsBelow(e + 1) \subseteq SlotsBelow(p)
  BY <1>1 DEF SlotsBelow
<1>3. Cardinality(SlotsBelow(e + 1)) <= Cardinality(SlotsBelow(p))
  BY <1>1, <1>2, BitsCount, FS_Subset
<1>4. HwBit(e + 1) <= HwBit(p) /\ HwBit(e + 1) = HwBit(e) + 1
  BY <1>1, <1>3, BitsCount, NextBit
<1>5. HwBit(e) \in Nat /\ HwBit(p) \in Nat /\ HwBit(e) <= e
  BY <1>1, BitsCount
<1> QED
  BY <1>1, <1>4, <1>5, SlotNumbers DEF Slots

-----------------------------------------------------------------------------
LEMMA InitHolds == ASSUME Init PROVE DeviceInv
<1>1. TypeOK
  BY DeviceAssumption DEF DeviceAssumption, Init, TypeOK, Pointers, FileContexts, Null, None, Closed,
     NoFault, NoFile, Slots, Users, BarSlots
<1>2. BarsMapped /\ InterruptsSetUp /\ EnginesProbed
  BY DeviceAssumption DEF DeviceAssumption, Init, BarsMapped, InterruptsSetUp, EnginesProbed, SetUp, Probing
<1>3. FilesOrderly /\ FaultsExplained
  BY DEF Init, FilesOrderly, FaultsExplained, Closed, SetUp, NoFault
<1> QED
  BY <1>1, <1>2, <1>3 DEF DeviceInv

-----------------------------------------------------------------------------
(* What does not depend on the files and on faults.                        *)

DeviceTyped ==
    /\ phase \in {"stopped", "map", "interrupts", "enabler", "probe", "poll", "queues", "started",
                  "failed", "removed"}
    /\ start \in 0 .. MaxStarts
    /\ card \in Cards /\ layout \in BarLayouts /\ irq \in Interrupts
    /\ mapped \subseteq Pointers /\ bar \in [BarSlots -> Pointers] /\ numBars \in 0 .. 3
    /\ userBar \in BarSlots \cup {None} /\ bypassBar \in BarSlots \cup {None}
    /\ intRegs \in Pointers
    /\ userVector \in [Users -> Nat] /\ chanVector \in [Slots -> Nat]
    /\ objects \subseteq Nat \X ({"device", "user", "channel"} \X Nat)
    /\ chanIrq \in [Slots -> 0 .. MaxStarts]
    /\ irqEngine \in [Slots -> Slots \cup {None}]
    /\ enabled \subseteq Slots /\ streams \subseteq Slots
    /\ regs \in [Slots -> Pointers] /\ irqIndex \in [Slots -> Slots]
    /\ probing \in 0 .. 2 * NumChannels /\ engineIndex \in 0 .. 2 * NumChannels
    /\ queue \in [Slots -> 0 .. MaxStarts]

FilesTyped == file \in [Files -> FileContexts]
FaultTyped ==
    fault.what \in {"none", "noInterrupt", "deletedInterrupt", "noKey", "unmapped", "offset",
                   "noQueue"}

LEMMA Typed == TypeOK <=> (DeviceTyped /\ FilesTyped /\ FaultTyped)
BY DEF TypeOK, DeviceTyped, FilesTyped, FaultTyped

LEMMA TypedNext == TypeOK' <=> (DeviceTyped' /\ FilesTyped' /\ FaultTyped')
BY Typed, PTL

DeviceParts == DeviceTyped /\ BarsMapped /\ InterruptsSetUp /\ EnginesProbed

LEMMA Parts ==
    DeviceInv <=> (DeviceParts /\ FilesTyped /\ FaultTyped /\ FilesOrderly /\ FaultsExplained)
BY Typed DEF DeviceInv, DeviceParts

LEMMA PartsNext ==
    DeviceInv' <=> (DeviceParts' /\ FilesTyped' /\ FaultTyped' /\ FilesOrderly' /\ FaultsExplained')
BY Parts, PTL

LEMMA BitsSame == ASSUME card' = card PROVE \A x : HwBit(x)' = HwBit(x)
BY DEF HwBit

\* A step that changes neither the device nor the files.
LEMMA DeviceStays ==
    ASSUME DeviceInv, UNCHANGED <<phase, given, barVars, vectorVars, engineVars, queue>>
    PROVE  DeviceParts'
<1> USE DEF given, barVars, vectorVars, engineVars
<1>1. DeviceTyped' /\ BarsMapped' /\ InterruptsSetUp'
  BY Parts DEF DeviceParts, DeviceTyped, BarsMapped, InterruptsSetUp, Single, Vectors, Pointers
<1>2. EnginesProbed'
  BY Parts, BitsSame DEF DeviceParts, EnginesProbed
<1> QED
  BY <1>1, <1>2 DEF DeviceParts

LEMMA FilesStay ==
    ASSUME DeviceInv, UNCHANGED <<phase, start, mapped, enabled, file>>
    PROVE  FilesTyped' /\ FilesOrderly'
BY Parts DEF FilesTyped, FileContexts, Pointers, FilesOrderly

\* Nothing faults.
LEMMA NoFaultHolds == ASSUME fault' = NoFault PROVE FaultTyped' /\ FaultsExplained'
BY DEF FaultTyped, FaultsExplained, NoFault

-----------------------------------------------------------------------------
(* The steps of a start.                                                   *)

\* Those that only go on to the next part, or give up.
LEMMA PhaseStep ==
    ASSUME DeviceInv, fault = NoFault,
           StartFails \/ EnablerCreated \/ Probed \/ SetPollMode
    PROVE  DeviceInv'
<1>1. UNCHANGED <<given, barVars, vectorVars, engineVars, queue, file, fault>>
  BY DEF StartFails, EnablerCreated, Probed, SetPollMode
<1>2. /\ phase \in {"map", "interrupts", "enabler", "probe", "poll", "queues"}
      /\ phase' \in {"failed", "probe", "poll", "queues"}
      /\ \/ phase' = "failed"
         \/ phase = "enabler" /\ phase' = "probe"
         \/ phase = "probe" /\ phase' = "poll" /\ probing \notin Slots
         \/ phase = "poll" /\ phase' = "queues"
  BY DEF StartFails, EnablerCreated, Probed, SetPollMode
<1> USE DEF given, barVars, vectorVars, engineVars
<1>3. DeviceTyped' /\ FilesTyped'
  BY <1>1, <1>2, Parts DEF DeviceParts, DeviceTyped, FilesTyped, FileContexts, Pointers
<1>4. intRegs \in mapped \cup {Null}
  BY <1>2, Parts, DeviceAssumption
  DEF DeviceParts, DeviceTyped, BarsMapped, SetUp, BarSlots, DeviceAssumption
<1>5. BarsMapped' /\ InterruptsSetUp'
  BY <1>1, <1>2, <1>4, Parts DEF DeviceParts, BarsMapped, InterruptsSetUp, SetUp, Single, Vectors
<1>6. EnginesProbed'
  <2>1. \A x : HwBit(x)' = HwBit(x)
    BY <1>1, BitsSame
  <2>2. CASE phase = "enabler" /\ phase' = "probe"
    <3>1. card \in Cards /\ HwBit(0) = 0 /\ \A x \in card.engines : x \in Nat
      BY Parts, FirstBit, CardTyped DEF DeviceParts, DeviceTyped
    <3>2. enabled = {} /\ probing = 0 /\ engineIndex = 0 /\ {x \in card.engines : x < 0} = {}
      BY <2>2, <3>1, Parts DEF DeviceParts, EnginesProbed
    <3> QED
      BY <1>1, <2>1, <2>2, <3>1, <3>2 DEF EnginesProbed, Probing, SetUp
  <2>3. CASE phase = "probe" /\ phase' = "poll" /\ probing \notin Slots
    <3>1. \A x \in card.engines : x < probing
      BY <2>3, Parts, CardTyped, SlotNumbers DEF DeviceParts, DeviceTyped, Slots
    <3>2. enabled = card.engines
      BY <2>3, <3>1, Parts DEF DeviceParts, EnginesProbed
    <3> QED
      BY <1>1, <2>1, <2>3, <3>2, Parts DEF DeviceParts, EnginesProbed, Probing, SetUp
  <2>4. CASE phase' = "failed"
    BY <2>4 DEF EnginesProbed, Probing, SetUp
  <2>5. CASE phase = "poll" /\ phase' = "queues"
    BY <1>1, <2>1, <2>5, Parts DEF DeviceParts, EnginesProbed, Probing, SetUp
  <2> QED
    BY <1>2, <2>2, <2>3, <2>4, <2>5
<1>7. FilesOrderly'
  BY <1>1, <1>2, Parts DEF FilesOrderly, SetUp
<1> QED
  BY <1>1, <1>3, <1>5, <1>6, <1>7, NoFaultHolds, PartsNext DEF DeviceParts

\* Those that stop the system.
LEMMA StartFaults ==
    ASSUME DeviceInv, fault = NoFault,
           InterruptCreateFails \/ EngineConfigureDeleted \/ PollModeKeyFails
    PROVE  DeviceInv'
<1>1. UNCHANGED <<phase, given, barVars, vectorVars, engineVars, queue, file>>
  BY DEF InterruptCreateFails, EngineConfigureDeleted, PollModeKeyFails
<1>2. /\ fault'.what \in {"noInterrupt", "noKey", "deletedInterrupt"}
      /\ fault'.what = "deletedInterrupt" => EngineConfigureDeleted
      /\ fault'.what = "noInterrupt" => phase = "interrupts"
      /\ fault'.what = "noKey" => phase = "poll"
  BY DEF InterruptCreateFails, EngineConfigureDeleted, PollModeKeyFails, Crash
<1>3. ASSUME EngineConfigureDeleted
      PROVE  start > 1 /\ irq.kind \in {"line", "msi"}
  <2>1. /\ phase = "probe" /\ probing \in Slots /\ engineIndex = HwBit(probing)
        /\ chanIrq[engineIndex] \notin {0, start}
    BY <1>3, Parts, CardTyped DEF EngineConfigureDeleted, DeviceParts, DeviceTyped, EnginesProbed
  <2>2. engineIndex \in Slots
    BY <2>1, Parts, BitsCount, SlotNumbers DEF DeviceParts, DeviceTyped, Slots
  <2>3. chanIrq[engineIndex] <= start /\ chanIrq[engineIndex] \in Nat /\ start \in Nat
    BY <2>2, Parts, DeviceAssumption DEF DeviceAssumption, DeviceParts, DeviceTyped, InterruptsSetUp
  <2>4. Single \/ Vectors
    BY <2>1, Parts DEF DeviceParts, InterruptsSetUp, SetUp
  <2> QED
    BY <2>1, <2>2, <2>3, <2>4 DEF Single, Vectors
<1>4. FaultTyped' /\ FaultsExplained'
  BY <1>1, <1>2, <1>3 DEF FaultTyped, FaultsExplained, given
<1> QED
  BY <1>1, <1>4, DeviceStays, FilesStay, PartsNext DEF given, barVars, engineVars

LEMMA DeviceOpenHolds ==
    ASSUME DeviceInv, fault = NoFault, DeviceOpen
    PROVE  DeviceInv'
<1> USE DEF given, barVars, vectorVars, engineVars
<1>1. /\ phase = "stopped" /\ start' = start + 1 /\ start < MaxStarts
      /\ card' \in Cards /\ irq' \in Interrupts
      /\ bar' = [k \in BarSlots |-> Null] /\ numBars' = 0 /\ userBar' = None /\ bypassBar' = None
      /\ intRegs' = Null /\ enabled' = {} /\ phase' = "map" /\ probing' = 0 /\ engineIndex' = 0
      /\ UNCHANGED <<layout, mapped, vectorVars, irqEngine, regs, streams, irqIndex, queue, file, fault>>
  BY DEF DeviceOpen, DeviceDefaultInitialize
<1>2. /\ MaxStarts \in Nat /\ start \in Nat /\ NumChannels \in Nat /\ layout.num \in Nat
      /\ Null \in Pointers
  BY Parts, DeviceAssumption
  DEF DeviceAssumption, DeviceParts, DeviceTyped, Pointers, Null, BarSlots
<1>3. DeviceTyped'
  BY <1>1, <1>2, Parts DEF DeviceParts, DeviceTyped, Pointers
<1>4. BarsMapped'
  <2>1. mapped' = {} /\ \A k \in BarSlots : ~(k < 0)
    BY <1>1, Parts DEF DeviceParts, BarsMapped, BarSlots
  <2>2. {<<start', k>> : k \in 0 .. numBars' - 1} = {}
    BY <1>1
  <2> QED
    BY <1>1, <1>2, <2>1, <2>2 DEF BarsMapped, SetUp
<1>5. InterruptsSetUp'
  BY <1>1, <1>2, Parts, DeviceAssumption
  DEF DeviceAssumption, DeviceParts, DeviceTyped, InterruptsSetUp, SetUp
<1>6. EnginesProbed'
  BY <1>1 DEF EnginesProbed, Probing, SetUp
<1>7. FilesTyped' /\ FilesOrderly'
  BY <1>1, <1>2, Parts DEF FilesTyped, FilesOrderly, FileContexts, Pointers, SetUp
<1> QED
  BY <1>1, <1>3, <1>4, <1>5, <1>6, <1>7, NoFaultHolds, PartsNext DEF DeviceParts

LEMMA MapBarHolds ==
    ASSUME DeviceInv, fault = NoFault, MapBar
    PROVE  DeviceInv'
<1> USE DEF given, barVars, vectorVars, engineVars
<1>1. /\ phase = "map" /\ numBars < layout.num /\ bar' = [bar EXCEPT ![numBars] = <<start, numBars>>]
      /\ mapped' = mapped \cup {<<start, numBars>>} /\ numBars' = numBars + 1
      /\ UNCHANGED <<phase, given, userBar, bypassBar, intRegs, vectorVars, engineVars, queue, file, fault>>
  BY DEF MapBar
<1>2. /\ layout.num \in 1 .. 3 /\ numBars \in 0 .. 2 /\ start \in Nat
      /\ start \in 0 .. MaxStarts /\ numBars \in BarSlots
  BY <1>1, Parts, DeviceAssumption DEF DeviceAssumption, DeviceParts, DeviceTyped, BarSlots
<1>3. DeviceTyped'
  BY <1>1, <1>2, Parts DEF DeviceParts, DeviceTyped, Pointers
<1>4. BarsMapped'
  <2>1. /\ start > 0 /\ mapped = {<<start, k>> : k \in 0 .. numBars - 1}
        /\ \A k \in BarSlots : bar[k] = IF k < numBars THEN <<start, k>> ELSE Null
        /\ intRegs = Null /\ bar \in [BarSlots -> Pointers]
    BY <1>1, Parts DEF DeviceParts, BarsMapped, DeviceTyped
  <2>2. \A k \in BarSlots : bar'[k] = IF k < numBars' THEN <<start, k>> ELSE Null
    BY <1>1, <1>2, <2>1 DEF BarSlots
  <2>3. mapped' = {<<start, k>> : k \in 0 .. numBars' - 1}
    <3>1. 0 .. numBars' - 1 = (0 .. numBars - 1) \cup {numBars}
      BY <1>1, <1>2
    <3> QED
      BY <1>1, <2>1, <3>1
  <2> QED
    BY <1>1, <1>2, <2>1, <2>2, <2>3 DEF BarsMapped, SetUp
<1>5. InterruptsSetUp' /\ EnginesProbed'
  BY <1>1, Parts DEF DeviceParts, InterruptsSetUp, EnginesProbed, SetUp, Probing
<1>6. FilesTyped' /\ FilesOrderly'
  BY <1>1, Parts DEF FilesTyped, FilesOrderly, FileContexts, Pointers
<1> QED
  BY <1>1, <1>3, <1>4, <1>5, <1>6, NoFaultHolds, PartsNext DEF DeviceParts

LEMMA IdentifyBarsHolds ==
    ASSUME DeviceInv, fault = NoFault, IdentifyBars
    PROVE  DeviceInv'
<1> USE DEF given, barVars, vectorVars, engineVars
<1>1. /\ phase = "map" /\ numBars = layout.num /\ layout.config < numBars /\ phase' = "interrupts"
      /\ userBar' = IF layout.config = 1 THEN 0 ELSE None
      /\ bypassBar' = IF numBars - layout.config = 2 THEN numBars - 1 ELSE None
      /\ intRegs' = bar[layout.config]
      /\ UNCHANGED <<given, mapped, bar, numBars, vectorVars, engineVars, queue, file, fault>>
  BY DEF IdentifyBars, BypassBar
<1>2. layout.num \in 1 .. 3 /\ layout.config \in 0 .. 3 /\ layout.config \in BarSlots
  BY <1>1, Parts, DeviceAssumption DEF DeviceAssumption, DeviceParts, DeviceTyped, BarSlots
<1>3. DeviceTyped'
  BY <1>1, <1>2, Parts DEF DeviceParts, DeviceTyped, BarSlots, Pointers
<1>4. BarsMapped'
  BY <1>1, <1>2, Parts DEF DeviceParts, BarsMapped, SetUp
<1>5. InterruptsSetUp' /\ EnginesProbed'
  BY <1>1, Parts DEF DeviceParts, InterruptsSetUp, EnginesProbed, SetUp, Probing
<1>6. FilesTyped' /\ FilesOrderly'
  BY <1>1, Parts DEF FilesTyped, FilesOrderly, FileContexts, Pointers, SetUp
<1> QED
  BY <1>1, <1>3, <1>4, <1>5, <1>6, NoFaultHolds, PartsNext DEF DeviceParts

LEMMA SetupInterruptsHolds ==
    ASSUME DeviceInv, fault = NoFault, SetupInterrupts
    PROVE  DeviceInv'
<1> USE DEF given, barVars, vectorVars, engineVars
<1>1. /\ phase = "interrupts" /\ phase' = "enabler"
      /\ (SetupSingleInterrupt \/ SetupVectors)
      /\ irqEngine' = [k \in Slots |-> None]
      /\ UNCHANGED <<given, barVars, enabled, regs, streams, irqIndex, probing, engineIndex, queue,
                     file, fault>>
  BY DEF SetupInterrupts
<1>2. /\ irq.pin \in 0 .. 3 /\ NumUsers \in Nat /\ NumChannels \in Nat /\ start \in 0 .. MaxStarts
      /\ start \in Nat
  BY Parts, DeviceAssumption DEF DeviceAssumption, DeviceParts, DeviceTyped
<1>3. /\ userVector' \in [Users -> Nat] /\ chanVector' \in [Slots -> Nat]
      /\ chanIrq' \in [Slots -> 0 .. MaxStarts]
  <2>1. CASE SetupSingleInterrupt
    BY <1>2, <2>1, Parts DEF SetupSingleInterrupt, DeviceParts, DeviceTyped
  <2>2. CASE SetupVectors
    BY <1>2, <2>2 DEF SetupVectors, Users, Slots
  <2> QED
    BY <1>1, <2>1, <2>2
<1>4. objects' \subseteq Nat \X ({"device", "user", "channel"} \X Nat)
  <2>1. CASE SetupSingleInterrupt
    BY <1>2, <2>1 DEF SetupSingleInterrupt, Device
  <2>2. CASE SetupVectors
    BY <1>2, <2>2 DEF SetupVectors, User, Channel, Users, Slots
  <2> QED
    BY <1>1, <2>1, <2>2
<1>5. DeviceTyped'
  BY <1>1, <1>3, <1>4, Parts DEF DeviceParts, DeviceTyped, Pointers
<1>6. BarsMapped'
  BY <1>1, Parts DEF DeviceParts, BarsMapped, SetUp
<1>7. InterruptsSetUp'
  <2>1. CASE SetupSingleInterrupt
    BY <1>1, <2>1, Parts DEF SetupSingleInterrupt, DeviceParts, InterruptsSetUp, Single
  <2>2. CASE SetupVectors
    BY <1>1, <1>2, <2>2 DEF SetupVectors, InterruptsSetUp, Vectors
  <2> QED
    BY <1>1, <2>1, <2>2
<1>8. EnginesProbed'
  BY <1>1, Parts DEF DeviceParts, EnginesProbed, Probing, SetUp
<1>9. FilesTyped' /\ FilesOrderly'
  BY <1>1, Parts DEF FilesTyped, FilesOrderly, FileContexts, Pointers, SetUp
<1> QED
  BY <1>1, <1>5, <1>6, <1>7, <1>8, <1>9, NoFaultHolds, PartsNext DEF DeviceParts

\* Where the engine that is probed is among those of the card.
LEMMA Probe ==
    ASSUME DeviceInv, phase = "probe", probing \in Slots
    PROVE  /\ card \in Cards /\ probing \in Nat /\ probing + 1 \in 0 .. 2 * NumChannels
           /\ engineIndex = HwBit(probing) /\ engineIndex \in Slots
           /\ engineIndex + 1 \in 0 .. 2 * NumChannels
           /\ HwBit(probing + 1) =
                  IF probing \in card.engines THEN HwBit(probing) + 1 ELSE HwBit(probing)
           /\ enabled = {x \in card.engines : x < probing}
           /\ {x \in card.engines : x < probing + 1} =
                  enabled \cup ({probing} \cap card.engines)
<1>1. card \in Cards /\ probing \in Nat /\ probing + 1 \in 0 .. 2 * NumChannels
  BY Parts, SlotNumbers DEF DeviceParts, DeviceTyped, Slots
<1>2. engineIndex = HwBit(probing) /\ enabled = {x \in card.engines : x < probing}
  BY Parts DEF DeviceParts, EnginesProbed
<1>3. engineIndex \in Slots /\ engineIndex + 1 \in 0 .. 2 * NumChannels
  BY <1>1, <1>2, BitsCount, SlotNumbers DEF Slots
<1>4. {x \in card.engines : x < probing + 1} = enabled \cup ({probing} \cap card.engines)
  BY <1>1, <1>2, CardTyped
<1> QED
  BY <1>1, <1>2, <1>3, <1>4, NextBit

LEMMA SkipEngineHolds ==
    ASSUME DeviceInv, fault = NoFault, SkipEngine
    PROVE  DeviceInv'
<1> USE DEF given, barVars, vectorVars, engineVars
<1>1. /\ phase = "probe" /\ probing \in Slots /\ probing \notin card.engines /\ probing' = probing + 1
      /\ UNCHANGED <<phase, given, barVars, vectorVars, irqEngine, enabled, regs, streams, irqIndex,
                     engineIndex, queue, file, fault>>
  BY DEF SkipEngine
<1>2. /\ probing + 1 \in 0 .. 2 * NumChannels
      /\ engineIndex = HwBit(probing + 1) /\ enabled = {x \in card.engines : x < probing + 1}
  BY <1>1, Probe
<1>3. DeviceTyped'
  BY <1>1, <1>2, Parts DEF DeviceParts, DeviceTyped, Pointers
<1>4. BarsMapped' /\ InterruptsSetUp'
  BY <1>1, Parts DEF DeviceParts, BarsMapped, InterruptsSetUp, Single, Vectors
<1>5. EnginesProbed'
  <2>1. \A x : HwBit(x)' = HwBit(x)
    BY <1>1, BitsSame
  <2> QED
    BY <1>1, <1>2, <2>1, Parts DEF DeviceParts, EnginesProbed, Probing, SetUp
<1> QED
  BY <1>1, <1>3, <1>4, <1>5, FilesStay, NoFaultHolds, PartsNext DEF DeviceParts

LEMMA EngineConfigured ==
    ASSUME DeviceInv, fault = NoFault, NEW e \in Slots, EngineCreate(e) \/ EngineCreateFails(e)
    PROVE  DeviceInv'
<1> USE DEF given, barVars, vectorVars, engineVars
<1> DEFINE i == engineIndex
<1>1. /\ phase = "probe" /\ probing = e /\ e \in card.engines
      /\ chanIrq[i] \in {0, start}
      /\ regs' = [regs EXCEPT ![e] = bar[layout.config]]
      /\ irqIndex' = [irqIndex EXCEPT ![e] = i]
      /\ irqEngine' = IF chanIrq[i] = start THEN [irqEngine EXCEPT ![i] = e] ELSE irqEngine
      /\ streams' \in {streams \cup {e}, streams \ {e}}
      /\ UNCHANGED <<given, barVars, vectorVars, queue, file, fault>>
      /\ \/ /\ phase' = "probe" /\ enabled' = enabled \cup {e}
            /\ probing' = probing + 1 /\ engineIndex' = i + 1
         \/ /\ phase' = "failed" /\ UNCHANGED <<enabled, probing, engineIndex>>
  BY DEF EngineCreate, EngineCreateFails, EngineConfigure
<1>2. /\ card \in Cards /\ e \in Nat /\ e + 1 \in 0 .. 2 * NumChannels
      /\ i = HwBit(e) /\ i \in Slots /\ i + 1 \in 0 .. 2 * NumChannels
      /\ HwBit(e + 1) = i + 1 /\ enabled = {x \in card.engines : x < e}
      /\ {x \in card.engines : x < e + 1} = enabled \cup {e}
  BY <1>1, Probe
<1>3. intRegs = bar[layout.config] /\ intRegs \in Pointers /\ intRegs \in mapped
  BY <1>1, Parts, DeviceAssumption
  DEF DeviceParts, DeviceTyped, BarsMapped, SetUp, BarSlots, DeviceAssumption
<1> HIDE DEF i
<1>4. irqEngine' \in [Slots -> Slots \cup {None}] /\ streams' \subseteq Slots /\ enabled' \subseteq Slots
  BY <1>1, <1>2, Parts DEF DeviceParts, DeviceTyped
<1>5. DeviceTyped'
  <2>1. CASE phase' = "probe"
    BY <1>1, <1>2, <1>3, <1>4, <2>1, Parts DEF DeviceParts, DeviceTyped, Pointers, i
  <2>2. CASE phase' = "failed"
    BY <1>1, <1>2, <1>3, <1>4, <2>2, Parts DEF DeviceParts, DeviceTyped, Pointers
  <2> QED
    BY <1>1, <2>1, <2>2
<1>6. BarsMapped' /\ InterruptsSetUp'
  BY <1>1, <1>3, Parts DEF DeviceParts, BarsMapped, InterruptsSetUp, Single, Vectors, SetUp
<1>7. EnginesProbed'
  <2>1. \A x : HwBit(x)' = HwBit(x)
    BY <1>1, BitsSame
  <2>2. CASE phase' = "failed"
    BY <2>2 DEF EnginesProbed, Probing, SetUp
  <2>3. CASE phase' = "probe"
    <3>1. enabled' = enabled \cup {e} /\ probing' = e + 1 /\ engineIndex' = i + 1
      BY <1>1, <2>3
    <3>2. ASSUME NEW x \in enabled'
          PROVE  /\ regs'[x] = intRegs' /\ irqIndex'[x] = HwBit(x)
                 /\ irq.kind \in {"multi", "msix"} => irqEngine'[HwBit(x)] = x
      <4>1. CASE x = e
        <5>1. regs'[e] = intRegs /\ irqIndex'[e] = i
          BY <1>1, <1>3, Parts DEF DeviceParts, DeviceTyped
        <5>2. ASSUME irq.kind \in {"multi", "msix"}
              PROVE  irqEngine'[i] = e
          <6>1. chanIrq[i] = start
            BY <1>1, <1>2, <5>2, Parts DEF DeviceParts, InterruptsSetUp, SetUp, Single, Vectors
          <6> QED
            BY <1>1, <1>2, <6>1, Parts DEF DeviceParts, DeviceTyped
        <5> QED
          BY <1>1, <1>2, <4>1, <5>1, <5>2
      <4>2. CASE x # e
        <5>1. x \in enabled /\ x \in card.engines /\ x < e
          BY <1>2, <3>1, <4>2
        <5>2. /\ regs[x] = intRegs /\ irqIndex[x] = HwBit(x)
              /\ irq.kind \in {"multi", "msix"} => irqEngine[HwBit(x)] = x
          BY <1>1, <5>1, Parts DEF DeviceParts, EnginesProbed, Probing, SetUp
        <5>3. HwBit(x) \in Slots /\ HwBit(x) # i /\ x \in Slots
          <6>1. x \in Slots /\ HwBit(x) \in Slots /\ HwBit(x) < HwBit(e)
            BY <1>2, <5>1, BitsDiffer, CardTyped
          <6> QED
            BY <1>2, <6>1, SlotNumbers
        <5>4. regs'[x] = regs[x] /\ irqIndex'[x] = irqIndex[x] /\ irqEngine'[HwBit(x)] = irqEngine[HwBit(x)]
          BY <1>1, <4>2, <5>3, Parts DEF DeviceParts, DeviceTyped
        <5> QED
          BY <1>1, <5>2, <5>4
      <4> QED
        BY <4>1, <4>2
    <3> QED
      BY <1>1, <1>2, <2>1, <2>3, <3>1, <3>2 DEF EnginesProbed, Probing, SetUp
  <2> QED
    BY <1>1, <2>2, <2>3
<1>8. FilesTyped' /\ FilesOrderly'
  BY <1>1, Parts DEF FilesTyped, FilesOrderly, FileContexts, Pointers, SetUp
<1> QED
  BY <1>1, <1>5, <1>6, <1>7, <1>8, NoFaultHolds, PartsNext DEF DeviceParts

LEMMA CreateQueuesHolds ==
    ASSUME DeviceInv, fault = NoFault, CreateQueues
    PROVE  DeviceInv'
<1> USE DEF given, barVars, vectorVars, engineVars
<1>1. /\ phase = "queues" /\ phase' = "started"
      /\ queue' = [e \in Slots |-> IF e \in enabled THEN start ELSE queue[e]]
      /\ UNCHANGED <<given, barVars, vectorVars, engineVars, file, fault>>
  BY DEF CreateQueues
<1>2. DeviceTyped'
  BY <1>1, Parts DEF DeviceParts, DeviceTyped, Pointers
<1>3. BarsMapped' /\ InterruptsSetUp'
  BY <1>1, Parts DEF DeviceParts, BarsMapped, InterruptsSetUp, Single, Vectors, SetUp
<1>4. EnginesProbed'
  <2>1. \A x : HwBit(x)' = HwBit(x)
    BY <1>1, BitsSame
  <2> QED
    BY <1>1, <2>1, Parts DEF DeviceParts, DeviceTyped, EnginesProbed, Probing, SetUp
<1>5. FilesTyped' /\ FilesOrderly'
  BY <1>1, Parts DEF DeviceParts, DeviceTyped, FilesTyped, FilesOrderly, FileContexts, Pointers, SetUp
<1> QED
  BY <1>1, <1>2, <1>3, <1>4, <1>5, NoFaultHolds, PartsNext DEF DeviceParts

-----------------------------------------------------------------------------
(* The stop and the files.                                                 *)

LEMMA DeviceCloseHolds ==
    ASSUME DeviceInv, fault = NoFault, DeviceClose
    PROVE  DeviceInv'
<1> USE DEF given, barVars, vectorVars, engineVars
<1>1. /\ phase \in {"failed", "started"} /\ phase' \in {"stopped", "removed"}
      /\ fault' = Use({intRegs} \ {Null}, NoFile)
      /\ IF intRegs = Null
         THEN UNCHANGED <<userVector, chanVector>>
         ELSE userVector' = [u \in Users |-> 0] /\ chanVector' = [i \in Slots |-> 0]
      /\ mapped' = mapped \ {bar[i] : i \in 0 .. numBars - 1}
      /\ bar' = [i \in BarSlots |-> IF i < numBars THEN Null ELSE bar[i]]
      /\ objects' = {}
      /\ UNCHANGED <<given, numBars, userBar, bypassBar, intRegs, chanIrq, engineVars, queue, file>>
  BY DEF DeviceClose, UnmapBars
<1>2. /\ start > 0 /\ numBars <= layout.num /\ numBars \in 0 .. 3 /\ layout.num \in 1 .. 3
      /\ layout.config \in 0 .. 3
      /\ \A i \in BarSlots : bar[i] = IF i < numBars THEN <<start, i>> ELSE Null
      /\ mapped = {<<start, i>> : i \in 0 .. numBars - 1}
  BY <1>1, Parts, DeviceAssumption DEF DeviceAssumption, DeviceParts, DeviceTyped, BarsMapped
<1>3. mapped' = {}
  <2>1. \A i \in 0 .. numBars - 1 : i \in BarSlots /\ bar[i] = <<start, i>>
    BY <1>2 DEF BarSlots
  <2> QED
    BY <1>1, <1>2, <2>1
<1>4. intRegs \in mapped \cup {Null}
  BY <1>1, <1>2, Parts DEF DeviceParts, BarsMapped, SetUp, BarSlots
<1>5. fault' = NoFault
  BY <1>1, <1>4 DEF Use
<1>6. DeviceTyped'
  <2>1. userVector' \in [Users -> Nat] /\ chanVector' \in [Slots -> Nat]
    BY <1>1, Parts DEF DeviceParts, DeviceTyped
  <2>2. bar' \in [BarSlots -> Pointers]
    BY <1>1, Parts, DeviceAssumption
    DEF DeviceAssumption, DeviceParts, DeviceTyped, Pointers, Null, BarSlots
  <2> QED
    BY <1>1, <1>3, <2>1, <2>2, Parts DEF DeviceParts, DeviceTyped, Pointers
<1>7. BarsMapped'
  BY <1>1, <1>3 DEF BarsMapped, SetUp
<1>8. InterruptsSetUp' /\ EnginesProbed'
  BY <1>1, Parts DEF DeviceParts, InterruptsSetUp, EnginesProbed, SetUp, Probing
<1>9. FilesTyped' /\ FilesOrderly'
  BY <1>1, Parts DEF FilesTyped, FilesOrderly, FileContexts, Pointers, SetUp
<1> QED
  BY <1>5, <1>6, <1>7, <1>8, <1>9, NoFaultHolds, PartsNext DEF DeviceParts

\* What a started device has.
LEMMA Started ==
    ASSUME DeviceInv, phase = "started"
    PROVE  /\ start > 0 /\ start \in 0 .. MaxStarts
           /\ layout.config \in BarSlots /\ bar[layout.config] \in mapped
           /\ intRegs = bar[layout.config] /\ mapped \subseteq Pointers
           /\ userBar # None => userBar \in BarSlots /\ bar[userBar] \in mapped
           /\ bypassBar # None => bypassBar \in BarSlots /\ bar[bypassBar] \in mapped
           /\ \A e \in enabled : e \in Slots /\ regs[e] \in mapped /\ queue[e] = start
<1>1. /\ start > 0 /\ start \in 0 .. MaxStarts /\ numBars \in 0 .. 3 /\ layout.config \in 0 .. 3
      /\ layout.config < numBars /\ intRegs = bar[layout.config] /\ mapped \subseteq Pointers
      /\ userBar # None => (userBar \in BarSlots /\ userBar < numBars)
      /\ bypassBar # None => (bypassBar \in BarSlots /\ bypassBar < numBars)
      /\ \A k \in BarSlots : bar[k] = IF k < numBars THEN <<start, k>> ELSE Null
      /\ mapped = {<<start, k>> : k \in 0 .. numBars - 1}
  BY Parts, DeviceAssumption
  DEF DeviceAssumption, DeviceParts, DeviceTyped, BarsMapped, SetUp
<1>2. \A k \in BarSlots : k < numBars => bar[k] \in mapped
  BY <1>1 DEF BarSlots
<1>3. layout.config \in BarSlots
  BY <1>1 DEF BarSlots
<1>4. \A e \in enabled : e \in Slots /\ regs[e] = intRegs /\ queue[e] = start
  BY Parts DEF DeviceParts, DeviceTyped, EnginesProbed, Probing, SetUp
<1> QED
  BY <1>1, <1>2, <1>3, <1>4

\* A file that is opened has what the device has now.
LEMMA NewFileHolds ==
    ASSUME DeviceInv, fault = NoFault, NEW f \in Files, NEW kind, NEW e, NEW ptr, NEW q,
           NewFile(f, kind, e, ptr, q), fault' = NoFault,
           \/ /\ kind \in {"control", "user", "bypass"} /\ e = None /\ ptr \in mapped /\ q = 0
           \/ kind = "event" /\ e = None /\ ptr = Null /\ q = 0
           \/ kind = "engine" /\ e \in enabled /\ ptr = Null /\ q = start
    PROVE  DeviceInv'
<1> USE DEF given, barVars, vectorVars, engineVars
<1> DEFINE r == [kind |-> kind, engine |-> e, ptr |-> ptr, queue |-> q, opened |-> start]
<1>1. /\ phase = "started" /\ file' = [file EXCEPT ![f] = r]
      /\ UNCHANGED <<phase, given, barVars, vectorVars, engineVars, queue>>
  BY DEF NewFile
<1>2. /\ start > 0 /\ start \in 0 .. MaxStarts /\ mapped \subseteq Pointers /\ Null \in Pointers
      /\ enabled \subseteq Slots /\ MaxStarts \in Nat
  BY <1>1, Started, Parts, DeviceAssumption
  DEF DeviceAssumption, DeviceParts, DeviceTyped, Pointers, Null, BarSlots
<1>3. /\ r.kind = kind /\ r.engine = e /\ r.ptr = ptr /\ r.queue = q /\ r.opened = start
      /\ r \in FileContexts
  BY <1>2 DEF FileContexts
<1> HIDE DEF r
<1>4. FilesTyped'
  BY <1>1, <1>3, Parts DEF FilesTyped, FileContexts, Pointers
<1>5. file'[f] = r /\ \A g \in Files \ {f} : file'[g] = file[g]
  BY <1>1, Parts DEF FilesTyped
<1>6. FilesOrderly'
  <2> SUFFICES ASSUME NEW g \in Files
               PROVE  /\ file'[g].queue # 0 <=> file'[g].kind = "engine"
                      /\ file'[g].kind # "engine" => file'[g].engine = None
                      /\ file'[g].opened <= start
                      /\ file'[g].opened = start =>
                             /\ file'[g].kind \in {"control", "user", "bypass"} => file'[g].ptr \in mapped
                             /\ file'[g].kind = "engine" => file'[g].engine \in enabled
    BY <1>1 DEF FilesOrderly, SetUp
  <2>1. CASE g = f
    BY <1>2, <1>3, <1>5, <2>1
  <2>2. CASE g # f
    BY <1>1, <1>5, <2>2, Parts DEF FilesOrderly
  <2> QED
    BY <2>1, <2>2
<1> QED
  BY <1>1, <1>4, <1>6, DeviceStays, NoFaultHolds, PartsNext

LEMMA OpenHolds ==
    ASSUME DeviceInv, fault = NoFault, NEW f \in Files, OpenBar(f) \/ OpenEvent(f) \/ OpenEngine(f)
    PROVE  DeviceInv'
<1>1. phase = "started"
  BY DEF OpenBar, OpenEvent, OpenEngine, NewFile
<1>2. CASE OpenBar(f)
  BY <1>1, <1>2, Started, NewFileHolds DEF OpenBar
<1>3. CASE OpenEvent(f)
  BY <1>3, NewFileHolds DEF OpenEvent
<1>4. CASE OpenEngine(f)
  <2>1. PICK e \in enabled : NewFile(f, "engine", e, Null, queue[e]) /\ fault' = Use({regs[e], intRegs}, f)
    BY <1>4 DEF OpenEngine
  <2>2. fault' = NoFault /\ queue[e] = start
    BY <1>1, <2>1, Started DEF Use
  <2> QED
    BY <2>1, <2>2, NewFileHolds
<1> QED
  BY <1>2, <1>3, <1>4

\* A file makes trouble only if it was open before the last start, or if it is
\* closed while the device is not there.
LEMMA FileFaultHolds ==
    ASSUME DeviceInv, fault = NoFault, NEW f \in Files,
           AccessBarFaults(f) \/ TransferFaults(f) \/ ControlFaults(f)
    PROVE  DeviceInv'
<1> USE DEF given, barVars, vectorVars, engineVars
<1>1. /\ phase = "started" /\ fault'.file = f /\ fault'.what \in {"unmapped", "offset", "noQueue"}
      /\ UNCHANGED <<phase, given, barVars, vectorVars, engineVars, queue, file>>
  BY DEF AccessBarFaults, TransferFaults, ControlFaults, Faults, Crash
<1>2. fault'.what = "noQueue" => file[f].kind # "engine"
  <2>1. fault'.what = "noQueue" => file[f].queue = 0
    BY DEF AccessBarFaults, TransferFaults, ControlFaults, Faults, Crash
  <2> QED
    BY <2>1, Parts DEF FilesOrderly
<1>3. ASSUME fault'.what = "unmapped", file[f].opened = start
      PROVE  FALSE
  <2>1. \/ file[f].kind \in {"control", "user", "bypass"} /\ file[f].ptr \notin mapped
        \/ file[f].kind = "engine" /\ regs[file[f].engine] \notin mapped
        \/ file[f].queue # 0 /\ regs[file[f].engine] \notin mapped
    BY <1>3 DEF AccessBarFaults, TransferFaults, ControlFaults, Faults, Crash
  <2>2. /\ file[f].queue # 0 <=> file[f].kind = "engine"
        /\ file[f].kind \in {"control", "user", "bypass"} => file[f].ptr \in mapped
        /\ file[f].kind = "engine" => file[f].engine \in enabled
    BY <1>1, <1>3, Parts DEF FilesOrderly
  <2> QED
    BY <1>1, <2>1, <2>2, Started
<1>4. fault'.what = "offset" => file[f].kind \in {"control", "user", "bypass"} /\ file[f].ptr \in mapped
  BY DEF AccessBarFaults, TransferFaults, ControlFaults, Faults, Crash
<1>5. FaultTyped' /\ FaultsExplained'
  BY <1>1, <1>2, <1>3, <1>4 DEF FaultTyped, FaultsExplained
<1> QED
  BY <1>1, <1>5, DeviceStays, FilesStay, PartsNext

LEMMA CleanupHolds ==
    ASSUME DeviceInv, fault = NoFault, NEW f \in Files, EvtFileCleanup(f)
    PROVE  DeviceInv'
<1> USE DEF given, barVars, vectorVars, engineVars
<1>1. /\ fault' = IF file[f].engine \in streams /\ file[f].engine >= NumChannels
                  THEN Use({regs[file[f].engine]}, f) ELSE NoFault
      /\ file' = IF fault' = NoFault THEN [file EXCEPT ![f] = Closed] ELSE file
      /\ UNCHANGED <<phase, given, barVars, vectorVars, engineVars, queue>>
  BY DEF EvtFileCleanup
<1>2. CASE fault' = NoFault
  <2>1. /\ Closed \in FileContexts /\ Closed.queue = 0 /\ Closed.kind = "closed"
        /\ Closed.engine = None /\ Closed.opened = 0 /\ start \in Nat
    BY Parts, DeviceAssumption
    DEF DeviceAssumption, DeviceParts, DeviceTyped, Closed, FileContexts, Pointers, Null, BarSlots
  <2>2. FilesTyped' /\ file'[f] = Closed /\ \A g \in Files \ {f} : file'[g] = file[g]
    BY <1>1, <1>2, <2>1, Parts DEF FilesTyped, FileContexts, Pointers
  <2>3. phase \notin {"stopped", "removed"} => start > 0
    BY Parts DEF DeviceParts, BarsMapped
  <2>4. FilesOrderly'
    <3> SUFFICES ASSUME NEW g \in Files
                 PROVE  /\ file'[g].queue # 0 <=> file'[g].kind = "engine"
                        /\ file'[g].kind # "engine" => file'[g].engine = None
                        /\ file'[g].opened <= start
                        /\ phase \in {"map", "interrupts"} \cup (SetUp \ {"started"}) =>
                               file'[g].opened < start
                        /\ phase = "started" /\ file'[g].opened = start =>
                             /\ file'[g].kind \in {"control", "user", "bypass"} => file'[g].ptr \in mapped
                             /\ file'[g].kind = "engine" => file'[g].engine \in enabled
      BY <1>1 DEF FilesOrderly
    <3>1. CASE g = f
      BY <2>1, <2>2, <2>3, <3>1 DEF SetUp
    <3>2. CASE g # f
      BY <1>1, <2>2, <3>2, Parts DEF FilesOrderly
    <3> QED
      BY <3>1, <3>2
  <2> QED
    BY <1>1, <1>2, <2>2, <2>4, DeviceStays, NoFaultHolds, PartsNext
<1>3. CASE fault' # NoFault
  <2>1. /\ file' = file /\ fault' = [what |-> "unmapped", file |-> f]
        /\ regs[file[f].engine] \notin mapped /\ file[f].engine \in streams
    BY <1>1, <1>3 DEF Use
  <2>2. file[f].kind = "engine"
    BY <2>1, Parts DEF DeviceParts, DeviceTyped, FilesOrderly, None, Slots
  <2>3. phase = "started" => file[f].opened # start
    BY <2>1, <2>2, Started, Parts DEF FilesOrderly
  <2>4. fault'.what = "unmapped" /\ fault'.file = f
    BY <2>1
  <2>5. FaultTyped'
    BY <2>4 DEF FaultTyped
  <2>6. file'[f].opened # start' \/ phase' # "started"
    BY <1>1, <2>1, <2>3 DEF given
  <2>7. FaultsExplained'
    BY <2>4, <2>6 DEF FaultsExplained
  <2> QED
    BY <1>1, <2>1, <2>5, <2>7, DeviceStays, FilesStay, PartsNext
<1> QED
  BY <1>2, <1>3

-----------------------------------------------------------------------------
LEMMA StepHolds == ASSUME DeviceInv, [Next]_vars PROVE DeviceInv'
<1>1. CASE fault = NoFault /\ PrepareHardware
  BY <1>1, PhaseStep, StartFaults, DeviceOpenHolds, MapBarHolds, IdentifyBarsHolds, SetupInterruptsHolds,
     SkipEngineHolds, EngineConfigured, CreateQueuesHolds DEF PrepareHardware
<1>2. CASE fault = NoFault /\ DeviceClose
  BY <1>2, DeviceCloseHolds
<1>3. CASE fault = NoFault /\ \E f \in Files : FileStep(f)
  BY <1>3, OpenHolds, FileFaultHolds, CleanupHolds DEF FileStep
<1>4. CASE UNCHANGED vars
  <2>1. FaultTyped' /\ FaultsExplained'
    BY <1>4, Parts DEF FaultTyped, FaultsExplained, vars, given, barVars
  <2> QED
    BY <1>4, <2>1, DeviceStays, FilesStay, PartsNext DEF vars, given, barVars, engineVars
<1> QED
  BY <1>1, <1>2, <1>3, <1>4 DEF Next

\* What every reachable state satisfies.
THEOREM DeviceInvariant == Spec => []DeviceInv
<1>1. Init => DeviceInv
  BY InitHolds
<1>2. DeviceInv /\ [Next]_vars => DeviceInv'
  BY StepHolds
<1> QED
  BY <1>1, <1>2, PTL DEF Spec

\* Every variable keeps to its range over all starts, stops and failures.
THEOREM TypeCorrect == Spec => []TypeOK
<1>1. DeviceInv => TypeOK
  BY DEF DeviceInv
<1> QED
  BY <1>1, DeviceInvariant, PTL

\* A device that is stopped or removed has nothing mapped (device.c:269-276),
\* wherever in the start it had failed.
THEOREM StoppedUnmaps == Spec => []StoppedIsUnmapped
<1>1. DeviceInv => StoppedIsUnmapped
  BY DEF DeviceInv, BarsMapped, StoppedIsUnmapped
<1> QED
  BY <1>1, DeviceInvariant, PTL

\* On a started device exactly the engines of the card can be opened, with
\* mapped registers and a queue of this start (driver.c:238-250).
THEOREM EnabledComplete == Spec => []EnabledIsComplete
<1>1. DeviceInv => EnabledIsComplete
  BY Started DEF DeviceInv, EnginesProbed, Probing, SetUp, EnabledIsComplete
<1> QED
  BY <1>1, DeviceInvariant, PTL

LEMMA HandlersReached ==
    ASSUME DeviceInv, phase = "started"
    PROVE  InterruptsServed
<1>1. Single \/ Vectors
  BY DEF DeviceInv, InterruptsSetUp, SetUp
<1>2. ASSUME NEW e \in card.engines
      PROVE  Served(e) \/ (irq.pin # 0 /\ HwBit(e) % RegWidth # 0)
  <2>1. e \in Slots /\ HwBit(e) \in Slots
    <3>1. card \in Cards
      BY DEF DeviceInv, TypeOK
    <3>2. e \in Slots /\ e \in Nat /\ e + 1 \in Nat /\ e < e + 1
      BY <3>1, CardTyped
    <3> QED
      BY <3>1, <3>2, BitsDiffer
  <2>2. irqIndex[e] = HwBit(e) /\ (irq.kind \in {"multi", "msix"} => irqEngine[HwBit(e)] = e)
    BY DEF DeviceInv, EnginesProbed, Probing, SetUp
  <2>3. CASE Single
    <3>1. <<irq.pin, Device>> \in objects /\ <<irq.pin, Device>>[1] = irq.pin /\ <<irq.pin, Device>>[2] = Device
      BY <2>3 DEF Single
    <3>2. chanVector[HwBit(e)] = irq.pin \/ (irq.pin # 0 /\ HwBit(e) % RegWidth # 0)
      BY <2>1, <2>3 DEF Single
    <3> QED
      BY <2>2, <3>1, <3>2 DEF Served
  <2>4. CASE Vectors
    <3> DEFINE o == <<NumUsers + HwBit(e), Channel(HwBit(e))>>
    <3>1. o \in objects /\ o[1] = chanVector[HwBit(e)] /\ o[2] = Channel(HwBit(e))
      BY <2>1, <2>4 DEF Vectors
    <3>2. irqEngine[HwBit(e)] = e
      BY <2>2, <2>4 DEF Vectors
    <3> QED
      BY <2>1, <2>2, <3>1, <3>2 DEF Served
  <2> QED
    BY <1>1, <2>3, <2>4
<1>3. ASSUME NEW u \in Users
      PROVE  ServedUser(u) \/ (irq.pin # 0 /\ u % RegWidth # 0)
  <2>1. CASE Single
    <3>1. <<irq.pin, Device>> \in objects /\ <<irq.pin, Device>>[1] = irq.pin /\ <<irq.pin, Device>>[2] = Device
      BY <2>1 DEF Single
    <3>2. userVector[u] = irq.pin \/ (irq.pin # 0 /\ u % RegWidth # 0)
      BY <2>1 DEF Single
    <3> QED
      BY <3>1, <3>2 DEF ServedUser
  <2>2. CASE Vectors
    <3>1. <<u, User(u)>> \in objects /\ userVector[u] = u /\ <<u, User(u)>>[1] = u /\ <<u, User(u)>>[2] = User(u)
      BY <2>2 DEF Vectors
    <3> QED
      BY <3>1 DEF ServedUser
  <2> QED
    BY <1>1, <2>1, <2>2
<1> QED
  BY <1>2, <1>3 DEF InterruptsServed

\* On a started device the interrupt of every engine and user event reaches
\* its handler, for every card and every register width
\* (dma_engine.c:88-98, 501-523), but for lines other than the first.
THEOREM InterruptsReachHandlers == Spec => []InterruptsServed
<1>1. DeviceInv => InterruptsServed
  BY HandlersReached DEF InterruptsServed
<1> QED
  BY <1>1, DeviceInvariant, PTL

\* The driver uses memory or objects that are gone only for a file that was
\* open when the device stopped, or when the vectors of an earlier start are
\* not assigned again; other faults (an application's offset past a BAR among
\* them, file_io.c:233, 275) have the causes the property names.
THEOREM FaultsHaveCauses == Spec => []FaultsExplained
<1>1. DeviceInv => FaultsExplained
  BY DEF DeviceInv
<1> QED
  BY <1>1, DeviceInvariant, PTL

==============================================================================
