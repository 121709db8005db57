------------------------------ MODULE XdmaDevice -------------------------------
(***************************************************************************)
(* Starting and stopping the device (sys/driver.c, libxdma/device.c), its  *)
(* interrupt objects and vector registers (libxdma/interrupt.c), finding   *)
(* and creating the engines (libxdma/dma_engine.c), and the files that are *)
(* opened on it (sys/file_io.c), over the life of one device object: it is *)
(* stopped and started again when resources are redistributed, then may    *)
(* get other interrupts and find the card reprogrammed, and is removed in  *)
(* the end.  Files may be open all the while.  The framework presents      *)
(* opens and requests to a started device only, cleanups at any time.      *)
(*                                                                         *)
(* A pointer into a BAR is the start that mapped it and the number of the  *)
(* BAR; a handle of a framework object is the start that created it.       *)
(***************************************************************************)
EXTENDS Integers, FiniteSets

CONSTANTS
    NumChannels,\* XDMA_MAX_NUM_CHANNELS
    NumUsers,   \* XDMA_MAX_USER_IRQ
    RegWidth,   \* vectors in a vector register (4)
    Cards,      \* designs the card may have: which engines, streaming or not
    BarLayouts, \* its BARs: how many, and which holds the registers, if any
    Interrupts, \* what the system assigns: a kind and, for a line, its pin
    Files,      \* handles of applications
    MaxStarts   \* bound: starts of the device

\* Engines in the order in which they are probed: all h2c, then all c2h.
Slots == 0 .. 2 * NumChannels - 1
Users == 0 .. NumUsers - 1
BarSlots == 0 .. 2

ASSUME DeviceAssumption ==
    /\ NumChannels \in Nat /\ NumUsers \in Nat /\ RegWidth \in Nat \ {0} /\ MaxStarts \in Nat
    /\ Cards \subseteq [engines : SUBSET Slots, stream : BOOLEAN]
    /\ BarLayouts \subseteq [num : 1 .. 3, config : 0 .. 3]
    /\ Interrupts \subseteq [kind : {"line", "msi", "multi", "msix"}, pin : 0 .. 3]

VARIABLES
    phase,      \* where EvtDevicePrepareHardware is
    start,      \* number of the last start
    card, layout, irq, \* what this start finds
    mapped,     \* BARs that are mapped into memory
    bar, numBars, userBar, bypassBar, \* xdma->bar, numBars, userBarIdx, bypassBarIdx
    intRegs,    \* xdma->interruptRegs
    userVector, chanVector, \* the vector registers, field by field
    objects,    \* the handler each connected vector or pin has
    chanIrq,    \* xdma->channelInterrupts
    irqEngine,  \* the engine in the context of each
    enabled,    \* engines[..].enabled
    regs,       \* engines[..].regs
    streams,    \* engines of type ST
    irqIndex,   \* the bit in engines[..].irqBitMask
    probing,    \* ProbeEngines: the engine it is at
    engineIndex,\* and its engineIndex
    queue,      \* ctx->engineQueue
    file,       \* the context of each open file
    fault       \* the step that stopped the system, and the file it was for

barVars    == <<mapped, bar, numBars, userBar, bypassBar, intRegs>>
vectorVars == <<userVector, chanVector, objects, chanIrq>>
engineVars == <<irqEngine, enabled, regs, streams, irqIndex, probing, engineIndex>>
given      == <<start, card, layout, irq>>
vars == <<phase, given, barVars, vectorVars, engineVars, queue, file, fault>>

Null == <<0, 0>>
None == -1
Closed == [kind |-> "closed", engine |-> None, ptr |-> Null, queue |-> 0, opened |-> 0]
NoFile == "none"
NoFault == [what |-> "none", file |-> NoFile]

Device == <<"device", 0>>
User(u) == <<"user", u>>
Channel(i) == <<"channel", i>>

Init ==
    /\ phase = "stopped" /\ start = 0
    /\ card \in Cards /\ layout \in BarLayouts /\ irq \in Interrupts
    /\ mapped = {} /\ bar = [i \in BarSlots |-> Null] /\ numBars = 0
    /\ userBar = None /\ bypassBar = None /\ intRegs = Null
    /\ userVector = [u \in Users |-> 0] /\ chanVector = [i \in Slots |-> 0]
    /\ objects = {} /\ chanIrq = [i \in Slots |-> 0]
    /\ irqEngine = [i \in Slots |-> None]
    /\ enabled = {} /\ regs = [e \in Slots |-> Null] /\ streams = {}
    /\ irqIndex = [e \in Slots |-> 0] /\ probing = 0 /\ engineIndex = 0
    /\ queue = [e \in Slots |-> 0]
    /\ file = [f \in Files |-> Closed]
    /\ fault = NoFault

Crash(what, f) == fault' = [what |-> what, file |-> f]

\* The fault that comes of using these pointers, if any.
Use(pointers, f) ==
    IF pointers \subseteq mapped THEN NoFault ELSE [what |-> "unmapped", file |-> f]

-----------------------------------------------------------------------------
(* EvtDevicePrepareHardware.                                               *)

\* Mutant: the engines of the last start stay enabled.
InitializeKeepsEngines ==
    /\ bar' = [i \in BarSlots |-> Null] /\ numBars' = 0
    /\ userBar' = None /\ bypassBar' = None
    /\ intRegs' = Null
    /\ enabled' = enabled

\* Mutant: the register modules of the last start are kept.
InitializeKeepsModules ==
    /\ bar' = [i \in BarSlots |-> Null] /\ numBars' = 0
    /\ userBar' = None /\ bypassBar' = None
    /\ intRegs' = intRegs
    /\ enabled' = {}

\* "interrupts - nothing to do": their handles are kept.
DeviceDefaultInitialize ==
    /\ bar' = [i \in BarSlots |-> Null] /\ numBars' = 0
    /\ userBar' = None /\ bypassBar' = None
    /\ intRegs' = Null
    /\ enabled' = {}

\* XDMA_DeviceOpen begins, with whatever engines and interrupts are there now.
DeviceOpen ==
    /\ phase = "stopped" /\ start < MaxStarts
    /\ start' = start + 1
    /\ card' \in Cards /\ irq' \in Interrupts
    /\ DeviceDefaultInitialize
    /\ phase' = "map"
    /\ probing' = 0 /\ engineIndex' = 0
    /\ UNCHANGED <<layout, mapped, vectorVars, irqEngine, regs, streams, irqIndex, queue, file,
                   fault>>

\* MapBARs, one resource.
MapBar ==
    /\ phase = "map" /\ numBars < layout.num
    /\ bar' = [bar EXCEPT ![numBars] = <<start, numBars>>]
    /\ mapped' = mapped \cup {<<start, numBars>>}
    /\ numBars' = numBars + 1
    /\ UNCHANGED <<phase, given, userBar, bypassBar, intRegs, vectorVars, engineVars, queue, file,
                   fault>>

\* Mutant: one past the last BAR.
BypassPastEnd(n) == IF n - layout.config = 2 THEN n ELSE None

\* The bypass BAR, if the one with the registers is the last but one.
BypassBar(n) == IF n - layout.config = 2 THEN n - 1 ELSE None

\* FindConfigBAR, IdentifyBars and GetRegisterModules.
IdentifyBars ==
    /\ phase = "map" /\ numBars = layout.num /\ layout.config < numBars
    /\ userBar' = IF layout.config = 1 THEN 0 ELSE None
    /\ bypassBar' = BypassBar(numBars)
    /\ intRegs' = bar[layout.config]
    /\ phase' = "interrupts"
    /\ UNCHANGED <<given, mapped, bar, numBars, vectorVars, engineVars, queue, file, fault>>

\* A BAR cannot be mapped, none of them has the registers, the interrupts
\* cannot be found out about, an object cannot be created, the poll mode
\* parameter cannot be read: the start fails, and what it has done stays.
StartFails ==
    /\ \/ phase \in {"interrupts", "enabler", "poll", "queues"}
       \/ phase = "map" /\ (numBars < layout.num \/ layout.config >= numBars)
    /\ phase' = "failed"
    /\ UNCHANGED <<given, barVars, vectorVars, engineVars, queue, file, fault>>

-----------------------------------------------------------------------------
(* SetupInterrupts.                                                        *)

\* SetupSingleInterrupt writes the value to whole registers, and so to the
\* first of the fields of each; a message is number 0, a pin counts from 0.
SetupSingleInterrupt ==
    /\ irq.kind \in {"line", "msi"}
    /\ objects' = {<<irq.pin, Device>>}
    /\ userVector' = [u \in Users |-> IF u % RegWidth = 0 THEN irq.pin ELSE 0]
    /\ chanVector' = [i \in Slots |-> IF i % RegWidth = 0 THEN irq.pin ELSE 0]
    /\ UNCHANGED chanIrq

\* SetupMsixInterrupts and SetupMultiMsiInterrupts: an object each, in order,
\* for the user events and the channels.
SetupVectors ==
    /\ irq.kind \in {"multi", "msix"}
    /\ objects' = {<<u, User(u)>> : u \in Users} \cup {<<NumUsers + i, Channel(i)>> : i \in Slots}
    /\ userVector' = [u \in Users |-> u]
    /\ chanVector' = [i \in Slots |-> NumUsers + i]
    /\ chanIrq' = [i \in Slots |-> start]

\* The new contexts are zeroed: they have no engine yet.
SetupInterrupts ==
    /\ phase = "interrupts"
    /\ SetupSingleInterrupt \/ SetupVectors
    /\ irqEngine' = [i \in Slots |-> None]
    /\ phase' = "enabler"
    /\ UNCHANGED <<given, barVars, enabled, regs, streams, irqIndex, probing, engineIndex, queue,
                   file, fault>>

\* When WdfInterruptCreate fails, the context of the object that was not
\* created is filled in before the error is returned.
InterruptCreateFails ==
    /\ phase = "interrupts"
    /\ Crash("noInterrupt", NoFile)
    /\ UNCHANGED <<phase, given, barVars, vectorVars, engineVars, queue, file>>

EnablerCreated ==
    /\ phase = "enabler"
    /\ phase' = "probe"
    /\ UNCHANGED <<given, barVars, vectorVars, engineVars, queue, file, fault>>

-----------------------------------------------------------------------------
(* ProbeEngines.                                                           *)

\* Mutant: an engine that is not there takes an index all the same.
SkipCounts ==
    /\ phase = "probe" /\ probing \in Slots \ card.engines
    /\ probing' = probing + 1
    /\ engineIndex' = engineIndex + 1
    /\ UNCHANGED <<phase, given, barVars, vectorVars, irqEngine, enabled, regs, streams, irqIndex,
                   queue, file, fault>>

SkipEngine ==
    /\ phase = "probe" /\ probing \in Slots \ card.engines
    /\ probing' = probing + 1
    /\ UNCHANGED <<phase, given, barVars, vectorVars, irqEngine, enabled, regs, streams, irqIndex,
                   engineIndex, queue, file, fault>>

\* EngineCreate up to its first allocation: registers, type, interrupt.
EngineConfigure(e) ==
    /\ phase = "probe" /\ probing = e /\ e \in card.engines
    /\ chanIrq[engineIndex] \in {0, start}
    /\ regs' = [regs EXCEPT ![e] = bar[layout.config]]
    /\ streams' = IF card.stream THEN streams \cup {e} ELSE streams \ {e}
    /\ irqIndex' = [irqIndex EXCEPT ![e] = engineIndex]
    /\ irqEngine' = IF chanIrq[engineIndex] = start
                    THEN [irqEngine EXCEPT ![engineIndex] = e] ELSE irqEngine
    /\ UNCHANGED <<given, barVars, vectorVars, queue, file, fault>>

\* Its buffers and its transaction are created, and it is enabled at the end.
EngineCreate(e) ==
    /\ EngineConfigure(e)
    /\ enabled' = enabled \cup {e}
    /\ probing' = probing + 1
    /\ engineIndex' = engineIndex + 1
    /\ UNCHANGED phase

EngineCreateFails(e) ==
    /\ EngineConfigure(e)
    /\ phase' = "failed"
    /\ UNCHANGED <<enabled, probing, engineIndex>>

\* The interrupt object of an earlier start is long deleted.
EngineConfigureDeleted ==
    /\ phase = "probe" /\ probing \in card.engines
    /\ chanIrq[engineIndex] \notin {0, start}
    /\ Crash("deletedInterrupt", NoFile)
    /\ UNCHANGED <<phase, given, barVars, vectorVars, engineVars, queue, file>>

Probed ==
    /\ phase = "probe" /\ probing \notin Slots
    /\ phase' = "poll"
    /\ UNCHANGED <<given, barVars, vectorVars, engineVars, queue, file, fault>>

\* When the driver's parameters cannot be opened, their key, which is not
\* there, is closed.
PollModeKeyFails ==
    /\ phase = "poll"
    /\ Crash("noKey", NoFile)
    /\ UNCHANGED <<phase, given, barVars, vectorVars, engineVars, queue, file>>

\* The poll mode is set on every engine.
SetPollMode ==
    /\ phase = "poll"
    /\ phase' = "queues"
    /\ UNCHANGED <<given, barVars, vectorVars, engineVars, queue, file, fault>>

\* Every enabled engine gets a queue, and the user events their handler.
CreateQueues ==
    /\ phase = "queues"
    /\ queue' = [e \in Slots |-> IF e \in enabled THEN start ELSE queue[e]]
    /\ phase' = "started"
    /\ UNCHANGED <<given, barVars, vectorVars, engineVars, file, fault>>

-----------------------------------------------------------------------------
(* EvtDeviceReleaseHardware: after a stop, a removal and a start that      *)
(* failed; the framework deletes the interrupt objects after it.           *)

\* Mutant: the last BAR is left mapped.
UnmapAllButLast ==
    /\ mapped' = mapped \ {bar[i] : i \in 0 .. numBars - 2}
    /\ bar' = [i \in BarSlots |-> IF i < numBars - 1 THEN Null ELSE bar[i]]

UnmapBars ==
    /\ mapped' = mapped \ {bar[i] : i \in 0 .. numBars - 1}
    /\ bar' = [i \in BarSlots |-> IF i < numBars THEN Null ELSE bar[i]]

\* XDMA_DeviceClose.  A device that failed to start is removed, one that had
\* started may be started again.
DeviceClose ==
    /\ phase \in {"failed", "started"}
    /\ phase' \in {"stopped", "removed"}
    /\ phase = "failed" => phase' = "removed"
    /\ fault' = Use({intRegs} \ {Null}, NoFile)
    /\ IF intRegs = Null
       THEN UNCHANGED <<userVector, chanVector>>
       ELSE userVector' = [u \in Users |-> 0] /\ chanVector' = [i \in Slots |-> 0]
    /\ UnmapBars
    /\ objects' = {}
    /\ UNCHANGED <<given, numBars, userBar, bypassBar, intRegs, chanIrq, engineVars, queue, file>>

-----------------------------------------------------------------------------
(* Files.                                                                  *)

NewFile(f, kind, e, ptr, q) ==
    /\ phase = "started" /\ file[f] = Closed
    /\ file' = [file EXCEPT ![f] =
                  [kind |-> kind, engine |-> e, ptr |-> ptr, queue |-> q, opened |-> start]]
    /\ UNCHANGED <<phase, given, barVars, vectorVars, engineVars, queue>>

\* EvtDeviceFileCreate on a BAR, an event or an engine; a BAR that does not
\* exist and an engine that is not enabled are refused.
OpenBar(f) ==
    /\ \/ NewFile(f, "control", None, bar[layout.config], 0)
       \/ userBar # None /\ NewFile(f, "user", None, bar[userBar], 0)
       \/ bypassBar # None /\ NewFile(f, "bypass", None, bar[bypassBar], 0)
    /\ UNCHANGED fault

OpenEvent(f) == NewFile(f, "event", None, Null, 0) /\ UNCHANGED fault

\* The ring of a streaming c2h engine is set up and the interrupt enabled or
\* disabled: the registers of the engine and those of the interrupts are used.
OpenEngine(f) ==
    \E e \in enabled :
        /\ NewFile(f, "engine", e, Null, queue[e])
        /\ fault' = Use({regs[e], intRegs}, f)

Faults(f, what) ==
    /\ Crash(what, f)
    /\ UNCHANGED <<phase, given, barVars, vectorVars, engineVars, queue, file>>

\* EvtIoRead and EvtIoWrite on a BAR file go to memory through its pointer, at
\* the application's offset: nothing calls ValidateBarParams, which would check it.
AccessBarFaults(f) ==
    /\ phase = "started" /\ file[f].kind \in {"control", "user", "bypass"}
    /\ Faults(f, IF file[f].ptr \in mapped THEN "offset" ELSE "unmapped")

\* On an engine file they are forwarded to its queue, and the queue's callback
\* programs the engine.
TransferFaults(f) ==
    /\ phase = "started" /\ file[f].kind = "engine"
    /\ regs[file[f].engine] \notin mapped
    /\ Faults(f, "unmapped")

\* EvtIoDeviceControl looks at the queue of the file before anything else,
\* then at the registers of the engine.
ControlFaults(f) ==
    /\ phase = "started" /\ file[f] # Closed
    /\ \/ file[f].queue = 0 /\ Faults(f, "noQueue")
       \/ /\ file[f].queue # 0 /\ regs[file[f].engine] \notin mapped
          /\ Faults(f, "unmapped")

\* EvtFileCleanup: the ring of a streaming c2h engine is torn down, which
\* stops the engine, whether the device is there or not.
EvtFileCleanup(f) ==
    /\ file[f] # Closed
    /\ LET e == file[f].engine
       IN  fault' = IF e \in streams /\ e >= NumChannels THEN Use({regs[e]}, f) ELSE NoFault
    /\ file' = IF fault' = NoFault THEN [file EXCEPT ![f] = Closed] ELSE file
    /\ UNCHANGED <<phase, given, barVars, vectorVars, engineVars, queue>>

-----------------------------------------------------------------------------
PrepareHardware ==
    \/ DeviceOpen \/ MapBar \/ IdentifyBars \/ StartFails
    \/ SetupInterrupts \/ InterruptCreateFails \/ EnablerCreated
    \/ SkipEngine \/ EngineConfigureDeleted \/ Probed \/ PollModeKeyFails \/ SetPollMode \/ CreateQueues
    \/ \E e \in Slots : EngineCreate(e) \/ EngineCreateFails(e)

FileStep(f) ==
    \/ OpenBar(f) \/ OpenEvent(f) \/ OpenEngine(f)
    \/ AccessBarFaults(f) \/ TransferFaults(f) \/ ControlFaults(f)
    \/ EvtFileCleanup(f)

Next ==
    /\ fault = NoFault
    /\ PrepareHardware \/ DeviceClose \/ \E f \in Files : FileStep(f)

Spec == Init /\ [][Next]_vars

-----------------------------------------------------------------------------
(* Properties.                                                             *)

Pointers == (0 .. MaxStarts) \X BarSlots
FileContexts ==
    [kind : {"closed", "control", "user", "bypass", "event", "engine"},
     engine : Slots \cup {None}, ptr : Pointers, queue : 0 .. MaxStarts, opened : 0 .. MaxStarts]

\* Every variable keeps to its range.
TypeOK ==
    /\ phase \in {"stopped", "map", "interrupts", "enabler", "probe", "poll", "queues", "started",
                  "failed", "removed"}
    /\ start \in 0 .. MaxStarts
    /\ card \in Cards /\ layout \in BarLayouts /\ irq \in Interrupts
    /\ mapped \subseteq Pointers /\ bar \in [BarSlots -> Pointers] /\ numBars \in 0 .. 3
    /\ userBar \in BarSlots \cup {None} /\ bypassBar \in BarSlots \cup {None}
    /\ intRegs \in Pointers
    /\ userVector \in [Users -> Nat] /\ chanVector \in [Slots -> Nat]
    /\ objects \subseteq Nat \X ({"device", "user", "channel"} \X Nat)
    /\ chanIrq \in [Slots -> 0 .. MaxStarts]
    /\ irqEngine \in [Slots -> Slots \cup {None}]
    /\ enabled \subseteq Slots /\ streams \subseteq Slots
    /\ regs \in [Slots -> Pointers] /\ irqIndex \in [Slots -> Slots]
    /\ probing \in 0 .. 2 * NumChannels /\ engineIndex \in 0 .. 2 * NumChannels
    /\ queue \in [Slots -> 0 .. MaxStarts]
    /\ file \in [Files -> FileContexts]
    /\ fault.what \in {"none", "noInterrupt", "deletedInterrupt", "noKey", "unmapped", "offset",
                       "noQueue"}

\* The card (external) numbers the interrupt bits of the engines it has.
HwBit(e) == Cardinality({x \in card.engines : x < e})

\* What an interrupt of an engine reaches: the shared object, whose service
\* routine goes by the bit, or the object of the engine.
Served(e) ==
    /\ irqIndex[e] = HwBit(e)
    /\ \E o \in objects :
           /\ o[1] = chanVector[HwBit(e)]
           /\ \/ o[2] = Device
              \/ \E i \in Slots : o[2] = Channel(i) /\ irqEngine[i] = e

ServedUser(u) == \E o \in objects : o[1] = userVector[u] /\ o[2] \in {Device, User(u)}

\* When the device has started, the interrupt of every engine and user event
\* the card has is served for that engine or event, whatever engines are
\* missing (dma_engine.c:88-98, 501-523) and whatever earlier starts have left
\* behind.  (On a line other than the first only one in RegWidth is: see
\* SharedVector.)
InterruptsServed ==
    phase = "started" =>
        /\ \A e \in card.engines : Served(e) \/ (irq.pin # 0 /\ HwBit(e) % RegWidth # 0)
        /\ \A u \in Users : ServedUser(u) \/ (irq.pin # 0 /\ u % RegWidth # 0)

\* A device that is stopped or removed has nothing mapped (device.c:269-276),
\* whether it had started or failed to at any point.
StoppedIsUnmapped == phase \in {"stopped", "removed"} => mapped = {}

\* On a started device exactly the engines of the card may be opened, and each
\* has mapped registers and a queue, although an earlier start may have found
\* other ones (driver.c:238-250, file_io.c:145).
EnabledIsComplete ==
    phase = "started" =>
        /\ enabled = card.engines
        /\ \A e \in enabled : regs[e] \in mapped /\ queue[e] = start

\* The driver uses memory or objects that are gone only for a file that was
\* open when the device stopped, or when the vectors of an earlier start are
\* not assigned again; it uses ones that never were for a control request on
\* a file without an engine (file_io.c:482), or when an interrupt cannot be
\* created (interrupt.c:103-105) or the parameters opened (driver.c:68-70); and
\* it goes past the end of a BAR at an application's offset (file_io.c:233, 275).
FaultsExplained ==
    /\ fault.what = "unmapped" => /\ fault.file \in Files
                                  /\ \/ file[fault.file].opened # start
                                     \/ phase # "started"
    /\ fault.what = "offset" =>
           /\ fault.file \in Files /\ file[fault.file].kind \in {"control", "user", "bypass"}
           /\ file[fault.file].ptr \in mapped
    /\ fault.what = "noInterrupt" => phase = "interrupts"
    /\ fault.what = "noKey" => phase = "poll"
    /\ fault.what = "deletedInterrupt" => start > 1 /\ irq.kind \in {"line", "msi"}
    /\ fault.what = "noQueue" => file[fault.file].kind # "engine"

\* On a line interrupt all users and channels get the vector value that
\* interrupt.c:175 reports for them.
SharedVector ==
    phase = "started" /\ irq.kind = "line" =>
        /\ \A u \in Users : userVector[u] = irq.pin
        /\ \A i \in Slots : chanVector[i] = irq.pin
==============================================================================
