------------------------------ MODULE AdmaDevice -------------------------------
(***************************************************************************)
(* Starting and stopping the device of the port to an Altera core          *)
(* (ADMA_Driver/driver.c, libadma/adevice.c, the creation of the engines   *)
(* in libadma/adma_engine.c), its interrupt objects and their routines     *)
(* (libadma/ainterrupt.c), and the files opened on it                      *)
(* (ADMA_Driver/file_io.c), over restarts of one device object.            *)
(*                                                                         *)
(* It differs from XdmaDevice where the port does: the numbers of the BARs *)
(* are fixed, both engines are taken to exist and share their registers,   *)
(* interrupt objects are created after the engines and bound to them in a  *)
(* step of their own, and there is one pair of engines, not streaming.     *)
(***************************************************************************)
EXTENDS Integers, Sequences

CONSTANTS
    NumUsers,   \* ADMA_MAX_USER_IRQ
    BarLayouts, \* kinds of the memory resources the device may have, in order
    Interrupts, \* kinds of interrupt the system may assign
    Files,      \* handles of applications
    MaxStarts   \* bound: starts of the device

\* A resource maps whole, by its first 64 KB, not at all though it has its
\* place, or is one whose mapping is compiled out.
BarKinds == {"memory", "large40", "large", "large48"}

\* A device has six BARs at most, and the driver a place for each: it does not
\* check their number.
ASSUME AdmaDeviceAssumption ==
    /\ NumUsers \in Nat /\ MaxStarts \in Nat
    /\ BarLayouts \subseteq Seq(BarKinds) /\ \A l \in BarLayouts : Len(l) <= 6
    /\ Interrupts \subseteq {"single", "multi", "msix"}

VARIABLES
    phase,      \* where the start is
    start,      \* number of the last start
    layout, irq,\* what it finds
    mapped,     \* BARs that are mapped into memory
    bar, numBars, \* adma->bar, numBars
    engines,    \* the start that created each engine's transaction
    enabled,    \* engines[..].enabled
    regs,       \* the BAR of engines[..].modSgdmaCsr, modSgdmaStdDes
    objects,    \* interrupt objects that exist
    chanIrq,    \* adma->channelInterrupts: the start that created each
    irqEngine,  \* the engine in the context of each
    pciEnable,  \* interruptRegs->enable
    global,     \* the global interrupt enable of the dispatcher
    dpcs,       \* objects whose DPC is queued
    queue,      \* ctx->engineQueue
    file,       \* the context of each open file
    fault       \* the step that stopped the system, and the file it was for

given      == <<start, layout, irq>>
barVars    == <<mapped, bar, numBars>>
engineVars == <<engines, enabled, regs>>
irqVars    == <<objects, chanIrq, irqEngine>>
intVars    == <<pciEnable, global, dpcs>>
vars == <<phase, given, barVars, engineVars, irqVars, intVars, queue, file, fault>>

H2C == 0
C2H == 1
Engines == {H2C, C2H}
UserBar == 0
ConfigBar == 1
BarSlots == 0 .. 5
Null == <<0, 0>>
None == -1
NoFile == "none"
NoFault == [what |-> "none", file |-> NoFile]
Closed == [kind |-> "closed", engine |-> None, ptr |-> Null, queue |-> 0, opened |-> 0]

Device == <<"device", 0>>
User(u) == <<"user", u>>
Channel(i) == <<"channel", i>>

Init ==
    /\ phase = "stopped" /\ start = 0
    /\ layout \in BarLayouts /\ irq \in Interrupts
    /\ mapped = {} /\ bar = [i \in BarSlots |-> Null] /\ numBars = 0
    /\ engines = [e \in Engines |-> 0] /\ enabled = {} /\ regs = [e \in Engines |-> Null]
    /\ objects = {} /\ chanIrq = [i \in Engines |-> 0] /\ irqEngine = [i \in Engines |-> None]
    /\ pciEnable = FALSE /\ global = FALSE /\ dpcs = {}
    /\ queue = [e \in Engines |-> 0] /\ file = [f \in Files |-> Closed]
    /\ fault = NoFault

\* A null pointer, memory that is not mapped any more, and registers beyond the
\* 64 KB of a large BAR fault.
Fault(ptr, beyond) ==
    CASE ptr = Null -> "null"
      [] ptr # Null /\ ptr \notin mapped -> "unmapped"
      [] ptr \in mapped /\ beyond /\ layout[ptr[2] + 1] = "large40" -> "beyond"
      [] OTHER -> "none"

Use(ptr, beyond, f) ==
    fault' = IF Fault(ptr, beyond) = "none" THEN NoFault
             ELSE [what |-> Fault(ptr, beyond), file |-> f]

\* Registers of the engines are far into the BAR, the others are not.
UseEngine(e, f) == Use(regs[e], TRUE, f)
UseConfig == Use(bar[ConfigBar], FALSE, NoFile)

-----------------------------------------------------------------------------
(* EvtDevicePrepareHardware: ADMA_DeviceOpen, then the queues.             *)

\* Mutant: the BARs are forgotten, not their number.
InitializeKeepsCount ==
    /\ bar' = [i \in BarSlots |-> Null] /\ UNCHANGED numBars
    /\ enabled' = {}

\* The handles of interrupt objects are kept.
DeviceDefaultInitialize ==
    /\ bar' = [i \in BarSlots |-> Null] /\ numBars' = 0
    /\ enabled' = {}

DeviceOpen ==
    /\ phase = "stopped" /\ start < MaxStarts
    /\ start' = start + 1
    /\ irq' \in Interrupts
    /\ DeviceDefaultInitialize
    /\ phase' = "map"
    /\ UNCHANGED <<layout, mapped, engines, regs, irqVars, intVars, queue, file, fault>>

\* MapBARs, one resource: one that is not mapped takes its place all the same.
MapBar ==
    /\ phase = "map" /\ numBars < Len(layout) /\ layout[numBars + 1] # "large48"
    /\ IF layout[numBars + 1] = "large"
       THEN UNCHANGED <<mapped, bar>>
       ELSE /\ bar' = [bar EXCEPT ![numBars] = <<start, numBars>>]
            /\ mapped' = mapped \cup {<<start, numBars>>}
    /\ numBars' = numBars + 1
    /\ UNCHANGED <<phase, given, engineVars, irqVars, intVars, queue, file, fault>>

\* IdentifyBars takes the second BAR for the registers, whether there is one or
\* not; the table in it is probed for the size of its pages.
IdentifyBars ==
    /\ phase = "map" /\ numBars = Len(layout)
    /\ UseConfig
    /\ phase' = "engines"
    /\ UNCHANGED <<given, barVars, engineVars, irqVars, intVars, queue, file>>

\* Anything that allocates may fail, a BAR may not be mapped, the probe may
\* read back zero: the start fails, and what it has done stays.
StartFails ==
    /\ phase \in {"map", "engines", "interrupts", "queues"}
    /\ phase' = "failed"
    /\ UNCHANGED <<given, barVars, engineVars, irqVars, intVars, queue, file, fault>>

\* ProbeEngines creates H2C, then C2H, without asking whether they exist.
ProbeEngines(e) == phase = "engines" /\ \A x \in Engines : x < e <=> engines[x] = start

\* EngineCreate gives both the same registers.
EngineCreate(e) ==
    /\ ProbeEngines(e)
    /\ regs' = [regs EXCEPT ![e] = bar[ConfigBar]]
    /\ engines' = [engines EXCEPT ![e] = start]
    /\ enabled' = enabled \cup {e}
    /\ phase' = IF e = C2H THEN "interrupts" ELSE phase
    /\ UNCHANGED <<given, barVars, irqVars, intVars, queue, file, fault>>

\* SetupSingleInterrupt, SetupMsixInterrupts, SetupMultiMsiInterrupts: the
\* second creates an object for each channel, the third for the first alone.
SetupSingle == irq = "single" /\ objects' = {Device} /\ UNCHANGED chanIrq

SetupMsix ==
    /\ irq = "msix"
    /\ objects' = {Channel(i) : i \in Engines} \cup {User(u) : u \in 0 .. NumUsers - 1}
    /\ chanIrq' = [i \in Engines |-> start]

SetupMultiMsi ==
    /\ irq = "multi"
    /\ objects' = {Channel(H2C)} \cup {User(u) : u \in 0 .. NumUsers - 1}
    /\ chanIrq' = [chanIrq EXCEPT ![H2C] = start]

\* The contexts of new objects have no engine.
SetupInterrupts ==
    /\ phase = "interrupts"
    /\ SetupSingle \/ SetupMsix \/ SetupMultiMsi
    /\ irqEngine' = [i \in Engines |-> None]
    /\ phase' = "assign"
    /\ UNCHANGED <<given, barVars, engineVars, intVars, queue, file, fault>>

\* The context of an object that could not be created is filled in.
InterruptCreateFails ==
    /\ phase = "interrupts"
    /\ fault' = [what |-> "noInterrupt", file |-> NoFile]
    /\ UNCHANGED <<phase, given, barVars, engineVars, irqVars, intVars, queue, file>>

\* Mutant: the index counts on before it is used.
EngineOfNext(i) == i + 1

\* Mutant: one index for both.
EngineOfFirst(i) == H2C

\* EngineConfigureInterrupt binds the engine of the same number.
EngineOfChannel(i) == i

\* EnginesAssignInterrupt goes by the handles, those of an earlier start too.
EnginesAssignInterrupt ==
    /\ phase = "assign"
    /\ IF \A i \in Engines : chanIrq[i] \in {0, start}
       THEN UNCHANGED fault
       ELSE fault' = [what |-> "deletedInterrupt", file |-> NoFile]
    /\ irqEngine' = [i \in Engines |-> IF chanIrq[i] = start THEN EngineOfChannel(i) ELSE None]
    /\ phase' = "queues"
    /\ UNCHANGED <<given, barVars, engineVars, objects, chanIrq, intVars, queue, file>>

\* EngineCreateQueue for each enabled engine, on every start.
CreateQueues ==
    /\ phase = "queues"
    /\ queue' = [e \in Engines |-> IF e \in enabled THEN start ELSE queue[e]]
    /\ phase' = "prepared"
    /\ UNCHANGED <<given, barVars, engineVars, irqVars, intVars, file, fault>>

-----------------------------------------------------------------------------
(* Interrupts.                                                             *)

\* EngineEnableInterrupt and EngineDisableInterrupt change one bit of the register
\* both engines have.
EngineEnableInterrupt(e) == global' = TRUE /\ UseEngine(e, NoFile)
EngineDisableInterrupt(e) == global' = FALSE /\ UseEngine(e, NoFile)

\* EvtInterruptEnable; those of channels and users write no register.
InterruptEnable ==
    /\ phase = "prepared"
    /\ phase' = "started"
    /\ IF Device \in objects
       THEN pciEnable' = TRUE /\ EngineEnableInterrupt(H2C)
       ELSE UNCHANGED <<pciEnable, global, fault>>
    /\ UNCHANGED <<given, barVars, engineVars, irqVars, dpcs, queue, file>>

\* EvtInterruptDisable, on the way to a stop; DPCs may still be queued.
InterruptDisable ==
    /\ phase = "started"
    /\ phase' = "disabled"
    /\ IF Device \in objects
       THEN pciEnable' = FALSE /\ EngineDisableInterrupt(H2C)
       ELSE UNCHANGED <<pciEnable, global, fault>>
    /\ UNCHANGED <<given, barVars, engineVars, irqVars, dpcs, queue, file>>

\* The framework connects an interrupt before it is enabled, and disconnects it
\* after it is disabled.
Connected == phase \in {"started", "disabled"}

\* EvtInterruptIsr queues its DPC, whose work is compiled out.
EvtInterruptIsr ==
    /\ Connected /\ Device \in objects /\ global
    /\ UseConfig
    /\ dpcs' = dpcs \cup {Device}
    /\ UNCHANGED <<phase, given, barVars, engineVars, irqVars, pciEnable, global, queue, file>>

\* EvtChannelInterruptIsr goes by the engine in its context.
EvtChannelInterruptIsr(i) ==
    /\ Connected /\ Channel(i) \in objects /\ global
    /\ IF irqEngine[i] = None
       THEN fault' = [what |-> "noEngine", file |-> NoFile] /\ UNCHANGED <<dpcs, global>>
       ELSE EngineDisableInterrupt(irqEngine[i]) /\ dpcs' = dpcs \cup {Channel(i)}
    /\ UNCHANGED <<phase, given, barVars, engineVars, irqVars, pciEnable, queue, file>>

\* EvtUserInterruptIsr; nothing masks these.
EvtUserInterruptIsr(u) ==
    /\ Connected /\ User(u) \in objects
    /\ dpcs' = dpcs \cup {User(u)}
    /\ UNCHANGED <<phase, given, barVars, engineVars, irqVars, pciEnable, global, queue, file,
                   fault>>

\* EvtChannelInterruptDpc enables its engine's again; the work is compiled out
\* there, in EvtInterruptDpc and in EvtUserInterruptDpc.
InterruptDpc(o) ==
    /\ o \in dpcs
    /\ dpcs' = dpcs \ {o}
    /\ IF o[1] = "channel"
       THEN EngineEnableInterrupt(irqEngine[o[2]])
       ELSE UNCHANGED <<global, fault>>
    /\ UNCHANGED <<phase, given, barVars, engineVars, irqVars, pciEnable, queue, file>>

-----------------------------------------------------------------------------
(* EvtDeviceReleaseHardware: ADMA_DeviceClose writes no register; the      *)
(* framework waits for DPCs before it and deletes the objects after it.    *)

DeviceClose ==
    /\ phase \in {"failed", "disabled"} /\ dpcs = {}
    /\ phase' \in {"stopped", "removed"}
    /\ phase = "failed" => phase' = "removed"
    /\ mapped' = mapped \ {bar[i] : i \in 0 .. numBars - 1}
    /\ bar' = [i \in BarSlots |-> IF i < numBars THEN Null ELSE bar[i]]
    /\ objects' = {}
    /\ UNCHANGED <<given, numBars, engineVars, chanIrq, irqEngine, intVars, queue, file, fault>>

-----------------------------------------------------------------------------
(* Files.                                                                  *)

NewFile(f, kind, e, ptr, q) ==
    /\ phase = "started" /\ file[f] = Closed
    /\ file' = [file EXCEPT ![f] =
                  [kind |-> kind, engine |-> e, ptr |-> ptr, queue |-> q, opened |-> start]]
    /\ UNCHANGED <<phase, given, barVars, engineVars, irqVars, intVars, queue, fault>>

\* EvtDeviceFileCreate on one of the four names there are.
OpenBar(f) ==
    \/ NewFile(f, "control", None, bar[ConfigBar], 0)
    \/ NewFile(f, "user", None, bar[UserBar], 0)

OpenEngine(f) == \E e \in enabled : NewFile(f, "engine", e, Null, queue[e])

\* EvtFileCleanup does nothing for these kinds.
CloseFile(f) ==
    /\ file[f] # Closed
    /\ file' = [file EXCEPT ![f] = Closed]
    /\ UNCHANGED <<phase, given, barVars, engineVars, irqVars, intVars, queue, fault>>

Access(f) ==
    /\ phase = "started"
    /\ UNCHANGED <<phase, given, barVars, engineVars, irqVars, intVars, queue, file>>

\* EvtIoRead and EvtIoWrite on a BAR go through the pointer of the file, at the
\* application's offset: nothing calls ValidateBarParams, which would check it.
AccessBar(f) ==
    /\ file[f].kind \in {"control", "user"} /\ Access(f)
    /\ \/ Use(file[f].ptr, FALSE, f)
       \/ file[f].ptr \in mapped /\ fault' = [what |-> "offset", file |-> f]

\* An application may set the global interrupt enable through the control file.
EnableByFile(f) ==
    /\ phase = "started" /\ file[f].kind = "control"
    /\ file[f].ptr \in mapped /\ layout[ConfigBar + 1] = "memory"
    /\ global' = TRUE
    /\ UNCHANGED <<phase, given, barVars, engineVars, irqVars, pciEnable, dpcs, queue, file, fault>>

\* On an engine they are forwarded to its queue, which programs the engine.
Transfer(f) ==
    /\ file[f].kind = "engine" /\ Access(f)
    /\ UseEngine(file[f].engine, f)

\* EvtIoDeviceControl looks at the queue of the file; the performance counters
\* and the address mode at engine->regs, which nothing sets.
DeviceControl(f) ==
    /\ file[f] # Closed /\ Access(f)
    /\ \/ file[f].queue = 0 /\ fault' = [what |-> "noQueue", file |-> f]
       \/ file[f].queue # 0 /\ fault' \in {NoFault, [what |-> "noRegs", file |-> f]}

-----------------------------------------------------------------------------
PrepareHardware ==
    \/ DeviceOpen \/ MapBar \/ IdentifyBars \/ StartFails
    \/ \E e \in Engines : EngineCreate(e)
    \/ SetupInterrupts \/ InterruptCreateFails \/ EnginesAssignInterrupt \/ CreateQueues

Interrupt ==
    \/ InterruptEnable \/ InterruptDisable \/ EvtInterruptIsr
    \/ \E i \in Engines : EvtChannelInterruptIsr(i)
    \/ \E u \in 0 .. NumUsers - 1 : EvtUserInterruptIsr(u)
    \/ \E o \in dpcs : InterruptDpc(o)

FileStep(f) ==
    \/ OpenBar(f) \/ OpenEngine(f) \/ CloseFile(f) \/ AccessBar(f) \/ EnableByFile(f)
    \/ Transfer(f) \/ DeviceControl(f)

Next ==
    /\ fault = NoFault
    /\ PrepareHardware \/ Interrupt \/ DeviceClose \/ \E f \in Files : FileStep(f)

Spec == Init /\ [][Next]_vars

-----------------------------------------------------------------------------
(* Properties.                                                             *)

Starts == 0 .. MaxStarts
Pointers == Starts \X BarSlots
Objects == {"device", "user", "channel"} \X Nat

\* Every variable keeps to its range.
TypeOK ==
    /\ phase \in {"stopped", "map", "engines", "interrupts", "assign", "queues", "prepared",
                  "started", "disabled", "failed", "removed"}
    /\ start \in Starts /\ layout \in BarLayouts /\ irq \in Interrupts
    /\ mapped \subseteq Pointers /\ bar \in [BarSlots -> Pointers] /\ numBars \in 0 .. 6
    /\ engines \in [Engines -> Starts] /\ enabled \subseteq Engines
    /\ regs \in [Engines -> Pointers]
    /\ objects \subseteq Objects /\ chanIrq \in [Engines -> Starts]
    /\ irqEngine \in [Engines -> Engines \cup {None}]
    /\ pciEnable \in BOOLEAN /\ global \in BOOLEAN /\ dpcs \subseteq objects
    /\ queue \in [Engines -> Starts]
    /\ file \in [Files -> [kind : {"closed", "control", "user", "engine"},
                           engine : Engines \cup {None}, ptr : Pointers, queue : Starts,
                           opened : Starts]]
    /\ fault.what \in {"none", "null", "unmapped", "beyond", "offset", "noInterrupt",
                       "deletedInterrupt", "noEngine", "noQueue", "noRegs"}

\* A device that has started has both engines with the transactions, registers
\* and queues of this start, whatever an earlier one has left, and every
\* interrupt object of a channel is bound to its engine before it can be used
\* (adevice.c:328-338).
StartedIsBound ==
    phase = "started" =>
        /\ \A e \in Engines : e \in enabled /\ engines[e] = start /\ queue[e] = start
        /\ \A e \in Engines : regs[e] \in mapped \/ fault # NoFault
        /\ \A i \in Engines : Channel(i) \in objects => irqEngine[i] = i

\* What stops the system, each with its cause: registers beyond the 64 KB that
\* are mapped of a large BAR (adevice.c:143-146); a BAR that is not there or not
\* mapped though it has its place (adevice.c:183, 240); a file kept open across
\* a stop; an application's own offset past the end of a BAR that is mapped
\* (ADMA_Driver/file_io.c:236, 278); an interrupt object that could not be
\* created, while they are (ainterrupt.c:73, 100, 124); an earlier start's that
\* kept its handle (adevice.c:72-104, adma_engine.c:107); a control request on
\* a file without a queue (ADMA_Driver/file_io.c:523), or of an engine's file
\* to the registers that are never set (adma_engine.c:1098).  Never an
\* interrupt routine without an engine, nor a routine after the device is closed.
FaultsExplained ==
    /\ fault.what # "noEngine"
    /\ fault.what = "beyond" => layout[ConfigBar + 1] = "large40"
    /\ fault.what = "null" => \/ Len(layout) < 2
                              \/ \E i \in DOMAIN layout : layout[i] = "large"
    /\ fault.what = "unmapped" => fault.file \in Files /\ file[fault.file].opened # start
    /\ fault.what = "offset" =>
           /\ fault.file \in Files /\ file[fault.file].kind \in {"control", "user"}
           /\ file[fault.file].ptr \in mapped
    /\ fault.what = "noInterrupt" => phase = "interrupts"
    /\ fault.what = "deletedInterrupt" => start > 1 /\ irq # "msix"
    /\ fault.what = "noQueue" => file[fault.file].kind # "engine"
    /\ fault.what = "noRegs" => file[fault.file].kind = "engine"
==============================================================================
