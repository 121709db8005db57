------------------------------ MODULE AvsCapture -----------------------------
(***************************************************************************)
(* The capture driver (avsadma): its device (device.cpp) and the pins of   *)
(* its filters (capture.cpp), as built for the Cyclone IV board            *)
(* (hwsim.h:27).                                                           *)
(*                                                                         *)
(* The interrupt is connected before the pointers to the registers are     *)
(* set, and is never disconnected.  Every filter has a pin; pins contend   *)
(* for the one set of hardware resources.  The service routine may be in   *)
(* the middle of its work when a pin gives them up.                        *)
(*                                                                         *)
(* AVStream (external) takes a pin from one state to the next one by one,  *)
(* one call at a time for each pin, processes it only while it runs, and   *)
(* stops the device when all pins are closed.                              *)
(***************************************************************************)
EXTENDS AvsFormat, Sequences

CONSTANTS
    Pins,       \* one of each filter that is open
    NoPin,
    BarLayouts, \* kinds of the memory resources the device may have, in order
    Lines,      \* how its interrupts come
    MaxStarts   \* bound: starts of the device

BarKinds  == {"memory", "large40", "large"}
LineKinds == {"message", "line", "shared"}

ASSUME CaptureAssumption ==
    /\ NoPin \notin Pins /\ MaxStarts \in Nat
    /\ BarLayouts \subseteq Seq(BarKinds) /\ Lines \subseteq LineKinds

VARIABLES
    phase,      \* where PnpStart is
    start,      \* number of the last start
    layout, line, \* what it finds
    mapped,     \* BARs that are mapped into memory
    dmaBar, videoBar, \* m_DmaBar, m_VideoBar
    regs,       \* the BAR of m_SgdmaCsr and the other pointers to registers
    connected,  \* the interrupt is connected
    buffer,     \* m_VideoBufferVa
    pin,        \* each pin and its CCapturePin
    owned,      \* m_PinsWithResources
    sink,       \* m_CaptureSink
    going, irq, message, \* the card: captures, status bit, message on its way
    isr,        \* where the service routine is
    stale,      \* history: the hardware was stopped since it read the status
    fault       \* what stopped the system

given   == <<start, layout, line>>
barVars == <<mapped, dmaBar, videoBar>>
devVars == <<phase, given, barVars, regs, connected, buffer>>
ownVars == <<owned, sink>>
hwVars  == <<going, irq, message>>
isrVars == <<isr, stale>>
vars == <<devVars, pin, ownVars, hwVars, isrVars, fault>>

Null == <<0, 0>>
NoFault == [what |-> "none", by |-> "none"]
Faulted(what, by) == [what |-> what, by |-> by]

\* A CCapturePin as it is constructed, or none.
Closed == [st |-> "closed", op |-> "idle", hw |-> "stopped", acquired |-> FALSE,
           format |-> {}, header |-> "none", frame |-> 0, locked |-> FALSE, attempt |-> FALSE,
           reformatted |-> FALSE]

Init ==
    /\ phase = "stopped" /\ start = 0
    /\ layout \in BarLayouts /\ line \in Lines
    /\ mapped = {} /\ dmaBar = Null /\ videoBar = Null
    /\ regs = Null /\ connected = FALSE /\ buffer = FALSE
    /\ pin = [p \in Pins |-> Closed]
    /\ owned = FALSE /\ sink = NoPin
    /\ going = FALSE /\ irq = FALSE /\ message = FALSE
    /\ isr = "idle" /\ stale = FALSE
    /\ fault = NoFault

\* Registers through no BAR, or one that is not mapped any more, fault.
UseRegs(by) == fault' = IF regs \in mapped THEN NoFault ELSE Faulted("registers", by)

-----------------------------------------------------------------------------
(* PnpStart.  The results of its first three calls are not looked at.      *)

Of(kind, n) == {i \in 1 .. n : layout[i] = kind}

\* Mutant: the index was counted on when it is used.
LatestPastEnd(kind, n, old) ==
    IF Of(kind, n) = {} THEN old
    ELSE <<start, 1 + CHOOSE i \in Of(kind, n) : \A j \in Of(kind, n) : j <= i>>

\* Of several BARs of a kind the pointer to the last is kept.
Latest(kind, n, old) ==
    IF Of(kind, n) = {} THEN old
    ELSE <<start, CHOOSE i \in Of(kind, n) : \A j \in Of(kind, n) : j <= i>>

\* MapResources maps the first n, and stops at one that cannot be mapped.
MapResources ==
    /\ phase = "map"
    /\ \E n \in 0 .. Len(layout) :
        LET failed == IF n < Len(layout) THEN layout[n + 1] ELSE "none"
        IN  /\ failed # "large"
            /\ mapped' = mapped \cup {<<start, i>> : i \in Of("memory", n) \cup Of("large40", n)}
            /\ dmaBar' = IF failed = "memory" THEN Null ELSE Latest("memory", n, dmaBar)
            /\ videoBar' = IF failed = "large40" THEN Null ELSE Latest("large40", n, videoBar)
    /\ phase' = "interrupts"
    /\ UNCHANGED <<given, regs, connected, buffer, pin, ownVars, hwVars, isrVars, fault>>

PnpStart ==
    /\ phase = "stopped" /\ start < MaxStarts
    /\ start' = start + 1
    /\ phase' = "map"
    /\ UNCHANGED <<layout, line, barVars, regs, connected, buffer, pin, ownVars, hwVars, isrVars,
                   fault>>

SetupInterrupts ==
    /\ phase = "interrupts"
    /\ connected' \in {connected, TRUE}
    /\ phase' = "dma"
    /\ UNCHANGED <<given, barVars, regs, buffer, pin, ownVars, hwVars, isrVars, fault>>

SetupDma ==
    /\ phase = "dma"
    /\ buffer' \in BOOLEAN
    /\ phase' = "registers"
    /\ UNCHANGED <<given, barVars, regs, connected, pin, ownVars, hwVars, isrVars, fault>>

\* Without memory for the hardware simulation the start fails; when only its
\* entry in the object bag fails, the registers are set all the same.
SetRegisters ==
    /\ phase = "registers"
    /\ \/ regs' = dmaBar /\ phase' = "started"
       \/ regs' \in {regs, dmaBar} /\ phase' = "failed"
    /\ UNCHANGED <<given, barVars, connected, buffer, pin, ownVars, hwVars, isrVars, fault>>

\* Mutant: only the BAR of the registers is unmapped.
UnmapDmaBar ==
    /\ mapped' = mapped \ {dmaBar}
    /\ dmaBar' = Null /\ UNCHANGED videoBar

UnmapResources ==
    /\ mapped' = mapped \ {dmaBar, videoBar}
    /\ dmaBar' = Null /\ videoBar' = Null

\* PnpStop frees the buffer and unmaps; a message or the service routine may
\* still be on its way.
PnpStop ==
    /\ phase = "started" /\ \A p \in Pins : pin[p].st = "closed"
    /\ buffer' = FALSE
    /\ UnmapResources
    /\ phase' = "stopped"
    /\ UNCHANGED <<given, regs, connected, pin, ownVars, hwVars, isrVars, fault>>

-----------------------------------------------------------------------------
(* CCaptureDevice: the hardware resources, Start, Stop.                    *)

Start ==
    /\ going' = TRUE
    /\ UseRegs("pin")
    /\ UNCHANGED <<irq, message, stale>>

\* Mutant: the dispatcher is not reset.
StopVideo ==
    /\ going' = FALSE /\ stale' = (isr # "idle")
    /\ UseRegs("pin")
    /\ UNCHANGED <<irq, message>>

\* Resetting the dispatcher clears its status.
Stop ==
    /\ going' = FALSE /\ irq' = FALSE /\ stale' = (isr # "idle")
    /\ UseRegs("pin")
    /\ UNCHANGED message

NoHardware == UNCHANGED <<hwVars, stale, fault>>

Goes(p, op) == pin' = [pin EXCEPT ![p].op = op]

\* AcquireHardwareResources: one pin gets past the exchange.
Claim(p) ==
    /\ pin[p].st = "stop" /\ pin[p].op = "idle" /\ ~owned
    /\ owned' = TRUE
    /\ Goes(p, "claimed")
    /\ UNCHANGED <<devVars, sink, hwVars, isrVars, fault>>

Supported(f) == <<f.bits, f.comp>> \in {<<24, "RGB">>, <<16, "YUY2">>}

\* Then it has its format looked at and becomes the sink.
\* A format without a synthesizer, or no memory for one, ends in a release.  A
\* header that was freed may read as anything, or fault.
Take(p) ==
    /\ pin[p].op = "claimed"
    /\ \/ /\ pin[p].header # "valid"
          /\ fault' = Faulted("header", "pin")
          /\ UNCHANGED <<pin, sink>>
       \/ /\ pin[p].header # "null" /\ \A f \in pin[p].format : Supported(f)
          /\ sink' = p
          /\ pin' = [pin EXCEPT ![p].st = "acquire", ![p].op = "idle", ![p].acquired = TRUE]
          /\ UNCHANGED fault
       \/ /\ pin[p].header # "null"
          /\ Goes(p, "dropping")
          /\ UNCHANGED <<sink, fault>>
    /\ UNCHANGED <<devVars, owned, hwVars, isrVars>>

\* Mutant: the resources are given up before the sink is forgotten.
FreeFirst(p) ==
    /\ pin[p].op \in {"dropping", "freeing"}
    /\ IF pin[p].op = "dropping"
       THEN owned' = FALSE /\ Goes(p, "freeing") /\ UNCHANGED sink
       ELSE /\ sink' = NoPin
            /\ pin' = [pin EXCEPT ![p].st = "stop", ![p].op = "idle", ![p].acquired = FALSE]
            /\ UNCHANGED owned
    /\ UNCHANGED <<devVars, hwVars, isrVars, fault>>

\* ReleaseHardwareResources forgets the sink, then lets others have them.
ReleaseHardwareResources(p) ==
    /\ pin[p].op \in {"dropping", "freeing"}
    /\ IF pin[p].op = "dropping"
       THEN sink' = NoPin /\ Goes(p, "freeing") /\ UNCHANGED owned
       ELSE /\ owned' = FALSE
            /\ pin' = [pin EXCEPT ![p].st = "stop", ![p].op = "idle", ![p].acquired = FALSE]
            /\ UNCHANGED sink
    /\ UNCHANGED <<devVars, hwVars, isrVars, fault>>

-----------------------------------------------------------------------------
(* CCapturePin: creation, formats and states.                              *)

\* DispatchCreate with a format that was found acceptable.  The trace at its
\* end reads the header, whether there is one or not, when it is on.
DispatchCreate(p) ==
    /\ phase = "started" /\ pin[p].st = "closed"
    /\ \/ /\ \E f \in Accepted :
                pin' = [pin EXCEPT ![p].st = "stop", ![p].format = {f}, ![p].header = "valid",
                                   ![p].frame = f.size]
          /\ UNCHANGED fault
       \/ fault' = Faulted("trace", "pin") /\ UNCHANGED pin
    /\ UNCHANGED <<devVars, ownVars, hwVars, isrVars>>

Close(p) ==
    /\ pin[p].st = "stop" /\ pin[p].op = "idle"
    /\ pin' = [pin EXCEPT ![p] = Closed]
    /\ UNCHANGED <<devVars, ownVars, hwVars, isrVars, fault>>

\* DispatchSetFormat on a pin that is stopped replaces the header, not the
\* framing; it fails on one that is not.
DispatchSetFormat(p) ==
    /\ pin[p].st = "stop" /\ pin[p].op = "idle"
    /\ \E f \in Accepted :
        pin' = [pin EXCEPT ![p].format = {f}, ![p].header = "valid", ![p].reformatted = TRUE]
    /\ UNCHANGED <<devVars, ownVars, hwVars, isrVars, fault>>

\* Without memory for the new header the pin has none, or one that was freed.
SetFormatFails(p) ==
    /\ pin[p].st = "stop" /\ pin[p].op = "idle"
    /\ \E h \in {"null", "freed"} :
        pin' = [pin EXCEPT ![p].format = {}, ![p].header = h, ![p].reformatted = TRUE]
    /\ UNCHANGED <<devVars, ownVars, hwVars, isrVars, fault>>

\* SetState to KSSTATE_STOP: hardware that is not stopped is, and the release
\* begins.
ToStop(p) ==
    /\ pin[p].st = "acquire" /\ pin[p].op = "idle"
    /\ IF pin[p].hw # "stopped" THEN Stop ELSE NoHardware
    /\ pin' = [pin EXCEPT ![p].hw = "stopped", ![p].op = "dropping",
                          ![p].locked = FALSE, ![p].attempt = FALSE]
    /\ UNCHANGED <<devVars, ownVars, isr>>

\* To KSSTATE_ACQUIRE from KSSTATE_PAUSE.
ToAcquire(p) ==
    /\ pin[p].st = "pause"
    /\ IF pin[p].hw # "stopped" THEN Stop ELSE NoHardware
    /\ pin' = [pin EXCEPT ![p].st = "acquire", ![p].hw = "stopped"]
    /\ UNCHANGED <<devVars, ownVars, isr>>

\* CCaptureDevice::Pause: a pause is a stop, and its end is a start.
Pause(pausing) == IF pausing THEN Stop ELSE Start

\* To KSSTATE_PAUSE, where only one that runs is paused.
ToPause(p) ==
    /\ \/ pin[p].st = "acquire" /\ pin[p].op = "idle"
       \/ pin[p].st = "run"
    /\ IF pin[p].st = "run" THEN Pause(TRUE) ELSE NoHardware
    /\ pin' = [pin EXCEPT ![p].st = "pause", ![p].hw = IF pin[p].st = "run" THEN "paused" ELSE @]
    /\ UNCHANGED <<devVars, ownVars, isr>>

\* To KSSTATE_RUN.
ToRun(p) ==
    /\ pin[p].st = "pause"
    /\ IF pin[p].hw = "paused" THEN Pause(FALSE) ELSE Start
    /\ pin' = [pin EXCEPT ![p].st = "run", ![p].hw = "running"]
    /\ UNCHANGED <<devVars, ownVars, isr>>

-----------------------------------------------------------------------------
(* Frames.                                                                 *)

\* The card (external) has captured a frame into the common buffer, over and
\* over (the descriptor parks).  A message is sent when the interrupt rises.
CardFrame ==
    /\ going
    /\ irq' = TRUE
    /\ message' = (message \/ (line = "message" /\ ~irq))
    /\ UNCHANGED <<devVars, pin, ownVars, going, isrVars, fault>>

\* How the service routine comes to be called.
Interrupted ==
    /\ connected /\ isr = "idle"
    /\ \/ line = "message" /\ message
       \/ line # "message" /\ irq
       \/ line = "shared"

\* AdmaInterruptMessageService and AdmaInterruptHandler: the status is read
\* and, if its interrupt bit is set, written without it, which clears nothing:
\* the bit is cleared by writing a one.
ReadStatus ==
    /\ Interrupted
    /\ UseRegs("isr")
    /\ message' = FALSE
    /\ isr' = (IF irq THEN "sink" ELSE "idle")
    /\ stale' = FALSE
    /\ UNCHANGED <<devVars, pin, ownVars, going, irq>>

\* Then the pin of the sink is asked to process, and the registers of the
\* frame buffer are looked at.
AttemptProcessing ==
    /\ isr = "sink"
    /\ IF sink = NoPin
       THEN fault' = Faulted("sink", "isr") /\ UNCHANGED pin
       ELSE /\ UseRegs("isr")
            /\ pin' = [pin EXCEPT ![sink].attempt = TRUE]
    /\ isr' = "idle"
    /\ UNCHANGED <<devVars, ownVars, hwVars, stale>>

\* ProcessC4 with nothing queued, or with a frame that has no data, whose edge
\* it leaves locked.
ProcessNothing(p) ==
    /\ pin[p].st = "run" /\ pin[p].attempt
    /\ pin' = [pin EXCEPT ![p].attempt = FALSE]
    /\ UNCHANGED <<devVars, ownVars, hwVars, isrVars, fault>>

ProcessNoData(p) ==
    /\ pin[p].st = "run" /\ pin[p].attempt
    /\ pin' = [pin EXCEPT ![p].attempt = FALSE, ![p].locked = TRUE]
    /\ UNCHANGED <<devVars, ownVars, hwVars, isrVars, fault>>

\* What may come of the copy, which writes the whole buffer to where the local
\* pointer to the data is: without a buffer a fault, else whatever the overwritten
\* stack leads to.
CopyVideoCommonBuffer ==
    IF buffer THEN {NoFault, Faulted("stack", "process")} ELSE {Faulted("buffer", "process")}

\* With a frame: if the copy is survived, the frame is stamped and passed on.
ProcessC4(p) ==
    /\ pin[p].st = "run" /\ pin[p].attempt /\ ~pin[p].locked
    /\ fault' \in CopyVideoCommonBuffer
    /\ pin' = [pin EXCEPT ![p].attempt = fault' # NoFault]
    /\ UNCHANGED <<devVars, ownVars, hwVars, isrVars>>

-----------------------------------------------------------------------------
Device == PnpStart \/ MapResources \/ SetupInterrupts \/ SetupDma \/ SetRegisters \/ PnpStop

SetState(p) ==
    \/ Claim(p) \/ Take(p) \/ ReleaseHardwareResources(p)
    \/ ToStop(p) \/ ToAcquire(p) \/ ToPause(p) \/ ToRun(p)

PinStep(p) ==
    \/ DispatchCreate(p) \/ Close(p) \/ DispatchSetFormat(p) \/ SetFormatFails(p) \/ SetState(p)

Process(p) == ProcessNothing(p) \/ ProcessNoData(p) \/ ProcessC4(p)

ServiceRoutine == ReadStatus \/ AttemptProcessing

Next ==
    /\ fault = NoFault
    /\ Device \/ ServiceRoutine \/ CardFrame \/ \E p \in Pins : PinStep(p) \/ Process(p)

\* The card goes on capturing, interrupts are served, pins that are asked to
\* process do.  Applications do what they like.
Fairness ==
    /\ WF_vars(fault = NoFault /\ CardFrame)
    /\ WF_vars(fault = NoFault /\ ServiceRoutine)
    /\ \A p \in Pins : WF_vars(fault = NoFault /\ Process(p))

Spec == Init /\ [][Next]_vars /\ Fairness

-----------------------------------------------------------------------------
(* Properties.                                                             *)

Pointers == {Null} \cup ((1 .. MaxStarts) \X (1 .. Len(layout)))

PinRecord ==
    [st : {"closed", "stop", "acquire", "pause", "run"},
     op : {"idle", "claimed", "dropping", "freeing"}, hw : {"stopped", "paused", "running"},
     acquired : BOOLEAN, format : SUBSET Accepted,
     header : {"none", "valid", "null", "freed"}, frame : Nat, locked : BOOLEAN,
     attempt : BOOLEAN, reformatted : BOOLEAN]

\* Every variable keeps to its range.
TypeOK ==
    /\ phase \in {"stopped", "map", "interrupts", "dma", "registers", "started", "failed"}
    /\ start \in 0 .. MaxStarts /\ layout \in BarLayouts /\ line \in Lines
    /\ mapped \subseteq Pointers /\ {dmaBar, videoBar, regs} \subseteq Pointers
    /\ connected \in BOOLEAN /\ buffer \in BOOLEAN
    /\ pin \in [Pins -> PinRecord]
    /\ owned \in BOOLEAN /\ sink \in Pins \cup {NoPin}
    /\ going \in BOOLEAN /\ irq \in BOOLEAN /\ message \in BOOLEAN
    /\ isr \in {"idle", "sink"} /\ stale \in BOOLEAN
    /\ fault.what \in {"none", "registers", "header", "trace", "sink", "stack", "buffer"}
    /\ fault.by \in {"none", "pin", "isr", "process"}

\* The hardware has one user: while a pin has the resources, from the exchange
\* that claimed them to the one that frees them (device.cpp:1185, 1311), no
\* other has, the sink that interrupts go to is that pin or none, and the card
\* captures only for a pin that runs and is the sink.
Holds(p) == pin[p].acquired \/ pin[p].op # "idle"

OneStream ==
    /\ owned <=> \E p \in Pins : Holds(p)
    /\ \A p, q \in Pins : Holds(p) /\ Holds(q) => p = q
    /\ \A p \in Pins : pin[p].st \in {"acquire", "pause", "run"} => pin[p].acquired
    /\ \A p \in Pins : pin[p].acquired /\ pin[p].op = "idle" => sink = p
    /\ sink # NoPin => Holds(sink)
    /\ going \/ irq => sink # NoPin /\ pin[sink].st = "run" /\ pin[sink].hw = "running"

\* A pin has a format whose image fits into the size it states, with the
\* arithmetic of the checks being that of words, and into the frames the
\* allocator was asked for ("precisely the size of each capture image",
\* capture.cpp:200) unless the format was changed since.
FormatsCovered ==
    \A p \in Pins : \A f \in pin[p].format :
        /\ f.size >= ImageBytes(f)
        /\ pin[p].frame < ImageBytes(f) => pin[p].reformatted

\* When the device is stopped the card captures nothing, the common buffer is
\* freed, and what is still mapped is what a later BAR of the same kind has
\* taken the pointer from (device.cpp:306, 326).
StoppedIsReleased ==
    phase = "stopped" =>
        /\ ~going /\ ~irq /\ ~buffer
        /\ dmaBar = Null /\ videoBar = Null
        /\ \A b \in mapped : \E j \in b[2] + 1 .. Len(layout) : layout[j] = layout[b[2]]

\* What stops the system.  The service routine meets registers that are not
\* there only on a line it shares, by a message that comes to a device that was
\* stopped meanwhile, or after a start that has mapped none; it meets no sink
\* only if the hardware was stopped since it read the status
\* (device.cpp:547-553); a pin meets no registers only
\* when MapResources left none and was not asked (device.cpp:1002), no header
\* only when a format could not be set (capture.cpp:270, 294); and frames are
\* processed only while the pin has the hardware.
FaultsExplained ==
    /\ fault.by = "isr" /\ fault.what = "registers" =>
           line = "shared" \/ (line = "message" /\ phase # "started") \/ dmaBar = Null
    /\ fault.what = "sink" => stale
    /\ fault.by = "pin" /\ fault.what = "registers" => dmaBar = Null
    /\ fault.what = "header" => \E p \in Pins : pin[p].op = "claimed" /\ pin[p].reformatted
    /\ fault.by = "process" => sink # NoPin /\ pin[sink].st = "run"

\* While the card captures on, the service routine finds a frame again and again
\* ("Writing a '1' to the interrupt bit of the status register clears the
\* interrupt bit", hwsim.h:243, so that the next frame can raise it).
FramesKeepComing ==
    <>[](going /\ connected /\ fault = NoFault) => []<>(isr = "sink")
==============================================================================
