----------------------------- MODULE XdmaUserEvent -----------------------------
(***************************************************************************)
(* User events: a source in the card's user logic, its interrupt           *)
(* (libxdma/interrupt.c), the kernel event that HandleUserEvent pulses and *)
(* the reads of the event files that wait for it (sys/file_io.c).  Every   *)
(* event has a vector of its own.  The default queue is parallel, so reads *)
(* of one event may overlap.                                               *)
(*                                                                         *)
(* KePulseEvent signals, wakes whoever waits and resets in one step: the   *)
(* event is never found signalled, so it has no variable of its own.       *)
(***************************************************************************)
EXTENDS Naturals

CONSTANTS
    NumEvents,  \* XDMA_MAX_USER_IRQ
    Readers     \* the application's threads

ASSUME EventAssumption == NumEvents \in Nat \ {0}

VARIABLES
    held,       \* the user logic asserts an event until the application has
                \* seen it, or only until its interrupt was taken
    file,       \* the event file each reader has open
    connected,  \* the device is in D0 and its interrupts are connected
    cause,      \* events the user logic asserts
    en,         \* userIntEnable
    queued,     \* events whose DPC is queued
    dpc,        \* events whose DPC has run HandleUserEvent
    rd,         \* where the read of each reader is
    seen        \* history: asserted events a reader was told of since

vars == <<held, file, connected, cause, en, queued, dpc, rd, seen>>

Events == 0 .. NumEvents - 1

Init ==
    /\ held \in BOOLEAN /\ file \in [Readers -> Events]
    /\ connected = TRUE
    /\ cause = {} /\ en = Events /\ queued = {} /\ dpc = {}
    /\ rd = [r \in Readers |-> "away"]
    /\ seen = {}

-----------------------------------------------------------------------------
(* The user logic (external).                                              *)

Raise(e) ==
    /\ e \notin cause
    /\ cause' = cause \cup {e}
    /\ seen' = seen \ {e}
    /\ UNCHANGED <<held, file, connected, en, queued, dpc, rd>>

Lower(e) ==
    /\ e \in cause
    /\ IF held THEN e \in seen ELSE e \notin en
    /\ cause' = cause \ {e}
    /\ UNCHANGED <<held, file, connected, en, queued, dpc, rd, seen>>

-----------------------------------------------------------------------------
(* The interrupt.                                                          *)

Requested(e) == connected /\ e \in cause \cap en

EvtUserInterruptIsr(e) ==
    /\ Requested(e)
    /\ en' = en \ {e}
    /\ queued' = queued \cup {e}
    /\ UNCHANGED <<held, file, connected, cause, dpc, rd, seen>>

\* EvtUserInterruptDpc runs HandleUserEvent, whose pulse reaches the readers
\* that wait now and no other.
EvtUserInterruptDpc(e) ==
    /\ e \in queued \ dpc
    /\ queued' = queued \ {e}
    /\ dpc' = dpc \cup {e}
    /\ rd' = [r \in Readers |-> IF rd[r] = "waiting" /\ file[r] = e THEN "woken" ELSE rd[r]]
    /\ UNCHANGED <<held, file, connected, cause, en, seen>>

\* Mutant: the bit of the next event is written.
DpcEnableNext(e) ==
    /\ e \in dpc
    /\ dpc' = dpc \ {e}
    /\ en' = en \cup {e + 1}
    /\ UNCHANGED <<held, file, connected, cause, queued, rd, seen>>

\* Mutant: the event stays masked.
DpcEnableForgotten(e) ==
    /\ e \in dpc
    /\ dpc' = dpc \ {e}
    /\ UNCHANGED <<held, file, connected, cause, en, queued, rd, seen>>

\* Then it unmasks the event.
DpcEnable(e) ==
    /\ e \in dpc
    /\ dpc' = dpc \ {e}
    /\ en' = en \cup {e}
    /\ UNCHANGED <<held, file, connected, cause, queued, rd, seen>>

\* D0 exit, and the next entry once the queued DPCs have run out.
EvtUserInterruptDisable ==
    /\ connected
    /\ connected' = FALSE /\ en' = {}
    /\ UNCHANGED <<held, file, cause, queued, dpc, rd, seen>>

EvtUserInterruptEnable ==
    /\ ~connected /\ queued = {} /\ dpc = {}
    /\ connected' = TRUE /\ en' = Events
    /\ UNCHANGED <<held, file, cause, queued, dpc, rd, seen>>

-----------------------------------------------------------------------------
(* EvtReadUserEvent.  Once the length is right its other calls cannot fail. *)

ReadTo(r, where) == rd' = [rd EXCEPT ![r] = where]

\* KeClearEvent: from here to the wait a pulse is lost on this reader.
EvtReadUserEvent(r) ==
    /\ rd[r] = "away"
    /\ ReadTo(r, "cleared")
    /\ UNCHANGED <<held, file, connected, cause, en, queued, dpc, seen>>

Wait(r) ==
    /\ rd[r] = "cleared"
    /\ ReadTo(r, "waiting")
    /\ UNCHANGED <<held, file, connected, cause, en, queued, dpc, seen>>

\* Mutant: the wait has no timeout.
NoTimeout(r) ==
    /\ rd[r] = "waiting" /\ FALSE
    /\ UNCHANGED vars

\* Three seconds are longer than an interrupt that is requested takes.
Timeout(r) ==
    /\ rd[r] = "waiting" /\ ~Requested(file[r]) /\ file[r] \notin queued \cup dpc
    /\ ReadTo(r, "away")
    /\ UNCHANGED <<held, file, connected, cause, en, queued, dpc, seen>>

\* The application is told that the event occurred.
ReportEvent(r) ==
    /\ rd[r] = "woken"
    /\ ReadTo(r, "away")
    /\ seen' = seen \cup (cause \cap {file[r]})
    /\ UNCHANGED <<held, file, connected, cause, en, queued, dpc>>

-----------------------------------------------------------------------------
Read(r) == EvtReadUserEvent(r) \/ Wait(r) \/ Timeout(r) \/ ReportEvent(r)

Next ==
    \/ \E e \in Events : \/ Raise(e) \/ Lower(e)
                         \/ EvtUserInterruptIsr(e) \/ EvtUserInterruptDpc(e) \/ DpcEnable(e)
    \/ EvtUserInterruptDisable \/ EvtUserInterruptEnable
    \/ \E r \in Readers : Read(r)

Spec == Init /\ [][Next]_vars

\* Interrupts are delivered, DPCs run, and the application reads again and
\* again, as exe/user_event does; the timer of a wait runs on whatever the
\* power state does meanwhile.
Fairness ==
    /\ \A e \in Events : /\ WF_vars(EvtUserInterruptIsr(e))
                         /\ WF_vars(EvtUserInterruptDpc(e))
                         /\ WF_vars(DpcEnable(e))
    /\ \A r \in Readers : SF_vars(Read(r))

FairSpec == Spec /\ Fairness

-----------------------------------------------------------------------------
(* Properties.                                                             *)

\* Every variable keeps to its range.
TypeOK ==
    /\ held \in BOOLEAN /\ file \in [Readers -> Events] /\ connected \in BOOLEAN
    /\ cause \subseteq Events /\ en \subseteq Events
    /\ queued \subseteq Events /\ dpc \subseteq Events /\ seen \subseteq Events
    /\ rd \in [Readers -> {"away", "cleared", "waiting", "woken"}]

\* An event's vector, as SourceInterrupt has it.
Vector(e) == INSTANCE SourceInterrupt
    WITH up <- connected, request <- e \in cause, enabled <- e \in en, queued <- e \in queued,
         busy <- e \in dpc, broken <- FALSE

\* The events have the vectors that XdmaIrq delivers.
ImplementsVectors ==
    /\ \A e \in Events : Vector(e)!Init
    /\ [][\A e \in Events : [Vector(e)!Next]_(Vector(e)!vars)]_vars

HasReader(e) == \E r \in Readers : file[r] = e

\* An event whose source the user logic holds is seen by the application,
\* although a single pulse is lost when it falls between two reads: the DPC
\* unmasks the event, which fires and is pulsed again until a read waits.
HeldEventIsSeen ==
    \A e \in Events : held /\ HasReader(e) /\ e \in cause ~> e \in seen \/ ~connected

\* A read of an event file always ends, with the device powered down too.
ReadEnds == \A r \in Readers : rd[r] # "away" ~> rd[r] = "away"
==============================================================================
