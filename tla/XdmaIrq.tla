------------------------------- MODULE XdmaIrq -------------------------------
(***************************************************************************)
(* Interrupt delivery of libxdma/interrupt.c: the enable and request       *)
(* registers of the card, the service routines, the pending masks they     *)
(* share with the deferred routines (DPCs), and the D0 entry and exit.     *)
(* Either every source has a vector of its own (MSI-X, multi-message MSI)  *)
(* or all share one interrupt (line, single-message MSI).                  *)
(*                                                                         *)
(* The service routine and the last step of a DPC hold the interrupt lock. *)
(* The rest of a DPC runs without it, and a DPC that is queued again while *)
(* it runs may run on another processor at the same time.                  *)
(***************************************************************************)
EXTENDS Naturals, Sequences, FiniteSets

CONSTANTS
    Engines,    \* channel sources with an enabled engine
    Streams,    \* those of them whose work is EngineProcessRing
    Users,      \* user event sources
    Order,      \* the order in which EvtInterruptDpc looks at them
    Processors, \* processors that may run DPCs
    Line        \* the shared interrupt

Sources == Engines \cup Users

ASSUME IrqAssumption ==
    /\ Streams \subseteq Engines /\ Engines \cap Users = {} /\ Line \notin Sources
    /\ IsFiniteSet(Processors) /\ Processors # {}
    /\ Order \in Seq(Sources)
    /\ \A s \in Sources : \E i \in DOMAIN Order : Order[i] = s
    /\ \A i, j \in DOMAIN Order : Order[i] = Order[j] => i = j

VARIABLES
    shared,     \* all sources on one interrupt (SetupSingleInterrupt)
    cpus,       \* the processors the system has
    connected,  \* the device is in D0 and its interrupts are connected
    src,        \* sources that request an interrupt, masked or not
    en,         \* channelIntEnable and userIntEnable
    pending,    \* channelIrqPending and userIrqPending of the shared context
    queued,     \* interrupts whose DPC is queued
    dpc,        \* per processor: where the DPC it runs is
    at,         \* and which source of Order it looks at or works for
    reqs,       \* other engines whose transaction has a request
    opened      \* history: engines a file was opened on while masked

vars == <<shared, cpus, connected, src, en, pending, queued, dpc, at, reqs, opened>>

Working == {"begin", "end"}
Requested == src \cap en
Idle == \A p \in cpus : dpc[p] = "idle"

\* A single processor takes a requested interrupt before it goes on with a DPC
\* or with the code that starts requests.
Preempted == Cardinality(cpus) = 1 /\ connected /\ Requested # {}

Init ==
    /\ shared \in BOOLEAN
    /\ cpus \in SUBSET Processors \ {{}}
    /\ connected = TRUE
    /\ src = {} /\ en = Sources /\ pending = {} /\ queued = {}
    /\ dpc = [p \in Processors |-> "idle"]
    /\ at = [p \in Processors |-> 0]
    /\ reqs = {} /\ opened = {}

\* An engine or the user logic of the card requests service (external).
Raise(s) ==
    /\ s \notin src
    /\ src' = src \cup {s}
    /\ UNCHANGED <<shared, cpus, connected, en, pending, queued, dpc, at, reqs, opened>>

\* The application removes the cause of a user interrupt that was delivered:
\* the driver leaves that to it.
RemoveCause(u) ==
    /\ u \in src \ en
    /\ src' = src \ {u}
    /\ UNCHANGED <<shared, cpus, connected, en, pending, queued, dpc, at, reqs, opened>>

\* A request starts its transaction and then its engine, which clears what was
\* left in the status register, and it ends: completed or cancelled.
RequestBegin(e) ==
    /\ ~Preempted /\ e \in Engines \ (Streams \cup reqs)
    /\ reqs' = reqs \cup {e}
    /\ src' \in {src, src \ {e}}
    /\ UNCHANGED <<shared, cpus, connected, en, pending, queued, dpc, at, opened>>

RequestEnd(e) ==
    /\ e \in reqs
    /\ reqs' = reqs \ {e}
    /\ UNCHANGED <<shared, cpus, connected, src, en, pending, queued, dpc, at, opened>>

\* EngineEnableInterrupt when a file is opened.  Bound: an open finds each
\* engine masked once, or opens without end could keep a DPC from starting.
EngineEnableInterrupt(e) ==
    /\ connected /\ e \notin en \cup opened
    /\ opened' = opened \cup {e}
    /\ en' = en \cup {e}
    /\ UNCHANGED <<shared, cpus, connected, src, pending, queued, dpc, at, reqs>>

-----------------------------------------------------------------------------
(* Service routines.                                                       *)

\* Mutant: what fired before is forgotten (= for |=).
IsrForgets ==
    /\ shared /\ connected /\ Requested # {}
    /\ pending' = Requested
    /\ en' = en \ Requested
    /\ queued' = queued \cup {Line}
    /\ UNCHANGED <<shared, cpus, connected, src, dpc, at, reqs, opened>>

\* EvtInterruptIsr: remember, mask and queue whatever is requested.
EvtInterruptIsr ==
    /\ shared /\ connected /\ Requested # {}
    /\ pending' = pending \cup Requested
    /\ en' = en \ Requested
    /\ queued' = queued \cup {Line}
    /\ UNCHANGED <<shared, cpus, connected, src, dpc, at, reqs, opened>>

\* Mutant: the source is not masked.
SourceIsrUnmasked(s) ==
    /\ ~shared /\ connected /\ s \in Requested
    /\ queued' = queued \cup {s}
    /\ UNCHANGED <<shared, cpus, connected, src, en, pending, dpc, at, reqs, opened>>

\* EvtChannelInterruptIsr and EvtUserInterruptIsr, one vector per source.
EvtSourceIsr(s) ==
    /\ ~shared /\ connected /\ s \in Requested
    /\ en' = en \ {s}
    /\ queued' = queued \cup {s}
    /\ UNCHANGED <<shared, cpus, connected, src, pending, dpc, at, reqs, opened>>

-----------------------------------------------------------------------------
(* Deferred routines.                                                      *)

Goto(p, where, i) ==
    /\ dpc' = [dpc EXCEPT ![p] = where]
    /\ at' = [at EXCEPT ![p] = i]

\* A processor takes a queued DPC: EvtInterruptDpc looks at the sources one by
\* one, EvtChannelInterruptDpc and EvtUserInterruptDpc have their own.
DpcStart(p, d) ==
    /\ dpc[p] = "idle" /\ d \in queued
    /\ queued' = queued \ {d}
    /\ IF d = Line THEN Goto(p, "look", 1)
                   ELSE Goto(p, "begin", CHOOSE i \in DOMAIN Order : Order[i] = d)
    /\ UNCHANGED <<shared, cpus, connected, src, en, pending, reqs, opened>>

DpcLook(p) ==
    /\ dpc[p] = "look"
    /\ IF at[p] > Len(Order) THEN Goto(p, "enable", 0)
       ELSE IF Order[at[p]] \in pending THEN Goto(p, "begin", at[p])
       ELSE Goto(p, "look", at[p] + 1)
    /\ UNCHANGED <<shared, cpus, connected, src, en, pending, queued, reqs, opened>>

\* The work function of an engine clears its status register, and with it what
\* asks for the interrupt, but EngineProcessTransfer returns before that when
\* the transaction has no request; that of a user event clears nothing.
WorkBegin(p) ==
    /\ dpc[p] = "begin"
    /\ src' = src \ ({Order[at[p]]} \cap (Streams \cup reqs))
    /\ Goto(p, "end", at[p])
    /\ UNCHANGED <<shared, cpus, connected, en, pending, queued, reqs, opened>>

\* Mutant: the index is advanced twice.
WorkEndSkips(p) ==
    /\ dpc[p] = "end"
    /\ IF shared THEN Goto(p, "look", at[p] + 2) ELSE Goto(p, "enable", at[p])
    /\ UNCHANGED <<shared, cpus, connected, src, en, pending, queued, reqs, opened>>

WorkEnd(p) ==
    /\ dpc[p] = "end"
    /\ IF shared THEN Goto(p, "look", at[p] + 1) ELSE Goto(p, "enable", at[p])
    /\ UNCHANGED <<shared, cpus, connected, src, en, pending, queued, reqs, opened>>

\* Mutant: the mask is emptied before it is written to the card.
DpcEnableNothing(p) ==
    /\ dpc[p] = "enable"
    /\ en' = en \cup (IF shared THEN {} ELSE {Order[at[p]]})
    /\ pending' = {}
    /\ Goto(p, "idle", 0)
    /\ UNCHANGED <<shared, cpus, connected, src, queued, reqs, opened>>

\* Under the lock: everything pending is unmasked, whether this DPC has seen
\* it or not; a vector of its own is.
DpcEnable(p) ==
    /\ dpc[p] = "enable"
    /\ en' = en \cup (IF shared THEN pending ELSE {Order[at[p]]})
    /\ pending' = {}
    /\ Goto(p, "idle", 0)
    /\ UNCHANGED <<shared, cpus, connected, src, queued, reqs, opened>>

-----------------------------------------------------------------------------
(* D0 entry and exit: the framework calls EvtInterruptDisable, disconnects *)
(* and lets the queued DPCs run out before it connects again.              *)

EvtInterruptDisable ==
    /\ connected
    /\ connected' = FALSE /\ en' = {}
    /\ UNCHANGED <<shared, cpus, src, pending, queued, dpc, at, reqs, opened>>

EvtInterruptEnable ==
    /\ ~connected /\ queued = {} /\ Idle
    /\ connected' = TRUE /\ en' = Sources
    /\ UNCHANGED <<shared, cpus, src, pending, queued, dpc, at, reqs, opened>>

-----------------------------------------------------------------------------
Isr == EvtInterruptIsr \/ \E s \in Sources : EvtSourceIsr(s)
Dispatch(d) == ~Preempted /\ \E p \in cpus : DpcStart(p, d)
DpcStep(p) == ~Preempted /\ (DpcLook(p) \/ WorkBegin(p) \/ WorkEnd(p) \/ DpcEnable(p))

Next ==
    \/ \E s \in Sources : Raise(s)
    \/ \E u \in Users : RemoveCause(u)
    \/ \E e \in Engines : EngineEnableInterrupt(e) \/ RequestBegin(e) \/ RequestEnd(e)
    \/ Isr
    \/ \E d \in Sources \cup {Line} : Dispatch(d)
    \/ \E p \in cpus : DpcStep(p)
    \/ EvtInterruptDisable \/ EvtInterruptEnable

Spec == Init /\ [][Next]_vars

\* A requested interrupt is delivered; DPCs start in turn, so that none waits
\* for ever while others come and go; and what has started goes on.
Fairness ==
    /\ WF_vars(EvtInterruptIsr)
    /\ \A s \in Sources : WF_vars(EvtSourceIsr(s))
    /\ \A d \in Sources \cup {Line} : SF_vars(Dispatch(d))
    /\ \A p \in Processors : WF_vars(p \in cpus /\ DpcStep(p))

FairSpec == Spec /\ Fairness

-----------------------------------------------------------------------------
(* Properties.                                                             *)

\* Every variable keeps to its range.
TypeOK ==
    /\ shared \in BOOLEAN /\ connected \in BOOLEAN
    /\ cpus \in SUBSET Processors
    /\ src \subseteq Sources /\ en \subseteq Sources /\ pending \subseteq Sources
    /\ queued \subseteq Sources \cup {Line}
    /\ dpc \in [Processors -> {"idle", "look", "begin", "end", "enable"}]
    /\ at \in [Processors -> 0 .. Len(Order) + 1]
    /\ reqs \subseteq Engines \ Streams /\ opened \subseteq Engines

\* The source processor p works for, if it does.
WorksFor(p, s) == dpc[p] \in Working /\ Order[at[p]] = s

\* A source that is masked while the device is in D0 will be unmasked: it is
\* in the pending mask and a DPC that takes the mask is queued or running, or
\* its own DPC is.  No order of service routines and overlapping DPCs, each of
\* which empties the mask the others rely on, leaves one masked for good.
MaskedIsOwed ==
    connected => \A s \in Sources \ en :
        IF shared THEN s \in pending /\ (Line \in queued \/ ~Idle)
                  ELSE \/ s \in queued
                       \/ \E p \in cpus : dpc[p] # "idle" /\ Order[at[p]] = s

\* The work function of an engine, which has no lock, runs on two processors
\* at once only on a shared interrupt, where a DPC queued for another source
\* finds its bit still pending, or after an open has unmasked it too early.
WorkIsExclusive ==
    \A p, q \in cpus, e \in Engines \ opened :
        p # q /\ WorksFor(p, e) /\ WorksFor(q, e) => shared

\* A DPC runs for source s.
Runs(s) == \E p \in cpus : dpc[p] # "idle" /\ at[p] \in DOMAIN Order /\ Order[at[p]] = s

\* A source with a vector of its own, as its code sees it.
Vector(s) == INSTANCE SourceInterrupt
    WITH up <- connected, request <- s \in src, enabled <- s \in en, queued <- s \in queued,
         busy <- Runs(s), broken <- shared \/ s \in opened

\* Each vector keeps to what XdmaTransfer, XdmaRing and XdmaUserEvent take for
\* granted of theirs: one DPC at a time, which enables what it was queued for.
ImplementsVectors ==
    /\ \A s \in Sources : Vector(s)!Init
    /\ [][\A s \in Sources : [Vector(s)!Next]_(Vector(s)!vars)]_vars

\* The work for engine e is about to find no request.
FindsNone(e) ==
    e \notin Streams \cup reqs /\ \E p \in cpus : dpc[p] = "begin" /\ Order[at[p]] = e

\* An engine that asks for service gets it and its status is cleared, unless
\* its work finds that no request is left; whatever the user interrupts do,
\* whose cause may never go away, and the engines without a request, which ask
\* again each time they are unmasked.  On a shared interrupt this needs a single
\* processor, or one DPC could take the mask from the other again and again.
EngineIsServed ==
    \A e \in Engines :
        e \in src ~> \/ e \notin src \/ FindsNone(e) \/ ~connected
                     \/ (shared /\ Cardinality(cpus) > 1)

\* interrupt.c:329 reports all interrupts disabled: outside D0 none is enabled.
DisabledMeansAll == ~connected => en = {}
==============================================================================
