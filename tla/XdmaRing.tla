------------------------------ MODULE XdmaRing -------------------------------
(***************************************************************************)
(* The card-to-host streaming engine of libxdma/dma_engine.c: the circular *)
(* list of descriptors and results, the hardware that fills it, the        *)
(* completion work (EngineProcessRing) run by the interrupt DPC or by the  *)
(* polling reader, the read handler that empties it, and the file handlers *)
(* of sys/file_io.c that set it up and tear it down.                       *)
(*                                                                         *)
(* The hardware, the DPC and the reader are three processes; every access  *)
(* to the shared ring that another process may come between is a step.     *)
(***************************************************************************)
EXTENDS Integers

CONSTANTS
    NumBlocks,      \* XDMA_RING_NUM_BLOCKS
    BlockSize,      \* XDMA_RING_BLOCK_SIZE, in units of data
    ReadLengths,    \* the read sizes applications use
    MaxBlocks,      \* bound: blocks the card ever fills
    MaxTries        \* the try limit of EnginePollRing (100000 in the code)

ASSUME RingAssumption ==
    /\ NumBlocks \in Nat /\ NumBlocks >= 2
    /\ BlockSize \in Nat /\ BlockSize >= 1
    /\ ReadLengths \subseteq Nat \ {0}
    /\ MaxBlocks \in Nat
    /\ MaxTries \in Nat \ {0}

VARIABLES
    poll,       \* engine->poll, fixed when the device starts
    handles,    \* open handles on the engine's c2h file
    run,        \* RUN bit of the engine's control register
    halted,     \* the engine stopped on an error
    credits,    \* sgdma->descCredits
    hw,         \* the descriptor the hardware uses next
    wb,         \* completedDescCount in the poll writeback buffer
    irqReq,     \* the engine requests its channel interrupt
    late,       \* descriptors it was at when it was stopped and is not done with
    irqEn,      \* its bit in channelIntEnable
    status,     \* results[i].status: "none" is 0, "eop" has the EOP bit
    length,     \* results[i].length
    block,      \* which block of the stream results[i].length is about, 0 for none
    ends,       \* whether that block ended a packet
    filled,     \* blocks the card has filled (bounded by MaxBlocks)
    head, tail, \* ring.head, ring.tail
    event,      \* ring.completionSignal
    dpcQueued,  \* the interrupt's DPC is queued
    proc,       \* where EngineProcessRing is
    scan,       \* its local tail
    eops,       \* its eopCount > 0
    rd,         \* where the read handler is
    rdLeft,     \* numBytesRemaining
    rdHead, rdTail, \* its local head and tail
    numDesc,    \* numDescProcessed
    tries,      \* tryCount of EnginePollRing
    taken,      \* the block copied to the application last
    outcome,    \* how the last read was completed, "none" while it runs
    disturbed   \* history: something the driver has no defence against (below)

hwVars   == <<run, halted, credits, hw, wb, irqReq, late>>
memVars  == <<status, length, block, ends, filled>>
procVars == <<dpcQueued, proc, scan, eops>>
rdVars   == <<rd, rdLeft, rdHead, rdTail, numDesc, tries, taken, outcome>>
vars == <<poll, disturbed, handles, hwVars, irqEn, memVars, head, tail, event, procVars, rdVars>>

Slots == 0 .. NumBlocks - 1

\* Mutant: the wrap-around is missed by one.
AdvancePastEnd(i) == IF i = NumBlocks THEN 0 ELSE i + 1

EngineRingAdvance(i) == IF i = NumBlocks - 1 THEN 0 ELSE i + 1

ProcStates == {"idle", "scan", "publish", "signal", "finish"}
RdStates == {"idle", "wait", "poll", "process", "snapshot", "copy", "check", "clear", "store"}

\* EngineCreateRingBuffer: zeroed results, head = tail = 0, the event clear.
Init ==
    /\ poll \in BOOLEAN
    /\ handles = 0
    /\ run = FALSE /\ halted = FALSE /\ credits = 0 /\ hw = 0 /\ wb = "zero"
    /\ irqReq = FALSE /\ irqEn = TRUE /\ late = {}
    /\ status = [i \in Slots |-> "none"]
    /\ length = [i \in Slots |-> 0]
    /\ block = [i \in Slots |-> 0]
    /\ ends = [i \in Slots |-> FALSE]
    /\ filled = 0
    /\ head = 0 /\ tail = 0 /\ event = FALSE
    /\ dpcQueued = FALSE /\ proc = "idle" /\ scan = 0 /\ eops = FALSE
    /\ rd = "idle" /\ rdLeft = 0 /\ rdHead = 0 /\ rdTail = 0 /\ numDesc = 0
    /\ tries = 0 /\ taken = 0 /\ outcome = "none"
    /\ disturbed = FALSE

-----------------------------------------------------------------------------
(* The hardware (external): modelled from the registers, descriptors and   *)
(* results the driver gives it and reads back.                             *)

\* The data and the result of descriptor i are written, and either the
\* writeback count or the interrupt request.
HwWrite(i, len, eop) ==
    /\ filled < MaxBlocks
    /\ filled' = filled + 1
    /\ block' = [block EXCEPT ![i] = filled + 1]
    /\ ends' = [ends EXCEPT ![i] = eop]
    /\ length' = [length EXCEPT ![i] = len]
    /\ status' = [status EXCEPT ![i] = IF eop THEN "eop" ELSE "more"]
    /\ wb' = IF poll THEN "count" ELSE wb
    /\ irqReq' = (irqReq \/ ~poll)

\* One descriptor done, for a credit.  The last points to the first.
HwFill(len, eop) ==
    /\ run /\ ~halted /\ credits > 0
    /\ credits' = credits - 1
    /\ hw' = EngineRingAdvance(hw)
    /\ HwWrite(hw, len, eop)
    /\ UNCHANGED <<poll, disturbed, handles, late, run, halted, irqEn, head, tail, event, procVars,
                   rdVars>>

\* What the engine was at when it was stopped is written after all: into a ring
\* that was cleared, or is in use again.
HwFillLate(i, len, eop) ==
    /\ i \in late
    /\ late' = late \ {i}
    /\ HwWrite(i, len, eop)
    /\ disturbed' = TRUE
    /\ UNCHANGED <<poll, handles, run, halted, credits, hw, irqEn, head, tail, event,
                   procVars, rdVars>>

\* The engine stops on an error and reports it.
HwFail ==
    /\ run /\ ~halted
    /\ halted' = TRUE
    /\ wb' = IF poll THEN "error" ELSE wb
    /\ irqReq' = (irqReq \/ ~poll)
    /\ UNCHANGED <<poll, disturbed, handles, late, run, credits, hw, irqEn, memVars, head, tail,
                   event, procVars, rdVars>>

-----------------------------------------------------------------------------
(* Opening and closing the file.                                           *)

Copying == rd \in {"copy", "check", "clear", "store"}
Scanning == proc \in {"scan", "publish"}

\* What the last use of the ring left in the engine, in the completion work and
\* in the reader that the next one would go on with.
LeftBehind ==
    \/ credits > 0 \/ late # {}
    \/ Scanning /\ scan # 0
    \/ Copying /\ (rdHead # 0 \/ rdTail # 0 \/ numDesc # 0)

\* Mutant: a credit for every descriptor, none held back.
CreditWholeRing ==
    /\ credits' = credits + NumBlocks
    /\ run' = TRUE
    /\ hw' = IF run THEN hw ELSE 0
    /\ halted' = (run /\ halted)

\* Mutant: the address of the first descriptor is not given to the engine again.
ResumeAtOldDescriptor ==
    /\ credits' = credits + NumBlocks - 1
    /\ run' = TRUE
    /\ hw' = hw
    /\ halted' = (run /\ halted)

\* EngineRingProgramDma's writes to the engine: credits are added to what is
\* there, and only a rising RUN bit makes the engine load the first descriptor.
EngineRingProgramDma ==
    /\ credits' = credits + NumBlocks - 1
    /\ run' = TRUE
    /\ hw' = IF run THEN hw ELSE 0
    /\ halted' = (run /\ halted)

\* EvtDeviceFileCreate for a streaming c2h node: EngineRingSetup, then the
\* channel interrupt is masked in poll mode and enabled otherwise.  It looks
\* neither at other handles (bound: two) nor at what the last use left behind.
EvtDeviceFileCreate ==
    /\ handles < 2
    /\ handles' = handles + 1
    /\ head' = 0 /\ tail' = 0 /\ event' = FALSE
    /\ EngineRingProgramDma
    /\ irqEn' = ~poll
    /\ disturbed' = (disturbed \/ handles > 0 \/ LeftBehind)
    /\ UNCHANGED <<poll, wb, irqReq, late, memVars, procVars, rdVars>>

\* Mutant: the results of the last use are kept.
KeepDmaResults == UNCHANGED <<status, length, block, ends>>

EngineClearDmaResults ==
    /\ status' = [i \in Slots |-> "none"]
    /\ length' = [i \in Slots |-> 0]
    /\ block' = [i \in Slots |-> 0]
    /\ ends' = [i \in Slots |-> FALSE]

\* EvtFileCleanup: EngineRingTeardown, also while a read is under way.
\* Stopping the engine ends its use of the credits it has left and raises its
\* idle-stopped interrupt, which poll mode does not switch off; nobody waits
\* for the descriptor it may be at.
EvtFileCleanup ==
    /\ handles > 0
    /\ handles' = handles - 1
    /\ run' = FALSE /\ credits' = 0
    /\ irqReq' = (irqReq \/ run)
    /\ \/ UNCHANGED late
       \/ run /\ ~halted /\ credits > 0 /\ late' = late \cup {hw}
    /\ EngineClearDmaResults
    /\ head' = 0 /\ tail' = 0
    /\ UNCHANGED <<poll, disturbed, halted, hw, wb, irqEn, filled, event, procVars, rdVars>>

-----------------------------------------------------------------------------
(* Completion work: the channel interrupt and EngineProcessRing.           *)

\* EvtChannelInterruptIsr: mask the channel, queue the DPC.  It comes while the
\* DPC runs only when an open has enabled the channel; two of them may then run
\* at a time, which is not followed any further.
EvtChannelInterruptIsr ==
    /\ irqReq /\ irqEn
    /\ irqEn' = FALSE
    /\ dpcQueued' = TRUE
    /\ disturbed' = (disturbed \/ proc # "idle")
    /\ UNCHANGED <<poll, handles, hwVars, memVars, head, tail, event, proc, scan, eops,
                   rdVars>>

\* EngineProcessRing up to its loop: the status register is read and cleared
\* (an error in it is never reported) and the tail is copied.
ProcessRingBegin ==
    /\ irqReq' = FALSE
    /\ scan' = tail
    /\ eops' = FALSE
    /\ proc' = "scan"

EvtChannelInterruptDpc ==
    /\ dpcQueued /\ proc = "idle"
    /\ dpcQueued' = FALSE
    /\ ProcessRingBegin
    /\ UNCHANGED <<poll, disturbed, handles, late, run, halted, credits, hw, wb, irqEn, memVars,
                   head, tail, event, rdVars>>

\* One turn of the loop: the result is marked processed.
ProcessRingScan ==
    /\ proc = "scan" /\ status[scan] # "none"
    /\ eops' = (eops \/ status[scan] = "eop")
    /\ status' = [status EXCEPT ![scan] = "none"]
    /\ scan' = EngineRingAdvance(scan)
    /\ UNCHANGED <<poll, disturbed, handles, hwVars, irqEn, length, block, ends, filled, head,
                   tail, event, dpcQueued, proc, rdVars>>

\* The loop ends at the first result the hardware has not written.
ProcessRingScanned ==
    /\ proc = "scan" /\ status[scan] = "none"
    /\ proc' = "publish"
    /\ UNCHANGED <<poll, disturbed, handles, hwVars, irqEn, memVars, head, tail, event, dpcQueued,
                   scan, eops, rdVars>>

ProcessRingPublish ==
    /\ proc = "publish"
    /\ tail' = scan
    /\ proc' = IF eops THEN "signal" ELSE "finish"
    /\ UNCHANGED <<poll, disturbed, handles, hwVars, irqEn, memVars, head, event, dpcQueued, scan,
                   eops, rdVars>>

ProcessRingSignal ==
    /\ proc = "signal"
    /\ event' = TRUE
    /\ proc' = "finish"
    /\ UNCHANGED <<poll, disturbed, handles, hwVars, irqEn, memVars, head, tail, dpcQueued, scan,
                   eops, rdVars>>

ProcessRingEnd == proc' = "idle" /\ scan' = 0 /\ eops' = FALSE

\* Mutant: the status register is cleared, and the request with it, after the
\* scan.
DpcFinishClears ==
    /\ proc = "finish" /\ ~poll
    /\ ProcessRingEnd
    /\ irqEn' = TRUE /\ irqReq' = FALSE
    /\ UNCHANGED <<poll, disturbed, handles, late, run, halted, credits, hw, wb, memVars, head,
                   tail, event, dpcQueued, rdVars>>

\* The DPC unmasks the channel.
DpcFinish ==
    /\ proc = "finish" /\ ~poll
    /\ ProcessRingEnd
    /\ irqEn' = TRUE
    /\ UNCHANGED <<poll, disturbed, handles, hwVars, memVars, head, tail, event, dpcQueued,
                   rdVars>>

-----------------------------------------------------------------------------
(* The read handler: EvtIoReadEngineRing, EngineRingCopyBytesToMemory and, *)
(* in poll mode, EnginePollRing.  The engine's queue is sequential.        *)

EvtIoReadEngineRing(n) ==
    /\ handles > 0 /\ rd = "idle"
    /\ rd' = IF poll THEN "poll" ELSE "wait"
    /\ rdLeft' = n
    /\ outcome' = "none"
    /\ UNCHANGED <<poll, disturbed, handles, hwVars, irqEn, memVars, head, tail, event, procVars,
                   rdHead, rdTail, numDesc, tries, taken>>

\* The request is completed and the handler's locals are gone.
CompleteRead(how) ==
    /\ rd' = "idle" /\ outcome' = how
    /\ rdLeft' = 0 /\ rdHead' = 0 /\ rdTail' = 0 /\ numDesc' = 0 /\ tries' = 0
    /\ UNCHANGED taken

WaitSignalled ==
    /\ rd = "wait" /\ event
    /\ rd' = "snapshot"
    /\ UNCHANGED <<poll, disturbed, handles, hwVars, irqEn, memVars, head, tail, event, procVars,
                   rdLeft, rdHead, rdTail, numDesc, tries, taken, outcome>>

\* Three seconds passed: the read is completed with STATUS_TIMEOUT and no data.
WaitTimeout ==
    /\ rd = "wait" /\ ~event
    /\ CompleteRead("timeout")
    /\ UNCHANGED <<poll, disturbed, handles, hwVars, irqEn, memVars, head, tail, event, procVars>>

\* Mutant: the tries are not counted.
PollOnAndOn(eop) ==
    /\ tries' = tries
    /\ rd' = IF eop THEN "snapshot" ELSE "poll"

\* The end of a turn of EnginePollRing's loop: out when a packet ended or the
\* tries are used up.
PollNext(eop) ==
    /\ tries' = tries + 1
    /\ rd' = IF eop \/ tries + 1 >= MaxTries THEN "snapshot" ELSE "poll"

PollError ==
    /\ rd = "poll" /\ wb = "error"
    /\ CompleteRead("error")
    /\ UNCHANGED <<poll, disturbed, handles, hwVars, irqEn, memVars, head, tail, event, procVars>>

PollNothing ==
    /\ rd = "poll" /\ wb = "zero"
    /\ PollNext(FALSE)
    /\ UNCHANGED <<poll, disturbed, handles, hwVars, irqEn, memVars, head, tail, event, procVars,
                   rdLeft, rdHead, rdTail, numDesc, taken, outcome>>

PollCompleted ==
    /\ rd = "poll" /\ wb = "count" /\ proc = "idle"
    /\ ProcessRingBegin
    /\ rd' = "process"
    /\ UNCHANGED <<poll, disturbed, handles, late, run, halted, credits, hw, wb, irqEn, memVars,
                   head, tail,
                   event, dpcQueued, rdLeft, rdHead, rdTail, numDesc, tries, taken, outcome>>

\* EngineProcessRing's last step in poll mode: the writeback buffer is zeroed.
PollFinish ==
    /\ proc = "finish" /\ poll
    /\ wb' = "zero"
    /\ ProcessRingEnd
    /\ PollNext(eops)
    /\ UNCHANGED <<poll, disturbed, handles, late, run, halted, credits, hw, irqReq, irqEn,
                   memVars, head, tail,
                   event, dpcQueued, rdLeft, rdHead, rdTail, numDesc, taken, outcome>>

Snapshot ==
    /\ rd = "snapshot"
    /\ rdHead' = head /\ rdTail' = tail
    /\ rd' = "copy"
    /\ UNCHANGED <<poll, disturbed, handles, hwVars, irqEn, memVars, head, tail, event, procVars,
                   rdLeft, numDesc, tries, taken, outcome>>

\* One block is copied, cut short when the buffer is smaller, and its result
\* cleared: what was cut off is gone.
CopyBlock ==
    /\ rd = "copy" /\ rdHead # rdTail /\ rdLeft > 0 /\ length[rdHead] > 0
    /\ rdLeft' = IF length[rdHead] > rdLeft THEN 0 ELSE rdLeft - length[rdHead]
    /\ taken' = block[rdHead]
    /\ length' = [length EXCEPT ![rdHead] = 0]
    /\ block' = [block EXCEPT ![rdHead] = 0]
    /\ ends' = [ends EXCEPT ![rdHead] = FALSE]
    /\ numDesc' = numDesc + 1
    /\ rdHead' = EngineRingAdvance(rdHead)
    /\ UNCHANGED <<poll, disturbed, handles, hwVars, irqEn, status, filled, head, tail, event,
                   procVars, rd, rdTail, tries, outcome>>

\* The loop ends; a block without length inside it also clears the event.
CopyDone ==
    /\ rd = "copy"
    /\ rdHead = rdTail \/ rdLeft = 0 \/ length[rdHead] = 0
    /\ event' = (event /\ (rdHead = rdTail \/ rdLeft = 0))
    /\ rd' = "check"
    /\ UNCHANGED <<poll, disturbed, handles, hwVars, irqEn, memVars, head, tail, procVars,
                   rdLeft, rdHead, rdTail, numDesc, tries, taken, outcome>>

\* "nothing at the head" is read here and acted on in the next step.
CheckHead ==
    /\ rd = "check"
    /\ rd' = IF length[rdHead] = 0 THEN "clear" ELSE "store"
    /\ UNCHANGED <<poll, disturbed, handles, hwVars, irqEn, memVars, head, tail, event, procVars,
                   rdLeft, rdHead, rdTail, numDesc, tries, taken, outcome>>

ClearEvent ==
    /\ rd = "clear"
    /\ event' = FALSE
    /\ rd' = "store"
    /\ UNCHANGED <<poll, disturbed, handles, hwVars, irqEn, memVars, head, tail, procVars,
                   rdLeft, rdHead, rdTail, numDesc, tries, taken, outcome>>

\* Publish the head, give the credits back, complete the read.
StoreHead ==
    /\ rd = "store"
    /\ head' = rdHead
    /\ credits' = credits + numDesc
    /\ CompleteRead(IF numDesc > 0 THEN "data" ELSE "empty")
    /\ UNCHANGED <<poll, disturbed, handles, late, run, halted, hw, wb, irqReq, irqEn, memVars,
                   tail, event, procVars>>

-----------------------------------------------------------------------------
ProcessRing ==
    \/ ProcessRingScan \/ ProcessRingScanned
    \/ ProcessRingPublish \/ ProcessRingSignal \/ DpcFinish

Reader ==
    \/ WaitSignalled \/ WaitTimeout
    \/ PollError \/ PollNothing \/ PollCompleted \/ PollFinish
    \/ Snapshot \/ CopyBlock \/ CopyDone \/ CheckHead \/ ClearEvent \/ StoreHead

Next ==
    \/ \E len \in 1 .. BlockSize, eop \in BOOLEAN :
           HwFill(len, eop) \/ \E i \in Slots : HwFillLate(i, len, eop)
    \/ HwFail
    \/ EvtDeviceFileCreate
    \/ EvtFileCleanup
    \/ EvtChannelInterruptIsr
    \/ EvtChannelInterruptDpc
    \/ ProcessRing
    \/ \E n \in ReadLengths : EvtIoReadEngineRing(n)
    \/ Reader

Spec == Init /\ [][Next]_vars

\* Interrupts are delivered, queued DPCs run, and a read that was started is
\* scheduled; the card and the applications owe nothing.
Fairness ==
    /\ WF_vars(EvtChannelInterruptIsr)
    /\ WF_vars(EvtChannelInterruptDpc)
    /\ WF_vars(ProcessRing)
    /\ WF_vars(Reader)

FairSpec == Spec /\ Fairness

-----------------------------------------------------------------------------
(* Properties.                                                             *)

\* Every variable keeps to its range.
FlagsOK ==
    /\ poll \in BOOLEAN /\ run \in BOOLEAN /\ halted \in BOOLEAN
    /\ irqReq \in BOOLEAN /\ irqEn \in BOOLEAN /\ event \in BOOLEAN
    /\ dpcQueued \in BOOLEAN /\ eops \in BOOLEAN
    /\ disturbed \in BOOLEAN

DataOK ==
    /\ handles \in 0 .. 2
    /\ credits \in Nat /\ hw \in Slots
    /\ wb \in {"zero", "count", "error"} /\ late \subseteq Slots
    /\ status \in [Slots -> {"none", "more", "eop"}]
    /\ length \in [Slots -> 0 .. BlockSize]
    /\ block \in [Slots -> Nat] /\ ends \in [Slots -> BOOLEAN] /\ filled \in Nat
    /\ head \in Slots /\ tail \in Slots
    /\ proc \in ProcStates /\ scan \in Slots
    /\ rd \in RdStates /\ rdLeft \in Nat
    /\ rdHead \in Slots /\ rdTail \in Slots /\ numDesc \in Nat
    /\ tries \in Nat /\ taken \in Nat
    /\ outcome \in {"none", "data", "empty", "timeout", "error"}

TypeOK == FlagsOK /\ DataOK

\* How many advances lead from slot a to slot b.
Dist(a, b) == IF a <= b THEN b - a ELSE b - a + NumBlocks

\* The slot the next copy takes, and the slot the next scan looks at.
ReadPos == IF Copying THEN rdHead ELSE head
ScanPos == IF Scanning THEN scan ELSE tail

Balanced == credits + Dist(head, hw) = NumBlocks - 1

\* While the engine runs, the credits it has left and the blocks the driver
\* has not given back always make up the ring less one: no credit is lost and
\* none is invented, whatever the reader and the completion work are doing,
\* through any number of closes and opens, until the ring is disturbed.
CreditBalance == run /\ ~disturbed => Balanced

\* A descriptor the hardware has credit for holds no unread data and no
\* unscanned result: the circular list never overwrites what the reader or
\* the completion work still needs.  A close may come at any step of either
\* and an open at any step that has nothing left behind; what the driver does
\* not survive is a result written after the clearing (dma_engine.c:774-776),
\* a second handle, or an open that finds something left behind
\* (sys/file_io.c:152-163).
NoOverrun == run /\ credits > 0 /\ ~disturbed => length[hw] = 0 /\ status[hw] = "none"

\* In interrupt mode a completed descriptor that nobody has scanned always has
\* an interrupt on its way: clearing the status register before the scan and
\* unmasking the channel after it leave no window in which one is missed, also
\* when a DPC of the last use runs on into the next.
NoSilentCompletion ==
    run /\ ~poll /\ ~disturbed /\ proc = "idle" /\ status[tail] # "none" =>
        dpcQueued \/ (irqReq /\ irqEn)

(* Why these hold: the five positions of the ring keep their order, and a   *)
(* result is marked exactly while it lies between its writer and its user. *)

\* Positions count from the published head, around the ring.
Ahead(i) == Dist(head, i)

PositionsOrdered ==
    /\ Copying => numDesc = Ahead(rdHead) /\ Ahead(rdHead) <= Ahead(rdTail)
                                          /\ Ahead(rdTail) <= Ahead(tail)
    /\ ~Copying => numDesc = 0
    /\ Ahead(tail) <= Ahead(ScanPos)
    /\ Ahead(ScanPos) <= Ahead(hw)

\* A length is set from the hardware's completion to the reader's copy, a
\* status to the scan.
ResultsMarked ==
    \A i \in Slots :
        /\ length[i] > 0 <=> Ahead(ReadPos) <= Ahead(i) /\ Ahead(i) < Ahead(hw)
        /\ status[i] # "none" <=> Ahead(ScanPos) <= Ahead(i) /\ Ahead(i) < Ahead(hw)

\* A closed ring is empty: what is left of the completion work and of the
\* reader finds nothing.
ClosedRingEmpty == \A i \in Slots : length[i] = 0 /\ status[i] = "none"

\* A masked channel has its DPC queued or running.
ChannelArmed == ~poll => irqEn \/ dpcQueued \/ proc # "idle"

\* What a finished scan has left behind has raised the request again.
RequestRaised == ~poll /\ run /\ proc # "scan" /\ status[ScanPos] # "none" => irqReq

\* In poll mode the reader itself runs the completion work: the channel stays
\* masked from the first open on, and before it the engine is silent.
PollerAlone ==
    poll => /\ ~dpcQueued
            /\ irqEn => ~run /\ ~irqReq
            /\ proc # "idle" <=> rd = "process"

RingOrdered ==
    /\ run => handles = 1 /\ Balanced /\ PositionsOrdered /\ ResultsMarked
    /\ ~run => handles = 0 /\ ClosedRingEmpty
    /\ ~Copying => numDesc = 0
    /\ RequestRaised

RingInv == TypeOK /\ ChannelArmed /\ PollerAlone /\ (~disturbed => RingOrdered)

\* The blocks between the reader and the hardware, oldest first.
Waiting ==
    IF run
    THEN [k \in 1 .. Dist(ReadPos, hw) |-> block[(ReadPos + k - 1) % NumBlocks]]
    ELSE << >>

Fifo == INSTANCE BlockFifo
    WITH Capacity <- NumBlocks - 1, fifo <- Waiting, made <- filled, taken <- taken,
         broken <- disturbed

\* The ring implements the bounded FIFO: blocks reach the reader once each, in
\* the order the card filled them, none skipped and none overwritten, across
\* wrap-around, the split between scanning and copying, closes at any step of
\* a read or of the completion work, and opens while a DPC of the last use is
\* queued or running, until the ring is disturbed.
ImplementsFifo == Fifo!Spec

\* The channel interrupt.
Interrupt == INSTANCE SourceInterrupt
    WITH up <- TRUE, request <- irqReq, enabled <- irqEn, queued <- dpcQueued,
         busy <- proc # "idle", broken <- poll \/ (irqEn /\ (dpcQueued \/ proc # "idle"))

\* It is the one that XdmaIrq delivers: one DPC at a time, and a channel that
\* is enabled when none is queued or running, through closes and opens.  Nothing
\* is said from an open that has enabled it too early until its DPC has run.
ImplementsInterrupt == Interrupt!Spec

\* A read that was started is completed: the wait is bounded by its timeout,
\* polling by its tries, and the loops by the credits.
ReadCompletes == rd # "idle" ~> rd = "idle"

\* Nothing of the completion work or the reader is under way or on its way.
AtRest ==
    /\ rd = "idle" /\ proc = "idle" /\ ~dpcQueued /\ ~irqReq
    /\ run /\ ~poll /\ ~halted /\ ~disturbed

\* dma_engine.c:663 says that the reader is started if any packets are
\* completed: a completed packet that waits in the ring has its event set.
PacketIsSignalled ==
    AtRest /\ (\E k \in 0 .. Dist(head, tail) - 1 : ends[(head + k) % NumBlocks]) => event

\* dma_engine.c:664 says that it is also started on an overflow: a ring without
\* a credit left has its event set.
OverflowIsSignalled == AtRest /\ credits = 0 => event
==============================================================================
