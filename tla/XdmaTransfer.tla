---------------------------- MODULE XdmaTransfer -----------------------------
(***************************************************************************)
(* A memory-mapped (or host-to-card) engine and its request queue: the     *)
(* queue callbacks of sys/file_io.c, the completion work                   *)
(* (EngineProcessTransfer) of libxdma/dma_engine.c run by the interrupt    *)
(* DPC or by the polling callback, and the engine with its descriptor      *)
(* buffer.                                                                 *)
(*                                                                         *)
(* The queue is sequential and created with WdfSynchronizationScopeQueue:  *)
(* its request and cancel callbacks exclude each other.  Nothing excludes  *)
(* the DPC, nor the engine, from running between any two of their steps.   *)
(***************************************************************************)
EXTENDS Naturals, Sequences

CONSTANTS
    NumRequests,\* bound: the requests applications make, numbered as they come
    Layouts,    \* how the framework may cut a request into transfers: the
                \* number of scatter-gather elements of each transfer
    DescCount,  \* descriptors the buffer of the engine has room for
    None        \* no descriptor

ASSUME TransferAssumption ==
    /\ NumRequests \in Nat
    /\ DescCount \in Nat \ {0}
    /\ Layouts \subseteq Seq(1 .. DescCount)
    /\ \A l \in Layouts : l # << >>

VARIABLES
    poll,       \* engine->poll, fixed when the device starts
    layout,     \* how each request will be cut
    req,        \* where each request is
    result,     \* how it was completed
    asked,      \* requests the application asked to cancel
    cancelable, \* requests marked with EvtCancelDma
    cancelling, \* the request claimed for EvtCancelDma, which is to be called
    cb,         \* where the queue callback (EvtIo*Dma or EvtCancelDma) is
    cbReq,      \* its request
    cbStatus,   \* its status
    txn,        \* engine->dmaTransaction: its request and the part under way
    desc,       \* engine->descBuffer
    numDescs,   \* engine->numDescriptors
    wb,         \* the poll writeback buffer
    run,        \* RUN bit of the control register
    active,     \* BUSY: descriptors are being fetched
    pos,        \* the next descriptor to fetch
    flight,     \* the descriptor whose data is on its way
    errors,     \* error bits in the status register
    irqReq,     \* the engine requests its interrupt
    irqEn,      \* its bit in channelIntEnable
    dpcQueued,  \* the DPC of that interrupt is queued
    proc,       \* where EngineProcessTransfer is
    procReq,    \* its request
    procStatus, \* the status it read, then the status it completes with
    bytes,      \* per request: the parts of it that are reported as transferred
    moved,      \* history: the elements whose data was moved
    repeated,   \* history: one of them was moved a second time
    cut,        \* history: requests the framework could not go on with
    disturbed,  \* history: see Disturb
    bugcheck    \* the framework stopped the system on a driver error

reqVars  == <<req, result, asked, cancelable, cancelling>>
cbVars   == <<cb, cbReq, cbStatus>>
hwVars   == <<run, active, pos, flight, errors, irqReq>>
memVars  == <<desc, numDescs, wb>>
procVars == <<proc, procReq, procStatus, bytes>>
ghosts   == <<moved, repeated, cut, disturbed, bugcheck>>
setup    == <<poll, layout>>
card     == <<memVars, hwVars>>
intVars  == <<irqEn, dpcQueued>>
vars == <<setup, reqVars, cbVars, txn, card, intVars, procVars, ghosts>>

Requests == 1 .. NumRequests
NoReq == 0

Indices == 0 .. DescCount - 1
Descriptors == [req : Requests, part : Nat, index : Nat, last : BOOLEAN]
Zeroed  == [i \in Indices |-> None]
NoTxn   == [req |-> NoReq, part |-> 0]
NoWb    == [count |-> 0, err |-> FALSE]

\* The device is started and a file on the engine is open.
Init ==
    /\ poll \in BOOLEAN
    /\ layout \in [Requests -> Layouts]
    /\ req = [r \in Requests |-> "new"]
    /\ result = [r \in Requests |-> "none"]
    /\ asked = {} /\ cancelable = {} /\ cancelling = NoReq
    /\ cb = "idle" /\ cbReq = NoReq /\ cbStatus = "none"
    /\ txn = NoTxn
    /\ desc = Zeroed /\ numDescs = 0 /\ wb = NoWb
    /\ run = FALSE /\ active = FALSE /\ pos = 0 /\ flight = None
    /\ errors = FALSE /\ irqReq = FALSE
    /\ irqEn = ~poll /\ dpcQueued = FALSE
    /\ proc = "idle" /\ procReq = NoReq /\ procStatus = "none" /\ bytes = [r \in Requests |-> 0]
    /\ moved = {} /\ repeated = FALSE /\ cut = {} /\ disturbed = FALSE /\ bugcheck = "none"

\* What the driver has no defence against: completing a request that a
\* cancellation has or had, an interrupt that outlives its request, writeback
\* data that does, and an interrupt unmasked before its DPC is done.
Disturb(b) == disturbed' = (disturbed \/ b)

\* Completing a request twice, or while it is cancelable, breaks the rules of
\* the framework: its verifier stops the system, and the model stops there.
Complete(r, how) ==
    IF req[r] = "done"
    THEN bugcheck' = "completedTwice" /\ UNCHANGED <<req, result>>
    ELSE IF r \in cancelable
         THEN bugcheck' = "completedCancelable" /\ UNCHANGED <<req, result>>
         ELSE /\ req' = [req EXCEPT ![r] = "done"]
              /\ result' = [result EXCEPT ![r] = how]
              /\ UNCHANGED bugcheck

-----------------------------------------------------------------------------
(* The engine (external), as its registers, descriptors and writeback are  *)
(* used by the driver.                                                     *)

\* An interrupt, or the writeback that replaces it in poll mode.
Report(count, err) ==
    IF poll THEN wb' = [count |-> count, err |-> err] /\ UNCHANGED irqReq
            ELSE irqReq' = TRUE /\ UNCHANGED wb

\* A descriptor is fetched; one without its magic number stops the engine.
HwFetch ==
    /\ active /\ run /\ flight = None /\ pos \in Indices /\ desc[pos] # None
    /\ flight' = desc[pos]
    /\ pos' = pos + 1
    /\ UNCHANGED <<setup, reqVars, cbVars, txn, memVars, run, active, errors, irqReq, intVars,
                   procVars, ghosts>>

\* The engine stops on an error: a wiped descriptor, or any other.
HwError ==
    /\ active /\ run
    /\ active' = FALSE /\ flight' = None /\ errors' = TRUE
    /\ Report(pos, TRUE)
    /\ UNCHANGED <<setup, reqVars, cbVars, txn, desc, numDescs, run, pos, intVars, procVars,
                   ghosts>>

\* The data of a descriptor is moved.  The last one stops and reports; a stop
\* by the driver takes effect here.
HwMove ==
    /\ flight # None
    /\ moved' = moved \cup {<<flight.req, flight.part, flight.index>>}
    /\ repeated' = (repeated \/ <<flight.req, flight.part, flight.index>> \in moved)
    /\ flight' = None
    /\ active' = (active /\ run /\ ~flight.last)
    /\ IF flight.last \/ poll THEN Report(pos, FALSE) ELSE UNCHANGED <<irqReq, wb>>
    /\ Disturb(flight.last /\ ~run)
    /\ UNCHANGED <<setup, reqVars, cbVars, txn, desc, numDescs, run, pos, errors, intVars, procVars,
                   cut, bugcheck>>

\* A stopped engine with nothing in flight is idle.
HwIdle ==
    /\ active /\ ~run /\ flight = None
    /\ active' = FALSE
    /\ UNCHANGED <<setup, reqVars, cbVars, txn, memVars, run, pos, flight, errors, irqReq, intVars,
                   procVars, ghosts>>

\* Setting RUN clears the status; a descriptor still in flight from before is
\* finished without being reported.
EngineStart ==
    /\ run' = TRUE
    /\ IF run
       THEN UNCHANGED <<active, pos, flight, errors, irqReq>>
       ELSE /\ active' = TRUE /\ pos' = 0
            /\ flight' = IF flight = None THEN None ELSE [flight EXCEPT !.last = FALSE]
            /\ errors' = FALSE /\ irqReq' = FALSE

EngineStop == run' = FALSE /\ UNCHANGED <<active, pos, flight, errors, irqReq>>

\* Mutant: one descriptor too many is counted.
CountOneMore(r, p) ==
    LET n == layout[r][p]
    IN  /\ desc' = [i \in Indices |->
                      IF i < n THEN [req |-> r, part |-> p, index |-> i, last |-> i + 1 = n]
                               ELSE desc[i]]
        /\ numDescs' = IF poll THEN n + 1 ELSE numDescs
        /\ txn' = [req |-> r, part |-> p]

\* XDMA_EngineProgramDma up to the start: part p of request r.
EngineProgramDma(r, p) ==
    LET n == layout[r][p]
    IN  /\ desc' = [i \in Indices |->
                      IF i < n THEN [req |-> r, part |-> p, index |-> i, last |-> i + 1 = n]
                               ELSE desc[i]]
        /\ numDescs' = IF poll THEN n ELSE numDescs
        /\ txn' = [req |-> r, part |-> p]

-----------------------------------------------------------------------------
(* Applications, and what the framework does for them.                     *)

Submit(r) ==
    /\ req[r] = "new" /\ \A s \in 1 .. r - 1 : req[s] # "new"
    /\ req' = [req EXCEPT ![r] = "queued"]
    /\ UNCHANGED <<setup, result, asked, cancelable, cancelling, cbVars, txn, card, intVars,
                   procVars, ghosts>>

\* A request still in the queue is completed by the framework.
CancelQueued(r) ==
    /\ req[r] = "queued"
    /\ req' = [req EXCEPT ![r] = "done"]
    /\ result' = [result EXCEPT ![r] = "cancelled"]
    /\ UNCHANGED <<setup, asked, cancelable, cancelling, cbVars, txn, card, intVars, procVars,
                   ghosts>>

\* A delivered one is claimed for its cancel callback if it has one by now.
CancelDelivered(r) ==
    /\ req[r] = "owned" /\ r \notin asked
    /\ asked' = asked \cup {r}
    /\ cancelable' = cancelable \ {r}
    /\ cancelling' = IF r \in cancelable THEN r ELSE cancelling
    /\ UNCHANGED <<setup, req, result, cbVars, txn, card, intVars, procVars, ghosts>>

\* Another file is opened on the engine: its interrupt is enabled, even while
\* the ISR has masked it for a DPC.
EvtDeviceFileCreate ==
    /\ irqEn' = ~poll
    /\ Disturb(irqEn # irqEn')
    /\ UNCHANGED <<setup, reqVars, cbVars, txn, card, dpcQueued, procVars, moved, repeated, cut, bugcheck>>

-----------------------------------------------------------------------------
(* EvtIoWriteDma and EvtIoReadDma.                                         *)

\* The sequential queue delivers a request when all before it are completed.
EvtIoDma(r) ==
    /\ cb = "idle" /\ req[r] = "queued"
    /\ \A s \in 1 .. r - 1 : req[s] = "done"
    /\ req' = [req EXCEPT ![r] = "owned"]
    /\ cb' = "initialize" /\ cbReq' = r
    /\ UNCHANGED <<setup, result, asked, cancelable, cancelling, cbStatus, txn, card, intVars,
                   procVars, ghosts>>

Fail(how) == cb' = "release" /\ cbStatus' = how

\* WdfDmaTransactionInitializeUsingRequest: a transaction in use is refused.
Initialize ==
    /\ cb = "initialize" /\ txn = NoTxn
    /\ txn' = [req |-> cbReq, part |-> 0]
    /\ cb' = "mark"
    /\ UNCHANGED <<setup, reqVars, cbReq, cbStatus, card, intVars, procVars, ghosts>>

\* Short of resources, any of the framework's calls may fail.
InitializeFails ==
    /\ cb = "initialize"
    /\ Fail("error")
    /\ UNCHANGED <<setup, reqVars, cbReq, txn, card, intVars, procVars, ghosts>>

\* WdfRequestMarkCancelableEx fails on a request that was cancelled already.
MarkCancelable ==
    /\ cb = "mark"
    /\ IF cbReq \in asked
       THEN Fail("cancelled") /\ UNCHANGED cancelable
       ELSE cb' = "execute" /\ cancelable' = cancelable \cup {cbReq} /\ UNCHANGED cbStatus
    /\ UNCHANGED <<setup, req, result, asked, cancelling, cbReq, txn, card, intVars, procVars,
                   ghosts>>

\* WdfDmaTransactionExecute calls XDMA_EngineProgramDma for the first part.
Execute ==
    /\ cb = "execute" /\ txn = [req |-> cbReq, part |-> 0]
    /\ EngineProgramDma(cbReq, 1)
    /\ cb' = "start"
    /\ UNCHANGED <<setup, reqVars, cbReq, cbStatus, wb, hwVars, intVars, procVars, ghosts>>

ExecuteFails ==
    /\ cb = "execute"
    /\ Fail("error")
    /\ UNCHANGED <<setup, reqVars, cbReq, txn, card, intVars, procVars, ghosts>>

StartFirst ==
    /\ cb = "start"
    /\ EngineStart
    /\ cb' = IF poll THEN "poll" ELSE "idle"
    /\ cbReq' = IF poll THEN cbReq ELSE NoReq
    /\ UNCHANGED <<setup, reqVars, cbStatus, txn, memVars, intVars, procVars, ghosts>>

\* EnginePollTransfer returns an error, and the callback returns.
PollError ==
    /\ cb = "poll" /\ wb.err
    /\ cb' = "idle" /\ cbReq' = NoReq
    /\ UNCHANGED <<setup, reqVars, cbStatus, txn, card, intVars, procVars, ghosts>>

\* Mutant: the loop gives up when nothing is done yet.
PollGivesUp ==
    /\ cb = "poll" /\ ~wb.err /\ wb.count # numDescs
    /\ cb' = "idle" /\ cbReq' = NoReq
    /\ UNCHANGED <<setup, reqVars, cbStatus, txn, card, intVars, procVars, ghosts>>

\* Its loop ends when as many descriptors are done as the last part has.
PollDone ==
    /\ cb = "poll" /\ ~wb.err /\ wb.count = numDescs
    /\ cb' = "process"
    /\ proc' = "get"
    /\ UNCHANGED <<setup, reqVars, cbReq, cbStatus, txn, card, intVars, procReq, procStatus,
                   bytes, ghosts>>

\* ErrExit and the end of EvtCancelDma: WdfDmaTransactionRelease, whatever the
\* transaction holds, then WdfRequestComplete.
ReleaseFailed ==
    /\ cb = "release"
    /\ txn' = NoTxn
    /\ cb' = "complete"
    /\ UNCHANGED <<setup, reqVars, cbReq, cbStatus, card, intVars, procVars, ghosts>>

CompleteFailed ==
    /\ cb = "complete"
    /\ Complete(cbReq, cbStatus)
    /\ Disturb(cbReq = cancelling)
    /\ cb' = "idle" /\ cbReq' = NoReq /\ cbStatus' = "none"
    /\ UNCHANGED <<setup, asked, cancelable, cancelling, txn, card, intVars, procVars, moved,
                   repeated, cut>>

\* EvtCancelDma: the engine is told to stop and not waited for.  It has no way
\* to know of a completion that is reported or being processed.
EvtCancelDma ==
    /\ cb = "idle" /\ cancelling # NoReq
    /\ EngineStop
    /\ cb' = "release" /\ cbReq' = cancelling /\ cbStatus' = "cancelled"
    /\ cancelling' = NoReq
    /\ Disturb(poll \/ irqReq \/ dpcQueued \/ proc \notin {"idle", "zero", "finish"})
    /\ UNCHANGED <<setup, req, result, asked, cancelable, txn, memVars, intVars, procVars, moved,
                   repeated, cut, bugcheck>>

-----------------------------------------------------------------------------
(* The interrupt and EngineProcessTransfer.                                *)

EvtChannelInterruptIsr ==
    /\ irqReq /\ irqEn
    /\ irqEn' = FALSE /\ dpcQueued' = TRUE
    /\ UNCHANGED <<setup, reqVars, cbVars, txn, card, procVars, ghosts>>

EvtChannelInterruptDpc ==
    /\ dpcQueued /\ proc = "idle"
    /\ dpcQueued' = FALSE
    /\ proc' = "get"
    /\ UNCHANGED <<setup, reqVars, cbVars, txn, card, irqEn, procReq, procStatus, bytes, ghosts>>

\* Without a request the work is over, its status register still uncleared.
GetRequest ==
    /\ proc = "get"
    /\ procReq' = txn.req
    /\ proc' = IF txn.req = NoReq THEN "finish" ELSE "status"
    /\ UNCHANGED <<setup, reqVars, cbVars, txn, card, intVars, procStatus, bytes, ghosts>>

\* Mutant: the register that is read does not clear on read.
ReadStatusKept ==
    /\ proc = "status"
    /\ procStatus' = IF active \/ errors THEN "error" ELSE "ok"
    /\ proc' = "stop"
    /\ UNCHANGED <<setup, reqVars, cbVars, txn, card, intVars, procReq, bytes, ghosts>>

\* The status is read and cleared; busy counts as an error.
ReadStatus ==
    /\ proc = "status"
    /\ procStatus' = IF active \/ errors THEN "error" ELSE "ok"
    /\ errors' = FALSE /\ irqReq' = FALSE
    /\ proc' = "stop"
    /\ UNCHANGED <<setup, reqVars, cbVars, txn, memVars, run, active, pos, flight, intVars, procReq,
                   bytes, ghosts>>

StopEngine ==
    /\ proc = "stop"
    /\ EngineStop
    /\ proc' = IF procStatus = "ok" THEN "completed" ELSE "unmark"
    /\ UNCHANGED <<setup, reqVars, cbVars, txn, memVars, intVars, procReq, procStatus, bytes, ghosts>>

\* What WdfDmaTransactionGetBytesTransferred counts: the parts that are done.
CountBytes == bytes' = [bytes EXCEPT ![procReq] = txn.part]

\* Mutant: the first part counts as the last.
DmaCompletedAny ==
    /\ proc = "completed" /\ txn.part > 0
    /\ CountBytes
    /\ proc' = "unmark"
    /\ UNCHANGED <<setup, reqVars, cbVars, txn, card, intVars, procReq, procStatus, ghosts>>

\* WdfDmaTransactionDmaCompleted: after the last part the transaction is
\* complete, before it the next one is programmed and started.  It must not be
\* called on a transaction that was not executed.
DmaCompletedLast ==
    /\ proc = "completed" /\ txn.part > 0 /\ txn.part = Len(layout[txn.req])
    /\ CountBytes
    /\ proc' = "unmark"
    /\ UNCHANGED <<setup, reqVars, cbVars, txn, card, intVars, procReq, procStatus, ghosts>>

DmaCompletedNext ==
    /\ proc = "completed" /\ txn.part > 0 /\ txn.part < Len(layout[txn.req])
    /\ EngineProgramDma(txn.req, txn.part + 1)
    /\ proc' = "start"
    /\ UNCHANGED <<setup, reqVars, cbVars, wb, hwVars, intVars, procReq, procStatus, bytes, ghosts>>

\* When it cannot go on it ends the transaction too, with an error status that
\* the next two calls overwrite: the request will end well.
DmaCompletedFails ==
    /\ proc = "completed" /\ txn.part > 0 /\ txn.part < Len(layout[txn.req])
    /\ cut' = cut \cup {procReq}
    /\ CountBytes
    /\ proc' = "unmark"
    /\ UNCHANGED <<setup, reqVars, cbVars, txn, card, intVars, procReq, procStatus,
                   moved, repeated, disturbed, bugcheck>>

DmaCompletedMisused ==
    /\ proc = "completed" /\ txn.part = 0
    /\ bugcheck' = "notTransferring"
    /\ UNCHANGED <<setup, reqVars, cbVars, txn, card, intVars, procVars, moved,
                   repeated, cut, disturbed>>

StartNext ==
    /\ proc = "start"
    /\ EngineStart
    /\ proc' = "zero"
    /\ UNCHANGED <<setup, reqVars, cbVars, txn, memVars, intVars, procReq, procStatus, bytes, ghosts>>

\* That the request can no longer be unmarked is traced and ignored.
UnmarkCancelable ==
    /\ proc = "unmark"
    /\ cancelable' = cancelable \ {procReq}
    /\ Disturb(procReq \notin cancelable)
    /\ proc' = "release"
    /\ UNCHANGED <<setup, req, result, asked, cancelling, cbVars, txn, card, intVars, procReq,
                   procStatus, bytes, moved, repeated, cut, bugcheck>>

ReleaseTransaction ==
    /\ proc = "release"
    /\ txn' = NoTxn
    /\ proc' = "complete"
    /\ UNCHANGED <<setup, reqVars, cbVars, card, intVars, procReq, procStatus, bytes, ghosts>>

CompleteRequest ==
    /\ proc = "complete"
    /\ Complete(procReq, procStatus)
    /\ proc' = "zero"
    /\ UNCHANGED <<setup, asked, cancelable, cancelling, cbVars, txn, card, intVars, procReq,
                   procStatus, bytes, moved, repeated, cut, disturbed>>

\* Mutant: the status register is cleared along with the buffers.
ClearBuffersAndStatus ==
    /\ proc = "zero"
    /\ desc' = Zeroed
    /\ wb' = IF poll THEN NoWb ELSE wb
    /\ irqReq' = FALSE
    /\ proc' = "finish"
    /\ UNCHANGED <<setup, reqVars, cbVars, txn, numDescs, run, active, pos, flight, errors,
                   intVars, procReq, procStatus, bytes, ghosts>>

\* The descriptor buffer is cleared, whoever has programmed it by now.
ClearBuffers ==
    /\ proc = "zero"
    /\ desc' = Zeroed
    /\ wb' = IF poll THEN NoWb ELSE wb
    /\ proc' = "finish"
    /\ UNCHANGED <<setup, reqVars, cbVars, txn, numDescs, hwVars, intVars, procReq, procStatus,
                   bytes, ghosts>>

\* Mutant: the interrupt stays masked.
FinishMasked ==
    /\ proc = "finish"
    /\ proc' = "idle" /\ procReq' = NoReq /\ procStatus' = "none"
    /\ cb' = IF poll THEN "idle" ELSE cb
    /\ cbReq' = IF poll THEN NoReq ELSE cbReq
    /\ UNCHANGED <<setup, reqVars, cbStatus, txn, card, intVars, bytes, ghosts>>

\* The DPC unmasks the interrupt; in poll mode the callback returns.
Finish ==
    /\ proc = "finish"
    /\ proc' = "idle" /\ procReq' = NoReq /\ procStatus' = "none"
    /\ irqEn' = (irqEn \/ ~poll)
    /\ cb' = IF poll THEN "idle" ELSE cb
    /\ cbReq' = IF poll THEN NoReq ELSE cbReq
    /\ UNCHANGED <<setup, reqVars, cbStatus, txn, card, dpcQueued, bytes, ghosts>>

-----------------------------------------------------------------------------
Hardware == HwFetch \/ HwError \/ HwMove \/ HwIdle

Callback ==
    \/ \E r \in Requests : EvtIoDma(r)
    \/ Initialize \/ InitializeFails \/ MarkCancelable \/ Execute \/ ExecuteFails
    \/ StartFirst \/ PollError \/ PollDone
    \/ EvtCancelDma \/ ReleaseFailed \/ CompleteFailed

ProcessTransfer ==
    \/ GetRequest \/ ReadStatus \/ StopEngine
    \/ DmaCompletedLast \/ DmaCompletedNext \/ DmaCompletedFails \/ DmaCompletedMisused
    \/ StartNext
    \/ UnmarkCancelable \/ ReleaseTransaction \/ CompleteRequest
    \/ ClearBuffers \/ Finish

Next ==
    /\ bugcheck = "none"
    /\ \/ Hardware
       \/ \E r \in Requests : Submit(r) \/ CancelQueued(r) \/ CancelDelivered(r)
       \/ EvtDeviceFileCreate
       \/ Callback
       \/ EvtChannelInterruptIsr
       \/ EvtChannelInterruptDpc
       \/ ProcessTransfer

Spec == Init /\ [][Next]_vars

\* The engine makes progress, interrupts are delivered, DPCs and callbacks run.
Fairness ==
    /\ WF_vars(bugcheck = "none" /\ Hardware)
    /\ WF_vars(bugcheck = "none" /\ EvtChannelInterruptIsr)
    /\ WF_vars(bugcheck = "none" /\ EvtChannelInterruptDpc)
    /\ WF_vars(bugcheck = "none" /\ Callback)
    /\ WF_vars(bugcheck = "none" /\ ProcessTransfer)

FairSpec == Spec /\ Fairness

-----------------------------------------------------------------------------
(* Properties.                                                             *)

\* Every variable keeps to its range.
TypeOK ==
    /\ poll \in BOOLEAN
    /\ layout \in [Requests -> Layouts]
    /\ req \in [Requests -> {"new", "queued", "owned", "done"}]
    /\ result \in [Requests -> {"none", "ok", "error", "cancelled"}]
    /\ asked \subseteq Requests /\ cancelable \subseteq Requests
    /\ cancelling \in Requests \cup {NoReq}
    /\ cb \in {"idle", "initialize", "mark", "execute", "start", "poll", "process",
               "release", "complete"}
    /\ cbReq \in Requests \cup {NoReq} /\ cbStatus \in {"none", "error", "cancelled"}
    /\ txn.req \in Requests \cup {NoReq} /\ txn.part \in Nat
    /\ desc \in [Indices -> Descriptors \cup {None}] /\ numDescs \in 0 .. DescCount
    /\ wb.count \in 0 .. DescCount /\ wb.err \in BOOLEAN
    /\ run \in BOOLEAN /\ active \in BOOLEAN /\ pos \in 0 .. DescCount
    /\ flight \in Descriptors \cup {None}
    /\ errors \in BOOLEAN /\ irqReq \in BOOLEAN /\ irqEn \in BOOLEAN
    /\ dpcQueued \in BOOLEAN
    /\ proc \in {"idle", "get", "status", "stop", "completed", "start", "unmark", "release",
                 "complete", "zero", "finish"}
    /\ procReq \in Requests \cup {NoReq} /\ procStatus \in {"none", "ok", "error"}
    /\ bytes \in [Requests -> Nat]
    /\ moved \subseteq Requests \X Nat \X Nat /\ repeated \in BOOLEAN
    /\ cut \subseteq Requests /\ disturbed \in BOOLEAN
    /\ bugcheck \in {"none", "completedTwice", "completedCancelable", "notTransferring"}

Elements(r) == UNION {{<<r, p, i>> : i \in 0 .. layout[r][p] - 1} : p \in 1 .. Len(layout[r])}

\* What a request that is completed with success reports as transferred.
Reported(r) == {x \in Elements(r) : x[2] <= bytes[r]}

\* A request that is completed with success reports no element that was not
\* moved, and every element of every part of it unless the framework has cut
\* it short, although the status register cannot tell a transfer that ended
\* from one that never started, and the descriptors are wiped while the next
\* part or the next request may be using them.
SuccessIsComplete ==
    \A r \in Requests :
        result[r] = "ok" /\ ~disturbed =>
            Reported(r) \subseteq moved /\ (r \in cut \/ Reported(r) = Elements(r))

\* dma_engine.c:140 takes the status of WdfDmaTransactionDmaCompleted: a request
\* that the framework has cut short does not end well.
CutIsNoSuccess == \A r \in cut : result[r] = "ok" => disturbed

\* No request is completed twice and no transaction advanced that is not under
\* way.  (A request whose Execute fails is completed while it is cancelable.)
NoBugcheck == bugcheck \in {"completedTwice", "notTransferring"} => disturbed

\* The engine moves no data for a request that was completed, except what a
\* cancellation, which does not wait for the engine, leaves in flight.
NoTransferAfterEnd ==
    flight # None /\ req[flight.req] = "done" /\ ~disturbed => result[flight.req] = "cancelled"

\* In interrupt mode a transfer that has stopped has its interrupt on the way:
\* nothing but completion work that is still to read the status clears it.
StoppedIsReported ==
    /\ ~poll /\ run /\ ~active /\ ~disturbed /\ bugcheck = "none"
    /\ proc \in {"idle", "start", "unmark", "release", "complete", "zero", "finish"}
    => irqReq

\* In poll mode a callback returns without completing its request only after a
\* writeback error or with a split transfer, whose next part nobody polls.
OrphansExplained ==
    \A r \in Requests :
        poll /\ cb = "idle" /\ req[r] = "owned" /\ ~disturbed /\ bugcheck = "none" =>
            wb.err \/ Len(layout[r]) > 1

\* The queue that the applications see.
Queue == INSTANCE DmaQueue
    WITH queue <- [r \in Requests |-> "engine"], list <- [r \in Requests |-> Elements(r)],
         told <- [r \in Requests |-> IF result[r] = "ok" THEN Reported(r) ELSE {}],
         data <- moved, again <- repeated, broken <- disturbed

\* Requests are served one at a time in the order they were made; each element
\* of a request is moved once and in order, across its parts, the wiping of the
\* descriptors and whatever a cancellation left in flight; what a success
\* reports was moved, all of it unless the framework cut the request short.
\* No request is completed twice.
ImplementsQueue == Queue!Spec

\* In interrupt mode every request is completed in the end: by its transfer,
\* by an error of the engine or the framework, or by its cancellation.
RequestEnds ==
    \A r \in Requests :
        req[r] = "queued" ~> req[r] = "done" \/ poll \/ disturbed \/ bugcheck # "none"

\* file_io.c:578 says that EnginePollTransfer cleans up and completes the
\* request on error: when the callback has returned, none is left.
PollErrorCompletes ==
    poll /\ wb.err /\ cb = "idle" => \A r \in Requests : req[r] # "owned"

\* dma_engine.c:427 provides for a transaction that is split: the part that
\* was started has its descriptors until the engine has fetched them.
SplitKeepsDescriptors ==
    active /\ run /\ txn.part > 1 /\ flight = None => desc[pos] # None

\* The channel interrupt of the engine.
Interrupt == INSTANCE SourceInterrupt
    WITH up <- TRUE, request <- irqReq, enabled <- irqEn, queued <- dpcQueued,
         busy <- proc # "idle", broken <- poll \/ disturbed

\* It is the one that XdmaIrq delivers: the completion work runs once for what
\* the service routine has masked.
ImplementsInterrupt == Interrupt!Spec
==============================================================================
