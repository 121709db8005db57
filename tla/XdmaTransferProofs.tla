-------------------------- MODULE XdmaTransferProofs --------------------------
(***************************************************************************)
(* Theorems about transfers on a memory-mapped or host-to-card engine, for *)
(* every number of requests, every way the framework may cut them into     *)
(* transfers and every size of the descriptor buffer.                      *)
(*                                                                         *)
(* What is proved of an undisturbed system rests on the invariant Calm,    *)
(* which says of each place of the callback, of the completion work and of *)
(* the engine what the others can be doing at that time.                   *)
(***************************************************************************)
EXTENDS XdmaTransfer, SequenceTheorems, TLAPS

\* A transaction has a request when it has a part, and both handlers one
\* while they are at work.
Places ==
    /\ txn \in [req : Requests \cup {NoReq}, part : Nat]
    /\ txn.req = NoReq => txn.part = 0
    /\ txn.part > 0 => txn.part <= Len(layout[txn.req])
    /\ cb # "idle" => cbReq \in Requests
    /\ proc \in {"status", "stop", "completed", "start", "unmark", "release", "complete"} =>
           procReq \in Requests

\* The sequential queue: the driver has one request at a time, whose result is
\* open.
OneOwned ==
    \A r \in Requests :
        /\ req[r] = "owned" => \A s \in 1 .. r - 1 : req[s] = "done"
        /\ result[r] # "none" => req[r] = "done"

\* A request that was asked to be cancelled is claimed or can be no more.
ClaimedOnce == asked \cap cancelable = {}

-----------------------------------------------------------------------------
PartElements(r, p) == {<<r, p, i>> : i \in 0 .. layout[r][p] - 1}
PartMoved(r, p) == PartElements(r, p) \subseteq moved

\* Request r may end with success: what it reports is moved, and it is all of it
\* or the framework has cut it short.
Faithful(r) == Reported(r) \subseteq moved /\ (r \in cut \/ Reported(r) = Elements(r))

Size == layout[txn.req][txn.part]
Descriptor(i) == [req |-> txn.req, part |-> txn.part, index |-> i, last |-> i + 1 = Size]

\* In interrupt mode the engine is masked from the service routine to the end
\* of its DPC; polled, it never interrupts.
Masked ==
    IF poll THEN ~irqEn /\ ~dpcQueued /\ ~irqReq
            ELSE /\ irqEn <=> ~dpcQueued /\ proc = "idle"
                 /\ dpcQueued => proc = "idle"

\* Whose the transaction is while the callback is at each place.
CallbackPlace ==
    /\ txn.req # NoReq => req[txn.req] = "owned"
    /\ cb = "idle" => cbReq = NoReq
    /\ cb \notin {"idle", "process"} => req[cbReq] = "owned"
    /\ cb = "initialize" => txn = NoTxn
    /\ cb \in {"mark", "execute"} => txn = [req |-> cbReq, part |-> 0]
    /\ cb \in {"start", "poll"} => txn = [req |-> cbReq, part |-> 1]
    /\ cb = "release" => txn.req \in {NoReq, cbReq}
    /\ cb = "complete" => txn = NoTxn
    /\ cb \in {"poll", "process"} => poll
    /\ cb = "process" => proc # "idle"

\* Whose it is while completion work is under way, and where the callback is.
ProcPlace ==
    /\ poll /\ proc # "idle" => cb = "process"
    /\ proc \notin {"idle", "zero", "finish"} => cb \in {"idle", "process"}
    /\ proc \in {"get", "status", "stop", "completed", "start", "unmark", "release"} =>
           txn.req # NoReq /\ txn.part > 0
    /\ proc \in {"status", "stop", "completed", "start", "unmark", "release"} =>
           procReq = txn.req
    /\ proc = "complete" => txn = NoTxn /\ req[procReq] = "owned"

\* Cancellation: only who was delivered can be asked to cancel, who is claimed
\* is still owned, who is unmarked is not claimed.
ClaimPlace ==
    /\ \A r \in asked \cup cancelable : req[r] \in {"owned", "done"}
    /\ cancelling # NoReq => cancelling \in asked /\ req[cancelling] = "owned"
    /\ cb \in {"initialize", "mark"} => cbReq \notin cancelable /\ cancelling # cbReq
    /\ proc \in {"release", "complete"} => procReq \notin cancelable /\ cancelling # procReq

\* What a request whose cancellation is done, or about to be, has in flight.
Abandoned(r) ==
    \/ req[r] = "done" /\ result[r] = "cancelled"
    \/ cb \in {"release", "complete"} /\ cbReq = r /\ cbStatus = "cancelled"

\* What was programmed is there or wiped, what came before it was moved.
Programmed ==
    txn.part > 0 =>
        /\ \A i \in 0 .. Size - 1 : desc[i] \in {None, Descriptor(i)}
        /\ \A p \in 1 .. txn.part - 1 : PartMoved(txn.req, p)

\* A stopped engine has asked for its interrupt and may be finishing what was
\* abandoned.
EngineStopped ==
    ~run =>
        /\ ~irqReq
        /\ flight # None => ~poll /\ Abandoned(flight.req)
        /\ ~dpcQueued /\ proc \notin {"get", "status", "stop"}

\* A started engine works off what was programmed: the elements before the one
\* in flight were moved, and when it stops all were, or it reports an error.
EngineRunning ==
    run =>
        /\ txn.req # NoReq /\ txn.part > 0
        /\ cb \in {"idle", "poll", "process"}
        /\ proc \in {"idle", "get", "status", "stop", "zero", "finish"}
        /\ pos <= Size
        /\ active => /\ ~errors /\ ~irqReq /\ ~dpcQueued
                     /\ proc \notin {"get", "status", "stop"}
                     /\ flight = None => pos < Size
        /\ ~active => /\ flight = None
                      /\ \/ errors \/ PartMoved(txn.req, txn.part)
                         \/ proc = "stop" /\ procStatus = "error"
                      /\ poll \/ irqReq \/ proc = "stop"
                      /\ proc = "stop" => ~irqReq
        /\ flight # None => \/ /\ pos > 0 /\ flight = Descriptor(pos - 1)
                            \/ /\ pos = 0 /\ ~flight.last /\ ~poll /\ Abandoned(flight.req)
        /\ active => \A i \in 0 .. pos - 1 :
               <<txn.req, txn.part, i>> \in moved \/ (flight # None /\ i = pos - 1)

\* The completion work has seen what it says.
StatusSeen ==
    /\ proc \in {"completed", "start"} => procStatus = "ok"
    /\ proc \in {"stop", "completed"} /\ procStatus = "ok" => PartMoved(txn.req, txn.part)
    /\ proc \in {"unmark", "release", "complete"} /\ procStatus = "ok" => Faithful(procReq)

\* The writeback belongs to the part that is polled for; a callback that has
\* left its request behind had an error or a part to go.
Polled ==
    poll =>
        /\ txn.part = 0 /\ proc \notin {"complete", "zero"} => wb.count = 0 /\ ~wb.err
        /\ cb = "start" => wb.count = 0 /\ ~wb.err
        /\ cb = "release" => txn.part = 0
        /\ proc = "start" => txn.part > 1
        /\ cb \in {"start", "poll"} => numDescs = Size
        /\ cb = "poll" => /\ run /\ wb.count <= pos
                          /\ flight # None => wb.count < pos
        /\ run /\ wb.err => ~active
        /\ proc \in {"get", "status", "stop", "completed", "start"} => ~wb.err
        /\ cb = "idle" \/ proc \in {"zero", "finish"} =>
               \A r \in Requests :
                   req[r] = "owned" =>
                       /\ txn.req = r /\ run
                       /\ txn.part > 1 \/ (wb.err /\ proc = "idle")

Calm ==
    /\ Masked /\ CallbackPlace /\ ProcPlace /\ ClaimPlace
    /\ Programmed /\ EngineStopped /\ EngineRunning /\ StatusSeen /\ Polled

\* What holds whatever happens.
Base == TypeOK /\ Places /\ OneOwned /\ ClaimedOnce

TransferInv ==
    /\ Base
    /\ ~disturbed /\ bugcheck = "none" => Calm
    /\ SuccessIsComplete /\ NoBugcheck /\ NoTransferAfterEnd

-----------------------------------------------------------------------------
\* The layout of a request: its parts and what each needs of the buffer.
LEMMA Parts ==
    ASSUME TypeOK, NEW r \in Requests
    PROVE  /\ Len(layout[r]) \in Nat /\ Len(layout[r]) > 0
           /\ \A p \in 1 .. Len(layout[r]) : layout[r][p] \in 1 .. DescCount
  <1>1. layout[r] \in Layouts
    BY DEF TypeOK
  <1>2. layout[r] \in Seq(1 .. DescCount) /\ layout[r] # << >>
    BY <1>1, TransferAssumption
  <1>3. Len(layout[r]) \in Nat \ {0}
    BY <1>2, EmptySeq
  <1>4. \A p \in 1 .. Len(layout[r]) : layout[r][p] \in 1 .. DescCount
    BY <1>2, ElementOfSeq
  <1> QED
    BY <1>3, <1>4

\* Programming a part leaves a buffer, a count and a transaction of their types.
LEMMA ProgramTypes ==
    ASSUME TypeOK, NEW r \in Requests, NEW p \in 1 .. Len(layout[r]), EngineProgramDma(r, p)
    PROVE  /\ desc' \in [Indices -> Descriptors \cup {None}] /\ numDescs' \in 0 .. DescCount
           /\ txn' = [req |-> r, part |-> p] /\ p \in Nat
  <1>1. layout[r][p] \in 1 .. DescCount /\ Len(layout[r]) \in Nat
    BY Parts
  <1>2. p \in Nat
    BY <1>1
  <1>3. \A i \in Indices :
            i < layout[r][p] =>
                [req |-> r, part |-> p, index |-> i, last |-> i + 1 = layout[r][p]] \in Descriptors
    BY <1>1, <1>2 DEF Descriptors, Indices
  <1>4. desc' \in [Indices -> Descriptors \cup {None}]
    BY <1>3 DEF EngineProgramDma, TypeOK
  <1> QED
    BY <1>1, <1>2, <1>4, TransferAssumption, SMTT(30) DEF EngineProgramDma, TypeOK

\* And the buffer with the descriptors of that part.
LEMMA ProgramWrites ==
    ASSUME TypeOK, NEW r \in Requests, NEW p \in 1 .. Len(layout[r]), EngineProgramDma(r, p),
           layout' = layout
    PROVE  /\ txn'.req = r /\ txn'.part = p /\ Size' = layout[r][p] /\ Size' \in 1 .. DescCount
           /\ \A i \in 0 .. Size' - 1 : desc'[i] = Descriptor(i)'
  <1>1. txn'.req = r /\ txn'.part = p
    BY DEF EngineProgramDma
  <1>2. layout[r][p] \in 1 .. DescCount
    BY Parts
  <1>3. Size' = layout[r][p]
    BY <1>1 DEF Size
  <1>4. \A i \in 0 .. layout[r][p] - 1 : i \in Indices /\ i < layout[r][p]
    BY <1>2, TransferAssumption DEF Indices
  <1>5. \A i \in 0 .. layout[r][p] - 1 :
            desc'[i] = [req |-> r, part |-> p, index |-> i, last |-> i + 1 = layout[r][p]]
    BY <1>4 DEF EngineProgramDma
  <1> QED
    BY <1>1, <1>2, <1>3, <1>5, Zenon DEF Descriptor

\* Starting the engine leaves its registers of their types.
LEMMA StartTypes ==
    ASSUME TypeOK, EngineStart
    PROVE  /\ flight' \in Descriptors \cup {None} /\ pos' \in 0 .. DescCount
           /\ run' \in BOOLEAN /\ active' \in BOOLEAN /\ errors' \in BOOLEAN
           /\ irqReq' \in BOOLEAN
  <1>1. flight # None => [flight EXCEPT !.last = FALSE] \in Descriptors
    BY DEF TypeOK, Descriptors
  <1>2. flight' \in Descriptors \cup {None}
    BY <1>1 DEF EngineStart, TypeOK
  <1>3. pos' \in 0 .. DescCount
    BY TransferAssumption DEF EngineStart, TypeOK
  <1>4. run' \in BOOLEAN /\ active' \in BOOLEAN /\ errors' \in BOOLEAN /\ irqReq' \in BOOLEAN
    BY DEF EngineStart, TypeOK
  <1> QED
    BY <1>2, <1>3, <1>4

\* So does a report.
LEMMA ReportTypes ==
    ASSUME TypeOK, NEW n \in 0 .. DescCount, NEW e \in BOOLEAN, Report(n, e)
    PROVE  wb'.count \in 0 .. DescCount /\ wb'.err \in BOOLEAN /\ irqReq' \in BOOLEAN
  <1>1. CASE poll
    BY <1>1 DEF Report, TypeOK
  <1>2. CASE ~poll
    BY <1>2 DEF Report, TypeOK
  <1> QED
    BY <1>1, <1>2

\* The types and the queue: no step of any kind disturbs them.
LEMMA BaseStep ==
    ASSUME Base, [Next]_vars
    PROVE  Base'
  <1> USE DEF Base, Requests, NoReq, setup, reqVars, cbVars, hwVars, memVars, card,
       procVars, intVars, ghosts
  <1>1. Hardware => Base'
    <2>1. flight # None => flight \in Descriptors
      BY DEF TypeOK
    <2>2. HwFetch => Base'
      <3> SUFFICES ASSUME HwFetch PROVE Base'
        OBVIOUS
      <3>1. pos' \in 0 .. DescCount /\ flight' \in Descriptors \cup {None}
        BY TransferAssumption DEF HwFetch, TypeOK, Indices
      <3>2. TypeOK'
        BY <3>1, SMTT(30) DEF HwFetch, TypeOK
      <3> QED
        BY <3>2 DEF HwFetch, Places, OneOwned, ClaimedOnce
    <2>3. HwError => Base'
      <3> SUFFICES ASSUME HwError PROVE Base'
        OBVIOUS
      <3>1. wb'.count \in 0 .. DescCount /\ wb'.err \in BOOLEAN /\ irqReq' \in BOOLEAN
        BY ReportTypes, pos \in 0 .. DescCount DEF HwError, TypeOK
      <3>2. TypeOK'
        <4>1. active' \in BOOLEAN /\ errors' \in BOOLEAN /\ flight' \in Descriptors \cup {None}
          BY Zenon DEF HwError
        <4> QED
          BY <3>1, <4>1, SMTT(30) DEF HwError, TypeOK
      <3> QED
        BY <3>2 DEF HwError, Places, OneOwned, ClaimedOnce
    <2>4. HwMove => Base'
      <3> SUFFICES ASSUME HwMove PROVE Base'
        OBVIOUS
      <3>1. wb'.count \in 0 .. DescCount /\ wb'.err \in BOOLEAN /\ irqReq' \in BOOLEAN
        <4>1. CASE flight.last \/ poll
          BY <4>1, ReportTypes, pos \in 0 .. DescCount DEF HwMove, TypeOK
        <4>2. CASE ~(flight.last \/ poll)
          BY <4>2 DEF HwMove, TypeOK
        <4> QED
          BY <4>1, <4>2
      <3>2. moved' \subseteq Requests \X Nat \X Nat
        BY <2>1 DEF HwMove, Descriptors, Indices, TypeOK
      <3>3. active' \in BOOLEAN /\ disturbed' \in BOOLEAN
        BY <2>1 DEF HwMove, Disturb, Descriptors, TypeOK
      <3>5. repeated' \in BOOLEAN
        <4>1. repeated \in BOOLEAN
          BY DEF TypeOK
        <4> QED
          BY <4>1, Zenon DEF HwMove
      <3>6. /\ flight' = None
            /\ UNCHANGED <<setup, reqVars, cbVars, txn, desc, numDescs, run, pos, errors, intVars,
                           procVars, cut, bugcheck>>
        BY DEF HwMove
      <3>4. TypeOK'
        BY <3>1, <3>2, <3>3, <3>5, <3>6, SMTT(30) DEF TypeOK
      <3> QED
        BY <3>4 DEF HwMove, Places, OneOwned, ClaimedOnce
    <2>5. HwIdle => Base'
      BY ZenonT(30) DEF HwIdle, TypeOK, Places, OneOwned, ClaimedOnce
    <2> QED
      BY <2>2, <2>3, <2>4, <2>5 DEF Hardware
  <1>2. ASSUME NEW r \in Requests, Submit(r) \/ CancelQueued(r) \/ CancelDelivered(r)
        PROVE  Base'
    <2>1. Submit(r) => Base'
      BY DEF Submit, TypeOK, Places, OneOwned, ClaimedOnce
    <2>2. CancelQueued(r) => Base'
      BY DEF CancelQueued, TypeOK, Places, OneOwned, ClaimedOnce
    <2>3. CancelDelivered(r) => Base'
      BY DEF CancelDelivered, TypeOK, Places, OneOwned, ClaimedOnce
    <2> QED
      BY <1>2, <2>1, <2>2, <2>3
  <1>3. EvtDeviceFileCreate => Base'
    BY DEF EvtDeviceFileCreate, Disturb, TypeOK, Places, OneOwned, ClaimedOnce
  <1>4. Callback => Base'
    <2>1. ASSUME NEW r \in Requests, EvtIoDma(r) PROVE Base'
      BY <2>1 DEF EvtIoDma, TypeOK, Places, OneOwned, ClaimedOnce
    <2>2. Initialize => Base'
      BY DEF Initialize, NoTxn, TypeOK, Places, OneOwned, ClaimedOnce
    <2>3. InitializeFails \/ ExecuteFails => Base'
      BY ZenonT(30) DEF InitializeFails, ExecuteFails, Fail, TypeOK, Places, OneOwned, ClaimedOnce
    <2>4. MarkCancelable => Base'
      <3> SUFFICES ASSUME MarkCancelable PROVE Base'
        OBVIOUS
      <3>1. /\ cb' \in {"release", "execute"} /\ cbStatus' \in {"none", "error", "cancelled"}
            /\ cancelable' \subseteq Requests
        BY DEF MarkCancelable, Fail, TypeOK, Places
      <3>4. TypeOK'
        BY <3>1, SMTT(30) DEF MarkCancelable, TypeOK
      <3>2. Places' /\ OneOwned'
        BY DEF MarkCancelable, Fail, Places, OneOwned
      <3>3. ClaimedOnce'
        BY DEF MarkCancelable, Fail, ClaimedOnce
      <3> QED
        BY <3>2, <3>3, <3>4
    <2>5. Execute => Base'
      <3> SUFFICES ASSUME Execute PROVE Base'
        OBVIOUS
      <3>1. cbReq \in Requests /\ 1 \in 1 .. Len(layout[cbReq])
        BY Parts DEF Execute, Places
      <3>2. EngineProgramDma(cbReq, 1)
        BY DEF Execute
      <3>3. /\ desc' \in [Indices -> Descriptors \cup {None}] /\ numDescs' \in 0 .. DescCount
            /\ txn' = [req |-> cbReq, part |-> 1]
            /\ txn'.req \in Requests /\ txn'.part \in Nat
        BY <3>1, <3>2, ProgramTypes
      <3>4. TypeOK'
        BY <3>3 DEF Execute, TypeOK
      <3>5. Places'
        BY <3>1, <3>3, Parts DEF Execute, TypeOK, Places
      <3> QED
        BY <3>4, <3>5 DEF Execute, OneOwned, ClaimedOnce
    <2>6. StartFirst => Base'
      <3> SUFFICES ASSUME StartFirst PROVE Base'
        OBVIOUS
      <3>1. /\ flight' \in Descriptors \cup {None} /\ pos' \in 0 .. DescCount
            /\ run' \in BOOLEAN /\ active' \in BOOLEAN /\ errors' \in BOOLEAN
            /\ irqReq' \in BOOLEAN
        BY StartTypes DEF StartFirst
      <3>2. TypeOK'
        <4>1. /\ cb' \in {"poll", "idle"} /\ cbReq' \in {cbReq, NoReq}
              /\ UNCHANGED <<setup, reqVars, cbStatus, txn, memVars, intVars, procVars, ghosts>>
          BY DEF StartFirst
        <4> QED
          BY <3>1, <4>1, SMTT(30) DEF TypeOK
      <3> QED
        BY <3>2 DEF StartFirst, TypeOK, Places, OneOwned, ClaimedOnce
    <2>7. PollError \/ PollDone => Base'
      BY ZenonT(30) DEF PollError, PollDone, TypeOK, Places, OneOwned, ClaimedOnce
    <2>8. EvtCancelDma => Base'
      BY ZenonT(30) DEF EvtCancelDma, EngineStop, Disturb, TypeOK, Places, OneOwned, ClaimedOnce
    <2>9. ReleaseFailed => Base'
      <3> SUFFICES ASSUME ReleaseFailed PROVE Base'
        OBVIOUS
      <3>1. txn'.req = NoReq /\ txn'.part = 0
        BY DEF ReleaseFailed, NoTxn
      <3>2. TypeOK'
        BY <3>1, SMTT(30) DEF ReleaseFailed, TypeOK
      <3>3. Places'
        BY <3>1 DEF ReleaseFailed, NoTxn, Places
      <3> QED
        BY <3>2, <3>3 DEF ReleaseFailed, OneOwned, ClaimedOnce
    <2>10. CompleteFailed => Base'
      <3> SUFFICES ASSUME CompleteFailed PROVE Base'
        OBVIOUS
      <3>1. /\ cbReq \in Requests /\ result' \in [Requests -> {"none", "ok", "error", "cancelled"}]
            /\ \/ UNCHANGED <<req, result>>
               \/ /\ req' = [req EXCEPT ![cbReq] = "done"]
                  /\ result' = [result EXCEPT ![cbReq] = cbStatus]
            /\ bugcheck' \in {"none", "completedTwice", "completedCancelable", "notTransferring"}
        BY DEF CompleteFailed, Complete, TypeOK, Places
      <3>2. TypeOK'
        BY <3>1, SMTT(30) DEF CompleteFailed, Disturb, TypeOK
      <3>3. Places'
        BY DEF CompleteFailed, Places
      <3>4. OneOwned'
        <4>1. CASE UNCHANGED <<req, result>>
          BY <4>1 DEF OneOwned
        <4>2. CASE /\ req' = [req EXCEPT ![cbReq] = "done"]
                   /\ result' = [result EXCEPT ![cbReq] = cbStatus]
          BY <3>1, <4>2 DEF TypeOK, OneOwned
        <4> QED
          BY <3>1, <4>1, <4>2
      <3>5. ClaimedOnce'
        BY DEF CompleteFailed, ClaimedOnce
      <3> QED
        BY <3>2, <3>3, <3>4, <3>5
    <2> QED
      BY <2>1, <2>2, <2>3, <2>4, <2>5, <2>6, <2>7, <2>8, <2>9, <2>10 DEF Callback
  <1>5. EvtChannelInterruptIsr => Base'
    BY ZenonT(30) DEF EvtChannelInterruptIsr, TypeOK, Places, OneOwned, ClaimedOnce
  <1>6. EvtChannelInterruptDpc => Base'
    BY ZenonT(30) DEF EvtChannelInterruptDpc, TypeOK, Places, OneOwned, ClaimedOnce
  <1>7. ProcessTransfer => Base'
    <2>1. GetRequest => Base'
      BY SMTT(30) DEF GetRequest, TypeOK, Places, OneOwned, ClaimedOnce
    <2>2. ReadStatus => Base'
      BY ZenonT(30) DEF ReadStatus, TypeOK, Places, OneOwned, ClaimedOnce
    <2>3. StopEngine => Base'
      BY ZenonT(30) DEF StopEngine, EngineStop, TypeOK, Places, OneOwned, ClaimedOnce
    <2>4. DmaCompletedLast \/ DmaCompletedFails => Base'
      <3> SUFFICES ASSUME DmaCompletedLast \/ DmaCompletedFails PROVE Base'
        OBVIOUS
      <3>1. /\ bytes' \in [Requests -> Nat] /\ cut' \subseteq Requests /\ proc' = "unmark"
            /\ procReq \in Requests
            /\ UNCHANGED <<setup, reqVars, cbVars, txn, card, intVars, procReq, procStatus,
                           moved, repeated, disturbed, bugcheck>>
        BY DEF DmaCompletedLast, DmaCompletedFails, CountBytes, TypeOK, Places
      <3>2. TypeOK'
        BY <3>1, SMTT(30) DEF TypeOK
      <3>3. Places'
        BY <3>1 DEF Places
      <3> QED
        BY <3>1, <3>2, <3>3 DEF OneOwned, ClaimedOnce
    <2>12. DmaCompletedMisused => Base'
      BY SMTT(30) DEF DmaCompletedMisused, TypeOK, Places, OneOwned, ClaimedOnce
    <2>5. DmaCompletedNext => Base'
      <3> SUFFICES ASSUME DmaCompletedNext PROVE Base'
        OBVIOUS
      <3>1. txn.req \in Requests /\ txn.part + 1 \in 1 .. Len(layout[txn.req])
        <4>1. txn.req \in Requests /\ txn.part \in Nat /\ txn.part < Len(layout[txn.req])
          BY DEF DmaCompletedNext, Places, TypeOK
        <4> QED
          BY <4>1, Parts
      <3>2. EngineProgramDma(txn.req, txn.part + 1)
        BY DEF DmaCompletedNext
      <3>3. /\ desc' \in [Indices -> Descriptors \cup {None}] /\ numDescs' \in 0 .. DescCount
            /\ txn' = [req |-> txn.req, part |-> txn.part + 1]
            /\ txn'.req \in Requests /\ txn'.part \in Nat
        BY <3>1, <3>2, ProgramTypes
      <3>4. TypeOK'
        <4>1. /\ proc' = "start"
              /\ UNCHANGED <<setup, reqVars, cbVars, wb, hwVars, intVars, procReq, procStatus,
                            bytes, ghosts>>
          BY DEF DmaCompletedNext
        <4> QED
          BY <3>3, <4>1, SMTT(30) DEF TypeOK
      <3>5. Places'
        BY <3>1, <3>3, Parts DEF DmaCompletedNext, TypeOK, Places
      <3> QED
        BY <3>4, <3>5 DEF DmaCompletedNext, OneOwned, ClaimedOnce
    <2>6. StartNext => Base'
      <3> SUFFICES ASSUME StartNext PROVE Base'
        OBVIOUS
      <3>1. /\ flight' \in Descriptors \cup {None} /\ pos' \in 0 .. DescCount
            /\ run' \in BOOLEAN /\ active' \in BOOLEAN /\ errors' \in BOOLEAN
            /\ irqReq' \in BOOLEAN
        BY StartTypes DEF StartNext
      <3>2. TypeOK'
        BY <3>1, SMTT(30) DEF StartNext, TypeOK
      <3> QED
        BY <3>2 DEF StartNext, TypeOK, Places, OneOwned, ClaimedOnce
    <2>7. UnmarkCancelable => Base'
      BY DEF UnmarkCancelable, Disturb, TypeOK, Places, OneOwned, ClaimedOnce
    <2>8. ReleaseTransaction => Base'
      BY SMTT(30) DEF ReleaseTransaction, NoTxn, TypeOK, Places, OneOwned, ClaimedOnce
    <2>9. CompleteRequest => Base'
      <3> SUFFICES ASSUME CompleteRequest PROVE Base'
        OBVIOUS
      <3>1. /\ procReq \in Requests
            /\ result' \in [Requests -> {"none", "ok", "error", "cancelled"}]
            /\ \/ UNCHANGED <<req, result>>
               \/ /\ req' = [req EXCEPT ![procReq] = "done"]
                  /\ result' = [result EXCEPT ![procReq] = procStatus]
            /\ bugcheck' \in {"none", "completedTwice", "completedCancelable", "notTransferring"}
        BY DEF CompleteRequest, Complete, TypeOK, Places
      <3>2. TypeOK'
        <4>1. /\ proc' = "zero" /\ req' \in [Requests -> {"new", "queued", "owned", "done"}]
              /\ UNCHANGED <<setup, asked, cancelable, cancelling, cbVars, txn, card, intVars,
                             procReq, procStatus, bytes, moved, repeated, cut, disturbed>>
          BY <3>1 DEF CompleteRequest, TypeOK
        <4> QED
          BY <3>1, <4>1, SMTT(30) DEF TypeOK
      <3>3. Places'
        BY DEF CompleteRequest, Places
      <3>4. OneOwned'
        <4>1. CASE UNCHANGED <<req, result>>
          BY <4>1 DEF OneOwned
        <4>2. CASE /\ req' = [req EXCEPT ![procReq] = "done"]
                   /\ result' = [result EXCEPT ![procReq] = procStatus]
          BY <3>1, <4>2 DEF TypeOK, OneOwned
        <4> QED
          BY <3>1, <4>1, <4>2
      <3>5. ClaimedOnce'
        BY DEF CompleteRequest, ClaimedOnce
      <3> QED
        BY <3>2, <3>3, <3>4, <3>5
    <2>10. ClearBuffers => Base'
      <3> SUFFICES ASSUME ClearBuffers PROVE Base'
        OBVIOUS
      <3>1. /\ desc' \in [Indices -> Descriptors \cup {None}]
            /\ wb'.count \in 0 .. DescCount /\ wb'.err \in BOOLEAN
        <4>1. desc' \in [Indices -> Descriptors \cup {None}]
          BY DEF ClearBuffers, Zeroed
        <4>2. NoWb.count = 0 /\ NoWb.err = FALSE
          BY DEF NoWb
        <4>3. NoWb.count \in 0 .. DescCount
          BY <4>2, TransferAssumption
        <4>4. NoWb.err \in BOOLEAN
          BY <4>2, Zenon
        <4> QED
          BY <4>1, <4>3, <4>4 DEF ClearBuffers, TypeOK
      <3>2. TypeOK'
        BY <3>1, SMTT(30) DEF ClearBuffers, TypeOK
      <3> QED
        BY <3>2 DEF ClearBuffers, TypeOK, Places, OneOwned, ClaimedOnce
    <2>11. Finish => Base'
      BY DEF Finish, TypeOK, Places, OneOwned, ClaimedOnce
    <2> QED
      BY <2>1, <2>2, <2>3, <2>4, <2>5, <2>6, <2>7, <2>8, <2>9, <2>10, <2>11, <2>12
      DEF ProcessTransfer
  <1>8. UNCHANGED vars => Base'
    BY DEF vars, TypeOK, Places, OneOwned, ClaimedOnce
  <1> QED
    BY <1>1, <1>2, <1>3, <1>4, <1>5, <1>6, <1>7, <1>8 DEF Next

-----------------------------------------------------------------------------
\* The driver owns one request at a time.
LEMMA OwnedUnique ==
    ASSUME Base, NEW r \in Requests, NEW s \in Requests, req[r] = "owned", req[s] = "owned"
    PROVE  r = s
  BY DEF Base, OneOwned, TypeOK, Requests

\* When the queue delivers a request, the driver has no other.
LEMMA NoneOwned ==
    ASSUME Base, NEW r \in Requests, req[r] = "queued", \A s \in 1 .. r - 1 : req[s] = "done"
    PROVE  \A s \in Requests : req[s] # "owned"
  BY DEF Base, OneOwned, TypeOK, Requests

\* The part under way is one of its request's, of one descriptor or more.
LEMMA PartSize ==
    ASSUME Base, txn.part > 0
    PROVE  /\ txn.req \in Requests /\ txn.part \in Nat
           /\ txn.part \in 1 .. Len(layout[txn.req]) /\ Size \in 1 .. DescCount
  <1>1. txn.req \in Requests /\ txn.part \in Nat
    BY DEF Base, Places, TypeOK
  <1>2. Len(layout[txn.req]) \in Nat /\ txn.part \in 1 .. Len(layout[txn.req])
    BY <1>1, Parts DEF Base, Places
  <1> QED
    BY <1>1, <1>2, Parts DEF Base, Size

\* Starting a stopped engine: only what is still in flight is left of before.
LEMMA StartsAfresh ==
    ASSUME Base, Calm, EngineStart, ~run, UNCHANGED <<poll, req, result>>,
           cb \notin {"release", "complete"}
    PROVE  /\ run' /\ active' /\ pos' = 0 /\ ~errors' /\ ~irqReq'
           /\ (flight # None => ~poll /\ Abandoned(flight.req) /\ ~flight.last)'
  <1>1. run' /\ active' /\ pos' = 0 /\ ~errors' /\ ~irqReq'
    BY Zenon DEF EngineStart
  <1> SUFFICES ASSUME flight' # None
               PROVE  (~poll /\ Abandoned(flight.req) /\ ~flight.last)'
    BY <1>1
  <1>2. flight # None /\ flight' = [flight EXCEPT !.last = FALSE]
    BY DEF EngineStart
  <1>3. flight \in Descriptors
    BY <1>2 DEF Base, TypeOK
  <1>4. flight'.req = flight.req /\ flight'.last = FALSE
    BY <1>2, <1>3 DEF Descriptors
  <1>5. ~poll /\ Abandoned(flight.req)
    BY <1>2 DEF Calm, EngineStopped
  <1>6. ~flight'.last
    BY <1>4, Zenon
  <1>7. Abandoned(flight.req)'
    BY <1>5, <1>4 DEF Abandoned
  <1> QED
    BY <1>4, <1>5, <1>6, <1>7

\* A step that nothing disturbs, nor ends in a bug check.
Undisturbed ==
    /\ Base /\ Base' /\ Calm
    /\ ~disturbed /\ ~disturbed' /\ bugcheck = "none" /\ bugcheck' = "none"

\* The descriptor fetched is the next one programmed.
LEMMA HwFetchCalm ==
    ASSUME Undisturbed, HwFetch
    PROVE  Calm'
  <1> USE DEF Undisturbed, Base, Requests, NoReq, setup, reqVars, cbVars, hwVars, memVars, card,
              procVars, intVars, ghosts
  <1>1. EngineRunning'
    <2> SUFFICES ASSUME run PROVE EngineRunning'
      BY DEF HwFetch, EngineRunning
    <2>1. txn.part > 0 /\ pos < Size /\ pos \in Nat
      BY DEF TypeOK, Calm, EngineRunning, HwFetch
    <2>2. Size \in 1 .. DescCount
      BY <2>1, PartSize
    <2>3. desc[pos] = Descriptor(pos)
      BY <2>1, <2>2 DEF Calm, Programmed, HwFetch
    <2>4. Size' = Size /\ txn' = txn
      BY DEF HwFetch, Size
    <2>5. flight' = [req |-> txn.req, part |-> txn.part, index |-> pos, last |-> pos + 1 = Size]
      BY <2>3 DEF HwFetch, Descriptor
    <2>6. pos' = pos + 1 /\ pos' - 1 = pos /\ pos' <= Size
      BY <2>1, <2>2 DEF HwFetch
    <2>7. (flight = Descriptor(pos - 1))'
      BY <2>4, <2>5, <2>6 DEF Descriptor
    <2>8. \A i \in 0 .. pos' - 1 : <<txn.req, txn.part, i>> \in moved \/ i = pos
      BY <2>1, <2>6 DEF Calm, EngineRunning, HwFetch
    <2> QED
      BY <2>1, <2>2, <2>4, <2>6, <2>7, <2>8 DEF Calm, EngineRunning, HwFetch, Descriptor
  <1>2. /\ Masked' /\ CallbackPlace' /\ ProcPlace' /\ ClaimPlace' /\ Programmed'
       /\ EngineStopped' /\ StatusSeen'
    BY DEF HwFetch, Calm, Masked, CallbackPlace, ProcPlace, ClaimPlace, Programmed,
       EngineStopped, StatusSeen, PartMoved, PartElements, Size, Descriptor, Abandoned,
       Faithful, Reported, Elements
  <1>3. Polled'
    BY Parts DEF HwFetch, Calm, Polled, Size, TypeOK, Places, OneOwned, CallbackPlace,
       ProcPlace
  <1> QED
    BY <1>1, <1>2, <1>3 DEF Calm

\* An engine that stops on an error reports it.
LEMMA HwErrorCalm ==
    ASSUME Undisturbed, HwError
    PROVE  Calm'
  <1> USE DEF Undisturbed, Base, Requests, NoReq, setup, reqVars, cbVars, hwVars, memVars, card,
              procVars, intVars, ghosts
  <1>1. Polled'
    <2> SUFFICES ASSUME poll PROVE Polled'
      BY DEF HwError, Polled
    <2>1. run /\ active /\ txn.part > 0 /\ cb \in {"idle", "poll", "process"}
      BY DEF HwError, Calm, EngineRunning, TypeOK
    <2>2. proc \in {"idle", "zero", "finish"} /\ (cb = "idle" => proc = "idle")
      BY <2>1 DEF Calm, EngineRunning, ProcPlace, TypeOK
    <2>3. wb' = [count |-> pos, err |-> TRUE] /\ pos \in Nat
      BY DEF HwError, Report, TypeOK
    <2>4. wb'.count = pos /\ wb'.err
      BY <2>3, Zenon
    <2>5. /\ UNCHANGED <<poll, layout, req, cb, txn, numDescs, run, pos, proc>>
          /\ flight' = None /\ ~active'
      BY DEF HwError
    <2> QED
      BY <2>1, <2>2, <2>3, <2>4, <2>5 DEF Calm, Polled, Size
  <1>2. /\ Masked' /\ CallbackPlace' /\ ProcPlace' /\ ClaimPlace' /\ Programmed'
       /\ EngineStopped' /\ EngineRunning' /\ StatusSeen'
    BY DEF HwError, Calm, Masked, CallbackPlace, ProcPlace, ClaimPlace, Programmed,
       EngineStopped, EngineRunning, StatusSeen, PartMoved, PartElements, Size, Descriptor,
       Abandoned, Faithful, Reported, Elements, Report
  <1> QED
    BY <1>1, <1>2 DEF Calm

\* With the last descriptor the whole part is moved, and it is reported.
LEMMA HwMoveCalm ==
    ASSUME Undisturbed, HwMove
    PROVE  Calm'
  <1> USE DEF Undisturbed, Base, Requests, NoReq, setup, reqVars, cbVars, hwVars, memVars, card,
              procVars, intVars, ghosts
  <1>1. EngineRunning'
    <2> SUFFICES ASSUME run PROVE EngineRunning'
      BY DEF HwMove, EngineRunning
    <2>1. active /\ txn.part > 0 /\ pos \in Nat /\ pos <= Size /\ ~errors /\ ~irqReq
      BY DEF TypeOK, Calm, EngineRunning, HwMove
    <2>2. Size \in 1 .. DescCount
      BY <2>1, PartSize
    <2>3. Size' = Size /\ txn' = txn /\ pos' = pos /\ flight' = None /\ run' /\ moved \subseteq
    moved'
      BY DEF HwMove, Size
    <2>4. poll' = poll /\ cb' = cb /\ proc' = proc /\ dpcQueued' = dpcQueued /\ errors' = errors
      BY DEF HwMove
    <2>5. CASE pos > 0 /\ flight = Descriptor(pos - 1)
      <3>1. /\ flight.req = txn.req /\ flight.part = txn.part /\ flight.index = pos - 1
            /\ flight.last = (pos - 1 + 1 = Size)
        BY <2>5, Zenon DEF Descriptor
      <3>2. (pos - 1 + 1 = Size) <=> pos = Size
        BY <2>1, <2>2
      <3>3. flight.last <=> pos = Size
        BY <3>1, <3>2, Zenon
      <3>4. <<txn.req, txn.part, pos - 1>> \in moved'
        BY <3>1 DEF HwMove
      <3>5. \A i \in 0 .. pos - 1 : <<txn.req, txn.part, i>> \in moved'
        BY <2>1, <2>3, <3>4 DEF Calm, EngineRunning
      <3>6. CASE flight.last
        <4>1. PartMoved(txn.req, txn.part)'
          BY <2>3, <3>3, <3>5, <3>6 DEF PartMoved, PartElements, Size, HwMove
        <4>2. ~active' /\ (poll \/ irqReq')
          BY <3>6 DEF HwMove, Report
        <4> QED
          BY <2>1, <2>3, <2>4, <4>1, <4>2 DEF Calm, EngineRunning
      <3>7. CASE ~flight.last
        <4>1. active'
          BY <2>1, <3>7, Zenon DEF HwMove
        <4>2. pos < Size
          BY <2>1, <2>2, <3>3, <3>7
        <4>3. ~irqReq'
          BY <2>1, <3>7 DEF HwMove, Report
        <4> QED
          BY <2>1, <2>3, <2>4, <3>5, <4>1, <4>2, <4>3 DEF Calm, EngineRunning
      <3> QED
        BY <3>6, <3>7
    <2>6. CASE pos = 0 /\ ~flight.last /\ ~poll
      <3>1. active'
        BY <2>1, <2>6, Zenon DEF HwMove
      <3>2. pos < Size
        BY <2>1, <2>2, <2>6
      <3>3. ~irqReq'
        BY <2>1, <2>6 DEF HwMove, Report
      <3> QED
        BY <2>1, <2>3, <2>4, <2>6, <3>1, <3>2, <3>3 DEF Calm, EngineRunning
    <2> QED
      BY <2>5, <2>6 DEF Calm, EngineRunning, HwMove
  <1>2. Polled'
    <2> SUFFICES ASSUME poll PROVE Polled'
      BY DEF HwMove, Polled
    <2>1. run /\ active /\ txn.part > 0 /\ cb # "start"
      BY DEF HwMove, Calm, EngineStopped, EngineRunning, TypeOK
    <2>2. ~wb.err
      BY <2>1 DEF Calm, Polled
    <2>3. wb' = [count |-> pos, err |-> FALSE]
      BY DEF HwMove, Report
    <2>4. wb'.count = pos /\ ~wb'.err
      BY <2>3, Zenon
    <2>5. UNCHANGED <<poll, layout, req, cb, txn, numDescs, run, pos, proc>> /\ flight' = None
      BY DEF HwMove
    <2>6. pos \in Nat
      BY DEF TypeOK
    <2> QED
      BY <2>1, <2>2, <2>4, <2>5, <2>6 DEF Calm, Polled, Size
  <1>3. Masked' /\ ProcPlace' /\ Programmed' /\ StatusSeen'
    BY DEF HwMove, Calm, Masked, ProcPlace, Programmed, StatusSeen, PartMoved, PartElements,
       Size, Descriptor, Faithful, Reported, Elements, Report, Disturb
  <1>4. CallbackPlace' /\ ClaimPlace'
    BY DEF HwMove, Calm, CallbackPlace, ClaimPlace
  <1>5. EngineStopped'
    <2>1. ~run => ~poll /\ ~flight.last
      BY DEF HwMove, Calm, EngineStopped, Disturb
    <2>2. ~run => irqReq' = irqReq
      BY <2>1 DEF HwMove
    <2> QED
      BY <2>2 DEF HwMove, Calm, EngineStopped
  <1> QED
    BY <1>1, <1>2, <1>3, <1>4, <1>5 DEF Calm

\* A stopped engine falls idle.
LEMMA HwIdleCalm ==
    ASSUME Undisturbed, HwIdle
    PROVE  Calm'
  <1> USE DEF Undisturbed, Base, Requests, NoReq, setup, reqVars, cbVars, hwVars, memVars, card,
              procVars, intVars, ghosts
  <1> QED
    BY DEF HwIdle, Calm, Masked, CallbackPlace, ProcPlace, ClaimPlace, Programmed,
       EngineStopped, EngineRunning, StatusSeen, Polled, PartMoved, PartElements, Size,
       Descriptor, Abandoned, Faithful, Reported, Elements

\* Requests come and go, and are asked to cancel.
LEMMA SubmitCalm ==
    ASSUME Undisturbed, NEW r \in Requests, Submit(r) \/ CancelQueued(r) \/ CancelDelivered(r)
    PROVE  Calm'
  <1> USE DEF Undisturbed, Base, Requests, NoReq, setup, reqVars, cbVars, hwVars, memVars, card,
              procVars, intVars, ghosts
  <1>1. CASE Submit(r)
    BY <1>1 DEF Submit, Calm, Masked, CallbackPlace, ProcPlace, ClaimPlace, Programmed,
       EngineStopped, EngineRunning, StatusSeen, Polled, PartMoved, PartElements, Size,
       Descriptor, Abandoned, Faithful, Reported, Elements
  <1>2. CASE CancelQueued(r)
    BY <1>2 DEF CancelQueued, Calm, Masked, CallbackPlace, ProcPlace, ClaimPlace, Programmed,
       EngineStopped, EngineRunning, StatusSeen, Polled, PartMoved, PartElements, Size,
       Descriptor, Abandoned, Faithful, Reported, Elements
  <1>3. CASE CancelDelivered(r)
    BY <1>3 DEF CancelDelivered, Calm, Masked, CallbackPlace, ProcPlace, ClaimPlace, Programmed,
       EngineStopped, EngineRunning, StatusSeen, Polled, PartMoved, PartElements, Size,
       Descriptor, Abandoned, Faithful, Reported, Elements
  <1> QED
    BY <1>1, <1>2, <1>3

\* A file is opened while the interrupt is not masked.
LEMMA EvtDeviceFileCreateCalm ==
    ASSUME Undisturbed, EvtDeviceFileCreate
    PROVE  Calm'
  <1> USE DEF Undisturbed, Base, Requests, NoReq, setup, reqVars, cbVars, hwVars, memVars, card,
              procVars, intVars, ghosts
  <1>1. Masked'
    BY DEF EvtDeviceFileCreate, Calm, Masked, Disturb
  <1>2. /\ CallbackPlace' /\ ProcPlace' /\ ClaimPlace' /\ Programmed' /\ EngineStopped'
       /\ EngineRunning' /\ StatusSeen' /\ Polled'
    BY DEF EvtDeviceFileCreate, Calm, CallbackPlace, ProcPlace, ClaimPlace, Programmed,
       EngineStopped, EngineRunning, StatusSeen, Polled, PartMoved, PartElements, Size,
       Descriptor, Abandoned, Faithful, Reported, Elements, Disturb
  <1> QED
    BY <1>1, <1>2 DEF Calm

\* A request is delivered when no other is owned: the transaction is free.
LEMMA EvtIoDmaCalm ==
    ASSUME Undisturbed, NEW r \in Requests, EvtIoDma(r)
    PROVE  Calm'
  <1> USE DEF Undisturbed, Base, Requests, NoReq, setup, reqVars, cbVars, hwVars, memVars, card,
              procVars, intVars, ghosts
  <1>1. CallbackPlace' /\ ProcPlace' /\ ClaimPlace'
    <2>1. \A s \in Requests : req[s] # "owned"
      BY NoneOwned DEF EvtIoDma
    <2>2. txn = NoTxn /\ proc \in {"idle", "zero", "finish"} /\ cancelling = NoReq
      BY <2>1 DEF TypeOK, Places, NoTxn, Calm, CallbackPlace, ProcPlace, ClaimPlace
    <2>3. r \notin asked /\ r \notin cancelable
      BY DEF Calm, ClaimPlace, EvtIoDma
    <2>4. CallbackPlace'
      BY <2>2 DEF EvtIoDma, CallbackPlace, Calm, NoTxn, TypeOK
    <2>5. ProcPlace'
      BY <2>2 DEF EvtIoDma, ProcPlace, Calm, NoTxn, TypeOK
    <2>6. ClaimPlace'
      BY <2>2, <2>3 DEF EvtIoDma, ClaimPlace, Calm, NoTxn, TypeOK
    <2> QED
      BY <2>4, <2>5, <2>6
  <1>2. EngineRunning'
    <2>1. \A s \in Requests : req[s] # "owned"
      BY NoneOwned DEF EvtIoDma
    <2>2. ~run
      BY <2>1 DEF TypeOK, Calm, CallbackPlace, EngineRunning
    <2> QED
      BY <2>2 DEF EvtIoDma, EngineRunning
  <1>3. Masked' /\ Programmed' /\ EngineStopped' /\ StatusSeen'
    BY DEF EvtIoDma, Calm, Masked, Programmed, EngineStopped, StatusSeen, PartMoved,
       PartElements, Size, Descriptor, Abandoned, Faithful, Reported, Elements
  <1>4. Polled'
    BY Parts DEF EvtIoDma, Calm, Polled, Size, TypeOK, Places, OneOwned, CallbackPlace,
       ProcPlace
  <1> QED
    BY <1>1, <1>2, <1>3, <1>4 DEF Calm

\* The callback prepares the transfer, or fails.
LEMMA InitializeCalm ==
    ASSUME Undisturbed, Initialize \/ InitializeFails \/ MarkCancelable \/ ExecuteFails
    PROVE  Calm'
  <1> USE DEF Undisturbed, Base, Requests, NoReq, setup, reqVars, cbVars, hwVars, memVars, card,
              procVars, intVars, ghosts
  <1>1. CASE Initialize
    <2>1. /\ Masked' /\ CallbackPlace' /\ ProcPlace' /\ ClaimPlace' /\ Programmed'
         /\ EngineStopped' /\ EngineRunning' /\ Polled'
      BY <1>1 DEF Initialize, Calm, Masked, CallbackPlace, ProcPlace, ClaimPlace, Programmed,
         EngineStopped, EngineRunning, Polled, PartMoved, PartElements, Size, Descriptor,
         Abandoned, NoTxn
    <2>2. StatusSeen'
      BY <1>1, Parts DEF Initialize, Calm, StatusSeen, PartMoved, PartElements, Faithful,
         Reported, Elements, NoTxn,
         TypeOK, Places, OneOwned, CallbackPlace, ProcPlace
    <2> QED
      BY <2>1, <2>2 DEF Calm
  <1>2. CASE InitializeFails
    <2>1. CallbackPlace'
      <3>1. txn.req = NoReq /\ req[cbReq] = "owned"
        BY <1>2 DEF InitializeFails, Calm, CallbackPlace, NoTxn
      <3> QED
        BY <1>2, <3>1 DEF InitializeFails, Fail, Calm, CallbackPlace
    <2>2. /\ Masked' /\ ProcPlace' /\ ClaimPlace' /\ Programmed' /\ EngineStopped'
         /\ EngineRunning' /\ StatusSeen'
      BY <1>2 DEF InitializeFails, Calm, Masked, ProcPlace, ClaimPlace, Programmed, EngineStopped,
         EngineRunning, StatusSeen, PartMoved, PartElements, Size, Descriptor, Abandoned,
         Faithful, Reported, Elements, Fail
    <2>3. Polled'
      BY <1>2, Parts DEF InitializeFails, Calm, Polled, Size, Fail, TypeOK, Places, OneOwned,
         CallbackPlace, ProcPlace, ClaimedOnce, ClaimPlace, Masked, EngineStopped,
         EngineRunning, Programmed, StatusSeen, PartMoved, PartElements, Descriptor, Abandoned,
         NoTxn
    <2> QED
      BY <2>1, <2>2, <2>3 DEF Calm
  <1>3. CASE MarkCancelable
    <2>1. /\ Masked' /\ CallbackPlace' /\ ProcPlace' /\ Programmed' /\ EngineStopped'
         /\ EngineRunning' /\ StatusSeen'
      BY <1>3 DEF MarkCancelable, Calm, Masked, CallbackPlace, ProcPlace, Programmed, EngineStopped,
         EngineRunning, StatusSeen, PartMoved, PartElements, Size, Descriptor, Abandoned,
         Faithful, Reported, Elements, Fail
    <2>2. ClaimPlace'
      <3>1. /\ cbReq \in Requests /\ req[cbReq] = "owned" /\ cancelling # cbReq
            /\ proc \notin {"release", "complete"}
            /\ cancelable' \subseteq cancelable \cup {cbReq}
            /\ UNCHANGED <<req, asked, cancelling, cbReq, proc, procReq>>
            /\ cb' \in {"release", "execute"}
        BY <1>3 DEF MarkCancelable, Fail, Calm, ClaimPlace, CallbackPlace, ProcPlace, Places
      <3> QED
        BY <3>1 DEF Calm, ClaimPlace
    <2>3. Polled'
      BY <1>3, Parts, SMTT(30)
      DEF MarkCancelable, Calm, Polled, Size, Fail, TypeOK, Places, OneOwned,
         CallbackPlace, ProcPlace
    <2> QED
      BY <2>1, <2>2, <2>3 DEF Calm
  <1>4. CASE ExecuteFails
    <2>1. /\ Masked' /\ CallbackPlace' /\ ProcPlace' /\ ClaimPlace' /\ Programmed'
         /\ EngineStopped' /\ EngineRunning' /\ StatusSeen'
      BY <1>4 DEF ExecuteFails, Calm, Masked, CallbackPlace, ProcPlace, ClaimPlace, Programmed,
         EngineStopped, EngineRunning, StatusSeen, PartMoved, PartElements, Size, Descriptor,
         Abandoned, Faithful, Reported, Elements, Fail
    <2>2. Polled'
      BY <1>4, Parts DEF ExecuteFails, Calm, Polled, Size, Fail, TypeOK, Places, OneOwned,
         CallbackPlace, ProcPlace
    <2> QED
      BY <2>1, <2>2 DEF Calm
  <1> QED
    BY <1>1, <1>2, <1>3, <1>4

\* The first part is programmed.
LEMMA ExecuteCalm ==
    ASSUME Undisturbed, Execute
    PROVE  Calm'
  <1> USE DEF Undisturbed, Base, Requests, NoReq, setup, reqVars, cbVars, hwVars, memVars, card,
              procVars, intVars, ghosts
  <1>1. Programmed'
    <2>1. cbReq \in Requests /\ 1 \in 1 .. Len(layout[cbReq]) /\ layout' = layout
      BY Parts DEF Places, Execute
    <2>2. EngineProgramDma(cbReq, 1)
      BY DEF Execute
    <2>3. /\ txn'.part = 1 /\ Size' \in 1 .. DescCount
          /\ \A i \in 0 .. Size' - 1 : desc'[i] = Descriptor(i)'
      BY <2>1, <2>2, ProgramWrites
    <2>4. \A p \in 1 .. txn'.part - 1 : PartMoved(txn.req, p)'
      BY <2>3
    <2> QED
      BY <2>3, <2>4 DEF Programmed
  <1>2. /\ Masked' /\ CallbackPlace' /\ ProcPlace' /\ ClaimPlace' /\ EngineStopped'
       /\ EngineRunning'
    BY DEF Execute, Calm, Masked, CallbackPlace, ProcPlace, ClaimPlace, EngineStopped,
       EngineRunning, Abandoned, PartMoved, PartElements, Size, Descriptor, EngineProgramDma
  <1>3. StatusSeen'
    BY Parts DEF Execute, Calm, StatusSeen, PartMoved, PartElements, Faithful, Reported, Elements,
       EngineProgramDma, TypeOK, Places, OneOwned, CallbackPlace, ProcPlace
  <1>4. Polled'
    BY Parts DEF Execute, Calm, Polled, Size, EngineProgramDma, TypeOK, Places, OneOwned,
       CallbackPlace, ProcPlace
  <1> QED
    BY <1>1, <1>2, <1>3, <1>4 DEF Calm

\* The engine is started on the first part: nothing else runs it.
LEMMA StartFirstCalm ==
    ASSUME Undisturbed, StartFirst
    PROVE  Calm'
  <1> USE DEF Undisturbed, Base, Requests, NoReq, setup, reqVars, cbVars, hwVars, memVars, card,
              procVars, intVars, ghosts
  <1>1. EngineRunning'
    <2>1. /\ cbReq \in Requests /\ txn = [req |-> cbReq, part |-> 1] /\ ~run /\ ~dpcQueued
          /\ proc \in {"idle", "zero", "finish"}
      BY DEF Places, TypeOK, StartFirst, Calm, CallbackPlace, ProcPlace, EngineRunning,
         EngineStopped
    <2>2. Size \in 1 .. DescCount /\ Size' = Size
      BY <2>1, PartSize DEF Size, StartFirst
    <2>3. /\ run' /\ active' /\ pos' = 0 /\ ~errors' /\ ~irqReq'
          /\ (flight # None => ~poll /\ Abandoned(flight.req) /\ ~flight.last)'
      BY <2>1, StartsAfresh DEF StartFirst
    <2>9. /\ txn' = txn /\ poll' = poll /\ proc' \in {"idle", "zero", "finish"} /\ ~dpcQueued'
          /\ cb' \in {"idle", "poll", "process"}
      BY <2>1 DEF StartFirst
    <2>4. txn.req # NoReq /\ txn.part > 0
      BY <2>1
    <2> QED
      BY <2>1, <2>2, <2>3, <2>4, <2>9 DEF EngineRunning
  <1>2. /\ Masked' /\ CallbackPlace' /\ ProcPlace' /\ ClaimPlace' /\ Programmed'
       /\ EngineStopped' /\ StatusSeen'
    BY DEF StartFirst, Calm, Masked, CallbackPlace, ProcPlace, ClaimPlace, Programmed,
       EngineStopped, StatusSeen, PartMoved, PartElements, Size, Descriptor, Abandoned,
       Faithful, Reported, Elements, EngineStart
  <1>3. Polled'
    <2>1. /\ txn.req = cbReq /\ cbReq \in Requests /\ txn.part = 1 /\ pos' = 0 /\ ~run /\ run'
          /\ UNCHANGED <<poll, layout, req, txn, wb, numDescs, proc>>
      BY DEF StartFirst, EngineStart, Calm, CallbackPlace, EngineRunning, Places
    <2>2. poll => proc = "idle"
      BY DEF StartFirst, Calm, ProcPlace
    <2>3. poll /\ flight # None => FALSE
      BY <2>1 DEF Calm, EngineStopped
    <2>4. poll => cb' = "poll" /\ flight' = None /\ active' /\ wb.count = 0 /\ ~wb.err
      BY <2>1, <2>3 DEF StartFirst, EngineStart, Calm, Polled
    <2> QED
      BY <2>1, <2>2, <2>4 DEF StartFirst, Calm, Polled, Size
  <1> QED
    BY <1>1, <1>2, <1>3 DEF Calm

\* The polling callback leaves its request behind.
LEMMA PollErrorCalm ==
    ASSUME Undisturbed, PollError
    PROVE  Calm'
  <1> USE DEF Undisturbed, Base, Requests, NoReq, setup, reqVars, cbVars, hwVars, memVars, card,
              procVars, intVars, ghosts
  <1>1. Polled'
    <2>1. run /\ txn.req = cbReq /\ cbReq \in Requests /\ req[cbReq] = "owned" /\ txn.part = 1
      BY DEF PollError, Calm, Polled, CallbackPlace, Places
    <2>2. \A r \in Requests : req[r] = "owned" => txn.req = r
      BY <2>1, OwnedUnique
    <2>3. poll => proc = "idle"
      BY DEF PollError, Calm, ProcPlace
    <2>4. UNCHANGED <<poll, layout, req, txn, wb, numDescs, run, pos, flight, active, proc>>
      BY DEF PollError
    <2> QED
      BY <2>1, <2>2, <2>3, <2>4 DEF PollError, Calm, Polled, Size
  <1>2. /\ Masked' /\ CallbackPlace' /\ ProcPlace' /\ ClaimPlace' /\ Programmed'
       /\ EngineStopped' /\ EngineRunning' /\ StatusSeen'
    BY DEF PollError, Calm, Masked, CallbackPlace, ProcPlace, ClaimPlace, Programmed,
       EngineStopped, EngineRunning, StatusSeen, PartMoved, PartElements, Size, Descriptor,
       Abandoned, Faithful, Reported, Elements
  <1> QED
    BY <1>1, <1>2 DEF Calm

\* It has seen as many descriptors done as the part has: all were moved.
LEMMA PollDoneCalm ==
    ASSUME Undisturbed, PollDone
    PROVE  Calm'
  <1> USE DEF Undisturbed, Base, Requests, NoReq, setup, reqVars, cbVars, hwVars, memVars, card,
              procVars, intVars, ghosts
  <1>1. CallbackPlace' /\ ClaimPlace' /\ Programmed' /\ StatusSeen'
    BY DEF PollDone, Calm, CallbackPlace, ClaimPlace, Programmed, StatusSeen, PartMoved,
       PartElements, Size, Descriptor, Faithful, Reported, Elements
  <1>2. Masked'
    BY Parts DEF PollDone, Calm, Masked, TypeOK, Places, OneOwned, CallbackPlace, ProcPlace
  <1>3. ProcPlace'
    <2>1. /\ poll /\ proc = "idle" /\ proc' = "get" /\ cb' = "process" /\ txn' = txn
          /\ txn.req # NoReq /\ txn.part > 0
      BY DEF PollDone, Calm, ProcPlace, CallbackPlace, Places
    <2> QED
      BY <2>1 DEF ProcPlace
  <1>4. Polled'
    BY Parts DEF PollDone, Calm, Polled, Size, TypeOK, Places, OneOwned, CallbackPlace,
       ProcPlace
  <1>5. EngineStopped' /\ EngineRunning'
    <2>1. run /\ txn.part > 0 /\ poll /\ wb.count = Size /\ wb.count <= pos /\ pos <= Size
      BY DEF PollDone, Calm, CallbackPlace, Polled, EngineRunning
    <2>2. Size \in Nat /\ pos \in Nat
      BY <2>1, PartSize DEF TypeOK
    <2>3. flight = None /\ ~active
      BY <2>1, <2>2 DEF PollDone, Calm, Polled, EngineRunning
    <2>4. proc = "idle"
      BY <2>1 DEF PollDone, Calm, ProcPlace
    <2>5. Size' = Size /\ PartMoved(txn.req, txn.part)' = PartMoved(txn.req, txn.part)
      BY DEF PollDone, Size, PartMoved, PartElements
    <2> QED
      BY <2>1, <2>3, <2>4, <2>5 DEF PollDone, Calm, EngineStopped, EngineRunning
  <1> QED
    BY <1>1, <1>2, <1>3, <1>4, <1>5 DEF Calm

\* A cancellation that meets no completion: what is in flight is its request's.
LEMMA EvtCancelDmaCalm ==
    ASSUME Undisturbed, EvtCancelDma
    PROVE  Calm'
  <1> USE DEF Undisturbed, Base, Requests, NoReq, setup, reqVars, cbVars, hwVars, memVars, card,
              procVars, intVars, ghosts
  <1>1. CallbackPlace'
    <2>1. cancelling \in Requests /\ req[cancelling] = "owned"
      BY DEF TypeOK, EvtCancelDma, Calm, ClaimPlace
    <2>2. txn.req \in {NoReq, cancelling}
      BY <2>1, OwnedUnique DEF TypeOK, Calm, CallbackPlace
    <2> QED
      BY <2>1, <2>2 DEF CallbackPlace, Calm, EvtCancelDma, EngineStop, Disturb
  <1>2. EngineStopped'
    <2>1. cancelling \in Requests /\ req[cancelling] = "owned"
      BY DEF TypeOK, EvtCancelDma, Calm, ClaimPlace
    <2>2. ~poll /\ ~irqReq /\ ~dpcQueued /\ proc \in {"idle", "zero", "finish"}
      BY DEF EvtCancelDma, Disturb, TypeOK
    <2>3. ASSUME flight # None PROVE Abandoned(flight.req) \/ flight.req = cancelling
      <3>1. CASE ~run
        BY <2>3, <3>1 DEF Calm, EngineStopped
      <3>2. CASE run /\ pos > 0 /\ flight = Descriptor(pos - 1)
        <4>1. flight.req = txn.req /\ txn.req \in Requests /\ req[txn.req] = "owned"
          BY <3>2 DEF Descriptor, Calm, EngineRunning, CallbackPlace, TypeOK
        <4> QED
          BY <2>1, <4>1, OwnedUnique
      <3> QED
        BY <2>3, <3>1, <3>2 DEF Calm, EngineRunning
    <2>4. flight # None => Abandoned(flight.req)'
      BY <2>3 DEF Abandoned, EvtCancelDma, EngineStop
    <2> QED
      BY <2>2, <2>4 DEF EvtCancelDma, EngineStop, EngineStopped
  <1>3. Masked'
    BY DEF EvtCancelDma, Calm, Masked, EngineStop, Disturb
  <1>4. ClaimPlace' /\ EngineRunning' /\ Polled'
    BY DEF EvtCancelDma, Calm, ClaimPlace, EngineRunning, Polled, Abandoned, PartMoved,
       PartElements, Size, Descriptor, EngineStop, Disturb
  <1>5. ProcPlace' /\ StatusSeen'
    BY DEF EvtCancelDma, Calm, ProcPlace, StatusSeen, PartMoved, PartElements, Faithful, Reported,
       Elements,
       EngineStop, Disturb
  <1>6. Programmed'
    BY DEF EvtCancelDma, Calm, Programmed, PartMoved, PartElements, Size, Descriptor,
       EngineStop, Disturb
  <1> QED
    BY <1>1, <1>2, <1>3, <1>4, <1>5, <1>6 DEF Calm

\* The callback releases the transaction.
LEMMA ReleaseFailedCalm ==
    ASSUME Undisturbed, ReleaseFailed
    PROVE  Calm'
  <1> USE DEF Undisturbed, Base, Requests, NoReq, setup, reqVars, cbVars, hwVars, memVars, card,
              procVars, intVars, ghosts
  <1>1. Polled'
    <2> SUFFICES ASSUME poll PROVE Polled'
      BY DEF ReleaseFailed, Polled
    <2>1. txn.part = 0 /\ proc = "idle"
      BY DEF ReleaseFailed, Calm, Polled, ProcPlace, TypeOK
    <2>2. wb.count = 0 /\ ~wb.err
      BY <2>1 DEF Calm, Polled
    <2> QED
      BY <2>1, <2>2 DEF ReleaseFailed, Polled, Calm, NoTxn
  <1>2. /\ Masked' /\ CallbackPlace' /\ ProcPlace' /\ ClaimPlace' /\ Programmed'
       /\ EngineStopped' /\ EngineRunning'
    BY DEF ReleaseFailed, Calm, Masked, CallbackPlace, ProcPlace, ClaimPlace, Programmed,
       EngineStopped, EngineRunning, PartMoved, PartElements, Size, Descriptor, Abandoned,
       NoTxn
  <1>3. StatusSeen'
    BY Parts DEF ReleaseFailed, Calm, StatusSeen, PartMoved, PartElements, Faithful, Reported,
       Elements, NoTxn,
       TypeOK, Places, OneOwned, CallbackPlace, ProcPlace
  <1> QED
    BY <1>1, <1>2, <1>3 DEF Calm

\* And completes the request, which is owned and not claimed.
LEMMA CompleteFailedCalm ==
    ASSUME Undisturbed, CompleteFailed
    PROVE  Calm'
  <1> USE DEF Undisturbed, Base, Requests, NoReq, setup, reqVars, cbVars, hwVars, memVars, card,
              procVars, intVars, ghosts
  <1>1. EngineStopped'
    <2>1. /\ cbReq \in Requests /\ req[cbReq] = "owned"
          /\ req' = [req EXCEPT ![cbReq] = "done"] /\ result' = [result EXCEPT ![cbReq] = cbStatus]
      BY DEF CompleteFailed, Complete, Places, Calm, CallbackPlace
    <2>2. ASSUME NEW r \in Requests, Abandoned(r) PROVE Abandoned(r)'
      BY <2>1, <2>2 DEF TypeOK, Abandoned, CompleteFailed
    <2>3. flight # None => flight.req \in Requests
      BY DEF TypeOK, Descriptors
    <2> QED
      BY <2>2, <2>3 DEF EngineStopped, Calm, CompleteFailed
  <1>2. ClaimPlace'
    <2>1. /\ cbReq \in Requests /\ cbReq # cancelling /\ cancelling \in Requests \cup {NoReq}
          /\ req' = [req EXCEPT ![cbReq] = "done"]
      BY DEF CompleteFailed, Complete, Disturb, TypeOK, Places
    <2>2. \A r \in Requests : req'[r] = req[r] \/ req'[r] = "done"
      BY <2>1 DEF TypeOK
    <2>3. cancelling # NoReq => req'[cancelling] = req[cancelling]
      BY <2>1 DEF TypeOK
    <2>4. asked \subseteq Requests /\ cancelable \subseteq Requests
      BY DEF TypeOK
    <2> QED
      BY <2>1, <2>2, <2>3, <2>4 DEF CompleteFailed, Calm, ClaimPlace, CallbackPlace, ProcPlace
  <1>3. Masked' /\ ProcPlace' /\ Programmed' /\ EngineRunning' /\ StatusSeen'
    BY DEF CompleteFailed, Calm, Masked, ProcPlace, Programmed, EngineRunning, StatusSeen,
       PartMoved, PartElements, Size, Descriptor, Abandoned, Faithful, Reported, Elements,
       Complete, Disturb
  <1>4. CallbackPlace'
    BY Parts DEF CompleteFailed, Calm, CallbackPlace, Complete, Disturb, TypeOK, Places,
       OneOwned, ProcPlace, ClaimedOnce, ClaimPlace, Masked, EngineStopped, EngineRunning,
       Programmed, StatusSeen, Polled, PartMoved, PartElements, Size, Descriptor, Abandoned,
       NoTxn
  <1>5. Polled'
    <2> SUFFICES ASSUME poll PROVE Polled'
      BY DEF CompleteFailed, Polled
    <2>1. /\ cbReq \in Requests /\ req[cbReq] = "owned" /\ txn = NoTxn /\ cb = "complete"
          /\ req' = [req EXCEPT ![cbReq] = "done"] /\ cb' = "idle"
          /\ UNCHANGED <<poll, layout, txn, wb, numDescs, run, pos, flight, active, proc>>
      BY DEF CompleteFailed, Complete, Places, Calm, CallbackPlace
    <2>2. proc = "idle" /\ txn.part = 0
      BY <2>1 DEF Calm, ProcPlace, NoTxn
    <2>3. \A r \in Requests : req'[r] # "owned"
      BY <2>1, OwnedUnique, SMTT(30) DEF TypeOK
    <2> QED
      BY <2>1, <2>2, <2>3 DEF Polled, Calm
  <1> QED
    BY <1>1, <1>2, <1>3, <1>4, <1>5 DEF Calm

\* The service routine and the start of the deferred one.
LEMMA EvtChannelInterruptIsrCalm ==
    ASSUME Undisturbed, EvtChannelInterruptIsr \/ EvtChannelInterruptDpc
    PROVE  Calm'
  <1> USE DEF Undisturbed, Base, Requests, NoReq, setup, reqVars, cbVars, hwVars, memVars, card,
              procVars, intVars, ghosts
  <1>1. CASE EvtChannelInterruptIsr
    BY <1>1 DEF EvtChannelInterruptIsr, Calm, Masked, CallbackPlace, ProcPlace, ClaimPlace,
       Programmed, EngineStopped, EngineRunning, StatusSeen, Polled, PartMoved, PartElements,
       Size, Descriptor, Abandoned, Faithful, Reported, Elements
  <1>2. CASE EvtChannelInterruptDpc
    <2>1. /\ Masked' /\ CallbackPlace' /\ ClaimPlace' /\ Programmed' /\ EngineStopped'
         /\ EngineRunning' /\ StatusSeen'
      BY <1>2 DEF EvtChannelInterruptDpc, Calm, Masked, CallbackPlace, ClaimPlace, Programmed,
         EngineStopped, EngineRunning, StatusSeen, PartMoved, PartElements, Size, Descriptor,
         Abandoned, Faithful, Reported, Elements
    <2>2. ProcPlace'
      BY <1>2, Parts DEF EvtChannelInterruptDpc, Calm, ProcPlace, TypeOK, Places, OneOwned,
         CallbackPlace, ClaimedOnce, ClaimPlace, Masked, EngineStopped, EngineRunning,
         Programmed, StatusSeen, Polled, PartMoved, PartElements, Size, Descriptor, Abandoned,
         NoTxn
    <2>3. Polled'
      BY <1>2, Parts DEF EvtChannelInterruptDpc, Calm, Polled, Size, TypeOK, Places, OneOwned,
         CallbackPlace, ProcPlace, ClaimedOnce, ClaimPlace, Masked, EngineStopped,
         EngineRunning, Programmed, StatusSeen, PartMoved, PartElements, Descriptor, Abandoned,
         NoTxn
    <2> QED
      BY <2>1, <2>2, <2>3 DEF Calm
  <1> QED
    BY <1>1, <1>2

\* The completion work finds the request and reads the status.
LEMMA GetRequestCalm ==
    ASSUME Undisturbed, GetRequest \/ ReadStatus
    PROVE  Calm'
  <1> USE DEF Undisturbed, Base, Requests, NoReq, setup, reqVars, cbVars, hwVars, memVars, card,
              procVars, intVars, ghosts
  <1>1. CASE GetRequest
    <2>1. /\ Masked' /\ CallbackPlace' /\ ProcPlace' /\ ClaimPlace' /\ Programmed'
         /\ EngineStopped' /\ EngineRunning' /\ StatusSeen'
      BY <1>1 DEF GetRequest, Calm, Masked, CallbackPlace, ProcPlace, ClaimPlace, Programmed,
         EngineStopped, EngineRunning, StatusSeen, PartMoved, PartElements, Size, Descriptor,
         Abandoned, Faithful, Reported, Elements
    <2>2. Polled'
      BY <1>1, Parts DEF GetRequest, Calm, Polled, Size, TypeOK, Places, OneOwned, CallbackPlace,
         ProcPlace
    <2> QED
      BY <2>1, <2>2 DEF Calm
  <1>2. CASE ReadStatus
    <2>1. /\ Masked' /\ CallbackPlace' /\ ProcPlace' /\ ClaimPlace' /\ Programmed'
         /\ EngineStopped' /\ EngineRunning' /\ Polled'
      BY <1>2 DEF ReadStatus, Calm, Masked, CallbackPlace, ProcPlace, ClaimPlace, Programmed,
         EngineStopped, EngineRunning, Polled, PartMoved, PartElements, Size, Descriptor,
         Abandoned
    <2>2. StatusSeen'
      BY <1>2, Parts DEF ReadStatus, Calm, StatusSeen, PartMoved, PartElements, Faithful,
         Reported, Elements, TypeOK,
         Places, OneOwned, CallbackPlace, ProcPlace, ClaimedOnce, ClaimPlace, Masked,
         EngineStopped, EngineRunning, Programmed, Polled, Size, Descriptor, Abandoned, NoTxn
    <2> QED
      BY <2>1, <2>2 DEF Calm
  <1> QED
    BY <1>1, <1>2

\* The engine it stops had stopped.
LEMMA StopEngineCalm ==
    ASSUME Undisturbed, StopEngine
    PROVE  Calm'
  <1> USE DEF Undisturbed, Base, Requests, NoReq, setup, reqVars, cbVars, hwVars, memVars, card,
              procVars, intVars, ghosts
  <1>1. EngineStopped'
    <2>1. run /\ ~active /\ flight = None /\ ~irqReq /\ ~dpcQueued
      BY DEF StopEngine, TypeOK, Calm, EngineStopped, EngineRunning, Masked
    <2> QED
      BY <2>1 DEF EngineStopped, StopEngine, EngineStop
  <1>2. /\ Masked' /\ CallbackPlace' /\ ProcPlace' /\ ClaimPlace' /\ Programmed'
       /\ EngineRunning' /\ StatusSeen'
    BY DEF StopEngine, Calm, Masked, CallbackPlace, ProcPlace, ClaimPlace, Programmed,
       EngineRunning, StatusSeen, PartMoved, PartElements, Size, Descriptor, Abandoned,
       Faithful, Reported, Elements, EngineStop
  <1>3. Polled'
    BY Parts DEF StopEngine, Calm, Polled, Size, EngineStop, TypeOK, Places, OneOwned,
       CallbackPlace, ProcPlace
  <1> QED
    BY <1>1, <1>2, <1>3 DEF Calm

\* After the last part every part was moved; when the framework cannot go on,
\* those before it and it.
LEMMA DmaCompletedLastCalm ==
    ASSUME Undisturbed, DmaCompletedLast \/ DmaCompletedFails
    PROVE  Calm'
  <1> USE DEF Undisturbed, Base, Requests, NoReq, setup, reqVars, cbVars, hwVars, memVars, card,
              procVars, intVars, ghosts
  <1>1. Programmed' /\ StatusSeen'
    <2>1. txn.req = procReq /\ txn.req \in Requests /\ txn.part \in 1 .. Len(layout[txn.req])
      BY PartSize DEF DmaCompletedLast, DmaCompletedFails, Calm, ProcPlace
    <2>2. Len(layout[txn.req]) \in Nat /\ PartMoved(txn.req, txn.part)
      BY <2>1, Parts DEF DmaCompletedLast, DmaCompletedFails, Calm, StatusSeen
    <2>3. \A p \in 1 .. txn.part : PartMoved(procReq, p)
      BY <2>1, <2>2 DEF DmaCompletedLast, DmaCompletedFails, Calm, Programmed
    <2>4. /\ UNCHANGED <<txn, desc, moved, layout, procReq, procStatus>> /\ proc' = "unmark"
          /\ bytes'[procReq] = txn.part
      BY <2>1 DEF DmaCompletedLast, DmaCompletedFails, CountBytes, TypeOK
    <2>5. Elements(procReq)' = Elements(procReq)
      BY <2>4 DEF Elements
    <2>6. Reported(procReq)' = {x \in Elements(procReq) : x[2] <= txn.part}
      BY <2>4, <2>5 DEF Reported
    <2>7. ASSUME NEW x \in Elements(procReq) PROVE x[2] <= txn.part => x \in moved
      <3>1. PICK p \in 1 .. Len(layout[procReq]) : x \in PartElements(procReq, p)
        BY DEF Elements, PartElements
      <3>2. x[2] = p
        BY <3>1 DEF PartElements
      <3> QED
        BY <2>1, <2>2, <2>3, <3>1, <3>2 DEF PartMoved
    <2>8. Reported(procReq)' \subseteq moved'
      BY <2>4, <2>6, <2>7
    <2>9. procReq \in cut' \/ (Reported(procReq) = Elements(procReq))'
      <3>1. CASE DmaCompletedFails
        BY <3>1 DEF DmaCompletedFails
      <3>2. CASE DmaCompletedLast
        <4>1. txn.part = Len(layout[procReq])
          BY <2>1, <3>2 DEF DmaCompletedLast
        <4>2. \A x \in Elements(procReq) : x[2] <= txn.part
          BY <2>2, <4>1 DEF Elements
        <4> QED
          BY <2>5, <2>6, <4>2
      <3> QED
        BY <3>1, <3>2
    <2>10. Faithful(procReq)'
      BY <2>4, <2>8, <2>9 DEF Faithful
    <2>11. Programmed'
      BY <2>4 DEF Calm, Programmed, Size, Descriptor, PartMoved, PartElements
    <2> QED
      BY <2>4, <2>10, <2>11 DEF StatusSeen
  <1>2. /\ Masked' /\ CallbackPlace' /\ ProcPlace' /\ ClaimPlace' /\ EngineStopped'
       /\ EngineRunning' /\ Polled'
    BY DEF DmaCompletedLast, DmaCompletedFails, Calm, Masked, CallbackPlace, ProcPlace, ClaimPlace,
       EngineStopped, EngineRunning, Polled, Abandoned, PartMoved, PartElements, Size, Descriptor
  <1> QED
    BY <1>1, <1>2 DEF Calm

\* The part before the next one was moved.
LEMMA DmaCompletedNextCalm ==
    ASSUME Undisturbed, DmaCompletedNext
    PROVE  Calm'
  <1> USE DEF Undisturbed, Base, Requests, NoReq, setup, reqVars, cbVars, hwVars, memVars, card,
              procVars, intVars, ghosts
  <1>1. Programmed'
    <2>1. txn.req \in Requests /\ txn.part \in Nat /\ txn.part + 1 \in 1 .. Len(layout[txn.req])
      BY PartSize, Parts DEF DmaCompletedNext
    <2>2. txn' = [req |-> txn.req, part |-> txn.part + 1] /\ layout' = layout /\ moved' = moved
      BY DEF DmaCompletedNext, EngineProgramDma
    <2>3. EngineProgramDma(txn.req, txn.part + 1)
      BY DEF DmaCompletedNext
    <2>4. /\ txn'.req = txn.req /\ txn'.part = txn.part + 1 /\ Size' \in 1 .. DescCount
          /\ \A i \in 0 .. Size' - 1 : desc'[i] = Descriptor(i)'
      BY <2>1, <2>2, <2>3, ProgramWrites
    <2>5. \A p \in 1 .. txn.part : PartMoved(txn.req, p)
      BY <2>1 DEF DmaCompletedNext, Calm, Programmed, StatusSeen
    <2>6. \A p \in 1 .. txn'.part - 1 : PartMoved(txn.req, p)'
      BY <2>1, <2>2, <2>4, <2>5 DEF PartMoved, PartElements
    <2> QED
      BY <2>4, <2>6 DEF Programmed
  <1>2. Masked' /\ ClaimPlace' /\ EngineStopped' /\ EngineRunning' /\ StatusSeen'
    BY DEF DmaCompletedNext, Calm, Masked, ClaimPlace, EngineStopped, EngineRunning,
       StatusSeen, Abandoned, PartMoved, PartElements, Size, Descriptor, Faithful, Reported,
       Elements,
       EngineProgramDma
  <1>3. CallbackPlace'
    BY Parts DEF DmaCompletedNext, Calm, CallbackPlace, EngineProgramDma, TypeOK, Places,
       OneOwned, ProcPlace
  <1>4. ProcPlace'
    BY Parts DEF DmaCompletedNext, Calm, ProcPlace, EngineProgramDma, TypeOK, Places, OneOwned,
       CallbackPlace
  <1>5. Polled'
    BY Parts, SMTT(30) DEF DmaCompletedNext, Calm, Polled, Size, EngineProgramDma, TypeOK, Places,
       OneOwned, CallbackPlace, ProcPlace
  <1> QED
    BY <1>1, <1>2, <1>3, <1>4, <1>5 DEF Calm

\* The engine is started on the next part: it was stopped.
LEMMA StartNextCalm ==
    ASSUME Undisturbed, StartNext
    PROVE  Calm'
  <1> USE DEF Undisturbed, Base, Requests, NoReq, setup, reqVars, cbVars, hwVars, memVars, card,
              procVars, intVars, ghosts
  <1>1. EngineRunning' /\ Polled'
    <2>1. /\ txn.part > 0 /\ txn.req # NoReq /\ ~run /\ ~dpcQueued
          /\ cb \in {"idle", "process"}
      BY DEF Places, TypeOK, StartNext, Calm, CallbackPlace, ProcPlace, EngineRunning, Masked
    <2>2. Size \in 1 .. DescCount /\ Size' = Size
      BY <2>1, PartSize DEF Size, StartNext
    <2>3. /\ run' /\ active' /\ pos' = 0 /\ ~errors' /\ ~irqReq'
          /\ (flight # None => ~poll /\ Abandoned(flight.req) /\ ~flight.last)'
      BY <2>1, StartsAfresh DEF StartNext
    <2>9. /\ txn' = txn /\ poll' = poll /\ proc' \in {"idle", "zero", "finish"} /\ ~dpcQueued'
          /\ cb' \in {"idle", "poll", "process"}
      BY <2>1 DEF StartNext
    <2>5. EngineRunning'
      BY <2>1, <2>2, <2>3, <2>9 DEF EngineRunning
    <2>6. ASSUME poll PROVE txn.part > 1 /\ ~wb.err /\ cb = "process"
      BY <2>6 DEF Calm, Polled, ProcPlace, StartNext
    <2>7. \A r \in Requests : req[r] = "owned" => txn.req = r
      BY <2>1, OwnedUnique DEF TypeOK, Calm, CallbackPlace
    <2>8. Polled'
      BY <2>1, <2>2, <2>3, <2>6, <2>7 DEF Polled, StartNext, Calm
    <2> QED
      BY <2>5, <2>8
  <1>2. /\ Masked' /\ CallbackPlace' /\ ProcPlace' /\ ClaimPlace' /\ Programmed'
       /\ EngineStopped' /\ StatusSeen'
    BY DEF StartNext, Calm, Masked, CallbackPlace, ProcPlace, ClaimPlace, Programmed,
       EngineStopped, StatusSeen, PartMoved, PartElements, Size, Descriptor, Abandoned,
       Faithful, Reported, Elements, EngineStart
  <1> QED
    BY <1>1, <1>2 DEF Calm

\* A request that could be unmarked is not claimed.
LEMMA UnmarkCancelableCalm ==
    ASSUME Undisturbed, UnmarkCancelable
    PROVE  Calm'
  <1> USE DEF Undisturbed, Base, Requests, NoReq, setup, reqVars, cbVars, hwVars, memVars, card,
              procVars, intVars, ghosts
  <1>1. ClaimPlace'
    <2>1. procReq \in Requests /\ procReq \in cancelable
      BY DEF UnmarkCancelable, Disturb, Places
    <2>2. cancelling # procReq
      BY <2>1 DEF ClaimedOnce, Calm, ClaimPlace
    <2> QED
      BY <2>1, <2>2 DEF UnmarkCancelable, Calm, ClaimPlace
  <1>2. /\ Masked' /\ CallbackPlace' /\ ProcPlace' /\ Programmed' /\ EngineStopped'
       /\ EngineRunning' /\ StatusSeen' /\ Polled'
    BY DEF UnmarkCancelable, Calm, Masked, CallbackPlace, ProcPlace, Programmed, EngineStopped,
       EngineRunning, StatusSeen, Polled, PartMoved, PartElements, Size, Descriptor, Abandoned,
       Faithful, Reported, Elements, Disturb
  <1> QED
    BY <1>1, <1>2 DEF Calm

\* The transaction is released by its completion.
LEMMA ReleaseTransactionCalm ==
    ASSUME Undisturbed, ReleaseTransaction
    PROVE  Calm'
  <1> USE DEF Undisturbed, Base, Requests, NoReq, setup, reqVars, cbVars, hwVars, memVars, card,
              procVars, intVars, ghosts
  <1>1. /\ Masked' /\ ClaimPlace' /\ Programmed' /\ EngineStopped' /\ EngineRunning'
       /\ StatusSeen'
    BY DEF ReleaseTransaction, Calm, Masked, ClaimPlace, Programmed, EngineStopped,
       EngineRunning, StatusSeen, PartMoved, PartElements, Size, Descriptor, Abandoned,
       Faithful, Reported, Elements, NoTxn
  <1>2. CallbackPlace'
    BY Parts DEF ReleaseTransaction, Calm, CallbackPlace, NoTxn, TypeOK, Places, OneOwned,
       ProcPlace
  <1>3. ProcPlace'
    BY Parts DEF ReleaseTransaction, Calm, ProcPlace, NoTxn, TypeOK, Places, OneOwned,
       CallbackPlace
  <1>4. Polled'
    BY Parts DEF ReleaseTransaction, Calm, Polled, Size, NoTxn, TypeOK, Places, OneOwned,
       CallbackPlace, ProcPlace
  <1> QED
    BY <1>1, <1>2, <1>3, <1>4 DEF Calm

\* The request is completed: the driver has none then.
LEMMA CompleteRequestCalm ==
    ASSUME Undisturbed, CompleteRequest
    PROVE  Calm'
  <1> USE DEF Undisturbed, Base, Requests, NoReq, setup, reqVars, cbVars, hwVars, memVars, card,
              procVars, intVars, ghosts
  <1>1. EngineStopped' /\ Polled'
    <2>1. /\ procReq \in Requests /\ req[procReq] = "owned" /\ txn = NoTxn
          /\ cb \in {"idle", "process"}
          /\ req' = [req EXCEPT ![procReq] = "done"]
          /\ result' = [result EXCEPT ![procReq] = procStatus]
      BY DEF CompleteRequest, Complete, Places, Calm, ProcPlace
    <2>2. ASSUME NEW r \in Requests, Abandoned(r) PROVE Abandoned(r)'
      BY <2>1, <2>2 DEF TypeOK, Abandoned, CompleteRequest
    <2>3. flight # None => flight.req \in Requests
      BY DEF TypeOK, Descriptors
    <2>4. EngineStopped'
      BY <2>2, <2>3 DEF EngineStopped, Calm, CompleteRequest
    <2>5. \A r \in Requests : req'[r] # "owned"
      BY <2>1, OwnedUnique, SMTT(30) DEF TypeOK
    <2>6. Polled'
      BY <2>1, <2>5 DEF Polled, Calm, CompleteRequest
    <2> QED
      BY <2>4, <2>6
  <1>2. ClaimPlace'
    <2>1. /\ procReq \in Requests /\ procReq # cancelling /\ cancelling \in Requests \cup {NoReq}
          /\ req' = [req EXCEPT ![procReq] = "done"]
      BY DEF CompleteRequest, Complete, TypeOK, Places, Calm, ClaimPlace
    <2>2. \A r \in Requests : req'[r] = req[r] \/ req'[r] = "done"
      BY <2>1 DEF TypeOK
    <2>3. cancelling # NoReq => req'[cancelling] = req[cancelling]
      BY <2>1 DEF TypeOK
    <2>4. asked \subseteq Requests /\ cancelable \subseteq Requests
      BY DEF TypeOK
    <2> QED
      BY <2>1, <2>2, <2>3, <2>4 DEF CompleteRequest, Calm, ClaimPlace, CallbackPlace, ProcPlace
  <1>3. Masked' /\ ProcPlace' /\ Programmed' /\ EngineRunning' /\ StatusSeen'
    BY DEF CompleteRequest, Calm, Masked, ProcPlace, Programmed, EngineRunning, StatusSeen,
       PartMoved, PartElements, Size, Descriptor, Abandoned, Faithful, Reported, Elements, Complete
  <1>4. CallbackPlace'
    BY Parts DEF CompleteRequest, Calm, CallbackPlace, Complete, TypeOK, Places, OneOwned,
       ProcPlace, ClaimedOnce, ClaimPlace, Masked, EngineStopped, EngineRunning, Programmed,
       StatusSeen, Polled, PartMoved, PartElements, Size, Descriptor, Abandoned, NoTxn
  <1> QED
    BY <1>1, <1>2, <1>3, <1>4 DEF Calm

\* The buffers are cleared, and the completion work ends.
LEMMA ClearBuffersCalm ==
    ASSUME Undisturbed, ClearBuffers \/ Finish
    PROVE  Calm'
  <1> USE DEF Undisturbed, Base, Requests, NoReq, setup, reqVars, cbVars, hwVars, memVars, card,
              procVars, intVars, ghosts
  <1>1. CASE ClearBuffers
    <2>1. Programmed'
      <3>1. \A i \in Indices : desc'[i] = None
        BY <1>1 DEF ClearBuffers, Zeroed
      <3>2. UNCHANGED <<txn, moved, layout>>
        BY <1>1 DEF ClearBuffers
      <3>3. ASSUME txn.part > 0 PROVE \A i \in 0 .. Size - 1 : i \in Indices
        BY <3>3, PartSize, TransferAssumption DEF Indices
      <3> QED
        BY <3>1, <3>2, <3>3 DEF Calm, Programmed, Size, PartMoved, PartElements
    <2>2. /\ Masked' /\ CallbackPlace' /\ ProcPlace' /\ ClaimPlace' /\ EngineStopped'
         /\ EngineRunning' /\ StatusSeen'
      BY <1>1 DEF ClearBuffers, Calm, Masked, CallbackPlace, ProcPlace, ClaimPlace, EngineStopped,
         EngineRunning, StatusSeen, Abandoned, PartMoved, PartElements, Size, Descriptor,
         Faithful, Reported, Elements, Zeroed, NoWb
    <2>3. Polled'
      BY <1>1, Parts DEF ClearBuffers, Calm, Polled, Size, Zeroed, NoWb, TypeOK, Places, OneOwned,
         CallbackPlace, ProcPlace
    <2> QED
      BY <2>1, <2>2, <2>3 DEF Calm
  <1>2. CASE Finish
    <2>1. Masked'
      BY <1>2 DEF Finish, Calm, Masked
    <2>2. /\ CallbackPlace' /\ ProcPlace' /\ ClaimPlace' /\ Programmed' /\ EngineStopped'
         /\ EngineRunning' /\ StatusSeen' /\ Polled'
      BY <1>2 DEF Finish, Calm, CallbackPlace, ProcPlace, ClaimPlace, Programmed, EngineStopped,
         EngineRunning, StatusSeen, Polled, PartMoved, PartElements, Size, Descriptor,
         Abandoned, Faithful, Reported, Elements
    <2> QED
      BY <2>1, <2>2 DEF Calm
  <1> QED
    BY <1>1, <1>2

\* A request that may end with success may do so later.
LEMMA FaithfulKept ==
    ASSUME NEW r \in Requests, Faithful(r), layout' = layout, bytes'[r] = bytes[r],
           moved \subseteq moved', cut \subseteq cut'
    PROVE  Faithful(r)'
  <1>1. Elements(r)' = Elements(r)
    BY DEF Elements
  <1>2. Reported(r)' = Reported(r)
    BY <1>1 DEF Reported
  <1> QED
    BY <1>1, <1>2 DEF Faithful

\* What a step does to the properties, undisturbed: a request completed with
\* success had all its elements moved, the request completed is owned, and the
\* engine moves nothing for it unless it was cancelled.
LEMMA SafeStep ==
    ASSUME Base, Base', Calm, SuccessIsComplete, NoTransferAfterEnd,
           ~disturbed, ~disturbed', bugcheck = "none", Next
    PROVE  SuccessIsComplete' /\ NoBugcheck' /\ NoTransferAfterEnd'
  <1> USE DEF Base, Requests, NoReq, setup, reqVars, cbVars, hwVars, memVars, card, procVars,
              intVars, ghosts
  <1>1. \A r \in Requests : result[r] = "ok" /\ Faithful(r) => Faithful(r)'
    <2>1. layout' = layout /\ moved \subseteq moved' /\ cut \subseteq cut'
      BY DEF Next, Hardware, HwFetch, HwError, HwMove, HwIdle, Submit, CancelQueued,
         CancelDelivered, EvtDeviceFileCreate, Callback, EvtIoDma, Initialize, InitializeFails,
         MarkCancelable, Execute, ExecuteFails, StartFirst, PollError, PollDone, EvtCancelDma,
         ReleaseFailed, CompleteFailed, EvtChannelInterruptIsr, EvtChannelInterruptDpc,
         ProcessTransfer, GetRequest, ReadStatus, StopEngine, DmaCompletedLast, DmaCompletedNext,
         DmaCompletedFails, DmaCompletedMisused, StartNext, UnmarkCancelable, ReleaseTransaction,
         CompleteRequest, ClearBuffers, Finish
    <2>2. bytes' = bytes \/ DmaCompletedLast \/ DmaCompletedFails
      BY DEF Next, Hardware, HwFetch, HwError, HwMove, HwIdle, Submit, CancelQueued,
         CancelDelivered, EvtDeviceFileCreate, Callback, EvtIoDma, Initialize, InitializeFails,
         MarkCancelable, Execute, ExecuteFails, StartFirst, PollError, PollDone, EvtCancelDma,
         ReleaseFailed, CompleteFailed, EvtChannelInterruptIsr, EvtChannelInterruptDpc,
         ProcessTransfer, GetRequest, ReadStatus, StopEngine, DmaCompletedNext,
         DmaCompletedMisused, StartNext, UnmarkCancelable, ReleaseTransaction,
         CompleteRequest, ClearBuffers, Finish
    <2>3. ASSUME NEW r \in Requests, result[r] = "ok" PROVE bytes'[r] = bytes[r]
      <3>1. CASE DmaCompletedLast \/ DmaCompletedFails
        <4>1. bytes' = [bytes EXCEPT ![procReq] = txn.part] /\ procReq = txn.req /\ txn.req # NoReq
          BY <3>1 DEF DmaCompletedLast, DmaCompletedFails, CountBytes, Calm, ProcPlace
        <4>2. req[procReq] = "owned"
          BY <4>1 DEF Calm, CallbackPlace
        <4>3. procReq # r
          BY <2>3, <4>2 DEF OneOwned
        <4> QED
          BY <4>1, <4>3 DEF TypeOK
      <3> QED
        BY <2>2, <3>1
    <2> QED
      BY <2>1, <2>3, FaithfulKept
  <1>2. CASE CompleteFailed
    <2>1. /\ cbReq \in Requests /\ req[cbReq] = "owned" /\ bugcheck' # "completedTwice"
          /\ bugcheck' # "notTransferring"
          /\ \/ UNCHANGED <<req, result>>
             \/ /\ req' = [req EXCEPT ![cbReq] = "done"]
                /\ result' = [result EXCEPT ![cbReq] = cbStatus]
      BY <1>2 DEF CompleteFailed, Complete, Places, Calm, CallbackPlace
    <2>2. cbStatus # "ok"
      BY DEF TypeOK
    <2>3. SuccessIsComplete'
      BY <1>1, <2>1, <2>2 DEF SuccessIsComplete, TypeOK, Faithful
    <2>4. flight # None /\ flight.req = cbReq => cbStatus = "cancelled"
      BY <1>2, <2>1 DEF CompleteFailed, Calm, EngineStopped, EngineRunning, Abandoned, TypeOK
    <2>5. flight' = flight /\ (flight # None => flight.req \in Requests)
      BY <1>2 DEF CompleteFailed, TypeOK, Descriptors
    <2>6. NoTransferAfterEnd'
      BY <2>1, <2>4, <2>5 DEF NoTransferAfterEnd, TypeOK
    <2> QED
      BY <2>1, <2>3, <2>6 DEF NoBugcheck
  <1>3. CASE CompleteRequest
    <2>1. /\ procReq \in Requests /\ req[procReq] = "owned" /\ bugcheck' # "completedTwice"
          /\ bugcheck' # "notTransferring"
          /\ \/ UNCHANGED <<req, result>>
             \/ /\ req' = [req EXCEPT ![procReq] = "done"]
                /\ result' = [result EXCEPT ![procReq] = procStatus]
      BY <1>3 DEF CompleteRequest, Complete, Places, Calm, ProcPlace
    <2>2. procStatus = "ok" => Faithful(procReq)'
      <3>1. procStatus = "ok" => Faithful(procReq)
        BY <1>3 DEF CompleteRequest, Calm, StatusSeen
      <3>2. UNCHANGED <<layout, bytes, moved, cut, procReq>>
        BY <1>3 DEF CompleteRequest
      <3> QED
        BY <2>1, <3>1, <3>2, FaithfulKept
    <2>7. procReq' = procReq
      BY <1>3 DEF CompleteRequest
    <2>3. SuccessIsComplete'
      BY <1>1, <2>1, <2>2, <2>7 DEF SuccessIsComplete, TypeOK, Faithful
    <2>4. flight # None => flight.req # procReq
      BY <1>3, <2>1 DEF CompleteRequest, Calm, EngineStopped, EngineRunning, ProcPlace, Abandoned,
         TypeOK
    <2>5. flight' = flight /\ (flight # None => flight.req \in Requests)
      BY <1>3 DEF CompleteRequest, TypeOK, Descriptors
    <2>6. NoTransferAfterEnd'
      BY <2>1, <2>4, <2>5 DEF NoTransferAfterEnd, TypeOK
    <2> QED
      BY <2>1, <2>3, <2>6 DEF NoBugcheck
  <1>4. CASE DmaCompletedMisused
    BY <1>4 DEF DmaCompletedMisused, Calm, ProcPlace
  <1>5. CASE HwFetch
    <2>1. flight' = desc[pos] /\ flight' # None
      BY <1>5 DEF HwFetch
    <2>2. run /\ txn.req \in Requests /\ txn.part > 0 /\ pos \in 0 .. Size - 1
      <3>1. run /\ txn.part > 0 /\ pos < Size /\ pos \in Nat
        BY <1>5 DEF HwFetch, Calm, EngineRunning, TypeOK
      <3> QED
        BY <3>1, PartSize
    <2>3. flight'.req = txn.req /\ req[txn.req] = "owned"
      BY <2>1, <2>2 DEF Calm, CallbackPlace, Programmed, Descriptor
    <2> QED
      BY <1>1, <1>5, <2>3 DEF HwFetch, SuccessIsComplete, Faithful, NoBugcheck, NoTransferAfterEnd
  <1>6. CASE StartFirst \/ StartNext
    <2>1. flight' # None => flight # None /\ flight'.req = flight.req
      BY <1>6 DEF StartFirst, StartNext, EngineStart, TypeOK, Descriptors
    <2>2. UNCHANGED <<req, result, bugcheck>>
      BY <1>6 DEF StartFirst, StartNext
    <2> QED
      BY <1>1, <2>1, <2>2 DEF SuccessIsComplete, Faithful, NoBugcheck, NoTransferAfterEnd
  <1>7. ASSUME NEW r \in Requests, CancelQueued(r)
        PROVE  SuccessIsComplete' /\ NoBugcheck' /\ NoTransferAfterEnd'
    BY <1>1, <1>7 DEF CancelQueued, TypeOK, SuccessIsComplete, Faithful, NoBugcheck,
                      NoTransferAfterEnd
  <1>8. ASSUME NEW r \in Requests, Submit(r) \/ EvtIoDma(r)
        PROVE  SuccessIsComplete' /\ NoBugcheck' /\ NoTransferAfterEnd'
    <2>1. \A s \in Requests : req'[s] = "done" => req[s] = "done"
      BY <1>8 DEF Submit, EvtIoDma, TypeOK
    <2>2. UNCHANGED <<result, bugcheck, flight>> /\ (flight # None => flight.req \in Requests)
      BY <1>8 DEF Submit, EvtIoDma, TypeOK, Descriptors
    <2> QED
      BY <1>1, <2>1, <2>2 DEF SuccessIsComplete, Faithful, NoBugcheck, NoTransferAfterEnd
  <1>9. CASE UNCHANGED <<req, result, bugcheck>> /\ flight' \in {flight, None}
    BY <1>1, <1>9 DEF SuccessIsComplete, Faithful, NoBugcheck, NoTransferAfterEnd
  <1>10. CASE Hardware
    BY <1>5, <1>9, <1>10 DEF Hardware, HwError, HwMove, HwIdle
  <1>11. CASE Callback
    <2>1. Initialize \/ InitializeFails \/ MarkCancelable \/ Execute \/ ExecuteFails =>
              UNCHANGED <<req, result, bugcheck, flight>>
      BY DEF Initialize, InitializeFails, MarkCancelable, Execute, ExecuteFails
    <2>2. PollError \/ PollDone \/ EvtCancelDma \/ ReleaseFailed =>
              UNCHANGED <<req, result, bugcheck, flight>>
      BY DEF PollError, PollDone, EvtCancelDma, ReleaseFailed, EngineStop
    <2> QED
      BY <1>2, <1>6, <1>8, <1>9, <1>11, <2>1, <2>2 DEF Callback
  <1>12. CASE ProcessTransfer
    <2>1. GetRequest \/ ReadStatus \/ StopEngine \/ DmaCompletedLast \/ DmaCompletedNext
              \/ DmaCompletedFails =>
              UNCHANGED <<req, result, bugcheck, flight>>
      BY DEF GetRequest, ReadStatus, StopEngine, EngineStop, DmaCompletedLast, DmaCompletedNext,
             DmaCompletedFails
    <2>2. UnmarkCancelable \/ ReleaseTransaction \/ ClearBuffers \/ Finish =>
              UNCHANGED <<req, result, bugcheck, flight>>
      BY DEF UnmarkCancelable, ReleaseTransaction, ClearBuffers, Finish
    <2> QED
      BY <1>3, <1>4, <1>6, <1>9, <1>12, <2>1, <2>2 DEF ProcessTransfer
  <1>13. CASE EvtDeviceFileCreate \/ EvtChannelInterruptIsr \/ EvtChannelInterruptDpc
    BY <1>9, <1>13 DEF EvtDeviceFileCreate, EvtChannelInterruptIsr, EvtChannelInterruptDpc
  <1>14. ASSUME NEW r \in Requests, CancelDelivered(r)
         PROVE  SuccessIsComplete' /\ NoBugcheck' /\ NoTransferAfterEnd'
    BY <1>9, <1>14 DEF CancelDelivered
  <1> QED
    BY <1>7, <1>8, <1>10, <1>11, <1>12, <1>13, <1>14 DEF Next

\* The histories only grow.
LEMMA HistoryStep ==
    ASSUME TypeOK, [Next]_vars
    PROVE  (disturbed => disturbed') /\ (bugcheck # "none" => UNCHANGED vars)
  <1>1. Next => (disturbed => disturbed')
    BY DEF Next, Hardware, HwFetch, HwError, HwMove, HwIdle, Submit, CancelQueued,
       CancelDelivered, EvtDeviceFileCreate, Callback, EvtIoDma, Initialize, InitializeFails,
       MarkCancelable, Execute, ExecuteFails, StartFirst, PollError, PollDone, EvtCancelDma,
       ReleaseFailed, CompleteFailed, EvtChannelInterruptIsr, EvtChannelInterruptDpc,
       ProcessTransfer, GetRequest, ReadStatus, StopEngine, DmaCompletedLast, DmaCompletedNext,
       DmaCompletedFails, DmaCompletedMisused, StartNext, UnmarkCancelable, ReleaseTransaction,
       CompleteRequest, ClearBuffers, Finish, Disturb, ghosts
  <1> QED
    BY <1>1 DEF Next, vars, ghosts

\* A step nothing disturbs keeps what is between callback, engine and
\* completion work.
LEMMA CalmStep ==
    ASSUME Undisturbed, Next
    PROVE  Calm'
  <1>1. Hardware => Calm'
    BY HwFetchCalm, HwErrorCalm, HwMoveCalm, HwIdleCalm DEF Hardware
  <1>2. ASSUME NEW r \in Requests, Submit(r) \/ CancelQueued(r) \/ CancelDelivered(r)
        PROVE  Calm'
    BY <1>2, SubmitCalm
  <1>3. Callback => Calm'
    BY EvtIoDmaCalm, InitializeCalm, ExecuteCalm, StartFirstCalm, PollErrorCalm, PollDoneCalm,
       EvtCancelDmaCalm, ReleaseFailedCalm, CompleteFailedCalm DEF Callback
  <1>4. DmaCompletedMisused => FALSE
    BY DEF Undisturbed, DmaCompletedMisused
  <1>5. ProcessTransfer => Calm'
    BY <1>4, GetRequestCalm, StopEngineCalm, DmaCompletedLastCalm, DmaCompletedNextCalm,
       StartNextCalm, UnmarkCancelableCalm, ReleaseTransactionCalm, CompleteRequestCalm,
       ClearBuffersCalm DEF ProcessTransfer
  <1> QED
    BY <1>1, <1>2, <1>3, <1>5, EvtDeviceFileCreateCalm, EvtChannelInterruptIsrCalm DEF Next

\* At first nothing is under way.
LEMMA InitHolds ==
    ASSUME Init
    PROVE  TransferInv
  <1> USE DEF Init, Requests, NoReq, NoTxn, NoWb
  <1>1. TypeOK
    <2>1. desc \in [Indices -> Descriptors \cup {None}]
      BY DEF Zeroed
    <2>2. irqEn \in BOOLEAN
      BY Zenon
    <2>3. wb.count = 0 /\ wb.err = FALSE
      OBVIOUS
    <2>4. wb.err \in BOOLEAN
      BY <2>3, Zenon
    <2>5. /\ run \in BOOLEAN /\ active \in BOOLEAN /\ errors \in BOOLEAN /\ irqReq \in BOOLEAN
          /\ dpcQueued \in BOOLEAN /\ disturbed \in BOOLEAN
      BY Zenon
    <2>6. /\ txn.req = NoReq /\ txn.part = 0 /\ pos \in 0 .. DescCount
          /\ numDescs \in 0 .. DescCount /\ wb.count \in 0 .. DescCount
      BY TransferAssumption
    <2> QED
      BY <2>1, <2>2, <2>4, <2>5, <2>6 DEF TypeOK
  <1>2. Places /\ OneOwned /\ ClaimedOnce
    BY DEF Places, OneOwned, ClaimedOnce
  <1>3. Masked
    BY DEF Masked
  <1>4. CallbackPlace /\ ProcPlace /\ ClaimPlace /\ Programmed
    BY DEF CallbackPlace, ProcPlace, ClaimPlace, Programmed
  <1>5. EngineStopped /\ EngineRunning /\ StatusSeen /\ Polled
    BY DEF EngineStopped, EngineRunning, StatusSeen, Polled
  <1>6. SuccessIsComplete /\ NoBugcheck /\ NoTransferAfterEnd
    BY DEF SuccessIsComplete, NoBugcheck, NoTransferAfterEnd
  <1> QED
    BY <1>1, <1>2, <1>3, <1>4, <1>5, <1>6 DEF TransferInv, Base, Calm

\* No step breaks the invariant.
LEMMA StepHolds ==
    ASSUME TransferInv, [Next]_vars
    PROVE  TransferInv'
  <1>1. Base'
    BY BaseStep DEF TransferInv
  <1>2. CASE UNCHANGED vars
    <2> USE DEF vars, setup, reqVars, cbVars, hwVars, memVars, card, procVars, intVars, ghosts
    <2>1. disturbed' = disturbed /\ bugcheck' = bugcheck
      BY <1>2
    <2>2. Masked = Masked' /\ CallbackPlace = CallbackPlace' /\ ProcPlace = ProcPlace'
      BY <1>2 DEF Masked, CallbackPlace, ProcPlace
    <2>3. ClaimPlace = ClaimPlace' /\ Programmed = Programmed' /\ StatusSeen = StatusSeen'
      BY <1>2 DEF ClaimPlace, Programmed, StatusSeen, Size, Descriptor, PartMoved, PartElements,
                  Faithful, Reported, Elements
    <2>4. EngineStopped = EngineStopped' /\ EngineRunning = EngineRunning' /\ Polled = Polled'
      BY <1>2 DEF EngineStopped, EngineRunning, Polled, Abandoned, Size, Descriptor, PartMoved,
                  PartElements
    <2>5. /\ SuccessIsComplete = SuccessIsComplete' /\ NoBugcheck = NoBugcheck'
          /\ NoTransferAfterEnd = NoTransferAfterEnd'
      BY <1>2 DEF SuccessIsComplete, NoBugcheck, NoTransferAfterEnd, Reported, Elements
    <2> QED
      BY <1>1, <2>1, <2>2, <2>3, <2>4, <2>5 DEF TransferInv, Calm
  <1>3. CASE Next /\ disturbed'
    BY <1>1, <1>3 DEF TransferInv, SuccessIsComplete, NoBugcheck, NoTransferAfterEnd
  <1>4. CASE Next /\ ~disturbed'
    <2>1. ~disturbed /\ bugcheck = "none"
      BY <1>4, HistoryStep DEF Next, TransferInv, Base
    <2>2. Base /\ Calm /\ SuccessIsComplete /\ NoTransferAfterEnd
      BY <2>1 DEF TransferInv
    <2>3. bugcheck' = "none" => Calm'
      BY <1>1, <1>4, <2>1, <2>2, CalmStep DEF Undisturbed
    <2>4. SuccessIsComplete' /\ NoBugcheck' /\ NoTransferAfterEnd'
      BY <1>1, <1>4, <2>1, <2>2, SafeStep
    <2> QED
      BY <1>1, <1>4, <2>3, <2>4 DEF TransferInv
  <1> QED
    BY <1>2, <1>3, <1>4

\* The inductive invariant holds of every reachable state.
THEOREM TransferInvariant == Spec => []TransferInv
  <1>1. Init => TransferInv
    BY InitHolds
  <1>2. TransferInv /\ [Next]_vars => TransferInv'
    BY StepHolds
  <1> QED
    BY <1>1, <1>2, PTL DEF Spec

\* Every variable keeps to its range.
THEOREM TypeCorrect == Spec => []TypeOK
  <1>1. TransferInv => TypeOK
    BY DEF TransferInv, Base
  <1> QED
    BY <1>1, TransferInvariant, PTL

\* Whatever the engine, the interrupt and the callbacks interleave, a request
\* that EngineProcessTransfer completes with success has had every element
\* moved that it reports, and reports every element of every part unless
\* WdfDmaTransactionDmaCompleted could not go on with it.
THEOREM SuccessComplete == Spec => []SuccessIsComplete
  <1>1. TransferInv => SuccessIsComplete
    BY DEF TransferInv
  <1> QED
    BY <1>1, TransferInvariant, PTL

\* Undisturbed, no request is completed twice and WdfDmaTransactionDmaCompleted
\* is not called on a transaction that was not executed.
THEOREM NeverCompletedTwice == Spec => []NoBugcheck
  <1>1. TransferInv => NoBugcheck
    BY DEF TransferInv
  <1> QED
    BY <1>1, TransferInvariant, PTL

\* Undisturbed, the engine moves data for a completed request only if it was
\* cancelled.
THEOREM NothingAfterEnd == Spec => []NoTransferAfterEnd
  <1>1. TransferInv => NoTransferAfterEnd
    BY DEF TransferInv
  <1> QED
    BY <1>1, TransferInvariant, PTL

\* Undisturbed, a stopped transfer has its interrupt on the way, so no request
\* is left waiting in interrupt mode for want of one.
THEOREM StopReported == Spec => []StoppedIsReported
  <1>1. TransferInv => StoppedIsReported
    BY DEF TransferInv, Calm, EngineRunning, StoppedIsReported
  <1> QED
    BY <1>1, TransferInvariant, PTL

\* Undisturbed, the only requests a polling callback leaves uncompleted are those
\* with a writeback error and those the framework split.
THEOREM OrphansHaveReason == Spec => []OrphansExplained
  <1>1. TransferInv => OrphansExplained
    <2> SUFFICES ASSUME TransferInv, NEW r \in Requests, poll, cb = "idle", req[r] = "owned",
                        ~disturbed, bugcheck = "none"
                 PROVE  wb.err \/ Len(layout[r]) > 1
      BY DEF OrphansExplained
    <2>1. Base /\ TypeOK /\ txn.part \in Nat
      BY DEF TransferInv, Base, TypeOK
    <2>2. txn.req = r /\ (txn.part > 1 \/ wb.err)
      BY DEF TransferInv, Calm, Polled
    <2>3. ASSUME txn.part > 1 PROVE txn.part \in 1 .. Len(layout[r]) /\ Len(layout[r]) \in Nat
      <3>1. txn.part > 0
        BY <2>1, <2>3
      <3> QED
        BY <2>1, <2>2, <3>1, PartSize, Parts
    <2> QED
      BY <2>1, <2>2, <2>3
  <1> QED
    BY <1>1, TransferInvariant, PTL

-----------------------------------------------------------------------------
(* The queue the applications see.                                         *)

FlightElement == <<flight.req, flight.part, flight.index>>

\* Nothing was moved of a request that was not executed, ...
NoneMoved ==
    /\ \A x \in moved : req[x[1]] \in {"owned", "done"}
    /\ cb \in {"initialize", "mark", "execute"} => \A x \in moved : x[1] # cbReq

\* ... of one that was, nothing beyond the part under way, of that part nothing
\* before it is started, and then nothing from the descriptor in flight on.
MovedSoFar ==
    \A x \in moved :
        txn.part > 0 /\ x[1] = txn.req =>
            /\ x[2] <= txn.part
            /\ cb = "start" \/ proc = "start" => x[2] < txn.part
            /\ run /\ active /\ x[2] = txn.part =>
                   x[3] < IF flight = None \/ pos = 0 THEN pos ELSE pos - 1

\* What is in flight is the next element of its request, and of the part under
\* way when that is its request's.
FlightIsNext == flight # None => Queue!IsNext(flight.req, FlightElement)
FlightPart ==
    flight # None /\ txn.part > 0 /\ flight.req = txn.req => flight.part = txn.part

\* Callback and completion work know what to complete their request with.
StatusKnown ==
    /\ cb \in {"release", "complete"} => cbStatus # "none"
    /\ proc \in {"stop", "completed", "start", "unmark", "release", "complete"} =>
           procStatus # "none"

MovesOrderly == NoneMoved /\ MovedSoFar /\ FlightIsNext /\ FlightPart /\ StatusKnown

QueueInv == TransferInv /\ (~disturbed /\ bugcheck = "none" => MovesOrderly)

\* The elements of a request, by part and index.
LEMMA ElementOf ==
    ASSUME NEW r \in Requests, NEW x
    PROVE  x \in Elements(r) <=>
               \E p \in 1 .. Len(layout[r]) : \E i \in 0 .. layout[r][p] - 1 : x = <<r, p, i>>
  BY DEF Elements

\* What is fetched is next: the parts before were moved, and of this part what
\* was fetched before.
LEMMA FetchedIsNext ==
    ASSUME Base, Calm, MovesOrderly, HwFetch
    PROVE  /\ flight'.req = txn.req /\ flight'.part = txn.part /\ flight'.index = pos
           /\ flight' # None /\ txn.req \in Requests /\ pos \in Nat /\ pos' = pos + 1
           /\ Queue!IsNext(txn.req, <<txn.req, txn.part, pos>>)
  <1>1. /\ run /\ active /\ flight = None /\ txn.part > 0 /\ pos < Size /\ pos \in Nat
        /\ flight' = desc[pos] /\ desc[pos] # None /\ pos' = pos + 1
    BY DEF Base, TypeOK, Calm, EngineRunning, HwFetch
  <1>2. /\ txn.req \in Requests /\ txn.part \in Nat /\ txn.part \in 1 .. Len(layout[txn.req])
        /\ Size \in 1 .. DescCount /\ Len(layout[txn.req]) \in Nat
    BY <1>1, PartSize, Parts DEF Base
  <1>3. desc[pos] = Descriptor(pos)
    BY <1>1, <1>2 DEF Calm, Programmed
  <1>4. flight'.req = txn.req /\ flight'.part = txn.part /\ flight'.index = pos
    BY <1>1, <1>3 DEF Descriptor
  <1> DEFINE x == <<txn.req, txn.part, pos>>
  <1>5. x \in Elements(txn.req)
    BY <1>1, <1>2, ElementOf DEF Size
  <1>6. x \notin moved
    BY <1>1, <1>2 DEF MovesOrderly, MovedSoFar
  <1>7. ASSUME NEW y \in Elements(txn.req), Queue!Before(y, x)
        PROVE  y \in moved
    <2>1. PICK p \in 1 .. Len(layout[txn.req]) :
              \E i \in 0 .. layout[txn.req][p] - 1 : y = <<txn.req, p, i>>
      BY <1>2, ElementOf
    <2>2. PICK i \in 0 .. layout[txn.req][p] - 1 : y = <<txn.req, p, i>>
      BY <2>1
    <2>3. layout[txn.req][p] \in 1 .. DescCount
      BY <1>2, <2>1, Parts DEF Base
    <2>4. p < txn.part \/ (p = txn.part /\ i < pos)
      BY <1>7, <2>2 DEF Queue!Before
    <2>5. CASE p < txn.part
      <3>1. PartMoved(txn.req, p)
        BY <1>1, <1>2, <2>1, <2>5 DEF Calm, Programmed
      <3> QED
        BY <2>2, <3>1 DEF PartMoved, PartElements
    <2>6. CASE p = txn.part /\ i < pos
      <3>1. i \in 0 .. pos - 1
        BY <1>1, <2>2, <2>3, <2>6
      <3> QED
        BY <1>1, <2>2, <2>6, <3>1 DEF Calm, EngineRunning
    <2> QED
      BY <2>4, <2>5, <2>6
  <1> HIDE DEF x
  <1>8. Queue!IsNext(txn.req, x)
    BY <1>2, <1>5, <1>6, <1>7 DEF Queue!IsNext
  <1> QED
    BY <1>1, <1>2, <1>4, <1>8 DEF x

\* While something is in flight its request is the one the engine runs for, or
\* one whose cancellation is done or about to be.
LEMMA FlightOwned ==
    ASSUME Base, Calm, flight # None
    PROVE  /\ flight.req \in Requests /\ flight.part \in Nat /\ flight.index \in Nat
           /\ \/ req[flight.req] = "owned"
              \/ req[flight.req] = "done" /\ result[flight.req] = "cancelled"
           /\ cb \in {"initialize", "mark", "execute", "start"} => req[flight.req] = "done"
           /\ proc \in {"completed", "start"} => req[flight.req] = "done"
           /\ run /\ req[flight.req] = "owned" =>
                  pos \in Nat /\ pos > 0 /\ flight = Descriptor(pos - 1)
           /\ ~run /\ req[flight.req] = "owned" => cb \in {"release", "complete"}
  <1>1. flight \in Descriptors /\ pos \in Nat
    BY DEF Base, TypeOK
  <1>2. flight.req \in Requests /\ flight.part \in Nat /\ flight.index \in Nat
    BY <1>1 DEF Descriptors, Indices
  <1>3. CASE run
    <2>1. /\ cb \in {"idle", "poll", "process"} /\ proc \notin {"completed", "start"}
          /\ txn.req # NoReq
          /\ \/ pos > 0 /\ flight = Descriptor(pos - 1)
             \/ Abandoned(flight.req)
      BY <1>3 DEF Calm, EngineRunning
    <2>2. req[txn.req] = "owned"
      BY <2>1 DEF Calm, CallbackPlace
    <2> QED
      BY <1>1, <1>2, <1>3, <2>1, <2>2 DEF Descriptor, Abandoned
  <1>4. CASE ~run
    <2>1. Abandoned(flight.req)
      BY <1>4 DEF Calm, EngineStopped
    <2>2. cb \notin {"idle", "process"} => req[cbReq] = "owned"
      BY DEF Calm, CallbackPlace
    <2>3. proc \in {"completed", "start"} => cb \in {"idle", "process"}
      BY DEF Calm, ProcPlace
    <2> QED
      BY <1>2, <1>4, <2>1, <2>2, <2>3 DEF Abandoned
  <1> QED
    BY <1>3, <1>4

\* What is next stays next while nothing is moved and the same is in flight.
LEMMA NextKept ==
    ASSUME TypeOK, FlightIsNext, UNCHANGED <<layout, moved>>,
           flight' # None => /\ flight # None /\ flight'.req = flight.req
                             /\ flight'.part = flight.part /\ flight'.index = flight.index
    PROVE  FlightIsNext'
  <1> SUFFICES ASSUME flight' # None
               PROVE  Queue!IsNext(flight.req, FlightElement)'
    BY DEF FlightIsNext
  <1>1. Queue!IsNext(flight.req, FlightElement) /\ flight'.req = flight.req
    BY DEF FlightIsNext
  <1>2. FlightElement' = FlightElement
    BY DEF FlightElement
  <1>3. flight.req \in Requests
    BY DEF TypeOK, Descriptors
  <1>4. \A r \in Requests : Elements(r)' = Elements(r)
    BY DEF Elements
  <1> QED
    BY <1>1, <1>2, <1>3, <1>4 DEF Queue!IsNext, Queue!Before

\* Most steps move nothing and program nothing.
LEMMA MovesKept ==
    ASSUME Base, MovesOrderly, UNCHANGED <<layout, moved, flight>>,
           \A r \in Requests : req[r] \in {"owned", "done"} => req'[r] \in {"owned", "done"},
           cb' \in {"initialize", "mark", "execute"} =>
               cb \in {"initialize", "mark", "execute"} /\ cbReq' = cbReq,
           txn' = txn \/ txn'.part = 0,
           cb' = "start" \/ proc' = "start" => cb = "start" \/ proc = "start",
           run' /\ active' => run /\ active /\ pos' = pos,
           StatusKnown'
    PROVE  MovesOrderly'
  <1>1. \A x \in moved : x[1] \in Requests
    BY DEF Base, TypeOK
  <1>2. NoneMoved'
    BY <1>1 DEF MovesOrderly, NoneMoved
  <1>3. MovedSoFar' /\ FlightPart'
    BY DEF MovesOrderly, MovedSoFar, FlightPart
  <1>4. FlightIsNext'
    BY NextKept DEF Base, MovesOrderly
  <1> QED
    BY <1>2, <1>3, <1>4 DEF MovesOrderly

\* The descriptor fetched is behind everything moved.
LEMMA HwFetchMoves ==
    ASSUME Base, Calm, MovesOrderly, HwFetch
    PROVE  MovesOrderly'
  <1>1. UNCHANGED <<layout, moved, req, cb, cbReq, cbStatus, txn, run, active, proc,
                   procStatus>>
    BY DEF HwFetch, setup, reqVars, cbVars, procVars, ghosts
  <1>2. /\ flight'.req = txn.req /\ flight'.part = txn.part /\ flight'.index = pos
        /\ flight = None /\ flight' # None /\ txn.req \in Requests
        /\ pos \in Nat /\ pos' = pos + 1
        /\ Queue!IsNext(txn.req, <<txn.req, txn.part, pos>>)
    BY FetchedIsNext DEF HwFetch
  <1>3. NoneMoved' /\ StatusKnown'
    BY <1>1 DEF MovesOrderly, NoneMoved, StatusKnown
  <1>4. MovedSoFar' /\ FlightPart'
    <2>1. pos' # 0 /\ pos' - 1 = pos
      BY <1>2
    <2>2. MovedSoFar'
      BY <1>1, <1>2, <2>1 DEF MovesOrderly, MovedSoFar
    <2> QED
      BY <1>1, <1>2, <2>2 DEF FlightPart
  <1>5. FlightIsNext'
    <2>1. \A r \in Requests : Elements(r)' = Elements(r)
      BY <1>1 DEF Elements
    <2> QED
      BY <1>1, <1>2, <2>1 DEF FlightIsNext, FlightElement, Queue!IsNext, Queue!Before
  <1> QED
    BY <1>3, <1>4, <1>5 DEF MovesOrderly

\* What is moved was in flight: it is of a request that is owned or cancelled,
\* and if of the part under way it comes before what is fetched next.
LEMMA HwMoveMoves ==
    ASSUME Base, Calm, MovesOrderly, HwMove
    PROVE  MovesOrderly'
  <1>1. /\ UNCHANGED <<layout, req, cb, cbReq, cbStatus, txn, run, pos, proc, procStatus>>
        /\ moved' = moved \cup {FlightElement} /\ flight' = None /\ flight # None
        /\ active' => active
    BY DEF HwMove, setup, reqVars, cbVars, procVars, ghosts, FlightElement
  <1>2. /\ flight.req \in Requests /\ flight.part \in Nat /\ flight.index \in Nat
        /\ req[flight.req] \in {"owned", "done"}
        /\ cb \in {"initialize", "mark", "execute", "start"} => req[flight.req] = "done"
        /\ proc = "start" => req[flight.req] = "done"
        /\ run /\ req[flight.req] = "owned" =>
               pos \in Nat /\ pos > 0 /\ flight = Descriptor(pos - 1)
    BY <1>1, FlightOwned
  <1>3. txn.req # NoReq => req[txn.req] = "owned"
    BY DEF Calm, CallbackPlace
  <1>4. cb \in {"initialize", "mark", "execute"} => req[cbReq] = "owned"
    BY DEF Calm, CallbackPlace
  <1>5. NoneMoved' /\ StatusKnown'
    BY <1>1, <1>2, <1>4 DEF MovesOrderly, NoneMoved, StatusKnown, FlightElement
  <1>6. FlightIsNext' /\ FlightPart'
    BY <1>1 DEF FlightIsNext, FlightPart
  <1>7. ASSUME NEW x \in moved', txn.part > 0, x[1] = txn.req
        PROVE  /\ x[2] <= txn.part
               /\ cb = "start" \/ proc = "start" => x[2] < txn.part
               /\ run /\ active' /\ x[2] = txn.part => x[3] < pos
    <2>1. txn.req \in Requests /\ txn.part \in Nat /\ req[txn.req] = "owned"
      BY <1>3, <1>7, PartSize DEF Requests, NoReq
    <2>2. CASE x = FlightElement
      <3>1. x[1] = flight.req /\ x[2] = flight.part /\ x[3] = flight.index
        BY <2>2 DEF FlightElement
      <3>2. flight.part = txn.part /\ cb # "start" /\ proc # "start"
        BY <1>1, <1>2, <1>7, <2>1, <3>1 DEF MovesOrderly, FlightPart
      <3>3. run => flight.index = pos - 1 /\ pos \in Nat
        BY <1>2, <1>7, <2>1, <3>1 DEF Descriptor
      <3> QED
        BY <2>1, <3>1, <3>2, <3>3
    <2>3. CASE x \in moved
      <3>1. x \in Requests \X Nat \X Nat /\ pos \in Nat
        BY <2>3 DEF Base, TypeOK
      <3>2. /\ x[2] <= txn.part
            /\ cb = "start" \/ proc = "start" => x[2] < txn.part
            /\ run /\ active /\ x[2] = txn.part =>
                   x[3] < IF flight = None \/ pos = 0 THEN pos ELSE pos - 1
        BY <1>7, <2>3 DEF MovesOrderly, MovedSoFar
      <3> QED
        BY <1>1, <3>1, <3>2
    <2> QED
      BY <1>1, <1>7, <2>2, <2>3
  <1>8. MovedSoFar'
    BY <1>1, <1>7 DEF MovedSoFar
  <1> QED
    BY <1>5, <1>6, <1>8 DEF MovesOrderly

\* The engine is started on a part of which nothing was moved.
LEMMA StartMoves ==
    ASSUME Base, Calm, MovesOrderly, StartFirst \/ StartNext
    PROVE  MovesOrderly'
  <1>1. /\ UNCHANGED <<layout, moved, req, cbStatus, txn, procStatus>> /\ EngineStart
        /\ cb = "start" \/ proc = "start"
        /\ cb' \in {cb, "poll", "idle"} /\ proc' \in {proc, "zero"}
        /\ cb' = cb => cbReq' = cbReq
    BY DEF StartFirst, StartNext, setup, reqVars, cbVars, procVars, ghosts
  <1>2. ~run
    BY <1>1 DEF Calm, EngineRunning
  <1>3. /\ flight' # None => /\ flight # None /\ flight'.req = flight.req
                             /\ flight'.part = flight.part /\ flight'.index = flight.index
    BY <1>1, <1>2 DEF EngineStart, Base, TypeOK, Descriptors
  <1>4. NoneMoved' /\ StatusKnown'
    BY <1>1 DEF MovesOrderly, NoneMoved, StatusKnown
  <1>5. FlightIsNext' /\ FlightPart'
    BY <1>1, <1>3, NextKept DEF Base, MovesOrderly, FlightPart
  <1>6. ASSUME NEW x \in moved, txn.part > 0, x[1] = txn.req
        PROVE  x[2] < txn.part /\ x[2] \in Nat /\ txn.part \in Nat
    BY <1>1, <1>6, PartSize DEF MovesOrderly, MovedSoFar, Base, TypeOK
  <1>7. MovedSoFar'
    BY <1>1, <1>6 DEF MovedSoFar
  <1> QED
    BY <1>4, <1>5, <1>7 DEF MovesOrderly

\* A part is programmed when the parts before it are all that was moved.
LEMMA ProgramMoves ==
    ASSUME Base, Calm, MovesOrderly, Execute \/ DmaCompletedNext
    PROVE  MovesOrderly'
  <1>1. /\ UNCHANGED <<layout, moved, req, flight, cbReq, run, active, pos, procStatus>>
        /\ \/ cb' = cb /\ proc = "completed"
           \/ cb = "execute" /\ cb' = "start" /\ proc' = proc
        /\ \/ Execute /\ txn'.req = cbReq /\ txn'.part = 1
           \/ DmaCompletedNext /\ txn'.req = txn.req /\ txn'.part = txn.part + 1 /\ txn.part > 0
    BY DEF Execute, DmaCompletedNext, EngineProgramDma, setup, reqVars, cbVars, hwVars, procVars,
           ghosts
  <1>2. txn'.req \in Requests /\ req[txn'.req] = "owned"
    BY <1>1, PartSize DEF Execute, Calm, CallbackPlace, Base, Places, NoReq, Requests
  <1>3. ~run
    BY <1>1 DEF Execute, Calm, EngineRunning
  <1>4. flight # None => flight.req # txn'.req
    BY <1>1, <1>2, FlightOwned DEF Execute
  <1>5. NoneMoved'
    BY <1>1 DEF MovesOrderly, NoneMoved
  <1>6. StatusKnown'
    BY <1>1 DEF Execute, DmaCompletedNext, MovesOrderly, StatusKnown, cbVars
  <1>7. FlightIsNext' /\ FlightPart'
    BY <1>1, <1>4, NextKept DEF Base, MovesOrderly, FlightPart
  <1>8. ASSUME NEW x \in moved, x[1] = txn'.req
        PROVE  x[2] < txn'.part /\ x[2] \in Nat /\ txn'.part \in Nat
    <2>1. DmaCompletedNext
      BY <1>1, <1>8 DEF Execute, MovesOrderly, NoneMoved
    <2>2. x[1] = txn.req /\ txn.part > 0 /\ txn'.part = txn.part + 1
      BY <1>1, <1>8, <2>1 DEF Execute, DmaCompletedNext
    <2>3. x[2] \in Nat /\ txn.part \in Nat
      BY <1>8 DEF Base, TypeOK
    <2>4. x[2] <= txn.part
      BY <1>8, <2>2 DEF MovesOrderly, MovedSoFar
    <2> QED
      BY <2>2, <2>3, <2>4
  <1>9. MovedSoFar'
    BY <1>1, <1>3, <1>8 DEF MovedSoFar
  <1> QED
    BY <1>5, <1>6, <1>7, <1>9 DEF MovesOrderly

\* Nothing has been moved of a request that is delivered.
LEMMA EvtIoDmaMoves ==
    ASSUME Base, MovesOrderly, NEW r \in Requests, EvtIoDma(r)
    PROVE  MovesOrderly'
  <1>1. /\ UNCHANGED <<layout, moved, flight, txn, run, active, pos, proc, procStatus>>
        /\ req[r] = "queued" /\ req' = [req EXCEPT ![r] = "owned"]
        /\ cb' = "initialize" /\ cbReq' = r
    BY DEF EvtIoDma, setup, card, hwVars, procVars, ghosts
  <1>2. \A x \in moved : x[1] \in Requests
    BY DEF Base, TypeOK
  <1>3. NoneMoved' /\ StatusKnown'
    BY <1>1, <1>2 DEF MovesOrderly, NoneMoved, StatusKnown, Base, TypeOK
  <1>4. MovedSoFar' /\ FlightIsNext' /\ FlightPart'
    BY <1>1, NextKept DEF Base, MovesOrderly, MovedSoFar, FlightPart
  <1> QED
    BY <1>3, <1>4 DEF MovesOrderly

\* An engine that stops on an error drops what is in flight.
LEMMA HwErrorMoves ==
    ASSUME Base, MovesOrderly, HwError
    PROVE  MovesOrderly'
  <1>1. /\ UNCHANGED <<layout, moved, req, cb, cbReq, cbStatus, txn, run, pos, proc, procStatus>>
        /\ flight' = None /\ ~active'
    BY DEF HwError, setup, reqVars, cbVars, procVars, ghosts
  <1> QED
    BY <1>1 DEF MovesOrderly, NoneMoved, MovedSoFar, FlightIsNext, FlightPart, StatusKnown

\* No step moves out of order.
LEMMA MovesStep ==
    ASSUME Base, Calm, MovesOrderly, Next
    PROVE  MovesOrderly'
  <1> USE DEF setup, reqVars, cbVars, hwVars, memVars, card, procVars, intVars, ghosts, NoTxn
  <1>1. req \in [Requests -> {"new", "queued", "owned", "done"}]
    BY DEF Base, TypeOK
  <1>2. StatusKnown
    BY DEF MovesOrderly
  <1>3. Hardware => MovesOrderly'
    <2>1. HwIdle => MovesOrderly'
      BY <1>2, MovesKept DEF HwIdle, StatusKnown
    <2> QED
      BY <2>1, HwFetchMoves, HwErrorMoves, HwMoveMoves DEF Hardware
  <1>4. ASSUME NEW r \in Requests, Submit(r) \/ CancelQueued(r) \/ CancelDelivered(r)
        PROVE  MovesOrderly'
    BY <1>1, <1>2, <1>4, MovesKept DEF Submit, CancelQueued, CancelDelivered, StatusKnown
  <1>5. Callback => MovesOrderly'
    <2>1. Initialize \/ InitializeFails \/ MarkCancelable \/ ExecuteFails => MovesOrderly'
      BY <1>2, MovesKept DEF Initialize, InitializeFails, MarkCancelable, ExecuteFails, Fail,
                             StatusKnown
    <2>2. PollError \/ ReleaseFailed => MovesOrderly'
      BY <1>2, MovesKept DEF PollError, ReleaseFailed, StatusKnown
    <2>3. PollDone => MovesOrderly'
      BY MovesKept DEF PollDone, StatusKnown
    <2>4. EvtCancelDma => MovesOrderly'
      BY <1>2, MovesKept DEF EvtCancelDma, EngineStop, StatusKnown
    <2>5. CompleteFailed => MovesOrderly'
      BY <1>1, <1>2, MovesKept DEF CompleteFailed, Complete, StatusKnown
    <2> QED
      BY <2>1, <2>2, <2>3, <2>4, <2>5, EvtIoDmaMoves, StartMoves, ProgramMoves DEF Callback
  <1>6. ProcessTransfer => MovesOrderly'
    <2>1. GetRequest \/ ReadStatus => MovesOrderly'
      BY <1>2, MovesKept DEF GetRequest, ReadStatus, StatusKnown
    <2>2. StopEngine \/ DmaCompletedLast \/ DmaCompletedFails \/ DmaCompletedMisused
              => MovesOrderly'
      BY <1>2, MovesKept DEF StopEngine, EngineStop, DmaCompletedLast, DmaCompletedFails,
                             DmaCompletedMisused, StatusKnown
    <2>3. UnmarkCancelable \/ ReleaseTransaction => MovesOrderly'
      BY <1>2, MovesKept DEF UnmarkCancelable, ReleaseTransaction, StatusKnown
    <2>4. CompleteRequest => MovesOrderly'
      BY <1>1, <1>2, MovesKept DEF CompleteRequest, Complete, StatusKnown
    <2>5. ClearBuffers \/ Finish => MovesOrderly'
      BY <1>2, MovesKept DEF ClearBuffers, Finish, StatusKnown
    <2> QED
      BY <2>1, <2>2, <2>3, <2>4, <2>5, StartMoves, ProgramMoves DEF ProcessTransfer
  <1>7. EvtDeviceFileCreate => MovesOrderly'
    BY <1>2, MovesKept DEF EvtDeviceFileCreate, StatusKnown
  <1>8. EvtChannelInterruptIsr \/ EvtChannelInterruptDpc => MovesOrderly'
    BY <1>2, MovesKept DEF EvtChannelInterruptIsr, EvtChannelInterruptDpc, StatusKnown
  <1> QED
    BY <1>3, <1>4, <1>5, <1>6, <1>7, <1>8 DEF Next

\* What the order of the elements rests on: of the part under way nothing is
\* moved before the engine is started for it, nor from what it fetches next on.
THEOREM QueueInvariant == Spec => []QueueInv
  <1>1. Init => MovesOrderly
    BY DEF Init, NoTxn, MovesOrderly, NoneMoved, MovedSoFar, FlightIsNext, FlightPart, StatusKnown
  <1>2. QueueInv /\ [Next]_vars => QueueInv'
    <2> SUFFICES ASSUME QueueInv, [Next]_vars, ~disturbed', bugcheck' = "none"
                 PROVE  MovesOrderly'
      BY StepHolds DEF QueueInv
    <2>1. ~disturbed /\ bugcheck = "none"
      BY HistoryStep DEF QueueInv, TransferInv, Base, vars, ghosts
    <2>2. Base /\ Calm /\ MovesOrderly
      BY <2>1 DEF QueueInv, TransferInv
    <2>3. CASE UNCHANGED vars
      <3>1. UNCHANGED <<setup, reqVars, cbVars, txn, card, procVars, ghosts>>
        BY <2>3 DEF vars
      <3>2. StatusKnown'
        BY <2>2, <3>1 DEF MovesOrderly, StatusKnown, cbVars, procVars
      <3> QED
        BY <2>2, <3>1, <3>2, MovesKept DEF setup, reqVars, cbVars, card, hwVars, procVars, ghosts
    <2> QED
      BY <2>2, <2>3, MovesStep
  <1> QED
    BY <1>1, <1>2, InitHolds, PTL DEF Spec, QueueInv

\* What the applications were told of.
Told == [r \in Requests |-> IF result[r] = "ok" THEN Reported(r) ELSE {}]

\* It does not change but by a request that ends well.
LEMMA ToldKept ==
    ASSUME layout' = layout, \A r \in Requests : result'[r] = "ok" <=> result[r] = "ok",
           \A r \in Requests : result[r] = "ok" => bytes'[r] = bytes[r]
    PROVE  Told' = Told
  <1>1. \A r \in Requests : Elements(r)' = Elements(r)
    BY DEF Elements
  <1>2. \A r \in Requests : result[r] = "ok" => Reported(r)' = Reported(r)
    BY <1>1 DEF Reported
  <1> QED
    BY <1>2 DEF Told

\* What the applications do not see.
LEMMA QueueStutters ==
    ASSUME UNCHANGED <<layout, req, result, moved, repeated, cut, disturbed>>,
           \A r \in Requests : result[r] = "ok" => bytes'[r] = bytes[r]
    PROVE  UNCHANGED Queue!vars
  <1>1. \A r \in Requests : Elements(r)' = Elements(r)
    BY DEF Elements
  <1>2. Told' = Told
    BY ToldKept
  <1> QED
    BY <1>1, <1>2 DEF Queue!vars, Queue!given, Told

\* A step of a request is a step of the queue.
LEMMA QueuePromised ==
    ASSUME UNCHANGED <<layout, repeated, disturbed>>, NEW r \in Requests,
           \/ Queue!Submit(r) \/ Queue!TurnAway(r) \/ Queue!Serve(r)
           \/ Queue!Move(r) \/ Queue!Cut(r) \/ Queue!EndWell(r) \/ Queue!End(r)
    PROVE  Queue!Promised
  <1>1. \A s \in Requests : Elements(s)' = Elements(s)
    BY DEF Elements
  <1>2. UNCHANGED <<Queue!given, repeated, disturbed>>
    BY <1>1 DEF Queue!given
  <1> QED
    BY <1>2 DEF Queue!Promised

\* Completing a request that is owned ends it, or breaks a rule of the
\* framework.
LEMMA QueueEnds ==
    ASSUME Base, UNCHANGED <<layout, bytes, moved, repeated, cut, disturbed>>,
           NEW r \in Requests, NEW how, Complete(r, how), req[r] = "owned",
           how \in {"ok", "error", "cancelled"}, how = "ok" => Faithful(r)
    PROVE  Queue!Promised \/ UNCHANGED Queue!vars
  <1>1. CASE r \in cancelable
    BY <1>1, QueueStutters DEF Complete
  <1>2. CASE r \notin cancelable
    <2>1. Queue!Finish(r, how) /\ result' = [result EXCEPT ![r] = how]
      BY <1>2 DEF Complete, Queue!Finish
    <2>2. result \in [Requests -> {"none", "ok", "error", "cancelled"}] /\ result[r] = "none"
      BY DEF Base, TypeOK, OneOwned
    <2>3. CASE how = "ok"
      <3>1. \A s \in Requests : Elements(s)' = Elements(s) /\ Reported(s)' = Reported(s)
        BY DEF Elements, Reported
      <3>2. Told' = [Told EXCEPT ![r] = Reported(r)]
        BY <2>1, <2>2, <2>3, <3>1 DEF Told
      <3>3. /\ Reported(r) \in SUBSET Elements(r) /\ Reported(r) \subseteq moved
            /\ r \in cut \/ Reported(r) = Elements(r)
        BY <2>3 DEF Faithful, Reported
      <3>4. Queue!EndWell(r)
        BY <2>1, <2>3, <3>2, <3>3 DEF Queue!EndWell, Told
      <3> QED
        BY <3>4, QueuePromised
    <2>4. CASE how # "ok"
      <3>1. \A s \in Requests : result'[s] = "ok" <=> result[s] = "ok"
        BY <2>1, <2>2, <2>4
      <3>2. Told' = Told
        BY <3>1, ToldKept
      <3>3. Queue!End(r)
        BY <2>1, <2>4, <3>2 DEF Queue!End, Queue!Ends, Told
      <3> QED
        BY <3>3, QueuePromised
    <2> QED
      BY <2>3, <2>4
  <1> QED
    BY <1>1, <1>2

QueueSame == UNCHANGED <<layout, req, result, bytes, moved, repeated, cut, disturbed>>

\* Every undisturbed step is one the queue promises, or is not seen.
LEMMA QueueStep ==
    ASSUME Base, Calm, MovesOrderly, Next, disturbed' = disturbed
    PROVE  Queue!Promised \/ UNCHANGED Queue!vars
  <1> USE DEF setup, reqVars, cbVars, hwVars, memVars, card, procVars, intVars, ghosts, QueueSame
  <1>1. Hardware => Queue!Promised \/ UNCHANGED Queue!vars
    <2>1. HwFetch \/ HwError \/ HwIdle => QueueSame
      BY DEF HwFetch, HwError, HwIdle
    <2>2. HwMove => Queue!Promised
      <3> SUFFICES ASSUME HwMove PROVE Queue!Promised
        OBVIOUS
      <3>1. /\ UNCHANGED <<layout, req, result, bytes, cut>> /\ flight # None
            /\ moved' = moved \cup {FlightElement}
            /\ repeated' = (repeated \/ FlightElement \in moved)
        BY DEF HwMove, FlightElement
      <3>2. /\ flight.req \in Requests
            /\ req[flight.req] = "owned" \/ result[flight.req] = "cancelled"
        BY <3>1, FlightOwned
      <3>3. Queue!IsNext(flight.req, FlightElement)
        BY <3>1 DEF MovesOrderly, FlightIsNext
      <3>4. /\ FlightElement \in [r \in Requests |-> Elements(r)][flight.req]
            /\ FlightElement \notin moved
        BY <3>3 DEF Queue!IsNext
      <3>5. Told' = Told
        BY <3>1, ToldKept
      <3>6. Queue!Move(flight.req)
        BY <3>1, <3>2, <3>3, <3>4, <3>5 DEF Queue!Move, Told
      <3>7. repeated' = repeated
        BY <3>1, <3>4 DEF Base, TypeOK
      <3> QED
        BY <3>1, <3>2, <3>6, <3>7, QueuePromised
    <2> QED
      BY <2>1, <2>2, QueueStutters DEF Hardware
  <1>2. ASSUME NEW r \in Requests, Submit(r) \/ CancelQueued(r) \/ CancelDelivered(r)
        PROVE  Queue!Promised \/ UNCHANGED Queue!vars
    <2>1. Submit(r) => Queue!Submit(r) /\ UNCHANGED <<layout, repeated>>
      <3>1. Submit(r) => Told' = Told
        BY ToldKept DEF Submit
      <3> QED
        BY <3>1 DEF Submit, Queue!Submit, Requests, Told
    <2>2. CancelQueued(r) => Queue!TurnAway(r) /\ UNCHANGED <<layout, repeated>>
      <3> SUFFICES ASSUME CancelQueued(r) PROVE Queue!TurnAway(r) /\ UNCHANGED <<layout, repeated>>
        OBVIOUS
      <3>1. result[r] = "none" /\ result' = [result EXCEPT ![r] = "cancelled"]
        BY DEF CancelQueued, Base, TypeOK, OneOwned
      <3>2. \A s \in Requests : result'[s] = "ok" <=> result[s] = "ok"
        BY <3>1 DEF Base, TypeOK
      <3>3. Told' = Told
        BY <3>2, ToldKept DEF CancelQueued
      <3> QED
        BY <3>3 DEF CancelQueued, Queue!TurnAway, Queue!Finish, Queue!Ends, Told
    <2>3. CancelDelivered(r) => QueueSame
      BY DEF CancelDelivered
    <2> QED
      BY <1>2, <2>1, <2>2, <2>3, QueuePromised, QueueStutters
  <1>3. Callback => Queue!Promised \/ UNCHANGED Queue!vars
    <2>1. ASSUME NEW r \in Requests, EvtIoDma(r)
          PROVE  Queue!Serve(r) /\ UNCHANGED <<layout, repeated>>
      <3>1. Told' = Told
        BY <2>1, ToldKept DEF EvtIoDma
      <3> QED
        BY <2>1, <3>1 DEF EvtIoDma, Queue!Serve, Requests, Told
    <2>2. Initialize \/ InitializeFails \/ MarkCancelable \/ Execute \/ ExecuteFails \/ StartFirst
    =>
              QueueSame
      BY DEF Initialize, InitializeFails, MarkCancelable, Execute, ExecuteFails, StartFirst
    <2>3. PollError \/ PollDone \/ EvtCancelDma \/ ReleaseFailed =>
              QueueSame
      BY DEF PollError, PollDone, EvtCancelDma, ReleaseFailed
    <2>4. CompleteFailed => Queue!Promised \/ UNCHANGED Queue!vars
      <3> SUFFICES ASSUME CompleteFailed PROVE Queue!Promised \/ UNCHANGED Queue!vars
        OBVIOUS
      <3>1. /\ UNCHANGED <<layout, bytes, moved, repeated, cut>> /\ Complete(cbReq, cbStatus)
            /\ cb = "complete"
        BY DEF CompleteFailed
      <3>2. cbReq \in Requests /\ req[cbReq] = "owned"
        BY <3>1 DEF Base, Places, Calm, CallbackPlace
      <3>3. cbStatus \in {"error", "cancelled"}
        BY <3>1 DEF Base, TypeOK, MovesOrderly, StatusKnown
      <3> QED
        BY <3>1, <3>2, <3>3, QueueEnds
    <2> QED
      BY <2>1, <2>2, <2>3, <2>4, QueuePromised, QueueStutters DEF Callback
  <1>4. ProcessTransfer => Queue!Promised \/ UNCHANGED Queue!vars
    <2>1. GetRequest \/ ReadStatus \/ StopEngine \/ DmaCompletedNext => QueueSame
      BY DEF GetRequest, ReadStatus, StopEngine, DmaCompletedNext
    <2>5. DmaCompletedLast \/ DmaCompletedFails => Queue!Promised \/ UNCHANGED Queue!vars
      <3> SUFFICES ASSUME DmaCompletedLast \/ DmaCompletedFails
                   PROVE  Queue!Promised \/ UNCHANGED Queue!vars
        OBVIOUS
      <3>1. /\ procReq \in Requests /\ procReq = txn.req
            /\ UNCHANGED <<layout, req, result, moved, repeated>>
            /\ bytes' = [bytes EXCEPT ![procReq] = txn.part]
        BY DEF DmaCompletedLast, DmaCompletedFails, CountBytes, Base, Places, Calm, ProcPlace
      <3>2. req[procReq] = "owned"
        BY <3>1 DEF Calm, CallbackPlace, NoReq, Requests
      <3>3. \A r \in Requests : result[r] = "ok" => bytes'[r] = bytes[r]
        BY <3>1, <3>2 DEF Base, TypeOK, OneOwned
      <3>4. Told' = Told
        BY <3>1, <3>3, ToldKept
      <3>5. CASE DmaCompletedLast
        BY <3>1, <3>3, <3>5, QueueStutters DEF DmaCompletedLast
      <3>6. CASE DmaCompletedFails
        <4>1. Queue!Cut(procReq)
          BY <3>1, <3>2, <3>4, <3>6 DEF DmaCompletedFails, Queue!Cut, Told
        <4> QED
          BY <3>1, <4>1, QueuePromised
      <3> QED
        BY <3>5, <3>6
    <2>2. DmaCompletedMisused \/ StartNext \/ UnmarkCancelable \/ ReleaseTransaction =>
              QueueSame
      BY DEF DmaCompletedMisused, StartNext, UnmarkCancelable, ReleaseTransaction
    <2>3. ClearBuffers \/ Finish => QueueSame
      BY DEF ClearBuffers, Finish
    <2>4. CompleteRequest => Queue!Promised \/ UNCHANGED Queue!vars
      <3> SUFFICES ASSUME CompleteRequest PROVE Queue!Promised \/ UNCHANGED Queue!vars
        OBVIOUS
      <3>1. /\ UNCHANGED <<layout, bytes, moved, repeated, cut>>
            /\ Complete(procReq, procStatus) /\ proc = "complete"
        BY DEF CompleteRequest
      <3>2. procReq \in Requests /\ req[procReq] = "owned"
        BY <3>1 DEF Base, Places, Calm, ProcPlace
      <3>3. procStatus \in {"ok", "error"}
        BY <3>1 DEF Base, TypeOK, MovesOrderly, StatusKnown
      <3>4. procStatus = "ok" => Faithful(procReq)
        BY <3>1 DEF Calm, StatusSeen
      <3> QED
        BY <3>1, <3>2, <3>3, <3>4, QueueEnds
    <2> QED
      BY <2>1, <2>2, <2>3, <2>4, <2>5, QueueStutters DEF ProcessTransfer
  <1>5. EvtDeviceFileCreate \/ EvtChannelInterruptIsr \/ EvtChannelInterruptDpc =>
            QueueSame
    BY DEF EvtDeviceFileCreate, EvtChannelInterruptIsr, EvtChannelInterruptDpc
  <1> QED
    BY <1>1, <1>2, <1>3, <1>4, <1>5, QueueStutters DEF Next

\* Callback, completion work and engine together are a queue that serves its
\* requests one at a time and in order, moves each element of each once and in
\* order, moves none a second time, ends none well with less than it reports or,
\* unless the framework has cut it short, with less than all of it, and none
\* twice, for as long as nothing disturbs them.
THEOREM TransferImplementsQueue == Spec => ImplementsQueue
  <1>1. Init => Queue!Init
    BY DEF Init, Queue!Init, Requests
  <1>2. QueueInv /\ [Next]_vars => [Queue!Next]_(Queue!vars)
    <2> SUFFICES ASSUME QueueInv, [Next]_vars
                 PROVE  [Queue!Next]_(Queue!vars)
      OBVIOUS
    <2>1. CASE UNCHANGED vars
      BY <2>1, QueueStutters DEF vars, setup, reqVars, procVars, ghosts
    <2>2. CASE disturbed'
      BY <2>2 DEF Queue!Next
    <2>3. CASE Next /\ ~disturbed'
      <3>1. ~disturbed /\ bugcheck = "none"
        BY <2>3, HistoryStep DEF Next, QueueInv, TransferInv, Base
      <3>2. disturbed' = disturbed
        BY <2>3, <3>1, StepHolds DEF QueueInv, TransferInv, Base, TypeOK
      <3>3. Queue!Promised \/ UNCHANGED Queue!vars
        BY <2>3, <3>1, <3>2, QueueStep DEF QueueInv, TransferInv
      <3> QED
        BY <3>1, <3>3 DEF Queue!Next
    <2> QED
      BY <2>1, <2>2, <2>3
  <1> QED
    BY <1>1, <1>2, QueueInvariant, PTL DEF Spec, ImplementsQueue, Queue!Spec

-----------------------------------------------------------------------------
(* The interrupt of the engine.                                            *)

\* A step that leaves the mask, the queue and the DPC alone.
LEMMA InterruptStill ==
    ASSUME irqEn' = irqEn, dpcQueued' = dpcQueued, proc # "idle" <=> proc' # "idle"
    PROVE  Interrupt!Elsewhere
  BY DEF Interrupt!Elsewhere

\* In interrupt mode the callbacks do not touch it.
LEMMA CallbackElsewhere ==
    ASSUME Calm, ~poll, Callback
    PROVE  Interrupt!Elsewhere
  <1> USE DEF intVars, procVars
  <1>1. ~PollError /\ ~PollDone
    BY DEF Calm, CallbackPlace, PollError, PollDone
  <1>2. CASE \E r \in Requests : EvtIoDma(r)
    BY <1>2, InterruptStill DEF EvtIoDma
  <1>3. CASE Initialize \/ InitializeFails \/ MarkCancelable
    BY <1>3, InterruptStill DEF Initialize, InitializeFails, MarkCancelable
  <1>4. CASE Execute \/ ExecuteFails \/ StartFirst
    BY <1>4, InterruptStill DEF Execute, ExecuteFails, StartFirst
  <1>5. CASE EvtCancelDma \/ ReleaseFailed \/ CompleteFailed
    BY <1>5, InterruptStill DEF EvtCancelDma, ReleaseFailed, CompleteFailed
  <1> QED
    BY <1>1, <1>2, <1>3, <1>4, <1>5 DEF Callback

\* The completion work is one run of the DPC, from its start to its last step.
LEMMA WorkRuns ==
    ASSUME ~poll, ProcessTransfer
    PROVE  Interrupt!End \/ Interrupt!Elsewhere
  <1> USE DEF intVars, procVars
  <1>1. CASE GetRequest \/ ReadStatus \/ StopEngine
    BY <1>1, InterruptStill DEF GetRequest, ReadStatus, StopEngine
  <1>2. CASE DmaCompletedLast \/ DmaCompletedNext \/ DmaCompletedFails \/ DmaCompletedMisused
    BY <1>2, InterruptStill DEF DmaCompletedLast, DmaCompletedNext, DmaCompletedFails,
                                DmaCompletedMisused
  <1>3. CASE StartNext \/ UnmarkCancelable \/ ReleaseTransaction
    BY <1>3, InterruptStill DEF StartNext, UnmarkCancelable, ReleaseTransaction
  <1>4. CASE CompleteRequest \/ ClearBuffers
    BY <1>4, InterruptStill DEF CompleteRequest, ClearBuffers
  <1>5. CASE Finish
    BY <1>5 DEF Finish, Interrupt!End
  <1> QED
    BY <1>1, <1>2, <1>3, <1>4, <1>5 DEF ProcessTransfer

LEMMA InterruptStep ==
    ASSUME TypeOK, Calm, ~poll, Next, ~disturbed'
    PROVE  Interrupt!Isr \/ Interrupt!Start \/ Interrupt!End \/ Interrupt!Elsewhere
  <1> USE DEF intVars, procVars
  <1>1. Hardware => Interrupt!Elsewhere
    BY InterruptStill DEF Hardware, HwFetch, HwError, HwMove, HwIdle
  <1>2. ASSUME NEW r \in Requests, Submit(r) \/ CancelQueued(r) \/ CancelDelivered(r)
        PROVE  Interrupt!Elsewhere
    BY <1>2, InterruptStill DEF Submit, CancelQueued, CancelDelivered
  <1>3. EvtDeviceFileCreate => Interrupt!Elsewhere
    BY InterruptStill DEF EvtDeviceFileCreate, Disturb
  <1>4. EvtChannelInterruptIsr => Interrupt!Isr
    BY DEF EvtChannelInterruptIsr, Interrupt!Isr
  <1>5. EvtChannelInterruptDpc => Interrupt!Start
    BY DEF EvtChannelInterruptDpc, Interrupt!Start
  <1> QED
    BY <1>1, <1>2, <1>3, <1>4, <1>5, CallbackElsewhere, WorkRuns DEF Next

\* Undisturbed, an engine in interrupt mode has the interrupt of
\* SourceInterrupt, and its completion work is what that runs.
THEOREM TransferImplementsInterrupt == Spec => ImplementsInterrupt
  <1>1. Init => Interrupt!Init
    BY DEF Init, Interrupt!Init
  <1>2. TransferInv /\ [Next]_vars => [Interrupt!Next]_(Interrupt!vars)
    <2> SUFFICES ASSUME TransferInv, [Next]_vars
                 PROVE  [Interrupt!Next]_(Interrupt!vars)
      OBVIOUS
    <2>1. CASE UNCHANGED vars
      BY <2>1 DEF vars, setup, card, hwVars, intVars, procVars, ghosts, Interrupt!vars
    <2>2. CASE poll' \/ disturbed'
      BY <2>2 DEF Interrupt!Next
    <2>3. CASE Next /\ ~poll' /\ ~disturbed'
      <3>1. ~disturbed /\ bugcheck = "none"
        BY <2>3, HistoryStep DEF Next, TransferInv, Base
      <3>2. ~poll
        BY <2>3
        DEF Next, setup, Hardware, HwFetch, HwError, HwMove, HwIdle, Submit, CancelQueued,
            CancelDelivered, EvtDeviceFileCreate, Callback, EvtIoDma, Initialize, InitializeFails,
            MarkCancelable, Execute, ExecuteFails, StartFirst, PollError, PollDone, EvtCancelDma,
            ReleaseFailed, CompleteFailed, EvtChannelInterruptIsr, EvtChannelInterruptDpc,
            ProcessTransfer, GetRequest, ReadStatus, StopEngine, DmaCompletedLast,
            DmaCompletedNext, DmaCompletedFails, DmaCompletedMisused, StartNext, UnmarkCancelable,
            ReleaseTransaction, CompleteRequest, ClearBuffers, Finish
      <3>3. Interrupt!Isr \/ Interrupt!Start \/ Interrupt!End \/ Interrupt!Elsewhere
        BY <2>3, <3>1, <3>2, InterruptStep DEF TransferInv, Base
      <3> QED
        BY <3>1, <3>2, <3>3 DEF Interrupt!Next
    <2> QED
      BY <2>1, <2>2, <2>3
  <1> QED
    BY <1>1, <1>2, TransferInvariant, PTL DEF Spec, ImplementsInterrupt, Interrupt!Spec

==============================================================================
