---------------------------- MODULE AdmaTransfer -----------------------------
(***************************************************************************)
(* Transfers in the port to an Altera core: the dispatch of reads and      *)
(* writes and the two engine queues of ADMA_Driver/file_io.c, and          *)
(* ADMA_EngineProgramDma of libadma/adma_engine.c.                         *)
(*                                                                         *)
(* The host-to-card and the card-to-host engine are one dispatcher of the  *)
(* card: EngineCreate gives both the same descriptor registers, and both   *)
(* write entry 0 of the address translation table.  Each has a sequential  *)
(* queue of its own, whose callbacks exclude each other but not those of   *)
(* the other queue.  A program is modelled one register write at a time.   *)
(*                                                                         *)
(* EngineStop and EngineProcessTransfer are compiled out, so a cancel      *)
(* stops nothing and an interrupt completes nothing.                       *)
(***************************************************************************)
EXTENDS Naturals, Sequences, FiniteSets

CONSTANTS
    NumRequests,\* bound: the requests applications make, numbered as they come
    Windows,    \* pages of host memory one translation entry can reach
    NumEntries, \* entries of the translation table
    Entry,      \* the entry that the upper bits of an address in a window select
    Loads       \* scatter-gather lists of the requests: the windows of each element

ASSUME AdmaAssumption ==
    /\ NumRequests \in Nat /\ NumEntries \in Nat \ {0} /\ "none" \notin Windows
    /\ Entry \in [Windows -> 0 .. NumEntries - 1]
    /\ Loads \subseteq [1 .. NumRequests -> Seq(Seq(Windows))]
    /\ \A l \in Loads : \A r \in 1 .. NumRequests :
           l[r] # << >> /\ \A i \in DOMAIN l[r] : l[r][i] # << >>

VARIABLES
    file,       \* the engine whose file each request is made on
    layout,     \* its scatter-gather list
    req,        \* where it is
    result,     \* how it was completed
    asked,      \* requests the application asked to cancel
    cancelable, \* requests marked with EvtCancelDma
    cancelling, \* requests that are claimed for EvtCancelDma, which is due
    cb,         \* where the callback of each queue is
    cbReq,      \* its request
    elem,       \* the element ADMA_EngineProgramDma is at
    table,      \* a2pTransTbl: the window entry 0 is set for, no other ever is
    stdDes,     \* modSgdmaStdDes: the element each of its registers is of
    fifo,       \* descriptors the card was given and has not finished
    moved,      \* history: the moves of the card
    repeated,   \* history: it moved an element a second time
    overlapped, \* history: both callbacks wrote the registers at a time
    retabled,   \* history: requests under way when the table was written again
    bugcheck    \* the framework stopped the system on a driver error

given    == <<file, layout>>
reqVars  == <<req, result, asked, cancelable, cancelling>>
cbVars   == <<cb, cbReq, elem>>
cardVars == <<table, stdDes, fifo>>
ghosts   == <<moved, repeated, overlapped, retabled, bugcheck>>
vars == <<given, reqVars, cbVars, cardVars, ghosts>>

Engines  == {"H2C", "C2H"}
Requests == 1 .. NumRequests
NoReq    == 0
Unset    == <<0, 0>>

\* An element is a request and a position in its list.  Its memory has a part
\* in each window it crosses.
Elements(r) == {<<r, i>> : i \in 1 .. Len(layout[r])}
Parts(x) == layout[x[1]][x[2]]
Window(x) == Parts(x)[1]

Init ==
    /\ file \in [Requests -> Engines] /\ layout \in Loads
    /\ req = [r \in Requests |-> "new"] /\ result = [r \in Requests |-> "none"]
    /\ asked = {} /\ cancelable = {} /\ cancelling = {}
    /\ cb = [e \in Engines |-> "idle"] /\ cbReq = [e \in Engines |-> NoReq]
    /\ elem = [e \in Engines |-> 0]
    /\ table = "none" /\ stdDes = [read |-> Unset, write |-> Unset, length |-> Unset]
    /\ fifo = << >>
    /\ moved = {} /\ repeated = FALSE /\ overlapped = FALSE /\ retabled = {} /\ bugcheck = FALSE

\* Completing a request twice, or while it is cancelable, stops the system.
Complete(r, how) ==
    /\ bugcheck' = (req[r] = "done" \/ r \in cancelable)
    /\ req' = [req EXCEPT ![r] = "done"]
    /\ result' = [result EXCEPT ![r] = IF req[r] = "done" THEN @ ELSE how]

Goto(e, step) == cb' = [cb EXCEPT ![e] = step]

-----------------------------------------------------------------------------
(* EvtIoRead and EvtIoWrite, and what the framework does for applications. *)

\* A call in the direction of the file's engine is forwarded to its queue.
Forward(r) ==
    /\ req[r] = "new" /\ \A s \in 1 .. r - 1 : req[s] # "new"
    /\ req' = [req EXCEPT ![r] = "queued"]
    /\ UNCHANGED <<given, result, asked, cancelable, cancelling, cbVars, cardVars, ghosts>>

\* One in the other direction is completed at once.
Refuse(r) ==
    /\ req[r] = "new" /\ \A s \in 1 .. r - 1 : req[s] # "new"
    /\ Complete(r, "failed")
    /\ UNCHANGED <<given, asked, cancelable, cancelling, cbVars, cardVars,
                   moved, repeated, overlapped, retabled>>

\* The application asks to cancel.  A request in the queue is completed by the
\* framework, one of the driver's is claimed for EvtCancelDma if it has it.
CancelIo(r) ==
    /\ req[r] \in {"queued", "owned"} /\ r \notin asked
    /\ asked' = asked \cup {r}
    /\ IF req[r] = "queued"
       THEN Complete(r, "cancelled") /\ UNCHANGED <<cancelable, cancelling>>
       ELSE /\ cancelable' = cancelable \ {r}
            /\ cancelling' = cancelling \cup ({r} \cap cancelable)
            /\ UNCHANGED <<req, result, bugcheck>>
    /\ UNCHANGED <<given, cbVars, cardVars, moved, repeated, overlapped, retabled>>

-----------------------------------------------------------------------------
(* EvtIoWriteDma and EvtIoReadDma.                                         *)

\* The sequential queue delivers a request when those before it have ended.
Delivered(r) ==
    /\ cb[file[r]] = "idle" /\ req[r] = "queued"
    /\ \A s \in 1 .. r - 1 : file[s] = file[r] => req[s] = "done"

\* WdfDmaTransactionInitializeUsingRequest is the first call.
EvtIoDma(r) ==
    /\ Delivered(r)
    /\ req' = [req EXCEPT ![r] = "owned"]
    /\ Goto(file[r], "mark") /\ cbReq' = [cbReq EXCEPT ![file[r]] = r]
    /\ UNCHANGED <<given, result, asked, cancelable, cancelling, elem, cardVars, ghosts>>

\* ErrExit: the transaction is released and the request completed.
ErrExit(e, how) ==
    /\ Complete(cbReq[e], how)
    /\ Goto(e, "idle") /\ cbReq' = [cbReq EXCEPT ![e] = NoReq]
    /\ UNCHANGED <<given, asked, cancelable, cancelling, elem, cardVars,
                   moved, repeated, overlapped, retabled>>

\* Short of resources, the first call fails.
InitializeFails(r) ==
    /\ Delivered(r)
    /\ Complete(r, "failed")
    /\ UNCHANGED <<given, asked, cancelable, cancelling, cbVars, cardVars,
                   moved, repeated, overlapped, retabled>>

\* Or WdfDmaTransactionExecute does, when the request is cancelable or claimed.
ExecuteFails(e) == cb[e] = "execute" /\ ErrExit(e, "failed")

Mark(e) ==
    /\ cancelable' = cancelable \cup {cbReq[e]}
    /\ Goto(e, "execute")
    /\ UNCHANGED <<given, req, result, asked, cancelling, cbReq, elem, cardVars, ghosts>>

\* Mutant: a request that was cancelled already is marked all the same.
MarkAnyway(e) == cb[e] = "mark" /\ Mark(e)

\* WdfRequestMarkCancelableEx fails on a request that was cancelled already.
MarkCancelable(e) ==
    /\ cb[e] = "mark"
    /\ IF cbReq[e] \in asked THEN ErrExit(e, "cancelled") ELSE Mark(e)

\* Mutant: the queue has no synchronization scope, the callbacks may overlap.
CancelAnytime(r) ==
    /\ r \in cancelling
    /\ Complete(r, "cancelled")
    /\ cancelling' = cancelling \ {r}
    /\ UNCHANGED <<given, asked, cancelable, cbVars, cardVars,
                   moved, repeated, overlapped, retabled>>

\* EngineStop is empty: the registers it wrote to are compiled out.
EngineStop == UNCHANGED cardVars

\* EvtCancelDma: the engine is stopped, the transaction released and the request
\* completed, whatever the card was given.
EvtCancelDma(r) ==
    /\ cb[file[r]] = "idle" /\ r \in cancelling
    /\ EngineStop
    /\ Complete(r, "cancelled")
    /\ cancelling' = cancelling \ {r}
    /\ UNCHANGED <<given, asked, cancelable, cbVars, moved, repeated, overlapped, retabled>>

-----------------------------------------------------------------------------
(* ADMA_EngineProgramDma, which WdfDmaTransactionExecute calls.            *)

Registers == {"read", "write", "length"}
Programming(e) == cb[e] \in Registers \cup {"go"}
Current(e) == <<cbReq[e], elem[e]>>

\* Requests the card has or is being given descriptors of.
UnderWay ==
    {fifo[k].read[1] : k \in DOMAIN fifo} \cup {cbReq[e] : e \in {x \in Engines : Programming(x)}}

\* Mutant: an entry that is set already is kept.
TableKept(r) == IF table = "none" THEN Window(<<r, 1>>) ELSE table

\* The entry of the table is set for the first element of the list.
TableOf(r) == Window(<<r, 1>>)

\* It is written first, and the CSR status with a zero, which changes nothing.
WriteTable(e) ==
    /\ cb[e] = "execute"
    /\ table' = TableOf(cbReq[e])
    /\ elem' = [elem EXCEPT ![e] = 1]
    /\ Goto(e, "read")
    /\ retabled' = retabled \cup UnderWay
    /\ overlapped' = (overlapped \/ \E x \in Engines \ {e} : Programming(x))
    /\ UNCHANGED <<given, reqVars, cbReq, stdDes, fifo, moved, repeated, bugcheck>>

\* The host address is the read address to the device, the write address from
\* it (a descriptor that mixes both directions may have two such ends or none).
Host(d) == IF file[d.read[1]] = "H2C" THEN d.read ELSE d.write

\* Mutant: the mask is left out in both directions.
EntryUnmasked(x, k) == Entry[Parts(x)[k]]

\* The entry of the table that part k of element x goes through.  To the device
\* the address is written as it is, and its upper bits select one; from the
\* device they are masked, and only the parts before count.
EntryOf(x, k) == IF file[x[1]] = "H2C" THEN Entry[Parts(x)[k]] ELSE (k - 1) % NumEntries

WriteRegister(e, which, next) ==
    /\ cb[e] = which
    /\ stdDes' = [stdDes EXCEPT ![which] = Current(e)]
    /\ Goto(e, next)
    /\ UNCHANGED <<given, reqVars, cbReq, elem, table, fifo, ghosts>>

\* Mutant: the read address is that of the first element for all of them.
ReadAddressOfFirst(e) ==
    /\ cb[e] = "read"
    /\ stdDes' = [stdDes EXCEPT !.read = <<cbReq[e], 1>>]
    /\ Goto(e, "write")
    /\ UNCHANGED <<given, reqVars, cbReq, elem, table, fifo, ghosts>>

WriteReadAddress(e) == WriteRegister(e, "read", "write")
WriteWriteAddress(e) == WriteRegister(e, "write", "length")
WriteLength(e) == WriteRegister(e, "length", "go")

\* Mutant: the loop leaves out the last element.
MoreButLast(e) == elem[e] + 1 < Len(layout[cbReq[e]])

\* Mutant: the loop goes one past the last.
MorePastEnd(e) == elem[e] <= Len(layout[cbReq[e]])

\* The loop has another element.
MoreElements(e) == elem[e] < Len(layout[cbReq[e]])

\* GO: the dispatcher takes what the registers hold.  After the last element
\* the callback returns, with the request pending.
WriteGo(e) ==
    /\ cb[e] = "go"
    /\ fifo' = Append(fifo, stdDes)
    /\ IF MoreElements(e)
       THEN elem' = [elem EXCEPT ![e] = @ + 1] /\ Goto(e, "read") /\ UNCHANGED cbReq
       ELSE /\ elem' = [elem EXCEPT ![e] = 0] /\ Goto(e, "idle")
            /\ cbReq' = [cbReq EXCEPT ![e] = NoReq]
    /\ UNCHANGED <<given, reqVars, table, stdDes, ghosts>>

-----------------------------------------------------------------------------
(* The card (external).                                                    *)

\* The body of EngineProcessTransfer, where the interrupt of the card ends, is
\* compiled out (AdmaDevice has the routines on the way).
EngineProcessTransfer == UNCHANGED <<reqVars, cbVars, bugcheck>>

\* The memory each part of an element reaches through the table as it is now.
Reached(x) == [k \in DOMAIN Parts(x) |-> IF EntryOf(x, k) = 0 THEN table ELSE "none"]

\* A descriptor is done and reported.
HwMove ==
    /\ fifo # << >>
    /\ LET d == Head(fifo)
       IN  /\ moved' = moved \cup {[desc |-> d, reached |-> Reached(Host(d)),
                                     late |-> req[d.read[1]] = "done"]}
           /\ repeated' = (repeated \/ \E m \in moved : m.desc.read = d.read)
    /\ fifo' = Tail(fifo)
    /\ EngineProcessTransfer
    /\ UNCHANGED <<given, table, stdDes, overlapped, retabled>>

-----------------------------------------------------------------------------
Program(e) ==
    \/ WriteTable(e) \/ WriteReadAddress(e) \/ WriteWriteAddress(e) \/ WriteLength(e) \/ WriteGo(e)

QueueStep(e) ==
    \/ \E r \in Requests : file[r] = e /\ (EvtIoDma(r) \/ EvtCancelDma(r))
    \/ MarkCancelable(e) \/ Program(e)

Next ==
    /\ ~bugcheck
    /\ \/ \E r \in Requests : Forward(r) \/ Refuse(r) \/ CancelIo(r) \/ InitializeFails(r)
       \/ \E e \in Engines : QueueStep(e) \/ ExecuteFails(e)
       \/ HwMove

\* Callbacks that are due are called and go on, and the card works.  Nobody
\* has to make requests or to cancel them.
Fairness ==
    /\ \A e \in Engines : WF_vars(~bugcheck /\ QueueStep(e))
    /\ WF_vars(~bugcheck /\ HwMove)

Spec == Init /\ [][Next]_vars /\ Fairness

-----------------------------------------------------------------------------
(* Properties.                                                             *)

AnyElement == {Unset} \cup UNION {Elements(r) : r \in Requests}
Descriptors == [read : AnyElement, write : AnyElement, length : AnyElement]

MovesTyped ==
    \A m \in moved : /\ m.desc \in Descriptors /\ m.late \in BOOLEAN
                    /\ m.reached \in [DOMAIN Parts(Host(m.desc)) -> Windows \cup {"none"}]

\* Every variable keeps to its range.
TypeOK ==
    /\ file \in [Requests -> Engines] /\ layout \in Loads
    /\ req \in [Requests -> {"new", "queued", "owned", "done"}]
    /\ result \in [Requests -> {"none", "failed", "cancelled"}]
    /\ asked \subseteq Requests /\ cancelable \subseteq Requests /\ cancelling \subseteq Requests
    /\ cb \in [Engines -> {"idle", "mark", "execute", "read", "write", "length", "go"}]
    /\ cbReq \in [Engines -> Requests \cup {NoReq}] /\ elem \in [Engines -> Nat]
    /\ table \in Windows \cup {"none"} /\ stdDes \in Descriptors /\ fifo \in Seq(Descriptors)
    /\ MovesTyped
    /\ repeated \in BOOLEAN /\ overlapped \in BOOLEAN /\ retabled \subseteq Requests /\ bugcheck \in BOOLEAN

Given == {fifo[k] : k \in DOMAIN fifo} \cup {m.desc : m \in moved}

\* The registers of the dispatcher are shared and are not locked
\* (adma_engine.c:339-341, 539-548): unless the callbacks of both directions
\* wrote them at a time, every descriptor the card is given is that of one
\* element, and when a request waits for the card it was given all of its
\* elements.
DescriptorsWhole ==
    ~overlapped =>
        /\ \A d \in Given : d.read = d.write /\ d.write = d.length
        /\ \A r \in Requests :
               req[r] = "owned" /\ (\A e \in Engines : cbReq[e] # r) /\ ~bugcheck =>
                   Elements(r) \subseteq {d.read : d \in Given}

\* Unless the entry was set for another request meanwhile, the card reads or
\* writes the memory of a part of an element if, and only if, it is in the
\* window of the first element, the one the entry is set for
\* (adma_engine.c:477-478), and its address selects that entry: to the device,
\* where the mask is left out (539), by its own upper bits, and from the device
\* (545) when the parts before it do not lead into the next entry.
WindowsExplained ==
    \A m \in moved :
        LET x == Host(m.desc)
            r == x[1]
        IN  \/ r \in retabled \/ overlapped
            \/ \A k \in DOMAIN Parts(x) :
                   m.reached[k] = Parts(x)[k] <=>
                       /\ Parts(x)[k] = Window(<<r, 1>>)
                       /\ \/ file[r] = "H2C" /\ Entry[Parts(x)[k]] = 0
                          \/ file[r] = "C2H" /\ (k - 1) % NumEntries = 0

\* The card touches memory of a request that has ended only after a cancel
\* (EngineStop does nothing), and a request is completed against the rules of
\* the framework only when WdfDmaTransactionExecute fails (file_io.c:605-622):
\* by then no element of it was given to the card.
EndsExplained ==
    /\ \A m \in moved : m.late => result[m.desc.read[1]] = "cancelled"
    /\ bugcheck => \E r \in asked \cup cancelable :
                       result[r] = "failed" /\ \A d \in Given : d.read[1] # r

\* The queues that the applications see: a list is one part, and an element is
\* moved when its read address is.
Queues == INSTANCE DmaQueue
    WITH queue <- file, list <- [r \in Requests |-> {<<r, 1, x[2]>> : x \in Elements(r)}],
         told <- [r \in Requests |-> {}], again <- repeated, cut <- {},
         data <- {<<m.desc.read[1], 1, m.desc.read[2]>> : m \in moved}, broken <- overlapped

\* Unless the callbacks of both queues write the registers at a time, the port
\* keeps the same promise for each of its queues: every element is moved once
\* and in order, after its request ends only when it was cancelled.
ImplementsQueues == Queues!Spec

\* A request the application asks to cancel ends, wherever the request in the
\* framework meets its being marked (file_io.c:598), unless the system stops.
AskedEnds == \A r \in Requests : r \in asked ~> (req[r] = "done" \/ bugcheck)

\* A read or write whose data the card has moved is completed: requests are
\* forwarded to the engine queue, "completed by EvtIoReadDma later"
\* (ADMA_Driver/file_io.c:320).
MovedIsCompleted ==
    \A r \in Requests :
        (Elements(r) \subseteq {m.desc.read : m \in moved}) ~> (req[r] = "done" \/ bugcheck)
==============================================================================
