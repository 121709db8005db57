-------------------------- MODULE AdmaTransferProofs ---------------------------
(***************************************************************************)
(* The safety properties of AdmaTransfer, for any number of requests, any  *)
(* windows of the translation table and any scatter-gather lists.          *)
(***************************************************************************)
EXTENDS AdmaTransfer, SequenceTheorems, TLAPS

\* The card may have been given descriptors of the request: its list was being
\* programmed, and if it has ended since it was by EvtCancelDma.
Programmed(r) ==
    /\ r \in Requests /\ req[r] \in {"owned", "done"}
    /\ req[r] = "done" => result[r] = "cancelled"
    /\ \A e \in Engines : cbReq[e] = r => Programming(e)

\* The callback of a queue has a request of that queue, which the driver owns,
\* and is at an element of its list while it programs it.
CallbacksOrderly ==
    \A e \in Engines :
        /\ cb[e] = "idle" <=> cbReq[e] = NoReq
        /\ cbReq[e] # NoReq => file[cbReq[e]] = e /\ req[cbReq[e]] = "owned"
        /\ Programming(e) => elem[e] \in 1 .. Len(layout[cbReq[e]])

\* The descriptors the card has had, and the one its registers are at, have
\* their host address from a request that was programmed.
Written == {d.read : d \in Given} \cup ({stdDes.read} \ {Unset})

WrittenProgrammed ==
    /\ \A x \in Written : Programmed(x[1]) /\ x \in Elements(x[1])
    /\ \A e \in Engines : cb[e] \in {"write", "length", "go"} => stdDes.read # Unset
    /\ \A m \in moved : m.late => req[m.desc.read[1]] = "done"

\* A request is cancelable while the driver owns it, or the system has stopped,
\* and nobody asked to cancel it.  One that is claimed was asked for, and if it
\* has ended all the same it was by a failure before it was programmed.
CancelsOrderly ==
    /\ cancelable \cap asked = {} /\ cancelling \subseteq asked
    /\ \A r \in cancelable : req[r] = "owned" \/ bugcheck
    /\ \A r \in cancelling :
           \/ req[r] = "owned"
           \/ req[r] = "done" /\ result[r] = "failed"
    /\ \A e \in Engines : cb[e] = "mark" => cbReq[e] \notin cancelable \cup cancelling

\* Unless the callbacks of both queues wrote the registers at a time, one of
\* them programs, what it has written is of its element, the elements before
\* that one were given to the card, and a request that waits for the card has
\* all of its elements there.
RegistersWhole ==
    ~overlapped =>
        /\ \A e, x \in Engines : Programming(e) /\ Programming(x) => e = x
        /\ \A e \in Engines :
               /\ cb[e] \in {"write", "length", "go"} => stdDes.read = Current(e)
               /\ cb[e] \in {"length", "go"} => stdDes.write = Current(e)
               /\ cb[e] = "go" => stdDes.length = Current(e)
               /\ Programming(e) =>
                      \A i \in 1 .. elem[e] - 1 : <<cbReq[e], i>> \in {d.read : d \in Given}
        /\ \A d \in Given : d.read = d.write /\ d.write = d.length
        /\ \A r \in Requests :
               req[r] = "owned" /\ (\A e \in Engines : cbReq[e] # r) =>
                   Elements(r) \subseteq {d.read : d \in Given}

\* The table has the window of whatever the card is given or is being given,
\* unless it was written again since.
TableKnown ==
    /\ UnderWay # {} => table \in Windows
    /\ ~overlapped => \A r \in UnderWay : r \in retabled \/ table = Window(<<r, 1>>)

AdmaInv ==
    /\ TypeOK /\ CallbacksOrderly /\ WrittenProgrammed /\ CancelsOrderly
    /\ RegistersWhole /\ TableKnown /\ WindowsExplained /\ EndsExplained

-----------------------------------------------------------------------------
LEMMA ElementsTyped ==
    ASSUME layout \in Loads, NEW r \in Requests
    PROVE  /\ layout[r] \in Seq(Seq(Windows)) /\ Len(layout[r]) \in Nat \ {0}
           /\ \A i \in 1 .. Len(layout[r]) : /\ <<r, i>> \in Elements(r)
                                          /\ Window(<<r, i>>) \in Windows
                                          /\ <<r, i>> # Unset
                                          /\ Parts(<<r, i>>) \in Seq(Windows)
           /\ \A x \in Elements(r) :
                  /\ x[1] = r /\ x[2] \in 1 .. Len(layout[r]) /\ x = <<x[1], x[2]>>
                  /\ x \in AnyElement /\ x # Unset
<1>1. /\ layout[r] \in Seq(Seq(Windows)) /\ layout[r] # << >>
      /\ \A i \in DOMAIN layout[r] : layout[r][i] # << >>
  BY AdmaAssumption DEF AdmaAssumption, Requests
<1>2. Len(layout[r]) \in Nat \ {0}
  BY <1>1
<1>3. r \in Nat \ {0}
  BY AdmaAssumption DEF AdmaAssumption, Requests
<1>4. ASSUME NEW i \in 1 .. Len(layout[r])
      PROVE  /\ <<r, i>> \in Elements(r) /\ <<r, i>> # Unset
             /\ Parts(<<r, i>>) \in Seq(Windows) /\ Window(<<r, i>>) \in Windows
  <2>1. <<r, i>> \in Elements(r) /\ <<r, i>> # Unset
    BY <1>3 DEF Elements, Unset
  <2>2. Parts(<<r, i>>) = layout[r][i] /\ layout[r][i] \in Seq(Windows) /\ layout[r][i] # << >>
    BY <1>1 DEF Parts
  <2> QED
    BY <2>1, <2>2 DEF Window
<1>5. ASSUME NEW x \in Elements(r)
      PROVE  /\ x[1] = r /\ x[2] \in 1 .. Len(layout[r]) /\ x = <<x[1], x[2]>>
             /\ x \in AnyElement /\ x # Unset
  <2>1. PICK i \in 1 .. Len(layout[r]) : x = <<r, i>>
    BY DEF Elements
  <2>2. x \in AnyElement
    BY DEF AnyElement
  <2> QED
    BY <1>3, <2>1, <2>2 DEF Unset
<1> QED
  BY <1>1, <1>2, <1>4, <1>5

\* What is given stays given: the card only takes the first to its moves.
LEMMA GivenKept ==
    ASSUME fifo' = fifo, moved' = moved
    PROVE  Given' = Given
BY DEF Given

LEMMA GivenAppended ==
    ASSUME TypeOK, NEW d, d \in Descriptors, fifo' = Append(fifo, d), moved' = moved
    PROVE  /\ Given' = Given \cup {d} /\ fifo' \in Seq(Descriptors)
           /\ {fifo'[k].read[1] : k \in DOMAIN fifo'} =
                  {fifo[k].read[1] : k \in DOMAIN fifo} \cup {d.read[1]}
<1>1. fifo \in Seq(Descriptors) /\ fifo' \in Seq(Descriptors)
  BY DEF TypeOK
<1>2. /\ DOMAIN fifo = 1 .. Len(fifo) /\ DOMAIN fifo' = 1 .. (Len(fifo) + 1)
      /\ Len(fifo) \in Nat
      /\ \A k \in 1 .. Len(fifo) : fifo'[k] = fifo[k]
      /\ fifo'[Len(fifo) + 1] = d
  BY <1>1
<1>3. Given' = Given \cup {d}
  BY <1>2 DEF Given
<1>4. {fifo'[k].read[1] : k \in DOMAIN fifo'} =
          {fifo[k].read[1] : k \in DOMAIN fifo} \cup {d.read[1]}
  BY <1>2
<1> QED
  BY <1>1, <1>3, <1>4

LEMMA GivenTaken ==
    ASSUME TypeOK, fifo # << >>, NEW w, NEW l, fifo' = Tail(fifo),
           moved' = moved \cup {[desc |-> Head(fifo), reached |-> w, late |-> l]}
    PROVE  /\ Given' = Given /\ fifo' \in Seq(Descriptors)
           /\ Head(fifo) \in Given /\ Head(fifo) \in Descriptors
           /\ Head(fifo).read[1] \in {fifo[k].read[1] : k \in DOMAIN fifo}
           /\ {fifo'[k].read[1] : k \in DOMAIN fifo'} \subseteq
                  {fifo[k].read[1] : k \in DOMAIN fifo}
<1>1. fifo \in Seq(Descriptors) /\ fifo' \in Seq(Descriptors)
  BY DEF TypeOK
<1>2. /\ DOMAIN fifo = 1 .. Len(fifo) /\ DOMAIN fifo' = 1 .. (Len(fifo) - 1)
      /\ Len(fifo) \in Nat \ {0}
      /\ \A k \in 1 .. (Len(fifo) - 1) : fifo'[k] = fifo[k + 1]
      /\ Head(fifo) = fifo[1]
  BY <1>1
<1>3. {fifo[k] : k \in DOMAIN fifo} = {fifo'[k] : k \in DOMAIN fifo'} \cup {Head(fifo)}
  <2>1. ASSUME NEW k \in DOMAIN fifo
        PROVE  fifo[k] \in {fifo'[j] : j \in DOMAIN fifo'} \cup {Head(fifo)}
    <3>1. CASE k = 1
      BY <1>2, <3>1
    <3>2. CASE k # 1
      <4>1. k - 1 \in DOMAIN fifo' /\ fifo'[k - 1] = fifo[k]
        BY <1>2, <3>2
      <4> QED
        BY <4>1
    <3> QED
      BY <3>1, <3>2
  <2>2. ASSUME NEW k \in DOMAIN fifo'
        PROVE  fifo'[k] \in {fifo[j] : j \in DOMAIN fifo}
    <3>1. k + 1 \in DOMAIN fifo /\ fifo'[k] = fifo[k + 1]
      BY <1>2
    <3> QED
      BY <3>1
  <2>3. Head(fifo) \in {fifo[k] : k \in DOMAIN fifo}
    BY <1>2
  <2> QED
    BY <2>1, <2>2, <2>3
<1>4. {m.desc : m \in moved'} = {m.desc : m \in moved} \cup {Head(fifo)}
  <2>1. [desc |-> Head(fifo), reached |-> w, late |-> l].desc = Head(fifo)
    OBVIOUS
  <2>2. \A m \in moved : m \in moved'
    OBVIOUS
  <2>3. \A m \in moved' :
            m \in moved \/ m = [desc |-> Head(fifo), reached |-> w, late |-> l]
    OBVIOUS
  <2>4. [desc |-> Head(fifo), reached |-> w, late |-> l] \in moved'
    OBVIOUS
  <2> HIDE DEF Given
  <2>5. \A m \in moved' : m.desc \in {x.desc : x \in moved} \cup {Head(fifo)}
    BY <2>1, <2>3
  <2>6. Head(fifo) \in {m.desc : m \in moved'}
    BY <2>1, <2>4
  <2> QED
    BY <2>2, <2>5, <2>6
<1>5. Given' = Given /\ Head(fifo) \in Given
  BY <1>3, <1>4 DEF Given
<1>6. Head(fifo) \in Descriptors /\ Head(fifo).read[1] \in {fifo[k].read[1] : k \in DOMAIN fifo}
  BY <1>1, <1>2
<1>7. ASSUME NEW k \in DOMAIN fifo'
      PROVE  fifo'[k].read[1] \in {fifo[j].read[1] : j \in DOMAIN fifo}
  BY <1>2
<1> QED
  BY <1>1, <1>5, <1>6, <1>7

LEMMA InitHolds == ASSUME Init PROVE AdmaInv
<1>1. \A l \in Loads : l \in [Requests -> Seq(Seq(Windows))]
  BY AdmaAssumption DEF AdmaAssumption, Requests
<1>2. Unset \in AnyElement /\ Given = {} /\ fifo \in Seq(Descriptors)
  BY DEF Init, AnyElement, Given
<1>3. TypeOK
  BY <1>1, <1>2 DEF Init, TypeOK, MovesTyped, Descriptors
<1>4. \A e \in Engines : cb[e] = "idle" /\ ~Programming(e)
  BY DEF Init, Programming, Registers
<1>5. CallbacksOrderly /\ CancelsOrderly
  BY <1>4 DEF Init, CallbacksOrderly, CancelsOrderly, Programming, Registers
<1>6. WrittenProgrammed
  BY <1>2, <1>4 DEF Init, WrittenProgrammed, Written
<1>7. RegistersWhole
  BY <1>2, <1>4 DEF Init, RegistersWhole, Programming, Registers
<1>8. UnderWay = {}
  BY <1>4 DEF Init, UnderWay
<1>9. TableKnown /\ WindowsExplained /\ EndsExplained
  BY <1>8 DEF Init, TableKnown, WindowsExplained, EndsExplained
<1> QED
  BY <1>3, <1>5, <1>6, <1>7, <1>9 DEF AdmaInv

LEMMA DescriptorsSame ==
    ASSUME layout' = layout
    PROVE  AnyElement' = AnyElement /\ Descriptors' = Descriptors
BY DEF AnyElement, Descriptors, Elements

\* What was said of a move stays true.
LEMMA MovesKept ==
    ASSUME UNCHANGED <<given, moved>>, MovesTyped
    PROVE  /\ MovesTyped'
           /\ WindowsExplained /\ (overlapped => overlapped') /\ retabled \subseteq retabled' =>
                  WindowsExplained'
<1>1. layout' = layout /\ file' = file /\ moved' = moved
  BY DEF given
<1>2. \A d : Host(d)' = Host(d)
  BY <1>1 DEF Host
<1>3. \A x : Parts(x)' = Parts(x) /\ Window(x)' = Window(x)
  BY <1>1 DEF Parts, Window
<1>4. MovesTyped'
  BY <1>1, <1>2, <1>3, DescriptorsSame DEF MovesTyped
<1>5. WindowsExplained /\ (overlapped => overlapped') /\ retabled \subseteq retabled' =>
          WindowsExplained'
  BY <1>1, <1>2, <1>3 DEF WindowsExplained
<1> QED
  BY <1>4, <1>5

LEMMA CompleteTyped ==
    ASSUME TypeOK, NEW r \in Requests, NEW how \in {"failed", "cancelled"}, Complete(r, how)
    PROVE  /\ req' \in [Requests -> {"new", "queued", "owned", "done"}]
           /\ result' \in [Requests -> {"none", "failed", "cancelled"}]
           /\ bugcheck' \in BOOLEAN
           /\ req'[r] = "done" /\ \A q \in Requests \ {r} : req'[q] = req[q] /\ result'[q] = result[q]
           /\ result'[r] = IF req[r] = "done" THEN result[r] ELSE how
<1>1. bugcheck' \in BOOLEAN
  BY Zenon DEF Complete
<1> QED
  BY <1>1 DEF Complete, TypeOK

\* The steps of applications, of the framework and of the callbacks up to the
\* program write no register and give the card nothing.
RequestStep(r, e) ==
    \/ Forward(r) \/ Refuse(r) \/ CancelIo(r) \/ InitializeFails(r) \/ EvtIoDma(r)
    \/ EvtCancelDma(r) \/ MarkCancelable(e) \/ ExecuteFails(e)

LEMMA RequestStepHolds ==
    ASSUME AdmaInv, ~bugcheck, NEW r \in Requests, NEW e \in Engines, RequestStep(r, e)
    PROVE  AdmaInv'
<1>1. /\ UNCHANGED <<given, elem, cardVars, moved, repeated, overlapped, retabled>>
      /\ Given' = Given /\ Written' = Written
  BY GivenKept DEF RequestStep, Forward, Refuse, CancelIo, InitializeFails, EvtIoDma, EvtCancelDma,
     MarkCancelable, Mark, ErrExit, ExecuteFails, cbVars, cardVars, ghosts, Written, EngineStop
<1>2. \A x \in Engines :
          /\ Programming(x)' <=> Programming(x)
          /\ Programming(x) => cb'[x] = cb[x] /\ cbReq'[x] = cbReq[x]
  BY DEF RequestStep, Forward, Refuse, CancelIo, InitializeFails, EvtIoDma, EvtCancelDma, Delivered,
     MarkCancelable, Mark, ErrExit, ExecuteFails, cbVars, Goto, Programming, Registers, AdmaInv, TypeOK
<1>3. /\ req' \in [Requests -> {"new", "queued", "owned", "done"}]
      /\ result' \in [Requests -> {"none", "failed", "cancelled"}]
      /\ asked' \subseteq Requests /\ cancelable' \subseteq Requests
      /\ cancelling' \subseteq Requests
      /\ cb' \in [Engines -> {"idle", "mark", "execute", "read", "write", "length", "go"}]
      /\ cbReq' \in [Engines -> Requests \cup {NoReq}] /\ bugcheck' \in BOOLEAN
  <2>1. TypeOK /\ bugcheck \in BOOLEAN
    BY Zenon DEF AdmaInv, TypeOK
  <2>2. CASE Forward(r)
    BY <2>1, <2>2, CompleteTyped DEF Forward, TypeOK, Delivered, Goto, cbVars, ghosts
  <2>3. CASE Refuse(r)
    BY <2>1, <2>3, CompleteTyped DEF Refuse, TypeOK, Delivered, Goto, cbVars, ghosts
  <2>4. CASE CancelIo(r)
    BY <2>1, <2>4, CompleteTyped DEF CancelIo, TypeOK, Delivered, Goto, cbVars, ghosts
  <2>5. CASE InitializeFails(r)
    BY <2>1, <2>5, CompleteTyped DEF InitializeFails, TypeOK, Delivered, Goto, cbVars, ghosts
  <2>6. CASE EvtIoDma(r)
    BY <2>1, <2>6, CompleteTyped DEF EvtIoDma, TypeOK, Delivered, Goto, cbVars, ghosts
  <2>7. CASE EvtCancelDma(r)
    BY <2>1, <2>7, CompleteTyped DEF EvtCancelDma, TypeOK, Delivered, Goto, cbVars, ghosts
  <2>8. CASE MarkCancelable(e)
    <3>1. cbReq[e] \in Requests
      BY <2>8 DEF MarkCancelable, AdmaInv, CallbacksOrderly, TypeOK, NoReq
    <3>2. CASE Mark(e)
      BY <2>1, <3>1, <3>2 DEF Mark, TypeOK, Goto, ghosts
    <3>3. CASE ErrExit(e, "cancelled")
      BY <2>1, <3>1, <3>3, CompleteTyped DEF ErrExit, TypeOK, Goto
    <3> QED
      BY <2>8, <3>2, <3>3 DEF MarkCancelable
  <2>9. CASE ExecuteFails(e)
    <3>1. cbReq[e] \in Requests
      BY <2>9 DEF ExecuteFails, AdmaInv, CallbacksOrderly, TypeOK, NoReq
    <3> QED
      BY <2>1, <2>9, <3>1, CompleteTyped DEF ExecuteFails, ErrExit, TypeOK, Goto, ghosts
  <2> QED
    BY <2>2, <2>3, <2>4, <2>5, <2>6, <2>7, <2>8, <2>9 DEF RequestStep
<1>4. TypeOK'
  BY <1>1, <1>3, DescriptorsSame, MovesKept, Zenon DEF AdmaInv, TypeOK, given, cardVars
<1>5. CallbacksOrderly'
  <2>1. CASE Forward(r)
    BY <1>1, <1>2, <2>1 DEF Forward, Complete, Goto, given, reqVars, cbVars, cardVars, ghosts,
       AdmaInv, TypeOK, CallbacksOrderly, Programming, Registers, NoReq
  <2>2. CASE Refuse(r)
    BY <1>1, <1>2, <2>2 DEF Refuse, Complete, Goto, given, reqVars, cbVars, cardVars, ghosts,
       AdmaInv, TypeOK, CallbacksOrderly, Programming, Registers, NoReq
  <2>3. CASE CancelIo(r)
    BY <1>1, <1>2, <2>3 DEF CancelIo, Complete, Goto, given, reqVars, cbVars, cardVars, ghosts,
       AdmaInv, TypeOK, CallbacksOrderly, Programming, Registers, NoReq
  <2>4. CASE InitializeFails(r)
    BY <1>1, <1>2, <2>4 DEF InitializeFails, Delivered, Complete, Goto, given, reqVars, cbVars, cardVars, ghosts,
       AdmaInv, TypeOK, CallbacksOrderly, Programming, Registers, NoReq
  <2>5. CASE EvtIoDma(r)
    <3>1. /\ req[r] = "queued" /\ file[r] \in Engines /\ r # NoReq
          /\ cb' = [cb EXCEPT ![file[r]] = "mark"] /\ cbReq' = [cbReq EXCEPT ![file[r]] = r]
          /\ req' = [req EXCEPT ![r] = "owned"]
      BY <2>5, AdmaAssumption DEF EvtIoDma, Delivered, Goto, AdmaInv, TypeOK, Requests, NoReq, AdmaAssumption
    <3>2. ~Programming(file[r])
      BY <2>5 DEF EvtIoDma, Delivered, Programming, Registers
    <3> QED
      BY <1>1, <1>2, <3>1, <3>2 DEF AdmaInv, TypeOK, CallbacksOrderly, given
  <2>6. CASE EvtCancelDma(r)
    BY <1>1, <1>2, <2>6 DEF EvtCancelDma, Complete, Goto, given, reqVars, cbVars, cardVars, ghosts,
       AdmaInv, TypeOK, CallbacksOrderly, Programming, Registers, NoReq
  <2>7. CASE MarkCancelable(e)
    BY <1>1, <1>2, <2>7 DEF MarkCancelable, Mark, ErrExit, Complete, Goto, given, reqVars, cbVars, cardVars, ghosts,
       AdmaInv, TypeOK, CallbacksOrderly, Programming, Registers, NoReq
  <2>8. CASE ExecuteFails(e)
    BY <1>1, <1>2, <2>8 DEF ExecuteFails, ErrExit, Complete, Goto, given, reqVars, cbVars, cardVars, ghosts,
       AdmaInv, TypeOK, CallbacksOrderly, Programming, Registers, NoReq
  <2> QED
    BY <2>1, <2>2, <2>3, <2>4, <2>5, <2>6, <2>7, <2>8 DEF RequestStep
<1>6. CancelsOrderly'
  <2>1. CASE Forward(r)
    BY <1>1, <1>2, <2>1 DEF Forward, Complete, Goto, given, reqVars, cbVars, cardVars, ghosts,
       AdmaInv, TypeOK, CancelsOrderly, Programming, Registers, NoReq
  <2>2. CASE Refuse(r)
    BY <1>1, <1>2, <2>2 DEF Refuse, Complete, Goto, given, reqVars, cbVars, cardVars, ghosts,
       AdmaInv, TypeOK, CancelsOrderly, Programming, Registers, NoReq
  <2>3. CASE CancelIo(r)
    BY SMTT(30), <1>1, <1>2, <2>3 DEF CancelIo, Complete, Goto, given, reqVars, cbVars, cardVars, ghosts,
       AdmaInv, TypeOK, CancelsOrderly, Programming, Registers, NoReq
  <2>4. CASE InitializeFails(r)
    BY <1>1, <1>2, <2>4 DEF InitializeFails, Delivered, Complete, Goto, given, reqVars, cbVars, cardVars, ghosts,
       AdmaInv, TypeOK, CancelsOrderly, Programming, Registers, NoReq
  <2>5. CASE EvtIoDma(r)
    BY <1>1, <1>2, <2>5 DEF EvtIoDma, Delivered, Complete, Goto, given, reqVars, cbVars, cardVars, ghosts,
       AdmaInv, TypeOK, CancelsOrderly, Programming, Registers, NoReq
  <2>6. CASE EvtCancelDma(r)
    BY <1>1, <1>2, <2>6 DEF EvtCancelDma, Complete, Goto, given, reqVars, cbVars, cardVars, ghosts,
       AdmaInv, TypeOK, CancelsOrderly, Programming, Registers, NoReq
  <2>7. CASE MarkCancelable(e)
    <3>1. cbReq[e] \in Requests /\ req[cbReq[e]] = "owned"
      BY <2>7 DEF MarkCancelable, AdmaInv, CallbacksOrderly, TypeOK, NoReq
    <3>2. CASE Mark(e)
      <4>1. cbReq[e] \notin asked \cup cancelling
        BY <2>7, <3>2 DEF MarkCancelable, Mark, ErrExit, Complete, Goto, AdmaInv, TypeOK, CancelsOrderly
      <4>2. \A x \in Engines : cb[x] = "mark" /\ x # e => cbReq[x] # cbReq[e]
        BY <3>1 DEF AdmaInv, CallbacksOrderly, NoReq
      <4> QED
        BY <3>1, <3>2, <4>1, <4>2 DEF Mark, Goto, ghosts, AdmaInv, TypeOK, CancelsOrderly
    <3>3. CASE ErrExit(e, "cancelled")
      BY <1>1, <2>7, <3>1, <3>3 DEF MarkCancelable, ErrExit, Complete, Goto, AdmaInv, TypeOK,
         CancelsOrderly, NoReq
    <3> QED
      BY <2>7, <3>2, <3>3 DEF MarkCancelable
  <2>8. CASE ExecuteFails(e)
    <3>1. cbReq[e] \in Requests /\ req[cbReq[e]] = "owned"
      BY <2>8 DEF ExecuteFails, AdmaInv, CallbacksOrderly, TypeOK, NoReq
    <3> QED
      BY <1>1, <2>8, <3>1 DEF ExecuteFails, ErrExit, Complete, Goto, AdmaInv, TypeOK, CancelsOrderly, NoReq
  <2> QED
    BY <2>1, <2>2, <2>3, <2>4, <2>5, <2>6, <2>7, <2>8 DEF RequestStep
<1>7. \A q \in Requests :
          /\ req[q] = "done" => req'[q] = "done"
          /\ Programmed(q) => Programmed(q)'
          /\ req'[q] = "owned" /\ (\A x \in Engines : cbReq'[x] # q) =>
                 req[q] = "owned" /\ (\A x \in Engines : cbReq[x] # q)
  <2>1. CASE Forward(r)
    BY <1>2, <1>3, <2>1 DEF Forward, Complete, cbVars, AdmaInv, TypeOK, Programmed
  <2>2. CASE Refuse(r)
    BY <1>2, <1>3, <2>2 DEF Refuse, Complete, cbVars, AdmaInv, TypeOK, Programmed
  <2>3. CASE CancelIo(r)
    BY <1>2, <1>3, <2>3 DEF CancelIo, Complete, cbVars, AdmaInv, TypeOK, Programmed
  <2>4. CASE InitializeFails(r)
    BY <1>2, <1>3, <2>4 DEF InitializeFails, Delivered, Complete, cbVars, AdmaInv, TypeOK, Programmed
  <2>5. CASE EvtIoDma(r)
    <3>1. /\ req[r] = "queued" /\ file[r] \in Engines /\ cbReq' = [cbReq EXCEPT ![file[r]] = r]
          /\ req' = [req EXCEPT ![r] = "owned"] /\ result' = result
      BY <2>5 DEF EvtIoDma, Delivered, AdmaInv, TypeOK
    <3>2. cbReq[file[r]] = NoReq /\ NoReq \notin Requests
      BY <2>5, <3>1 DEF EvtIoDma, Delivered, AdmaInv, CallbacksOrderly, NoReq, Requests
    <3> QED
      BY <1>2, <1>3, <3>1, <3>2 DEF AdmaInv, TypeOK, Programmed
  <2>6. CASE EvtCancelDma(r)
    BY <1>2, <1>3, <2>6 DEF EvtCancelDma, Complete, cbVars, AdmaInv, TypeOK, Programmed
  <2>7. CASE MarkCancelable(e)
    <3>1. cbReq[e] \in Requests /\ req[cbReq[e]] = "owned" /\ ~Programming(e)
      BY <2>7 DEF MarkCancelable, AdmaInv, CallbacksOrderly, TypeOK, NoReq, Programming, Registers
    <3>2. ~Programmed(cbReq[e])
      BY <3>1 DEF Programmed
    <3> QED
      BY <1>2, <1>3, <2>7, <3>1, <3>2 DEF MarkCancelable, Mark, ErrExit, Complete, AdmaInv, TypeOK, NoReq, Requests, Programmed
  <2>8. CASE ExecuteFails(e)
    <3>1. cbReq[e] \in Requests /\ req[cbReq[e]] = "owned" /\ ~Programming(e)
      BY <2>8 DEF ExecuteFails, AdmaInv, CallbacksOrderly, TypeOK, NoReq, Programming, Registers
    <3>2. ~Programmed(cbReq[e])
      BY <3>1 DEF Programmed
    <3> QED
      BY <1>2, <1>3, <2>8, <3>1, <3>2 DEF ExecuteFails, ErrExit, Complete, AdmaInv, TypeOK, NoReq, Requests, Programmed
  <2> QED
    BY <2>1, <2>2, <2>3, <2>4, <2>5, <2>6, <2>7, <2>8 DEF RequestStep
<1>8. WrittenProgrammed'
  <2>1. \A x \in Written : x[1] \in Requests /\ Programmed(x[1]) /\ x \in Elements(x[1])
    BY DEF AdmaInv, WrittenProgrammed, Programmed
  <2>2. \A m \in moved : m.desc.read \in Written
    BY DEF Written, Given
  <2>3. \A q : Elements(q)' = Elements(q)
    BY <1>1 DEF Elements, given
  <2>4. \A x \in Written' : Programmed(x[1])' /\ x \in Elements(x[1])'
    BY <1>1, <1>7, <2>1, <2>3
  <2>5. \A m \in moved' : m.late => req'[m.desc.read[1]] = "done"
    BY <1>1, <1>7, <2>1, <2>2 DEF AdmaInv, WrittenProgrammed
  <2>6. \A x \in Engines : cb'[x] \in {"write", "length", "go"} => stdDes'.read # Unset
    BY <1>1, <1>2 DEF AdmaInv, WrittenProgrammed, cardVars, Programming, Registers
  <2> QED
    BY <2>4, <2>5, <2>6 DEF WrittenProgrammed
<1>9. RegistersWhole'
  <2>1. \A q : Elements(q)' = Elements(q)
    BY <1>1 DEF Elements, given
  <2>2. \A x \in Engines :
            /\ Programming(x)' => Current(x)' = Current(x) /\ cb'[x] = cb[x]
            /\ cb'[x] \in {"write", "length", "go"} => Programming(x)'
    BY <1>1, <1>2 DEF Programming, Registers, Current
  <2> SUFFICES ASSUME ~overlapped
               PROVE  RegistersWhole'
    BY <1>1 DEF RegistersWhole
  <2>3. /\ \A x, y \in Engines : Programming(x)' /\ Programming(y)' => x = y
        /\ \A d \in Given : d.read = d.write /\ d.write = d.length
    BY <1>2 DEF AdmaInv, RegistersWhole
  <2>4. \A x \in Engines :
            /\ cb'[x] \in {"write", "length", "go"} => stdDes'.read = Current(x)'
            /\ cb'[x] \in {"length", "go"} => stdDes'.write = Current(x)'
            /\ cb'[x] = "go" => stdDes'.length = Current(x)'
    BY <1>1, <2>2 DEF AdmaInv, RegistersWhole, cardVars
  <2>5. \A x \in Engines : Programming(x)' =>
            \A i \in 1 .. elem'[x] - 1 : <<cbReq'[x], i>> \in {d.read : d \in Given}
    BY <1>1, <1>2 DEF AdmaInv, RegistersWhole
  <2>6. \A q \in Requests : req'[q] = "owned" /\ (\A x \in Engines : cbReq'[x] # q) =>
            Elements(q) \subseteq {d.read : d \in Given}
    BY <1>7 DEF AdmaInv, RegistersWhole
  <2> QED
    BY <1>1, <2>1, <2>3, <2>4, <2>5, <2>6 DEF RegistersWhole
<1>10. UnderWay' = UnderWay
  BY <1>1, <1>2 DEF UnderWay, cardVars
<1>11. TableKnown' /\ WindowsExplained'
  BY <1>1, <1>10, MovesKept DEF AdmaInv, TypeOK, TableKnown, Parts, Window, given, cardVars
<1>12. \A d \in Given : d.read \in Written /\ d.read[1] \in Requests /\ Programmed(d.read[1])
  BY DEF Written, Given, AdmaInv, WrittenProgrammed, Programmed
<1>13. ASSUME bugcheck'
       PROVE  \E q \in asked' \cup cancelable' : result'[q] = "failed" /\ \A d \in Given : d.read[1] # q
  <2>1. CASE EvtCancelDma(r)
    <3>1. r \in asked' /\ result'[r] = "failed" /\ req[r] = "done" /\ result[r] = "failed"
      BY <1>13, <2>1 DEF EvtCancelDma, Complete, AdmaInv, TypeOK, CancelsOrderly
    <3>2. ~Programmed(r)
      BY <3>1 DEF Programmed
    <3> QED
      BY <1>12, <3>1, <3>2
  <2>2. CASE ExecuteFails(e)
    <3>1. cbReq[e] \in Requests /\ req[cbReq[e]] = "owned" /\ ~Programming(e)
      BY <2>2 DEF ExecuteFails, AdmaInv, CallbacksOrderly, TypeOK, NoReq, Programming, Registers
    <3>3. ~Programmed(cbReq[e])
      BY <3>1 DEF Programmed
    <3>2. cbReq[e] \in cancelable' /\ result'[cbReq[e]] = "failed"
      BY <1>13, <2>2, <3>1 DEF ExecuteFails, ErrExit, Complete, AdmaInv, TypeOK
    <3> QED
      BY <1>12, <3>2, <3>3
  <2>3. CASE MarkCancelable(e)
    <3>1. cbReq[e] \in Requests /\ req[cbReq[e]] = "owned" /\ cbReq[e] \notin cancelable
      BY <2>3 DEF MarkCancelable, AdmaInv, CallbacksOrderly, CancelsOrderly, TypeOK, NoReq
    <3> QED
      BY <1>13, <2>3, <3>1 DEF MarkCancelable, Mark, ErrExit, Complete, ghosts
  <2>4. CASE Forward(r) \/ EvtIoDma(r)
    BY <1>13, <2>4 DEF Forward, EvtIoDma, ghosts
  <2>5. CASE Refuse(r) \/ CancelIo(r) \/ InitializeFails(r)
    BY <1>13, <2>5 DEF Refuse, CancelIo, InitializeFails, Delivered, Complete, AdmaInv, CancelsOrderly
  <2> QED
    BY <2>1, <2>2, <2>3, <2>4, <2>5 DEF RequestStep
<1>14. EndsExplained'
  <2>1. \A m \in moved' : m.late => result'[m.desc.read[1]] = "cancelled"
    <3> SUFFICES ASSUME NEW m \in moved', m.late
                 PROVE  result'[m.desc.read[1]] = "cancelled"
      OBVIOUS
    <3>1. m.desc \in Given /\ req'[m.desc.read[1]] = "done"
      BY <1>1, <1>8 DEF Given, WrittenProgrammed
    <3> QED
      BY <1>7, <1>12, <3>1 DEF Programmed
  <2> QED
    BY <1>1, <1>13, <2>1 DEF EndsExplained
<1> QED
  BY <1>4, <1>5, <1>6, <1>8, <1>9, <1>11, <1>14 DEF AdmaInv

\* The program of a list: the table, then the registers of each element.
LEMMA ProgramTyped ==
    ASSUME AdmaInv, NEW e \in Engines, Programming(e) \/ cb[e] = "execute"
    PROVE  /\ cbReq[e] \in Requests /\ req[cbReq[e]] = "owned" /\ file[cbReq[e]] = e
           /\ Len(layout[cbReq[e]]) \in Nat \ {0} /\ Window(<<cbReq[e], 1>>) \in Windows
           /\ Programming(e) => Current(e) \in Elements(cbReq[e]) /\ Programmed(cbReq[e])
           /\ \A x \in Engines \ {e} : cbReq[x] # cbReq[e]
<1>1. cbReq[e] \in Requests /\ req[cbReq[e]] = "owned" /\ file[cbReq[e]] = e
  BY DEF AdmaInv, TypeOK, CallbacksOrderly, Programming, Registers, NoReq
<1>2. Len(layout[cbReq[e]]) \in Nat \ {0} /\ Window(<<cbReq[e], 1>>) \in Windows
  <2>1. /\ Len(layout[cbReq[e]]) \in Nat \ {0}
        /\ \A i \in 1 .. Len(layout[cbReq[e]]) : Window(<<cbReq[e], i>>) \in Windows
    BY <1>1, ElementsTyped DEF AdmaInv, TypeOK
  <2>2. 1 \in 1 .. Len(layout[cbReq[e]])
    BY <2>1
  <2> QED
    BY <2>1, <2>2
<1>3. \A x \in Engines \ {e} : cbReq[x] # cbReq[e]
  BY <1>1 DEF AdmaInv, CallbacksOrderly, NoReq, Requests
<1>4. Programming(e) => Current(e) \in Elements(cbReq[e])
  BY <1>1 DEF AdmaInv, CallbacksOrderly, Current, Elements
<1>5. Programming(e) => Programmed(cbReq[e])
  BY <1>1, <1>3 DEF Programmed
<1> QED
  BY <1>1, <1>2, <1>3, <1>4, <1>5

LEMMA WriteTableHolds ==
    ASSUME AdmaInv, ~bugcheck, NEW e \in Engines, WriteTable(e)
    PROVE  AdmaInv'
<1>1. /\ cb[e] = "execute" /\ cb' = [cb EXCEPT ![e] = "read"] /\ elem' = [elem EXCEPT ![e] = 1]
      /\ table' = Window(<<cbReq[e], 1>>) /\ retabled' = retabled \cup UnderWay
      /\ UNCHANGED <<given, reqVars, cbReq, stdDes, fifo, moved, repeated, bugcheck>>
      /\ Given' = Given /\ Written' = Written
  BY GivenKept DEF WriteTable, TableOf, Goto, Written
<1>2. /\ overlapped' \in BOOLEAN
      /\ ~overlapped' => ~overlapped /\ \A x \in Engines \ {e} : ~Programming(x)
  BY Zenon DEF WriteTable, AdmaInv, TypeOK
<1>3. \A x \in Engines : Programming(x)' <=> (x = e \/ Programming(x))
  BY <1>1 DEF Programming, Registers, AdmaInv, TypeOK
<1>4. UnderWay \subseteq Requests /\ UnderWay' = UnderWay \cup {cbReq[e]}
  <2>1. \A k \in DOMAIN fifo : fifo[k].read[1] \in Requests
    <3> SUFFICES ASSUME NEW k \in DOMAIN fifo
                 PROVE  fifo[k].read[1] \in Requests
      OBVIOUS
    <3>1. fifo[k].read \in Written
      BY DEF Written, Given
    <3> QED
      BY <3>1 DEF AdmaInv, WrittenProgrammed, Programmed
  <2>2. \A x \in Engines : Programming(x) => cbReq[x] \in Requests
    BY ProgramTyped
  <2> QED
    BY <1>1, <1>3, <2>1, <2>2 DEF UnderWay
<1>5. TypeOK'
  <2>1. TypeOK
    BY DEF AdmaInv
  <2>2. /\ cb' \in [Engines -> {"idle", "mark", "execute", "read", "write", "length", "go"}]
        /\ elem' \in [Engines -> Nat]
    BY <1>1, <2>1 DEF TypeOK
  <2>3. table' \in Windows
    BY <1>1, ProgramTyped
  <2>4. retabled' \subseteq Requests
    BY <1>1, <1>4, <2>1 DEF TypeOK
  <2>5. Descriptors' = Descriptors /\ Windows' = Windows
    BY <1>1, DescriptorsSame DEF given
  <2>6. stdDes' \in Descriptors' /\ fifo' \in Seq(Descriptors') /\ MovesTyped'
    BY <1>1, <2>1, <2>5, MovesKept DEF TypeOK
  <2> QED
    BY <1>1, <1>2, <2>1, <2>2, <2>3, <2>4, <2>5, <2>6 DEF TypeOK, given, reqVars
<1>6. CallbacksOrderly'
  BY <1>1, <1>3, ProgramTyped DEF AdmaInv, TypeOK, CallbacksOrderly, given, reqVars, NoReq
<1>7. CancelsOrderly'
  BY <1>1 DEF AdmaInv, TypeOK, CancelsOrderly, reqVars
<1>8. WrittenProgrammed'
  <2>1. \A q : Programmed(q) => Programmed(q)'
    BY <1>1, <1>3 DEF Programmed, reqVars
  <2>2. \A q : Elements(q)' = Elements(q)
    BY <1>1 DEF Elements, given
  <2> QED
    BY <1>1, <2>1, <2>2 DEF AdmaInv, WrittenProgrammed, TypeOK, reqVars
<1>9. RegistersWhole'
  <2> SUFFICES ASSUME ~overlapped', ~overlapped, \A x \in Engines \ {e} : ~Programming(x)
               PROVE  RegistersWhole'
    BY <1>2 DEF RegistersWhole
  <2>1. \A x, y \in Engines : Programming(x)' /\ Programming(y)' => x = y
    BY <1>3
  <2>2. \A x \in Engines : cb'[x] \in {"write", "length", "go"} => FALSE
    BY <1>1 DEF Programming, Registers, AdmaInv, TypeOK
  <2>3. \A x \in Engines : Programming(x)' => \A i \in 1 .. elem'[x] - 1 : FALSE
    BY <1>1, <1>3 DEF AdmaInv, TypeOK
  <2>4. \A q : Elements(q)' = Elements(q)
    BY <1>1 DEF Elements, given
  <2> QED
    BY <1>1, <2>1, <2>2, <2>3, <2>4 DEF AdmaInv, RegistersWhole, reqVars
<1>10. TableKnown'
  BY <1>1, <1>4, ProgramTyped DEF TableKnown, Parts, Window, given
<1>11. WindowsExplained'
  <2>1. overlapped => overlapped'
    BY Zenon DEF WriteTable
  <2> QED
    BY <1>1, <2>1, MovesKept DEF AdmaInv, TypeOK
<1>12. EndsExplained'
  BY <1>1 DEF AdmaInv, EndsExplained, reqVars
<1> QED
  BY <1>5, <1>6, <1>7, <1>8, <1>9, <1>10, <1>11, <1>12 DEF AdmaInv

LEMMA WriteRegisterHolds ==
    ASSUME AdmaInv, ~bugcheck, NEW e \in Engines,
           WriteReadAddress(e) \/ WriteWriteAddress(e) \/ WriteLength(e)
    PROVE  AdmaInv'
<1>1. PICK which \in Registers, next \in {"write", "length", "go"} :
          /\ WriteRegister(e, which, next)
          /\ \/ which = "read" /\ next = "write"
             \/ which = "write" /\ next = "length"
             \/ which = "length" /\ next = "go"
  BY DEF WriteReadAddress, WriteWriteAddress, WriteLength, Registers
<1>2. /\ cb[e] = which /\ cb' = [cb EXCEPT ![e] = next]
      /\ stdDes' = [stdDes EXCEPT ![which] = Current(e)]
      /\ UNCHANGED <<given, reqVars, cbReq, elem, table, fifo, ghosts>>
      /\ Given' = Given /\ Programming(e)
  BY <1>1, GivenKept DEF WriteRegister, Goto, Programming, ghosts
<1>3. \A x \in Engines : /\ Programming(x)' <=> Programming(x)
                        /\ Current(x)' = Current(x)
  BY <1>1, <1>2 DEF Programming, Registers, AdmaInv, TypeOK, Current
<1>4. /\ Current(e) \in Elements(cbReq[e]) /\ Programmed(cbReq[e]) /\ cbReq[e] \in Requests
      /\ Current(e) \in AnyElement /\ Current(e) # Unset /\ Current(e)[1] = cbReq[e]
  BY <1>2, ProgramTyped, ElementsTyped DEF AdmaInv, TypeOK
<1>5. stdDes' \in Descriptors
  BY <1>1, <1>2, <1>4 DEF AdmaInv, TypeOK, Descriptors, Registers
<1>6. TypeOK'
  <2>1. overlapped \in BOOLEAN /\ bugcheck \in BOOLEAN
    BY Zenon DEF AdmaInv, TypeOK
  <2> QED
    BY <1>1, <1>2, <1>5, <2>1, DescriptorsSame, MovesKept DEF AdmaInv, TypeOK, given, reqVars, ghosts, Registers
<1>7. CallbacksOrderly'
  BY <1>1, <1>2, <1>3 DEF AdmaInv, TypeOK, CallbacksOrderly, given, reqVars, Registers
<1>8. CancelsOrderly'
  BY <1>2 DEF AdmaInv, TypeOK, CancelsOrderly, reqVars, ghosts
<1>9. WrittenProgrammed'
  <2>1. \A q : Programmed(q) => Programmed(q)'
    BY <1>2, <1>3 DEF Programmed, reqVars
  <2>2. \A q : Elements(q)' = Elements(q)
    BY <1>2 DEF Elements, given
  <2>3. stdDes'.read = IF which = "read" THEN Current(e) ELSE stdDes.read
    BY <1>1, <1>2 DEF AdmaInv, TypeOK, Descriptors, Registers
  <2>4. \A x \in Written' : x \in Written \/ x = Current(e)
    BY <1>2, <2>3 DEF Written
  <2>5. \A x \in Engines : cb'[x] \in {"write", "length", "go"} => stdDes'.read # Unset
    BY <1>1, <1>2, <1>4, <2>3 DEF AdmaInv, TypeOK, WrittenProgrammed
  <2>6. \A m \in moved' : m.late => req'[m.desc.read[1]] = "done"
    BY <1>2 DEF AdmaInv, WrittenProgrammed, ghosts, reqVars
  <2> QED
    BY <1>4, <2>1, <2>2, <2>4, <2>5, <2>6 DEF AdmaInv, WrittenProgrammed
<1>10. RegistersWhole'
  <2> SUFFICES ASSUME ~overlapped
               PROVE  RegistersWhole'
    BY <1>2 DEF RegistersWhole, ghosts
  <2>1. \A x, y \in Engines : Programming(x)' /\ Programming(y)' => x = y
    BY <1>3 DEF AdmaInv, RegistersWhole
  <2>2. \A x \in Engines \ {e} : cb'[x] \notin {"write", "length", "go"}
    BY <1>2, <1>3 DEF AdmaInv, RegistersWhole, Programming, Registers, TypeOK
  <2>3. /\ cb'[e] \in {"write", "length", "go"} => stdDes'.read = Current(e)'
        /\ cb'[e] \in {"length", "go"} => stdDes'.write = Current(e)'
        /\ cb'[e] = "go" => stdDes'.length = Current(e)'
    BY <1>1, <1>2, <1>3 DEF AdmaInv, RegistersWhole, TypeOK, Descriptors, Registers
  <2>4. \A x \in Engines : Programming(x)' =>
            \A i \in 1 .. elem'[x] - 1 : <<cbReq'[x], i>> \in {d.read : d \in Given}
    BY <1>2, <1>3 DEF AdmaInv, RegistersWhole
  <2>5. \A q : Elements(q)' = Elements(q)
    BY <1>2 DEF Elements, given
  <2> QED
    BY <1>2, <2>1, <2>2, <2>3, <2>4, <2>5 DEF AdmaInv, RegistersWhole, reqVars
<1>11. UnderWay' = UnderWay
  BY <1>2, <1>3 DEF UnderWay
<1>12. TableKnown' /\ WindowsExplained'
  BY <1>2, <1>11, MovesKept DEF AdmaInv, TypeOK, TableKnown, Parts, Window, given, ghosts
<1>13. EndsExplained'
  BY <1>2 DEF AdmaInv, EndsExplained, reqVars, ghosts
<1> QED
  BY <1>6, <1>7, <1>8, <1>9, <1>10, <1>12, <1>13 DEF AdmaInv

LEMMA WriteGoHolds ==
    ASSUME AdmaInv, ~bugcheck, NEW e \in Engines, WriteGo(e)
    PROVE  AdmaInv'
<1>1. /\ cb[e] = "go" /\ fifo' = Append(fifo, stdDes) /\ Programming(e)
      /\ UNCHANGED <<given, reqVars, table, stdDes, moved, repeated, overlapped, retabled, bugcheck>>
      /\ \/ /\ MoreElements(e) /\ cbReq' = cbReq
            /\ elem' = [elem EXCEPT ![e] = @ + 1] /\ cb' = [cb EXCEPT ![e] = "read"]
         \/ /\ ~MoreElements(e) /\ cbReq' = [cbReq EXCEPT ![e] = NoReq]
            /\ elem' = [elem EXCEPT ![e] = 0] /\ cb' = [cb EXCEPT ![e] = "idle"]
  BY DEF WriteGo, Goto, Programming, ghosts
<1>2. /\ Given' = Given \cup {stdDes} /\ fifo' \in Seq(Descriptors) /\ stdDes \in Descriptors
      /\ {fifo'[k].read[1] : k \in DOMAIN fifo'} =
             {fifo[k].read[1] : k \in DOMAIN fifo} \cup {stdDes.read[1]}
  BY <1>1, GivenAppended DEF AdmaInv, TypeOK
<1>3. /\ elem[e] \in 1 .. Len(layout[cbReq[e]]) /\ Len(layout[cbReq[e]]) \in Nat \ {0}
      /\ cbReq[e] \in Requests /\ req[cbReq[e]] = "owned" /\ cbReq[e] # NoReq
      /\ Current(e) \in Elements(cbReq[e]) /\ Programmed(cbReq[e]) /\ Current(e)[1] = cbReq[e]
  BY <1>1, ProgramTyped DEF AdmaInv, CallbacksOrderly, Current, Requests, NoReq
<1>4. /\ \A x \in Engines : Programming(x)' => (Programming(x) /\ cbReq'[x] = cbReq[x])
      /\ \A x \in Engines \ {e} :
             /\ cbReq'[x] = cbReq[x] /\ elem'[x] = elem[x] /\ cb'[x] = cb[x]
             /\ Programming(x)' <=> Programming(x)
      /\ \A x \in Engines : cb'[x] \in {"write", "length", "go"} => x # e
  <2>1. CASE MoreElements(e)
    BY <1>1, <2>1 DEF Programming, Registers, AdmaInv, TypeOK
  <2>2. CASE ~MoreElements(e)
    BY <1>1, <2>2 DEF Programming, Registers, AdmaInv, TypeOK
  <2> QED
    BY <2>1, <2>2
<1>5. \A q : Elements(q)' = Elements(q)
  BY <1>1 DEF Elements, given
<1>6. TypeOK'
  <2>1. overlapped \in BOOLEAN /\ bugcheck \in BOOLEAN
    BY Zenon DEF AdmaInv, TypeOK
  <2>2. elem' \in [Engines -> Nat] /\ cbReq' \in [Engines -> Requests \cup {NoReq}]
        /\ cb' \in [Engines -> {"idle", "mark", "execute", "read", "write", "length", "go"}]
    <3>1. elem \in [Engines -> Nat] /\ cbReq \in [Engines -> Requests \cup {NoReq}]
      BY DEF AdmaInv, TypeOK
    <3>2. cb \in [Engines -> {"idle", "mark", "execute", "read", "write", "length", "go"}]
      BY DEF AdmaInv, TypeOK
    <3>3. elem' \in [Engines -> Nat]
      <4>1. elem[e] + 1 \in Nat
        BY <3>1
      <4> QED
        BY <1>1, <3>1, <4>1
    <3>4. cbReq' \in [Engines -> Requests \cup {NoReq}]
      BY <1>1, <3>1
    <3> QED
      BY <1>1, <3>2, <3>3, <3>4
  <2> QED
    BY <1>1, <1>2, <2>1, <2>2, DescriptorsSame, MovesKept DEF AdmaInv, TypeOK, given, reqVars
<1>7. CallbacksOrderly'
  <2>1. CASE MoreElements(e)
    BY <1>1, <1>3, <1>4, <2>1
    DEF AdmaInv, TypeOK, CallbacksOrderly, given, reqVars, MoreElements, Programming, Registers
  <2>2. CASE ~MoreElements(e)
    <3>1. cb'[e] = "idle" /\ cbReq'[e] = NoReq /\ ~Programming(e)'
      BY <1>1, <2>2 DEF AdmaInv, TypeOK, Programming, Registers
    <3> QED
      BY <1>1, <1>4, <3>1 DEF AdmaInv, CallbacksOrderly, given, reqVars
  <2> QED
    BY <2>1, <2>2
<1>8. CancelsOrderly'
  BY <1>1 DEF AdmaInv, TypeOK, CancelsOrderly, reqVars
<1>9. WrittenProgrammed'
  <2>1. \A q : Programmed(q) => Programmed(q)'
    <3> SUFFICES ASSUME NEW q, Programmed(q)
                 PROVE  \A x \in Engines : cbReq'[x] = q => Programming(x)'
      BY <1>1 DEF Programmed, reqVars
    <3>1. q # NoReq
      BY DEF Programmed, Requests, NoReq
    <3> QED
      BY <1>1, <1>4, <3>1 DEF Programmed, Programming, Registers, AdmaInv, TypeOK
  <2>2. Written' = Written
    <3>1. stdDes.read # Unset
      BY <1>1 DEF AdmaInv, WrittenProgrammed
    <3> QED
      BY <1>1, <1>2, <3>1 DEF Written
  <2>3. \A x \in Engines : cb'[x] \in {"write", "length", "go"} => stdDes'.read # Unset
    BY <1>1, <1>4 DEF AdmaInv, WrittenProgrammed
  <2>4. \A m \in moved' : m.late => req'[m.desc.read[1]] = "done"
    BY <1>1 DEF AdmaInv, WrittenProgrammed, reqVars
  <2> QED
    BY <1>5, <2>1, <2>2, <2>3, <2>4 DEF AdmaInv, WrittenProgrammed
<1>10. RegistersWhole' /\ (~overlapped => stdDes.read = Current(e))
  <2> SUFFICES ASSUME ~overlapped
               PROVE  RegistersWhole' /\ stdDes.read = Current(e)
    BY <1>1 DEF RegistersWhole
  <2>1. stdDes.read = Current(e) /\ stdDes.write = Current(e) /\ stdDes.length = Current(e)
    BY <1>1 DEF AdmaInv, RegistersWhole
  <2>2. \A x \in Engines \ {e} : ~Programming(x) /\ ~Programming(x)'
    BY <1>1, <1>4 DEF AdmaInv, RegistersWhole
  <2>3. \A x \in Engines : cb'[x] \notin {"write", "length", "go"}
    BY <1>4, <2>2 DEF Programming, Registers
  <2>4. \A i \in 1 .. elem[e] : <<cbReq[e], i>> \in {d.read : d \in Given'}
    <3>1. \A i \in 1 .. elem[e] - 1 : <<cbReq[e], i>> \in {d.read : d \in Given}
      BY <1>1 DEF AdmaInv, RegistersWhole
    <3>2. <<cbReq[e], elem[e]>> \in {d.read : d \in Given'}
      BY <1>2, <2>1 DEF Current
    <3>3. {d.read : d \in Given} \subseteq {d.read : d \in Given'}
      BY <1>2
    <3>4. \A i \in 1 .. elem[e] : i = elem[e] \/ i \in 1 .. elem[e] - 1
      BY <1>3
    <3> QED
      BY <3>1, <3>2, <3>3, <3>4
  <2>5. Programming(e)' => \A i \in 1 .. elem'[e] - 1 : <<cbReq'[e], i>> \in {d.read : d \in Given'}
    <3>1. Programming(e)' => MoreElements(e)
      BY <1>1 DEF Programming, Registers, AdmaInv, TypeOK
    <3>2. MoreElements(e) => elem'[e] - 1 = elem[e] /\ cbReq'[e] = cbReq[e]
      BY <1>1, <1>3 DEF AdmaInv, TypeOK
    <3> QED
      BY <2>4, <3>1, <3>2
  <2>6. \A d \in Given' : d.read = d.write /\ d.write = d.length
    BY <1>2, <2>1 DEF AdmaInv, RegistersWhole
  <2>7. ASSUME NEW q \in Requests, req[q] = "owned", \A x \in Engines : cbReq'[x] # q
        PROVE  Elements(q) \subseteq {d.read : d \in Given'}
    <3>1. CASE cbReq[e] = q
      <4>1. ~MoreElements(e)
        BY <1>1, <2>7, <3>1
      <4>2. elem[e] = Len(layout[q])
        BY <1>3, <3>1, <4>1 DEF MoreElements
      <4> QED
        BY <2>4, <3>1, <4>2 DEF Elements
    <3>2. CASE cbReq[e] # q
      <4>1. \A x \in Engines : cbReq[x] # q
        BY <1>4, <2>7, <3>2
      <4>2. {d.read : d \in Given} \subseteq {d.read : d \in Given'}
        BY <1>2
      <4> QED
        BY <2>7, <4>1, <4>2 DEF AdmaInv, RegistersWhole
    <3> QED
      BY <3>1, <3>2
  <2> QED
    BY <1>1, <1>5, <2>1, <2>2, <2>3, <2>5, <2>6, <2>7 DEF RegistersWhole, reqVars
<1>11. TableKnown'
  <2>1. cbReq[e] \in UnderWay
    BY <1>1 DEF UnderWay
  <2>2. \A q \in UnderWay' : q \in UnderWay \/ q = stdDes.read[1]
    <3> SUFFICES ASSUME NEW q \in UnderWay', q \notin {fifo'[k].read[1] : k \in DOMAIN fifo'}
                 PROVE  q \in UnderWay
      BY <1>2 DEF UnderWay
    <3>1. PICK x \in Engines : Programming(x)' /\ q = cbReq'[x]
      BY DEF UnderWay
    <3> QED
      BY <1>4, <3>1 DEF UnderWay
  <2>3. ~overlapped => UnderWay' \subseteq UnderWay
    BY <1>3, <1>10, <2>1, <2>2
  <2> QED
    BY <1>1, <2>1, <2>3 DEF AdmaInv, TableKnown, Parts, Window, given
<1>12. WindowsExplained' /\ EndsExplained'
  BY <1>1, MovesKept DEF AdmaInv, TypeOK, EndsExplained, given, reqVars
<1> QED
  BY <1>6, <1>7, <1>8, <1>9, <1>10, <1>11, <1>12 DEF AdmaInv

-----------------------------------------------------------------------------
LEMMA HwMoveHolds ==
    ASSUME AdmaInv, ~bugcheck, HwMove
    PROVE  AdmaInv'
<1> DEFINE d == Head(fifo)
           l == req[d.read[1]] = "done"
           new == [desc |-> d, reached |-> Reached(Host(d)), late |-> l]
<1>1. /\ fifo # << >> /\ moved' = moved \cup {new} /\ fifo' = Tail(fifo)
      /\ UNCHANGED <<given, reqVars, cbVars, table, stdDes, overlapped, retabled, bugcheck>>
  BY DEF HwMove, EngineProcessTransfer
<1>2. /\ Given' = Given /\ fifo' \in Seq(Descriptors) /\ d \in Given /\ d \in Descriptors
      /\ d.read[1] \in {fifo[k].read[1] : k \in DOMAIN fifo}
      /\ {fifo'[k].read[1] : k \in DOMAIN fifo'} \subseteq {fifo[k].read[1] : k \in DOMAIN fifo}
  BY <1>1, GivenTaken DEF AdmaInv
<1>3. new.desc = d /\ new.reached = Reached(Host(d)) /\ new.late = l /\ l \in BOOLEAN
  OBVIOUS
<1>4. /\ \A x : Programming(x)' <=> Programming(x)
      /\ \A x : Programmed(x)' <=> Programmed(x)
      /\ \A x : Elements(x)' = Elements(x)
      /\ \A x : Current(x)' = Current(x)
      /\ \A x : Window(x)' = Window(x) /\ Parts(x)' = Parts(x) /\ Host(x)' = Host(x)
  BY <1>1 DEF Programming, Programmed, Elements, Current, Window, Parts, Host, given, reqVars, cbVars
<1>5. UnderWay' \subseteq UnderWay /\ d.read[1] \in UnderWay
  BY <1>1, <1>2, <1>4 DEF UnderWay, cbVars
<1>6. d.read \in Written /\ d.read[1] \in Requests /\ d.read \in Elements(d.read[1])
  BY <1>2 DEF Written, AdmaInv, WrittenProgrammed, Programmed
<1>7. Written' = Written
  BY <1>1, <1>2 DEF Written
<1> HIDE DEF d, l, new
<1>8. TypeOK'
  <2>1. overlapped \in BOOLEAN /\ bugcheck \in BOOLEAN /\ repeated' \in BOOLEAN
    BY Zenon DEF AdmaInv, TypeOK, HwMove
  <2>2. new.reached \in [DOMAIN Parts(Host(new.desc)) -> Windows \cup {"none"}]
    BY <1>3 DEF Reached, AdmaInv, TypeOK
  <2>3. Descriptors' = Descriptors
    BY <1>1, DescriptorsSame DEF given
  <2>4. MovesTyped'
    BY <1>1, <1>2, <1>3, <1>4, <2>2, <2>3 DEF AdmaInv, TypeOK, MovesTyped
  <2> QED
    BY <1>1, <1>2, <2>1, <2>3, <2>4 DEF AdmaInv, TypeOK, given, reqVars, cbVars
<1>9. CallbacksOrderly' /\ CancelsOrderly'
  BY <1>1, <1>4 DEF AdmaInv, CallbacksOrderly, CancelsOrderly, given, reqVars, cbVars
<1>10. WrittenProgrammed'
  <2>1. \A m \in moved' : m.late => req[m.desc.read[1]] = "done"
    BY <1>1, <1>3 DEF AdmaInv, WrittenProgrammed, l
  <2> QED
    BY <1>1, <1>4, <1>7, <2>1 DEF AdmaInv, WrittenProgrammed, reqVars, cbVars
<1>11. RegistersWhole'
  BY <1>1, <1>2, <1>4 DEF AdmaInv, RegistersWhole, reqVars, cbVars
<1>12. TableKnown'
  BY <1>1, <1>4, <1>5 DEF AdmaInv, TableKnown
<1>13. WindowsExplained'
  <2> DEFINE x == Host(d)
             Selected(k) == \/ file[x[1]] = "H2C" /\ Entry[Parts(x)[k]] = 0
                            \/ file[x[1]] = "C2H" /\ (k - 1) % NumEntries = 0
  <2>1. ASSUME ~overlapped, x[1] \notin retabled, NEW k \in DOMAIN Parts(x)
        PROVE  new.reached[k] = Parts(x)[k] <=>
                   Parts(x)[k] = Window(<<x[1], 1>>) /\ Selected(k)
    <3>1. x = d.read
      BY <1>2, <2>1 DEF Host, AdmaInv, RegistersWhole
    <3>2. table = Window(<<x[1], 1>>)
      BY <1>5, <2>1, <3>1 DEF AdmaInv, TableKnown
    <3>3. Parts(x)[k] # "none"
      <4>1. Parts(x) \in Seq(Windows)
        BY <1>6, <3>1, ElementsTyped DEF AdmaInv, TypeOK
      <4>2. Parts(x)[k] \in Windows
        BY <4>1
      <4> QED
        BY <4>2, AdmaAssumption DEF AdmaAssumption
    <3>4. file[x[1]] \in {"H2C", "C2H"}
      BY <1>6, <3>1 DEF AdmaInv, TypeOK, Engines
    <3>5. EntryOf(x, k) = 0 <=> Selected(k)
      BY <3>4 DEF EntryOf
    <3>6. new.reached[k] = IF EntryOf(x, k) = 0 THEN table ELSE "none"
      BY <1>3, <2>1 DEF Reached
    <3> QED
      BY <3>2, <3>3, <3>5, <3>6
  <2>2. new.desc = d
    BY <1>3
  <2> QED
    BY <1>1, <1>4, <2>1, <2>2 DEF AdmaInv, WindowsExplained, given
<1>14. EndsExplained'
  <2>1. new.late => result[new.desc.read[1]] = "cancelled"
    BY <1>3, <1>6 DEF l, AdmaInv, WrittenProgrammed, Programmed
  <2> QED
    BY <1>1, <2>1 DEF AdmaInv, EndsExplained, reqVars
<1> QED
  BY <1>8, <1>9, <1>10, <1>11, <1>12, <1>13, <1>14 DEF AdmaInv

-----------------------------------------------------------------------------
LEMMA StutterHolds == ASSUME AdmaInv, UNCHANGED vars PROVE AdmaInv'
<1> USE DEF vars, given, reqVars, cbVars, cardVars, ghosts
<1>1. /\ \A x : Programming(x)' <=> Programming(x)
      /\ \A x : Programmed(x)' <=> Programmed(x)
      /\ \A x : Elements(x)' = Elements(x)
      /\ \A x : Current(x)' = Current(x)
      /\ \A x : Window(x)' = Window(x)
  BY DEF Programming, Programmed, Elements, Current, Parts, Window
<1>2. Given' = Given /\ Written' = Written /\ UnderWay' = UnderWay
  BY <1>1 DEF Given, Written, UnderWay
<1>3. TypeOK'
  BY DescriptorsSame, MovesKept DEF AdmaInv, TypeOK
<1>4. CallbacksOrderly' /\ WrittenProgrammed' /\ CancelsOrderly'
  BY <1>1, <1>2 DEF AdmaInv, CallbacksOrderly, WrittenProgrammed, CancelsOrderly
<1>5. RegistersWhole' /\ TableKnown'
  BY <1>1, <1>2 DEF AdmaInv, RegistersWhole, TableKnown
<1>6. WindowsExplained' /\ EndsExplained'
  BY <1>1, <1>2, MovesKept DEF AdmaInv, TypeOK, EndsExplained
<1> QED
  BY <1>3, <1>4, <1>5, <1>6 DEF AdmaInv

LEMMA NextHolds == ASSUME AdmaInv, Next PROVE AdmaInv'
<1>1. ~bugcheck
  BY DEF Next
<1>2. ASSUME NEW r \in Requests, Forward(r) \/ Refuse(r) \/ CancelIo(r) \/ InitializeFails(r)
      PROVE  AdmaInv'
  <2>1. "H2C" \in Engines
    BY DEF Engines
  <2> QED
    BY <1>1, <1>2, <2>1, RequestStepHolds DEF RequestStep
<1>3. ASSUME NEW e \in Engines, QueueStep(e) \/ ExecuteFails(e)
      PROVE  AdmaInv'
  <2>1. CASE \E r \in Requests : EvtIoDma(r) \/ EvtCancelDma(r)
    BY <1>1, <2>1, RequestStepHolds DEF RequestStep
  <2>2. CASE MarkCancelable(e) \/ ExecuteFails(e)
    <3>1. PICK r : r = cbReq[e]
      OBVIOUS
    <3>2. cbReq[e] \in Requests
      BY <2>2 DEF MarkCancelable, ExecuteFails, AdmaInv, CallbacksOrderly, TypeOK, NoReq
    <3> QED
      BY <1>1, <2>2, <3>2, RequestStepHolds DEF RequestStep
  <2>3. CASE Program(e)
    BY <1>1, <2>3, WriteTableHolds, WriteRegisterHolds, WriteGoHolds DEF Program
  <2> QED
    BY <1>3, <2>1, <2>2, <2>3 DEF QueueStep
<1> QED
  BY <1>1, <1>2, <1>3, HwMoveHolds DEF Next

-----------------------------------------------------------------------------
\* What every reachable state satisfies.
THEOREM AdmaInvariant == Spec => []AdmaInv
<1>1. AdmaInv /\ [Next]_vars => AdmaInv'
  BY NextHolds, StutterHolds
<1> QED
  BY <1>1, InitHolds, PTL DEF Spec

\* Every variable keeps to its range, whatever the applications cancel and
\* however the callbacks of the two queues interleave.
THEOREM TypeCorrect == Spec => []TypeOK
<1>1. AdmaInv => TypeOK
  BY DEF AdmaInv
<1> QED
  BY <1>1, AdmaInvariant, PTL

\* The registers of the dispatcher are shared and not locked
\* (adma_engine.c:339-341, 539-548): as long as the callbacks of the two queues
\* do not write them at a time, every descriptor is of one element, and a
\* request that waits for the card has all of its elements there.
THEOREM WholeUnlessOverlapped == Spec => []DescriptorsWhole
<1>1. AdmaInv => DescriptorsWhole
  BY DEF AdmaInv, RegistersWhole, DescriptorsWhole
<1> QED
  BY <1>1, AdmaInvariant, PTL

\* For any windows, any number of entries of the table and any elements, the
\* card reaches the memory of a part of an element through entry 0, the only one
\* set (adma_engine.c:477-478), exactly when it is in the window of the first
\* element and its address, unmasked to the device (539) and masked from it
\* (545), selects that entry, unless the entry was set again meanwhile.
THEOREM WindowsKnown == Spec => []WindowsExplained
<1>1. AdmaInv => WindowsExplained
  BY DEF AdmaInv
<1> QED
  BY <1>1, AdmaInvariant, PTL

\* The card touches memory of a request that has ended only after a cancel,
\* and a request is completed twice or while it is cancelable only when
\* WdfDmaTransactionExecute fails (file_io.c:605-622), before the card has
\* anything of it.
THEOREM EndsHaveReasons == Spec => []EndsExplained
<1>1. AdmaInv => EndsExplained
  BY DEF AdmaInv
<1> QED
  BY <1>1, AdmaInvariant, PTL

-----------------------------------------------------------------------------
(* The queues the applications see.                                        *)

MovedReads == {m.desc.read : m \in moved}
GivenReads == {d.read : d \in Given}

\* What the card moves before the k-th it has to do.
Ahead(k) == MovedReads \cup {fifo[j].read : j \in 1 .. k - 1}

\* An element is moved once and when those before it in its list were.
InTurn(x, before) == x \notin before /\ \A i \in 1 .. x[2] - 1 : <<x[1], i>> \in before

\* All the card has to do is in turn, and of a request that is being programmed
\* it was given only elements before the one the program is at.
CardOrderly ==
    /\ \A k \in DOMAIN fifo : InTurn(fifo[k].read, Ahead(k))
    /\ \A e \in Engines :
           Programming(e) => \A x \in GivenReads : x[1] = cbReq[e] => x[2] < elem[e]

QueuesInv == AdmaInv /\ (~overlapped => CardOrderly)

\* Most steps neither give the card anything nor have it move anything.
LEMMA CardKept ==
    ASSUME CardOrderly, UNCHANGED <<fifo, moved>>,
           \A e \in Engines : Programming(e)' =>
               \/ Programming(e) /\ cbReq'[e] = cbReq[e] /\ elem'[e] = elem[e]
               \/ \A x \in GivenReads : x[1] # cbReq'[e]
    PROVE  CardOrderly'
<1>1. MovedReads' = MovedReads /\ GivenReads' = GivenReads
  BY DEF MovedReads, GivenReads, Given
<1>2. \A k \in DOMAIN fifo : Ahead(k)' = Ahead(k)
  BY <1>1 DEF Ahead
<1>3. \A k \in DOMAIN fifo' : InTurn(fifo'[k].read, Ahead(k)')
  BY <1>2 DEF CardOrderly
<1> QED
  BY <1>1, <1>3 DEF CardOrderly

\* What the card was given has its host address from a list that was or is
\* being programmed.
LEMMA GivenTyped ==
    ASSUME AdmaInv, NEW d \in Given
    PROVE  /\ d.read[1] \in Requests /\ Programmed(d.read[1]) /\ d.read \in Elements(d.read[1])
           /\ d.read[2] \in 1 .. Len(layout[d.read[1]]) /\ Len(layout[d.read[1]]) \in Nat
           /\ d.read = <<d.read[1], d.read[2]>>
<1>1. d.read \in Written
  BY DEF Written
<1>2. d.read[1] \in Requests /\ Programmed(d.read[1]) /\ d.read \in Elements(d.read[1])
  BY <1>1 DEF AdmaInv, WrittenProgrammed, Programmed
<1> QED
  BY <1>2, ElementsTyped DEF AdmaInv, TypeOK

\* Nothing was given of a request whose program is yet to begin.
LEMMA WriteTableOrderly ==
    ASSUME AdmaInv, CardOrderly, NEW e \in Engines, WriteTable(e)
    PROVE  CardOrderly'
<1>1. /\ cb[e] = "execute" /\ UNCHANGED <<cbReq, fifo, moved>>
      /\ \A x \in Engines \ {e} : cb'[x] = cb[x] /\ elem'[x] = elem[x]
  BY DEF WriteTable, Goto, AdmaInv, TypeOK
<1>2. ~Programming(e)
  BY <1>1 DEF Programming, Registers
<1>3. \A x \in GivenReads : x[1] # cbReq[e]
  BY <1>2, GivenTyped DEF GivenReads, Programmed
<1>4. \A x \in Engines \ {e} : Programming(x)' => Programming(x)
  BY <1>1 DEF Programming
<1> QED
  BY <1>1, <1>3, <1>4, CardKept

\* The card is given the element after those it was given of the list.
LEMMA WriteGoOrderly ==
    ASSUME AdmaInv, CardOrderly, ~overlapped, NEW e \in Engines, WriteGo(e)
    PROVE  CardOrderly'
<1>1. /\ cb[e] = "go" /\ Programming(e) /\ fifo' = Append(fifo, stdDes) /\ moved' = moved
      /\ \/ /\ MoreElements(e) /\ cbReq' = cbReq
            /\ elem' = [elem EXCEPT ![e] = @ + 1] /\ cb' = [cb EXCEPT ![e] = "read"]
         \/ cb' = [cb EXCEPT ![e] = "idle"]
  BY DEF WriteGo, Goto, Programming, ghosts
<1>2. /\ fifo \in Seq(Descriptors) /\ stdDes \in Descriptors
      /\ cb \in [Engines -> {"idle", "mark", "execute", "read", "write", "length", "go"}]
      /\ elem \in [Engines -> Nat]
  BY DEF AdmaInv, TypeOK
<1>3. Given' = Given \cup {stdDes}
  BY <1>1, <1>2, GivenAppended DEF AdmaInv
<1>4. stdDes.read = <<cbReq[e], elem[e]>> /\ elem[e] \in Nat
  BY <1>1, <1>2 DEF AdmaInv, RegistersWhole, Current
<1>5. /\ DOMAIN fifo = 1 .. Len(fifo) /\ Len(fifo) \in Nat
      /\ DOMAIN fifo' = 1 .. (Len(fifo) + 1) /\ fifo'[Len(fifo) + 1] = stdDes
      /\ \A k \in 1 .. Len(fifo) : fifo'[k] = fifo[k]
  BY <1>1, <1>2
<1>6. /\ MovedReads' = MovedReads /\ GivenReads' = GivenReads \cup {stdDes.read}
      /\ MovedReads \subseteq GivenReads
      /\ \A k \in 1 .. Len(fifo) : fifo[k].read \in GivenReads
      /\ \A x \in GivenReads : x \in MovedReads \/ \E k \in 1 .. Len(fifo) : fifo[k].read = x
  BY <1>1, <1>3, <1>5 DEF MovedReads, GivenReads, Given
<1>7. stdDes.read \notin GivenReads
  BY <1>1, <1>4 DEF CardOrderly
<1>8. \A i \in 1 .. elem[e] - 1 : <<cbReq[e], i>> \in GivenReads
  BY <1>1 DEF AdmaInv, RegistersWhole, GivenReads
<1>9. ASSUME NEW k \in DOMAIN fifo'
      PROVE  InTurn(fifo'[k].read, Ahead(k)')
  <2>1. \A j \in 1 .. k - 1 : j \in 1 .. Len(fifo) /\ fifo'[j] = fifo[j]
    BY <1>5
  <2>2. Ahead(k)' = Ahead(k)
    BY <1>6, <2>1 DEF Ahead
  <2>3. CASE k \in 1 .. Len(fifo)
    BY <1>5, <2>2, <2>3 DEF CardOrderly
  <2>4. CASE k = Len(fifo) + 1
    <3>1. fifo'[k].read = stdDes.read /\ k - 1 = Len(fifo)
      BY <1>5, <2>4
    <3>2. Ahead(k) = GivenReads
      BY <1>6, <3>1 DEF Ahead
    <3>3. stdDes.read[1] = cbReq[e] /\ stdDes.read[2] = elem[e]
      BY <1>4
    <3> QED
      BY <1>7, <1>8, <2>2, <3>1, <3>2, <3>3 DEF InTurn
  <2> QED
    BY <1>5, <2>3, <2>4
<1>10. ASSUME NEW x \in Engines, Programming(x)', NEW y \in GivenReads', y[1] = cbReq'[x]
       PROVE  y[2] < elem'[x]
  <2>1. x = e /\ MoreElements(e)
    BY <1>1, <1>2, <1>10 DEF AdmaInv, RegistersWhole, Programming, Registers
  <2>2. cbReq'[x] = cbReq[e] /\ elem'[x] = elem[e] + 1
    BY <1>1, <1>2, <1>10, <2>1 DEF Programming, Registers
  <2>3. CASE y \in GivenReads
    <3>1. y[2] < elem[e] /\ y[2] \in Nat
      BY <1>1, <1>10, <2>2, <2>3, GivenTyped DEF CardOrderly, GivenReads
    <3> QED
      BY <1>4, <2>2, <3>1
  <2>4. CASE y = stdDes.read
    BY <1>4, <2>2, <2>4
  <2> QED
    BY <1>6, <2>3, <2>4
<1> QED
  BY <1>6, <1>9, <1>10 DEF CardOrderly

\* What the card moves is the first it was given of the rest of a list.
LEMMA HwMoveOrderly ==
    ASSUME AdmaInv, CardOrderly, HwMove
    PROVE  /\ CardOrderly' /\ MovedReads' = MovedReads \cup {Head(fifo).read}
           /\ InTurn(Head(fifo).read, MovedReads)
<1>1. /\ fifo # << >> /\ fifo' = Tail(fifo) /\ UNCHANGED <<cb, cbReq, elem>>
      /\ moved' = moved \cup {[desc |-> Head(fifo), reached |-> Reached(Host(Head(fifo))),
                               late |-> req[Head(fifo).read[1]] = "done"]}
  BY DEF HwMove, EngineProcessTransfer, cbVars
<1>2. Given' = Given
  BY <1>1, GivenTaken DEF AdmaInv
<1>3. fifo \in Seq(Descriptors)
  BY DEF AdmaInv, TypeOK
<1>4. /\ DOMAIN fifo = 1 .. Len(fifo) /\ DOMAIN fifo' = 1 .. (Len(fifo) - 1)
      /\ Len(fifo) \in Nat \ {0} /\ Head(fifo) = fifo[1]
      /\ \A k \in 1 .. (Len(fifo) - 1) : fifo'[k] = fifo[k + 1]
  BY <1>1, <1>3
<1>5. MovedReads' = MovedReads \cup {fifo[1].read}
  <2> DEFINE new == [desc |-> Head(fifo), reached |-> Reached(Host(Head(fifo))),
                     late |-> req[Head(fifo).read[1]] = "done"]
  <2>1. new.desc = fifo[1]
    BY <1>4
  <2> HIDE DEF new
  <2>2. moved' = moved \cup {new}
    BY <1>1 DEF new
  <2> QED
    BY <2>1, <2>2 DEF MovedReads
<1>6. InTurn(fifo[1].read, MovedReads)
  <2>1. Ahead(1) = MovedReads
    BY DEF Ahead
  <2> QED
    BY <1>4, <2>1 DEF CardOrderly
<1>7. ASSUME NEW k \in DOMAIN fifo'
      PROVE  InTurn(fifo'[k].read, Ahead(k)')
  <2>1. k + 1 \in DOMAIN fifo /\ fifo'[k] = fifo[k + 1] /\ k + 1 - 1 = k /\ 1 \in 1 .. k
    BY <1>4
  <2>2. \A j \in 1 .. k - 1 : j + 1 \in 1 .. k /\ fifo'[j] = fifo[j + 1]
    BY <1>4
  <2>3. \A j \in 1 .. k : j = 1 \/ (j - 1 \in 1 .. k - 1 /\ fifo'[j - 1] = fifo[j])
    <3> SUFFICES ASSUME NEW j \in 1 .. k, j # 1
                 PROVE  j - 1 \in 1 .. k - 1 /\ fifo'[j - 1] = fifo[j]
      OBVIOUS
    <3>1. j - 1 \in 1 .. k - 1 /\ j - 1 \in 1 .. (Len(fifo) - 1) /\ j - 1 + 1 = j
      BY <1>4
    <3> QED
      BY <1>4, <3>1
  <2>4. {fifo'[j].read : j \in 1 .. k - 1} \cup {fifo[1].read} = {fifo[j].read : j \in 1 .. k}
    BY <2>1, <2>2, <2>3
  <2>5. k \in Nat
    BY <1>4
  <2>6. Ahead(k)' = Ahead(k + 1)
    BY <1>5, <2>4, <2>5 DEF Ahead
  <2> QED
    BY <2>1, <2>6 DEF CardOrderly
<1>8. \A e \in Engines :
          Programming(e)' => \A x \in GivenReads' : x[1] = cbReq'[e] => x[2] < elem'[e]
  BY <1>1, <1>2 DEF CardOrderly, GivenReads, Programming
<1> QED
  BY <1>4, <1>5, <1>6, <1>7, <1>8 DEF CardOrderly

\* Nothing else disturbs the order.
LEMMA OthersOrderly ==
    ASSUME AdmaInv, CardOrderly,
           \/ \E r \in Requests : \E e \in Engines : RequestStep(r, e)
           \/ \E e \in Engines :
                  WriteReadAddress(e) \/ WriteWriteAddress(e) \/ WriteLength(e)
           \/ UNCHANGED vars
    PROVE  CardOrderly'
<1>1. CASE \E r \in Requests : \E e \in Engines : RequestStep(r, e)
  <2>1. PICK r \in Requests : \E e \in Engines : RequestStep(r, e)
    BY <1>1
  <2>2. PICK e \in Engines : RequestStep(r, e)
    BY <2>1
  <2>3. UNCHANGED <<fifo, moved, elem>>
    BY <2>2 DEF RequestStep, Forward, Refuse, CancelIo, InitializeFails, EvtIoDma, EvtCancelDma,
       MarkCancelable, Mark, ErrExit, ExecuteFails, cbVars, cardVars, ghosts, EngineStop
  <2>4. \A x \in Engines : Programming(x)' => Programming(x) /\ cbReq'[x] = cbReq[x]
    BY <2>2 DEF RequestStep, Forward, Refuse, CancelIo, InitializeFails, EvtIoDma, EvtCancelDma,
       Delivered, MarkCancelable, Mark, ErrExit, ExecuteFails, cbVars, Goto, Programming, Registers,
       AdmaInv, TypeOK
  <2> QED
    BY <2>3, <2>4, CardKept
<1>2. ASSUME NEW e \in Engines, WriteReadAddress(e) \/ WriteWriteAddress(e) \/ WriteLength(e)
      PROVE  CardOrderly'
  <2>1. UNCHANGED <<fifo, moved, elem, cbReq>>
    BY <1>2 DEF WriteReadAddress, WriteWriteAddress, WriteLength, WriteRegister, ghosts
  <2>2. \A x \in Engines : Programming(x)' => Programming(x)
    BY <1>2 DEF WriteReadAddress, WriteWriteAddress, WriteLength, WriteRegister, Goto, Programming,
       Registers, AdmaInv, TypeOK
  <2> QED
    BY <2>1, <2>2, CardKept
<1>3. CASE UNCHANGED vars
  BY <1>3, CardKept DEF vars, cbVars, cardVars, ghosts, Programming
<1> QED
  BY <1>1, <1>2, <1>3

\* What a step can be.
LEMMA StepKinds ==
    ASSUME AdmaInv, Next
    PROVE  \/ \E r \in Requests : \E e \in Engines : RequestStep(r, e)
           \/ \E e \in Engines : WriteTable(e) \/ WriteGo(e)
           \/ \E e \in Engines :
                  WriteReadAddress(e) \/ WriteWriteAddress(e) \/ WriteLength(e)
           \/ HwMove
<1>1. "H2C" \in Engines
  BY DEF Engines
<1>2. \A e \in Engines : cbReq[e] \in Requests \/ cb[e] = "idle"
  BY DEF AdmaInv, CallbacksOrderly, TypeOK, NoReq
<1>3. ASSUME NEW e \in Engines, MarkCancelable(e) \/ ExecuteFails(e)
      PROVE  \E r \in Requests : RequestStep(r, e)
  BY <1>2, <1>3 DEF MarkCancelable, ExecuteFails, RequestStep
<1>4. ASSUME NEW r \in Requests,
             \/ Forward(r) \/ Refuse(r) \/ CancelIo(r) \/ InitializeFails(r)
             \/ EvtIoDma(r) \/ EvtCancelDma(r)
      PROVE  RequestStep(r, "H2C")
  BY <1>4 DEF RequestStep
<1> QED
  BY <1>1, <1>3, <1>4 DEF Next, QueueStep, Program

\* What the order of the elements rests on: until the registers are written by
\* both callbacks at a time, the card is given the elements of a list once each
\* and in order, and works them off in the order it was given them.
THEOREM QueuesInvariant == Spec => []QueuesInv
<1>1. Init => CardOrderly
  <2> SUFFICES ASSUME Init PROVE CardOrderly
    OBVIOUS
  <2>1. DOMAIN fifo = {} /\ \A e \in Engines : ~Programming(e)
    BY DEF Init, Programming, Registers
  <2> QED
    BY <2>1 DEF CardOrderly
<1>2. QueuesInv /\ [Next]_vars => QueuesInv'
  <2> SUFFICES ASSUME QueuesInv, [Next]_vars, ~overlapped'
               PROVE  CardOrderly'
    BY NextHolds, StutterHolds DEF QueuesInv
  <2>1. ~overlapped
    BY DEF Next, QueueStep, Program, Forward, Refuse, CancelIo, InitializeFails, EvtIoDma,
       EvtCancelDma, MarkCancelable, Mark, ErrExit, ExecuteFails, WriteTable, WriteReadAddress,
       WriteWriteAddress, WriteLength, WriteRegister, WriteGo, HwMove, vars, ghosts
  <2>2. AdmaInv /\ CardOrderly
    BY <2>1 DEF QueuesInv
  <2> QED
    BY <2>1, <2>2, StepKinds, OthersOrderly, WriteTableOrderly, WriteGoOrderly, HwMoveOrderly
<1> QED
  BY <1>1, <1>2, InitHolds, PTL DEF Spec, QueuesInv

\* A step of a request is a step of its queue; any other leaves the queues.
LEMMA QueuesPromised ==
    ASSUME UNCHANGED <<given, repeated, overlapped>>, NEW r \in Requests,
           \/ Queues!Submit(r) \/ Queues!TurnAway(r) \/ Queues!Serve(r)
           \/ Queues!Move(r) \/ Queues!End(r)
    PROVE  Queues!Promised
<1>1. \A s \in Requests : Elements(s)' = Elements(s)
  BY DEF Elements, given
<1>2. UNCHANGED <<Queues!given, repeated, overlapped>>
  BY <1>1 DEF Queues!given, given
<1> QED
  BY <1>2 DEF Queues!Promised

LEMMA QueuesStutter ==
    ASSUME UNCHANGED <<given, req, result, moved, repeated, overlapped>>
    PROVE  UNCHANGED Queues!vars
<1>1. \A s \in Requests : Elements(s)' = Elements(s)
  BY DEF Elements, given
<1> QED
  BY <1>1 DEF Queues!vars, Queues!given, given

\* Completing a request ends it, or turns it away when the driver has not had
\* it, or comes too late.
LEMMA QueuesEnd ==
    ASSUME TypeOK, UNCHANGED <<given, moved, repeated, overlapped>>, NEW r \in Requests,
           NEW how \in {"failed", "cancelled"}, Complete(r, how)
    PROVE  Queues!Promised \/ UNCHANGED Queues!vars
<1>1. CASE req[r] = "done"
  <2>1. req' = req /\ result' = result
    BY <1>1 DEF Complete, TypeOK
  <2> QED
    BY <2>1, QueuesStutter
<1>2. CASE req[r] # "done"
  <2>1. Queues!Finish(r, how) /\ how \in Queues!Ends \ {"ok"}
    BY <1>2 DEF Complete, Queues!Finish, Queues!Ends
  <2>2. UNCHANGED {<<m.desc.read[1], 1, m.desc.read[2]>> : m \in moved}
    OBVIOUS
  <2>3. CASE req[r] = "owned"
    BY <2>1, <2>2, <2>3, QueuesPromised DEF Queues!End
  <2>4. CASE req[r] \in {"new", "queued"}
    BY <2>1, <2>2, <2>4, QueuesPromised DEF Queues!TurnAway
  <2> QED
    BY <1>2, <2>3, <2>4 DEF TypeOK
<1> QED
  BY <1>1, <1>2

LEMMA RequestStepPromised ==
    ASSUME AdmaInv, NEW r \in Requests, NEW e \in Engines, RequestStep(r, e)
    PROVE  Queues!Promised \/ UNCHANGED Queues!vars
<1>1. /\ UNCHANGED <<given, moved, repeated, overlapped>> /\ TypeOK
      /\ UNCHANGED {<<m.desc.read[1], 1, m.desc.read[2]>> : m \in moved}
  BY DEF RequestStep, Forward, Refuse, CancelIo, InitializeFails, EvtIoDma, EvtCancelDma,
     MarkCancelable, Mark, ErrExit, ExecuteFails, ghosts, AdmaInv
<1>2. CASE Forward(r)
  <2>1. Queues!Submit(r)
    BY <1>1, <1>2 DEF Forward, Queues!Submit, Requests
  <2> QED
    BY <1>1, <2>1, QueuesPromised
<1>3. CASE EvtIoDma(r)
  <2>1. Queues!Serve(r)
    BY <1>1, <1>3 DEF EvtIoDma, Delivered, Queues!Serve, Requests
  <2> QED
    BY <1>1, <2>1, QueuesPromised
<1>4. CASE Refuse(r) \/ InitializeFails(r) \/ EvtCancelDma(r)
  BY <1>1, <1>4, QueuesEnd DEF Refuse, InitializeFails, EvtCancelDma
<1>5. CASE CancelIo(r)
  BY <1>1, <1>5, QueuesEnd, QueuesStutter DEF CancelIo
<1>6. CASE MarkCancelable(e) \/ ExecuteFails(e)
  <2>1. cbReq[e] \in Requests
    BY <1>6 DEF MarkCancelable, ExecuteFails, AdmaInv, CallbacksOrderly, TypeOK, NoReq
  <2>2. \/ Complete(cbReq[e], "failed") \/ Complete(cbReq[e], "cancelled")
        \/ UNCHANGED <<req, result>>
    BY <1>6 DEF MarkCancelable, Mark, ExecuteFails, ErrExit
  <2> QED
    BY <1>1, <2>1, <2>2, QueuesEnd, QueuesStutter
<1> QED
  BY <1>2, <1>3, <1>4, <1>5, <1>6 DEF RequestStep

\* What the card moves is the next element of its request, which is not over
\* but by a cancel.
LEMMA HwMovePromised ==
    ASSUME AdmaInv, CardOrderly, HwMove
    PROVE  Queues!Promised
<1> DEFINE x == Head(fifo).read
           data == {<<m.desc.read[1], 1, m.desc.read[2]>> : m \in moved}
<1>1. /\ UNCHANGED <<given, req, result, overlapped>> /\ fifo # << >> /\ layout \in Loads
      /\ fifo \in Seq(Descriptors) /\ repeated \in BOOLEAN
      /\ repeated' = (repeated \/ Head(fifo).read \in MovedReads)
  BY DEF HwMove, EngineProcessTransfer, reqVars, AdmaInv, TypeOK, MovedReads
<1>2. Head(fifo) \in Given
  BY <1>1 DEF Given
<1>3. /\ x[1] \in Requests /\ Programmed(x[1]) /\ x \in Elements(x[1])
      /\ x[2] \in 1 .. Len(layout[x[1]]) /\ x = <<x[1], x[2]>> /\ Len(layout[x[1]]) \in Nat
  BY <1>2, GivenTyped
<1>4. MovedReads' = MovedReads \cup {x} /\ InTurn(x, MovedReads)
  BY HwMoveOrderly
<1>5. \A y \in MovedReads : y = <<y[1], y[2]>>
  BY GivenTyped DEF MovedReads, Given
<1>6. data = {<<y[1], 1, y[2]>> : y \in MovedReads} /\ data' = {<<y[1], 1, y[2]>> : y \in MovedReads'}
  BY DEF MovedReads
<1> HIDE DEF x, data
<1>7. data' = data \cup {<<x[1], 1, x[2]>>}
  BY <1>4, <1>6
<1>8. <<x[1], 1, x[2]>> \notin data
  BY <1>3, <1>4, <1>5, <1>6 DEF InTurn
<1>9. ASSUME NEW z \in Elements(x[1]), Queues!Before(<<z[1], 1, z[2]>>, <<x[1], 1, x[2]>>)
      PROVE  <<z[1], 1, z[2]>> \in data
  <2>1. z[1] = x[1] /\ z[2] \in 1 .. Len(layout[x[1]]) /\ z = <<z[1], z[2]>>
    BY <1>1, <1>3, ElementsTyped
  <2>2. z[2] \in 1 .. x[2] - 1
    BY <1>3, <1>9, <2>1 DEF Queues!Before
  <2>3. z \in MovedReads
    BY <1>4, <2>1, <2>2 DEF InTurn
  <2> QED
    BY <1>6, <2>3
<1>10. \A z \in Elements(x[1]) : z[1] = x[1]
  BY <1>1, <1>3, ElementsTyped
<1>11. Queues!IsNext(x[1], <<x[1], 1, x[2]>>)
  BY <1>3, <1>8, <1>9, <1>10 DEF Queues!IsNext, data
<1>12. \E r \in Requests : Queues!Move(r)
  <2>1. req[x[1]] = "owned" \/ result[x[1]] = "cancelled"
    BY <1>3 DEF Programmed
  <2>2. <<x[1], 1, x[2]>> \in [r \in Requests |-> {<<r, 1, y[2]>> : y \in Elements(r)}][x[1]]
    BY <1>3
  <2>3. PICK r \in Requests : r = x[1]
    BY <1>3
  <2>4. Queues!Move(r)
    BY <1>1, <1>7, <1>11, <2>1, <2>2, <2>3 DEF Queues!Move, data
  <2> QED
    BY <2>4
<1>13. repeated' = repeated
  BY <1>1, <1>4 DEF InTurn, x
<1> QED
  BY <1>1, <1>12, <1>13, QueuesPromised

\* The dispatcher with its two queues is a queue of requests for each direction
\* that moves every element once and in order and ends none twice, for as long
\* as the callbacks of both do not write the registers at a time.
THEOREM PortImplementsQueues == Spec => ImplementsQueues
<1>1. Init => Queues!Init
  BY DEF Init, Queues!Init
<1>2. QueuesInv /\ [Next]_vars => [Queues!Next]_(Queues!vars)
  <2> SUFFICES ASSUME QueuesInv, [Next]_vars, ~overlapped'
               PROVE  [Queues!Next]_(Queues!vars)
    BY DEF Queues!Next
  <2>1. ~overlapped
    BY DEF Next, QueueStep, Program, Forward, Refuse, CancelIo, InitializeFails, EvtIoDma,
       EvtCancelDma, MarkCancelable, Mark, ErrExit, ExecuteFails, WriteTable, WriteReadAddress,
       WriteWriteAddress, WriteLength, WriteRegister, WriteGo, HwMove, vars, ghosts
  <2>2. AdmaInv /\ CardOrderly
    BY <2>1 DEF QueuesInv
  <2>3. CASE UNCHANGED vars
    BY <2>3, QueuesStutter DEF vars, reqVars, ghosts
  <2>4. CASE Next
    <3>1. ASSUME NEW e \in Engines,
                 \/ WriteTable(e) \/ WriteGo(e)
                 \/ WriteReadAddress(e) \/ WriteWriteAddress(e) \/ WriteLength(e)
          PROVE  UNCHANGED Queues!vars
      <4>1. UNCHANGED <<given, req, result, moved, repeated>>
        BY <3>1 DEF WriteTable, WriteReadAddress, WriteWriteAddress, WriteLength, WriteRegister,
           WriteGo, reqVars, ghosts
      <4>2. overlapped' = overlapped
        BY <2>1, <2>2, <2>4, NextHolds DEF AdmaInv, TypeOK
      <4> QED
        BY <4>1, <4>2, QueuesStutter
    <3>2. Queues!Promised \/ UNCHANGED Queues!vars
      BY <2>2, <2>4, <3>1, StepKinds, RequestStepPromised, HwMovePromised
    <3> QED
      BY <2>1, <3>2 DEF Queues!Next
  <2> QED
    BY <2>3, <2>4
<1> QED
  BY <1>1, <1>2, QueuesInvariant, PTL DEF Spec, ImplementsQueues, Queues!Spec
==============================================================================
