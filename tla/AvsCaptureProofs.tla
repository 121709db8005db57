-------------------------- MODULE AvsCaptureProofs ---------------------------
(***************************************************************************)
(* Theorems about the capture driver, for every set of pins, formats, word *)
(* size, layout of BARs and kind of interrupt line.                        *)
(***************************************************************************)
EXTENDS AvsCapture, WellFoundedInduction, TLAPS

\* A transition of a pin's resources is under way in its stopped states, and
\* a claim that is not followed by the sink.
PinsOrderly ==
    \A p \in Pins :
        /\ pin[p].op # "idle" => pin[p].st \in {"stop", "acquire"}
        /\ pin[p].op = "claimed" => pin[p].st = "stop"
        /\ pin[p].op \in {"claimed", "freeing"} => sink # p
        /\ pin[p].st \in {"closed", "stop"} => ~pin[p].acquired

\* The frames were asked for with the size of the first format, and a header
\* is only missing after an attempt to set another.
FramesKept ==
    \A p \in Pins :
        /\ ~pin[p].reformatted => \A f \in pin[p].format : pin[p].frame = f.size
        /\ pin[p].st # "closed" /\ pin[p].header # "valid" => pin[p].reformatted

\* The pointer to a BAR was overtaken by a later one of its kind.
Overtaken(b) == \E j \in b[2] + 1 .. Len(layout) : layout[j] = layout[b[2]]

\* What a start has made so far, and what it still holds.
DeviceOrderly ==
    /\ phase # "started" => \A p \in Pins : pin[p].st = "closed"
    /\ phase \in {"stopped", "map", "interrupts", "dma"} => ~buffer
    /\ phase \in {"stopped", "map"} => dmaBar = Null /\ videoBar = Null
    /\ phase # "stopped" => start > 0
    /\ Null \notin mapped
    /\ \A b \in mapped : b = dmaBar \/ b = videoBar \/ Overtaken(b)
    /\ dmaBar = Null \/ dmaBar \in mapped
    /\ phase = "started" => regs = dmaBar

\* While the card captures or asserts its interrupt, its registers are mapped.
CardMapped ==
    fault = NoFault /\ (going \/ irq) => phase = "started" /\ regs \in mapped

\* The sink the service routine goes on to is there unless the hardware was
\* stopped meanwhile.
SinkKept == isr = "sink" /\ ~stale => sink # NoPin /\ pin[sink].st = "run"

CaptureInv ==
    /\ TypeOK
    /\ OneStream /\ PinsOrderly
    /\ FormatsCovered /\ FramesKept
    /\ DeviceOrderly /\ CardMapped /\ SinkKept
    /\ FaultsExplained

-----------------------------------------------------------------------------
(* The formats.                                                            *)

\* A product that divides back was not cut off.
LEMMA ProductWhole ==
    ASSUME NEW a \in Nat, NEW b \in Nat, NEW w \in Nat \ {0},
           a = 0 \/ ((a * b) % w) \div a = b
    PROVE  (a * b) % w = a * b
<1> DEFINE ab == (a * b) % w
           k == (a * b) \div w
<1>1. a * b \in Nat /\ ab \in Nat /\ k \in Int /\ a * b = w * k + ab /\ ab < w
  OBVIOUS
<1>2. k >= 0
  BY <1>1
<1>3. CASE a = 0
  <2>1. a * b = 0
    BY <1>3
  <2> QED
    BY <2>1
<1>4. CASE a # 0
  <2>1. ab >= a * (ab \div a)
    BY <1>1, <1>4
  <2>2. ab \div a = b
    BY <1>4
  <2>3. ab >= a * b
    BY <2>1, <2>2
  <2>4. w * k >= 0
    BY <1>1, <1>2
  <2> QED
    BY <1>1, <2>3, <2>4
<1> QED
  BY <1>3, <1>4

\* The check of a format keeps what it promises: the size holds the image.
LEMMA AcceptedFits ==
    ASSUME NEW f \in Accepted
    PROVE  f.size \in Nat /\ ImageBytes(f) \in Nat /\ f.size >= ImageBytes(f)
<1>1. f.size \in Nat /\ f.bits \in Nat
  <2>1. ASSUME NEW g \in Given
        PROVE  g.size \in Nat /\ g.bits \in Nat /\ g.width \in Int /\ g.height \in Int
    BY FormatAssumption DEF FormatAssumption, Format
  <2>2. CASE f \in Given
    BY <2>1, <2>2
  <2>3. CASE f \notin Given
    <3>1. PICK c \in Given, r \in Ranges : f \in IntersectHandler(c, r)
      BY <2>3 DEF Accepted, Connections
    <3>2. f = [c EXCEPT !.size = DibSize(c)]
      BY <3>1 DEF IntersectHandler
    <3>3. c \in Format
      BY FormatAssumption DEF FormatAssumption
    <3>4. \A n \in Int : ULong(n) \in Nat
      BY FormatAssumption DEF FormatAssumption, ULong
    <3>5. DibSize(c) \in Nat
      <4> DEFINE bits == ULong(ULong(c.width) * c.bits)
                 row == (ULong(bits + 31) \div 32) * 4
      <4>1. bits \in Nat
        BY <2>1, <3>4
      <4>2. row \in Int
        BY <3>4, <4>1
      <4>3. Abs(c.height) \in Int
        BY <2>1 DEF Abs
      <4>4. ULong(Abs(c.height)) * row \in Int
        BY <3>4, <4>2, <4>3
      <4> QED
        BY <3>4, <4>4 DEF DibSize
    <3> QED
      BY <2>1, <3>2, <3>3, <3>5 DEF Format
  <2> QED
    BY <2>2, <2>3
<1>2. PICK range \in Ranges : Acceptable(f, range)
  BY DEF Accepted
<1> DEFINE w == f.width
           h == Abs(f.height)
           depth == f.bits \div 8
<1>3. /\ w \in 0 .. WordSize - 1 /\ h \in 0 .. WordSize - 1
      /\ depth \in Nat /\ WordSize \in Nat \ {0}
  BY <1>1, <1>2, FormatAssumption DEF FormatAssumption, Acceptable, Abs
<1>4. ULong(w) = w /\ ULong(h) = h
  BY <1>3 DEF ULong
<1>5. ULong(w * h) = w * h
  <2>1. MultiplyCheckOverflow(w, h).ok
    BY <1>2, <1>4 DEF Acceptable
  <2>2. w = 0 \/ ((w * h) % WordSize) \div w = h
    BY <2>1 DEF MultiplyCheckOverflow, ULong
  <2>3. w \in Nat /\ h \in Nat
    BY <1>3
  <2> HIDE DEF w, h
  <2> QED
    BY <1>3, <2>2, <2>3, ProductWhole DEF ULong
<1>6. ULong((w * h) * depth) = (w * h) * depth
  <2>1. MultiplyCheckOverflow(w, h).product = w * h
    BY <1>5 DEF MultiplyCheckOverflow
  <2>2. MultiplyCheckOverflow(w * h, depth).ok
    BY <1>2, <1>4, <2>1 DEF Acceptable
  <2>3. w * h \in Nat
    BY <1>3
  <2> QED
    BY <1>3, <2>2, <2>3, ProductWhole DEF MultiplyCheckOverflow, ULong
<1>7. f.size >= (w * h) * depth
  <2>1. MultiplyCheckOverflow(w * h, depth).product = (w * h) * depth
    BY <1>6 DEF MultiplyCheckOverflow
  <2>2. MultiplyCheckOverflow(w, h).product = w * h
    BY <1>5 DEF MultiplyCheckOverflow
  <2> QED
    BY <1>2, <1>4, <2>1, <2>2 DEF Acceptable
<1>8. Abs(w) = w
  BY <1>3 DEF Abs
<1>9. (w * h) * depth \in Nat
  <2>1. w * h \in Nat
    BY <1>3
  <2> QED
    BY <1>3, <2>1
<1> QED
  BY <1>1, <1>7, <1>8, <1>9 DEF ImageBytes

-----------------------------------------------------------------------------
(* Indices of BARs.                                                        *)

LEMMA LeastNatural ==
    ASSUME NEW T, T \subseteq Nat, T # {}
    PROVE  \E n \in T : \A m \in T : ~(m < n)
<1>1. \E n \in T : \A m \in T : ~(<<m, n>> \in OpToRel(<, Nat))
  BY NatLessThanWellFounded, WFMin, Zenon DEF OpToRel
<1> QED
  BY <1>1 DEF OpToRel

LEMMA GreatestIndex ==
    ASSUME NEW n \in Nat, NEW S \in SUBSET (1 .. n), S # {}
    PROVE  \E i \in S : \A j \in S : j <= i
<1> DEFINE T == {n - i : i \in S}
<1>1. T \subseteq Nat /\ T # {}
  OBVIOUS
<1>2. PICK m \in T : \A k \in T : ~(k < m)
  BY <1>1, LeastNatural
<1>3. PICK i \in S : m = n - i
  BY <1>2
<1>4. \A j \in S : ~(n - j < n - i)
  BY <1>2, <1>3
<1> QED
  BY <1>3, <1>4

\* Latest points to the last BAR of its kind.
LEMMA LatestIsLast ==
    ASSUME NEW n \in 0 .. Len(layout), Len(layout) \in Nat, NEW kind, NEW old,
           Of(kind, n) # {}
    PROVE  \E i \in Of(kind, n) :
               /\ Latest(kind, n, old) = <<start, i>>
               /\ \A j \in Of(kind, n) : j <= i
<1> DEFINE i == CHOOSE i \in Of(kind, n) : \A j \in Of(kind, n) : j <= i
<1>1. \E i0 \in Of(kind, n) : \A j \in Of(kind, n) : j <= i0
  <2>1. Of(kind, n) \in SUBSET (1 .. n) /\ n \in Nat
    BY DEF Of
  <2> QED
    BY <2>1, GreatestIndex
<1>2. i \in Of(kind, n) /\ \A j \in Of(kind, n) : j <= i
  BY <1>1
<1>3. Latest(kind, n, old) = <<start, i>>
  BY DEF Latest
<1> QED
  BY <1>2, <1>3

-----------------------------------------------------------------------------
(* Starting and stopping the device.                                       *)

\* Pins that stay as they are, with the hardware and the sink, keep what is
\* said of them.
LEMMA PinsStay ==
    ASSUME CaptureInv, fault = NoFault, UNCHANGED <<pin, ownVars, hwVars, isrVars, fault>>
    PROVE  /\ OneStream' /\ PinsOrderly' /\ FormatsCovered' /\ FramesKept'
           /\ SinkKept' /\ FaultsExplained'
<1> USE DEF CaptureInv, ownVars, hwVars, isrVars
<1>1. OneStream' /\ PinsOrderly'
  BY DEF OneStream, Holds, PinsOrderly
<1>2. FormatsCovered' /\ FramesKept'
  BY DEF FormatsCovered, FramesKept
<1>3. SinkKept' /\ FaultsExplained'
  BY DEF SinkKept, FaultsExplained, NoFault
<1> QED
  BY <1>1, <1>2, <1>3

\* A capturing card, or its interrupt, is found by a device that has started.
LEMMA CardAtRest ==
    ASSUME CaptureInv, fault = NoFault, phase # "started"
    PROVE  ~going /\ ~irq
  BY DEF CaptureInv, CardMapped, TypeOK

\* The BARs that are mapped are pointed to, or overtaken.
LEMMA MapStep == ASSUME CaptureInv, fault = NoFault, MapResources PROVE CaptureInv'
<1> USE DEF CaptureInv
<1>1. /\ phase = "map" /\ phase' = "interrupts" /\ dmaBar = Null /\ videoBar = Null
      /\ UNCHANGED <<given, regs, connected, buffer, pin, ownVars, hwVars, isrVars, fault>>
  BY DEF MapResources, DeviceOrderly
<1>2. PICK n \in 0 .. Len(layout) :
        LET failed == IF n < Len(layout) THEN layout[n + 1] ELSE "none"
        IN  /\ failed # "large"
            /\ mapped' = mapped \cup {<<start, i>> : i \in Of("memory", n) \cup Of("large40", n)}
            /\ dmaBar' = IF failed = "memory" THEN Null ELSE Latest("memory", n, dmaBar)
            /\ videoBar' = IF failed = "large40" THEN Null ELSE Latest("large40", n, videoBar)
  BY DEF MapResources
<1> DEFINE failed == IF n < Len(layout) THEN layout[n + 1] ELSE "none"
           New == {<<start, i>> : i \in Of("memory", n) \cup Of("large40", n)}
<1>3. Len(layout) \in Nat /\ n \in Nat /\ n <= Len(layout)
  <2>1. layout \in Seq(BarKinds)
    BY CaptureAssumption DEF CaptureAssumption, TypeOK
  <2> QED
    BY <2>1
<1>4. \A i : i \in Of("memory", n) \cup Of("large40", n) => i \in 1 .. Len(layout)
  BY <1>3 DEF Of
<1>5. start \in 1 .. MaxStarts
  BY <1>1 DEF DeviceOrderly, TypeOK
<1>6. New \subseteq (1 .. MaxStarts) \X (1 .. Len(layout))
  BY <1>4, <1>5
\* A kind's pointer, and what it has not kept.
<1>7. ASSUME NEW kind, NEW bar, bar = IF failed = kind THEN Null ELSE Latest(kind, n, Null)
      PROVE  /\ bar = Null \/ \E i \in Of(kind, n) : bar = <<start, i>>
             /\ \A i \in Of(kind, n) : <<start, i>> = bar
                                       \/ \E j \in i + 1 .. Len(layout) : layout[j] = layout[i]
  <2>1. CASE Of(kind, n) = {}
    BY <1>7, <2>1 DEF Latest
  <2>2. CASE failed = kind /\ n < Len(layout)
    <3>1. bar = Null /\ layout[n + 1] = kind
      BY <1>7, <2>2
    <3>2. \A i \in Of(kind, n) : n + 1 \in i + 1 .. Len(layout) /\ layout[n + 1] = layout[i]
      BY <1>3, <2>2, <3>1 DEF Of
    <3> QED
      BY <3>1, <3>2
  <2>3. CASE Of(kind, n) # {} /\ failed # kind
    <3>1. PICK i \in Of(kind, n) : /\ Latest(kind, n, Null) = <<start, i>>
                                   /\ \A j \in Of(kind, n) : j <= i
      BY <1>3, <2>3, LatestIsLast
    <3>2. bar = <<start, i>>
      BY <1>7, <2>3, <3>1
    <3>3. \A k \in Of(kind, n) : k = i \/ (i \in k + 1 .. Len(layout) /\ layout[i] = layout[k])
      BY <1>3, <3>1 DEF Of
    <3> QED
      BY <3>1, <3>2, <3>3
  <2>4. CASE failed = kind /\ ~(n < Len(layout)) /\ Of(kind, n) # {}
    <3>1. PICK i \in Of(kind, n) : TRUE
      BY <2>4
    <3>2. layout[i] = "none" /\ layout[i] \in BarKinds
      <4>1. layout \in Seq(BarKinds)
        BY CaptureAssumption DEF CaptureAssumption, TypeOK
      <4> QED
        BY <1>3, <2>4, <3>1, <4>1 DEF Of
    <3> QED
      BY <3>2 DEF BarKinds
  <2> QED
    BY <2>1, <2>2, <2>3, <2>4
<1>8. mapped' = mapped \cup New
  BY <1>2
<1>9. /\ dmaBar' = Null \/ \E i \in Of("memory", n) : dmaBar' = <<start, i>>
      /\ \A i \in Of("memory", n) : <<start, i>> = dmaBar'
                                    \/ \E j \in i + 1 .. Len(layout) : layout[j] = layout[i]
  <2>1. dmaBar' = IF failed = "memory" THEN Null ELSE Latest("memory", n, Null)
    BY <1>1, <1>2
  <2> QED
    BY <1>7, <2>1
<1>10. /\ videoBar' = Null \/ \E i \in Of("large40", n) : videoBar' = <<start, i>>
       /\ \A i \in Of("large40", n) : <<start, i>> = videoBar'
                                      \/ \E j \in i + 1 .. Len(layout) : layout[j] = layout[i]
  <2>1. videoBar' = IF failed = "large40" THEN Null ELSE Latest("large40", n, Null)
    BY <1>1, <1>2
  <2> QED
    BY <1>7, <2>1
<1> HIDE DEF failed
<1>11. TypeOK'
  <2>1. /\ dmaBar' = Null \/ dmaBar' \in New
        /\ videoBar' = Null \/ videoBar' \in New
    BY <1>9, <1>10
  <2>2. mapped' \subseteq Pointers /\ {dmaBar', videoBar', regs} \subseteq Pointers
    BY <1>6, <1>8, <2>1 DEF TypeOK, Pointers
  <2> HIDE DEF New
  <2> QED
    BY <1>1, <2>2 DEF TypeOK, given, ownVars, hwVars, isrVars, Pointers
<1>12. DeviceOrderly'
  <2>1. Null \notin mapped'
    BY <1>5, <1>6, <1>8 DEF DeviceOrderly, Null
  <2>2. dmaBar' = Null \/ dmaBar' \in mapped'
    BY <1>8, <1>9
  <2>3. ASSUME NEW b \in mapped'
        PROVE  b = dmaBar' \/ b = videoBar' \/ Overtaken(b)'
    <3>1. layout' = layout
      BY <1>1 DEF given
    <3>2. CASE b \in mapped
      BY <1>1, <3>1, <3>2 DEF DeviceOrderly, Overtaken
    <3>3. CASE b \in New
      <4>1. PICK i \in Of("memory", n) \cup Of("large40", n) : b = <<start, i>>
        BY <3>3
      <4>2. b[2] = i
        BY <4>1
      <4> QED
        BY <1>9, <1>10, <3>1, <4>1, <4>2 DEF Overtaken
    <3> QED
      BY <1>8, <3>2, <3>3
  <2>4. phase' = "interrupts" /\ start' > 0 /\ buffer' = buffer
    BY <1>1, <1>5 DEF given
  <2> QED
    BY <1>1, <2>1, <2>2, <2>3, <2>4 DEF DeviceOrderly
<1>13. CardMapped'
  BY <1>1, CardAtRest DEF CardMapped, hwVars, isrVars
<1> QED
  BY <1>1, <1>11, <1>12, <1>13, PinsStay

\* The other steps of a start, and the stop.
LEMMA DeviceStep ==
    ASSUME CaptureInv, fault = NoFault,
           PnpStart \/ SetupInterrupts \/ SetupDma \/ SetRegisters \/ PnpStop
    PROVE  CaptureInv'
<1> USE DEF given, barVars, devVars, ownVars, hwVars, isrVars
<1>1. /\ UNCHANGED <<pin, ownVars, hwVars, isrVars, fault, layout, line>>
      /\ \A b : Overtaken(b)' <=> Overtaken(b)
  BY DEF PnpStart, SetupInterrupts, SetupDma, SetRegisters, PnpStop, Overtaken
<1>2. TypeOK'
  <2>1. pin' \in [Pins -> PinRecord]
    BY <1>1 DEF CaptureInv, TypeOK
  <2>2. CASE PnpStart
    BY <2>1, <2>2, CaptureAssumption
    DEF CaptureAssumption, PnpStart, CaptureInv, TypeOK, Pointers
  <2>3. CASE SetupInterrupts
    <3>1. connected' \in BOOLEAN
      BY <2>3, Zenon DEF SetupInterrupts, CaptureInv, TypeOK
    <3> QED
      BY <2>1, <2>3, <3>1 DEF SetupInterrupts, CaptureInv, TypeOK, Pointers
  <2>4. CASE SetupDma
    BY <2>1, <2>4 DEF SetupDma, CaptureInv, TypeOK, Pointers
  <2>5. CASE SetRegisters
    BY <2>1, <2>5 DEF SetRegisters, CaptureInv, TypeOK, Pointers
  <2>6. CASE PnpStop
    <3>1. /\ mapped' = mapped \ {dmaBar, videoBar} /\ dmaBar' = Null /\ videoBar' = Null
          /\ buffer' = FALSE /\ phase' = "stopped"
          /\ UNCHANGED <<given, regs, connected, pin, ownVars, hwVars, isrVars, fault>>
      BY <2>6 DEF PnpStop, UnmapResources
    <3>2. Pointers' = Pointers /\ Null \in Pointers
      BY <3>1 DEF Pointers
    <3>3. mapped' \subseteq Pointers' /\ {dmaBar', videoBar', regs'} \subseteq Pointers'
      BY <3>1, <3>2 DEF CaptureInv, TypeOK
    <3>4. buffer' \in BOOLEAN
      BY <3>1
    <3> QED
      BY <2>1, <3>1, <3>3, <3>4 DEF CaptureInv, TypeOK
  <2> QED
    BY <2>2, <2>3, <2>4, <2>5, <2>6
<1>3. DeviceOrderly'
  <2>1. CASE PnpStart
    <3>1. start' > 0
      BY <2>1 DEF PnpStart, CaptureInv, TypeOK
    <3> QED
      BY <1>1, <2>1, <3>1 DEF PnpStart, CaptureInv, DeviceOrderly
  <2>2. CASE SetupInterrupts
    BY <1>1, <2>2 DEF SetupInterrupts, CaptureInv, DeviceOrderly
  <2>3. CASE SetupDma
    BY <1>1, <2>3 DEF SetupDma, CaptureInv, DeviceOrderly
  <2>4. CASE SetRegisters
    BY <1>1, <2>4 DEF SetRegisters, CaptureInv, DeviceOrderly
  <2>5. CASE PnpStop
    BY <1>1, <2>5 DEF PnpStop, UnmapResources, CaptureInv, DeviceOrderly
  <2> QED
    BY <2>1, <2>2, <2>3, <2>4, <2>5
<1>4. CardMapped'
  <2>1. ~going /\ ~irq
    <3>1. CASE PnpStop
      BY <3>1 DEF PnpStop, CaptureInv, OneStream, TypeOK
    <3>2. CASE ~PnpStop
      BY <3>2, CardAtRest DEF PnpStart, SetupInterrupts, SetupDma, SetRegisters
    <3> QED
      BY <3>1, <3>2
  <2> QED
    BY <1>1, <2>1 DEF CardMapped
<1> QED
  BY <1>1, <1>2, <1>3, <1>4, PinsStay DEF CaptureInv

-----------------------------------------------------------------------------
(* The pins.                                                               *)

PinsTyped == pin \in [Pins -> PinRecord]

RestTyped ==
    /\ phase \in {"stopped", "map", "interrupts", "dma", "registers", "started", "failed"}
    /\ start \in 0 .. MaxStarts /\ layout \in BarLayouts /\ line \in Lines
    /\ mapped \subseteq Pointers /\ {dmaBar, videoBar, regs} \subseteq Pointers
    /\ connected \in BOOLEAN /\ buffer \in BOOLEAN
    /\ owned \in BOOLEAN /\ sink \in Pins \cup {NoPin}
    /\ going \in BOOLEAN /\ irq \in BOOLEAN /\ message \in BOOLEAN
    /\ isr \in {"idle", "sink"} /\ stale \in BOOLEAN
    /\ fault.what \in {"none", "registers", "header", "trace", "sink", "stack", "buffer"}
    /\ fault.by \in {"none", "pin", "isr", "process"}

LEMMA TypeParts == TypeOK <=> PinsTyped /\ RestTyped
  BY DEF TypeOK, PinsTyped, RestTyped

LEMMA TypePartsNext == TypeOK' <=> PinsTyped' /\ RestTyped'
  BY DEF TypeOK, PinsTyped, RestTyped

LEMMA PinFields ==
    ASSUME PinsTyped, NEW p \in Pins
    PROVE  /\ pin[p] \in PinRecord
           /\ pin[p].st \in {"closed", "stop", "acquire", "pause", "run"}
           /\ pin[p].op \in {"idle", "claimed", "dropping", "freeing"}
           /\ pin[p].hw \in {"stopped", "paused", "running"}
           /\ pin[p].acquired \in BOOLEAN /\ pin[p].format \in SUBSET Accepted
           /\ pin[p].header \in {"none", "valid", "null", "freed"} /\ pin[p].frame \in Nat
           /\ pin[p].locked \in BOOLEAN /\ pin[p].attempt \in BOOLEAN
           /\ pin[p].reformatted \in BOOLEAN
  BY DEF PinsTyped, PinRecord

\* One pin changes.
LEMMA PinBecomes ==
    ASSUME PinsTyped, NEW p \in Pins, NEW r \in PinRecord, pin' = [pin EXCEPT ![p] = r]
    PROVE  PinsTyped' /\ pin'[p] = r /\ \A q \in Pins \ {p} : pin'[q] = pin[q]
  BY DEF PinsTyped

\* The changes of a context, field by field.
LEMMA PinChanges ==
    ASSUME NEW x \in PinRecord
    PROVE  /\ \A s \in {"closed", "stop", "acquire", "pause", "run"} :
                 [x EXCEPT !.st = s] \in PinRecord
           /\ \A o \in {"idle", "claimed", "dropping", "freeing"} : [x EXCEPT !.op = o] \in PinRecord
           /\ \A h \in {"stopped", "paused", "running"} : [x EXCEPT !.hw = h] \in PinRecord
           /\ \A F \in SUBSET Accepted : [x EXCEPT !.format = F] \in PinRecord
           /\ \A h \in {"none", "valid", "null", "freed"} : [x EXCEPT !.header = h] \in PinRecord
           /\ \A n \in Nat : [x EXCEPT !.frame = n] \in PinRecord
           /\ \A b \in BOOLEAN : /\ [x EXCEPT !.acquired = b] \in PinRecord
                                 /\ [x EXCEPT !.locked = b] \in PinRecord
                                 /\ [x EXCEPT !.attempt = b] \in PinRecord
                                 /\ [x EXCEPT !.reformatted = b] \in PinRecord
<1>1. \A s \in {"closed", "stop", "acquire", "pause", "run"} : [x EXCEPT !.st = s] \in PinRecord
  BY DEF PinRecord
<1>2. \A o \in {"idle", "claimed", "dropping", "freeing"} : [x EXCEPT !.op = o] \in PinRecord
  BY DEF PinRecord
<1>3. \A h \in {"stopped", "paused", "running"} : [x EXCEPT !.hw = h] \in PinRecord
  BY DEF PinRecord
<1>4. \A F \in SUBSET Accepted : [x EXCEPT !.format = F] \in PinRecord
  BY DEF PinRecord
<1>5. \A h \in {"none", "valid", "null", "freed"} : [x EXCEPT !.header = h] \in PinRecord
  BY DEF PinRecord
<1>6. \A n \in Nat : [x EXCEPT !.frame = n] \in PinRecord
  BY DEF PinRecord
<1>7. \A b \in BOOLEAN : [x EXCEPT !.acquired = b] \in PinRecord
  BY DEF PinRecord
<1>8. \A b \in BOOLEAN : [x EXCEPT !.locked = b] \in PinRecord
  BY DEF PinRecord
<1>9. \A b \in BOOLEAN : [x EXCEPT !.attempt = b] \in PinRecord
  BY DEF PinRecord
<1>10. \A b \in BOOLEAN : [x EXCEPT !.reformatted = b] \in PinRecord
  BY DEF PinRecord
<1> QED
  BY <1>1, <1>2, <1>3, <1>4, <1>5, <1>6, <1>7, <1>8, <1>9, <1>10

LEMMA PinStopped ==
    ASSUME NEW x \in PinRecord
    PROVE  [x EXCEPT !.hw = "stopped", !.op = "dropping",
                     !.locked = FALSE, !.attempt = FALSE] \in PinRecord
<1>1. [x EXCEPT !.hw = "stopped"] \in PinRecord
  BY PinChanges
<1>2. [x EXCEPT !.hw = "stopped", !.op = "dropping"] \in PinRecord
  BY <1>1, PinChanges
<1>3. [x EXCEPT !.hw = "stopped", !.op = "dropping", !.locked = FALSE] \in PinRecord
  BY <1>2, PinChanges
<1> QED
  BY <1>3, PinChanges

LEMMA PinMoved ==
    ASSUME NEW x \in PinRecord, NEW s \in {"closed", "stop", "acquire", "pause", "run"},
           NEW h \in {"stopped", "paused", "running"}
    PROVE  [x EXCEPT !.st = s, !.hw = h] \in PinRecord
<1>1. [x EXCEPT !.st = s] \in PinRecord
  BY PinChanges
<1> QED
  BY <1>1, PinChanges

LEMMA PinAcquired ==
    ASSUME NEW x \in PinRecord, NEW s \in {"closed", "stop", "acquire", "pause", "run"},
           NEW b \in BOOLEAN
    PROVE  [x EXCEPT !.st = s, !.op = "idle", !.acquired = b] \in PinRecord
<1>1. [x EXCEPT !.st = s] \in PinRecord
  BY PinChanges
<1>2. [x EXCEPT !.st = s, !.op = "idle"] \in PinRecord
  BY <1>1, PinChanges
<1> QED
  BY <1>2, PinChanges

LEMMA PinCreated ==
    ASSUME NEW x \in PinRecord, NEW F \in SUBSET Accepted, NEW n \in Nat
    PROVE  [x EXCEPT !.st = "stop", !.format = F, !.header = "valid", !.frame = n] \in PinRecord
<1>1. [x EXCEPT !.st = "stop"] \in PinRecord
  BY PinChanges
<1>2. [x EXCEPT !.st = "stop", !.format = F] \in PinRecord
  BY <1>1, PinChanges
<1>3. [x EXCEPT !.st = "stop", !.format = F, !.header = "valid"] \in PinRecord
  BY <1>2, PinChanges
<1> QED
  BY <1>3, PinChanges

LEMMA PinReformatted ==
    ASSUME NEW x \in PinRecord, NEW F \in SUBSET Accepted,
           NEW h \in {"none", "valid", "null", "freed"}
    PROVE  [x EXCEPT !.format = F, !.header = h, !.reformatted = TRUE] \in PinRecord
<1>1. [x EXCEPT !.format = F] \in PinRecord
  BY PinChanges
<1>2. [x EXCEPT !.format = F, !.header = h] \in PinRecord
  BY <1>1, PinChanges
<1> QED
  BY <1>2, PinChanges

LEMMA PinProcessed ==
    ASSUME NEW x \in PinRecord, NEW a \in BOOLEAN, NEW k \in BOOLEAN
    PROVE  [x EXCEPT !.attempt = a, !.locked = k] \in PinRecord
<1>1. [x EXCEPT !.attempt = a] \in PinRecord
  BY PinChanges
<1> QED
  BY <1>1, PinChanges

\* What is said of formats holds on while they stay and no pin is created.
LEMMA FormatsStay ==
    ASSUME FormatsCovered, FramesKept,
           \A q \in Pins :
               /\ pin'[q].format = pin[q].format /\ pin'[q].frame = pin[q].frame
               /\ pin'[q].header = pin[q].header /\ pin'[q].reformatted = pin[q].reformatted
               /\ pin'[q].st # "closed" => pin[q].st # "closed"
    PROVE  FormatsCovered' /\ FramesKept'
  BY DEF FormatsCovered, FramesKept

\* An open pin belongs to a device that has started.
LEMMA OpenStarted ==
    ASSUME CaptureInv, NEW p \in Pins, pin[p].st # "closed"
    PROVE  phase = "started" /\ regs = dmaBar /\ (dmaBar = Null \/ regs \in mapped)
  BY DEF CaptureInv, DeviceOrderly

LEMMA DeviceStays ==
    ASSUME CaptureInv, UNCHANGED devVars, phase = "started"
    PROVE  DeviceOrderly'
  BY DEF CaptureInv, DeviceOrderly, Overtaken, devVars, given, barVars

\* A pin that is acquired, paused or running is the sink.
LEMMA SinkIs ==
    ASSUME CaptureInv, NEW p \in Pins, Holds(p)
    PROVE  /\ owned /\ \A q \in Pins : Holds(q) => q = p
           /\ sink \in {p, NoPin}
           /\ pin[p].acquired /\ pin[p].op = "idle" => sink = p
  BY DEF CaptureInv, OneStream, TypeOK

\* Stopping the hardware, on an open pin's way down: nothing captures after it.
LEMMA StopEffect ==
    ASSUME CaptureInv, fault = NoFault, NEW p \in Pins, pin[p].st # "closed",
           Stop, UNCHANGED <<devVars, isr>>
    PROVE  /\ ~going' /\ ~irq'
           /\ SinkKept' /\ CardMapped' /\ FaultsExplained'
           /\ going' \in BOOLEAN /\ irq' \in BOOLEAN /\ message' \in BOOLEAN
           /\ stale' \in BOOLEAN
           /\ fault'.what \in {"none", "registers"} /\ fault'.by \in {"none", "pin"}
<1>1. phase = "started" /\ regs = dmaBar /\ (dmaBar = Null \/ regs \in mapped)
  BY OpenStarted
<1>2. /\ going' = FALSE /\ irq' = FALSE /\ stale' = (isr # "idle") /\ message' = message
      /\ isr' = isr /\ phase' = phase /\ regs' = regs /\ mapped' = mapped /\ dmaBar' = dmaBar
      /\ fault' = IF regs \in mapped THEN NoFault ELSE Faulted("registers", "pin")
  BY DEF Stop, UseRegs, devVars, barVars
<1>3. SinkKept'
  BY <1>2 DEF SinkKept
<1>4. CardMapped'
  BY <1>1, <1>2 DEF CardMapped, NoFault, Faulted
<1>5. FaultsExplained'
  BY <1>1, <1>2 DEF FaultsExplained, NoFault, Faulted
<1>6. /\ going' \in BOOLEAN /\ irq' \in BOOLEAN /\ message' \in BOOLEAN
      /\ stale' \in BOOLEAN
  BY <1>2, Zenon DEF CaptureInv, TypeOK
<1> QED
  BY <1>2, <1>3, <1>4, <1>5, <1>6 DEF NoFault, Faulted

\* Starting it.
LEMMA StartEffect ==
    ASSUME CaptureInv, fault = NoFault, NEW p \in Pins, pin[p].st # "closed",
           Start, UNCHANGED <<devVars, isr>>
    PROVE  /\ going' /\ CardMapped' /\ FaultsExplained'
           /\ irq' = irq /\ message' = message /\ stale' = stale /\ going' \in BOOLEAN
           /\ fault'.what \in {"none", "registers"} /\ fault'.by \in {"none", "pin"}
<1>1. phase = "started" /\ regs = dmaBar /\ (dmaBar = Null \/ regs \in mapped)
  BY OpenStarted
<1>2. /\ going' = TRUE /\ irq' = irq /\ message' = message /\ stale' = stale
      /\ isr' = isr /\ phase' = phase /\ regs' = regs /\ mapped' = mapped /\ dmaBar' = dmaBar
      /\ fault' = IF regs \in mapped THEN NoFault ELSE Faulted("registers", "pin")
  BY DEF Start, UseRegs, devVars, barVars
<1>3. CardMapped'
  BY <1>1, <1>2 DEF CardMapped, NoFault, Faulted
<1>4. FaultsExplained'
  BY <1>1, <1>2 DEF FaultsExplained, NoFault, Faulted
<1>5. going' \in BOOLEAN
  BY <1>2, Zenon
<1> QED
  BY <1>2, <1>3, <1>4, <1>5 DEF NoFault, Faulted

\* Leaving it alone.
LEMMA QuietEffect ==
    ASSUME CaptureInv, fault = NoFault, UNCHANGED <<devVars, isr>>, NoHardware
    PROVE  CardMapped' /\ FaultsExplained'
<1>1. UNCHANGED <<going, irq, message, isr, fault, phase, regs, mapped>>
  BY DEF NoHardware, hwVars, devVars, barVars
<1>2. CardMapped'
  BY <1>1 DEF CaptureInv, CardMapped
<1>3. FaultsExplained'
  BY <1>1 DEF FaultsExplained, NoFault
<1> QED
  BY <1>2, <1>3

\* A pin that keeps the resources it holds keeps the one stream.
LEMMA HolderKeeps ==
    ASSUME OneStream, NEW p \in Pins, pin[p].acquired, sink = p, UNCHANGED ownVars,
           pin'[p].acquired, \A q \in Pins \ {p} : pin'[q] = pin[q],
           going' \/ irq' => pin'[p].st = "run" /\ pin'[p].hw = "running"
    PROVE  OneStream'
<1>1. sink' = p /\ owned' = owned
  BY DEF ownVars
<1>2. Holds(p) /\ Holds(p)' /\ \A q \in Pins : Holds(q)' <=> Holds(q)
  BY DEF Holds
<1>3. owned /\ \A q \in Pins : Holds(q) => q = p
  BY <1>2 DEF OneStream
<1>4. \A q \in Pins \ {p} : ~pin[q].acquired /\ pin[q].st \notin {"acquire", "pause", "run"}
  BY <1>3 DEF OneStream, Holds
<1>5. \A q \in Pins : pin'[q].st \in {"acquire", "pause", "run"} => pin'[q].acquired
  BY <1>4
<1>6. sink' # NoPin => Holds(sink)'
  BY <1>1, <1>2
<1>7. (owned <=> \E q \in Pins : Holds(q))'
  BY <1>1, <1>2, <1>3
<1>8. (\A q, s \in Pins : Holds(q) /\ Holds(s) => q = s)'
  BY <1>2, <1>3
<1>9. (\A q \in Pins : pin[q].acquired /\ pin[q].op = "idle" => sink = q)'
  <2>1. ASSUME NEW q \in Pins, pin'[q].acquired PROVE sink' = q
    <3>1. Holds(q)'
      BY <2>1 DEF Holds
    <3> QED
      BY <1>1, <1>2, <1>3, <3>1
  <2> QED
    BY <2>1
<1>10. (going \/ irq => sink # NoPin /\ pin[sink].st = "run" /\ pin[sink].hw = "running")'
  BY <1>1, CaptureAssumption DEF CaptureAssumption
<1> QED
  BY <1>5, <1>6, <1>7, <1>8, <1>9, <1>10 DEF OneStream

\* So everything is kept by a step of such a pin that stays acquired.
LEMMA HolderStep ==
    ASSUME CaptureInv, NEW p \in Pins, pin[p].acquired, sink = p, pin[p].st # "closed",
           UNCHANGED <<devVars, ownVars>>, PinsTyped', RestTyped',
           \A q \in Pins \ {p} : pin'[q] = pin[q],
           pin'[p].acquired, pin'[p].st \in {"acquire", "pause", "run"},
           \/ pin'[p].op = "idle"
           \/ pin'[p].op = "dropping" /\ pin'[p].st = "acquire",
           pin'[p].format = pin[p].format, pin'[p].header = pin[p].header,
           pin'[p].frame = pin[p].frame, pin'[p].reformatted = pin[p].reformatted,
           going' \/ irq' => pin'[p].st = "run" /\ pin'[p].hw = "running",
           SinkKept', CardMapped', FaultsExplained'
    PROVE  CaptureInv'
<1>1. OneStream'
  BY HolderKeeps DEF CaptureInv
<1>2. PinsOrderly'
  BY DEF CaptureInv, PinsOrderly, ownVars
<1>3. FormatsCovered' /\ FramesKept'
  BY FormatsStay DEF CaptureInv
<1>4. DeviceOrderly'
  BY DeviceStays, OpenStarted
<1> QED
  BY <1>1, <1>2, <1>3, <1>4, TypePartsNext DEF CaptureInv

\* A pin between acquiring and stopping has the resources and the sink.
LEMMA Acquired ==
    ASSUME CaptureInv, NEW p \in Pins, pin[p].st \in {"acquire", "pause", "run"},
           pin[p].op = "idle" \/ pin[p].st # "acquire"
    PROVE  /\ pin[p].acquired /\ pin[p].op = "idle" /\ Holds(p) /\ sink = p /\ sink # NoPin
           /\ pin[p].st # "run" => ~going /\ ~irq
<1>1. pin[p].acquired /\ pin[p].op = "idle"
  BY DEF CaptureInv, OneStream, PinsOrderly
<1>2. Holds(p) /\ sink = p
  BY <1>1, SinkIs DEF Holds
<1> QED
  BY <1>1, <1>2, CaptureAssumption DEF CaptureAssumption, CaptureInv, OneStream

\* To a stop, or down to being acquired: what captured for the pin stops.
LEMMA ToStopStep ==
    ASSUME CaptureInv, fault = NoFault, NEW p \in Pins, ToStop(p)
    PROVE  CaptureInv'
<1> DEFINE r == [pin[p] EXCEPT !.hw = "stopped", !.op = "dropping",
                               !.locked = FALSE, !.attempt = FALSE]
<1>1. PinsTyped /\ RestTyped
  BY TypeParts DEF CaptureInv
<1>2. /\ UNCHANGED <<devVars, ownVars, isr>>
      /\ pin[p].st = "acquire" /\ pin[p].op = "idle"
      /\ Stop \/ NoHardware
  BY DEF ToStop
<1>3. PinsTyped' /\ pin'[p] = r /\ \A q \in Pins \ {p} : pin'[q] = pin[q]
  <2>1. r \in PinRecord
    BY <1>1, PinStopped DEF PinsTyped
  <2>2. pin' = [pin EXCEPT ![p] = r]
    BY <1>1 DEF PinsTyped, ToStop
  <2> QED
    BY <1>1, <2>1, <2>2, PinBecomes
<1>4. /\ pin'[p].st = "acquire" /\ pin'[p].op = "dropping"
      /\ pin'[p].acquired = pin[p].acquired
      /\ pin'[p].format = pin[p].format /\ pin'[p].header = pin[p].header
      /\ pin'[p].frame = pin[p].frame /\ pin'[p].reformatted = pin[p].reformatted
  BY <1>1, <1>2, <1>3, PinFields DEF PinRecord
<1>5. pin[p].acquired /\ sink = p /\ ~going /\ ~irq
  BY <1>2, Acquired
<1> HIDE DEF r
<1>6. ~going' /\ ~irq' /\ SinkKept' /\ CardMapped' /\ FaultsExplained' /\ RestTyped'
  <2>1. CASE Stop
    BY <1>1, <1>2, <2>1, StopEffect DEF RestTyped, Pointers, devVars, barVars, given, ownVars
  <2>2. CASE NoHardware
    BY <1>1, <1>2, <1>3, <1>4, <1>5, <2>2, QuietEffect
    DEF CaptureInv, SinkKept, NoHardware, RestTyped, Pointers, devVars, barVars, given,
        ownVars, hwVars
  <2> QED
    BY <1>2, <2>1, <2>2
<1> QED
  BY <1>2, <1>3, <1>4, <1>5, <1>6, HolderStep

LEMMA ToAcquireStep ==
    ASSUME CaptureInv, fault = NoFault, NEW p \in Pins, ToAcquire(p)
    PROVE  CaptureInv'
<1> DEFINE r == [pin[p] EXCEPT !.st = "acquire", !.hw = "stopped"]
<1>1. PinsTyped /\ RestTyped
  BY TypeParts DEF CaptureInv
<1>2. /\ UNCHANGED <<devVars, ownVars, isr>>
      /\ pin[p].st = "pause"
      /\ Stop \/ NoHardware
  BY DEF ToAcquire
<1>3. PinsTyped' /\ pin'[p] = r /\ \A q \in Pins \ {p} : pin'[q] = pin[q]
  <2>1. r \in PinRecord
    BY <1>1, PinFields, PinMoved
  <2>2. pin' = [pin EXCEPT ![p] = r]
    BY <1>1 DEF PinsTyped, ToAcquire
  <2> QED
    BY <1>1, <2>1, <2>2, PinBecomes
<1>4. /\ pin'[p].st = "acquire" /\ pin'[p].op = pin[p].op
      /\ pin'[p].acquired = pin[p].acquired
      /\ pin'[p].format = pin[p].format /\ pin'[p].header = pin[p].header
      /\ pin'[p].frame = pin[p].frame /\ pin'[p].reformatted = pin[p].reformatted
  BY <1>1, <1>2, <1>3, PinFields DEF PinRecord
<1>5. pin[p].acquired /\ pin[p].op = "idle" /\ sink = p /\ ~going /\ ~irq
  BY <1>2, Acquired
<1> HIDE DEF r
<1>6. ~going' /\ ~irq' /\ SinkKept' /\ CardMapped' /\ FaultsExplained' /\ RestTyped'
  <2>1. CASE Stop
    BY <1>1, <1>2, <2>1, StopEffect DEF RestTyped, Pointers, devVars, barVars, given, ownVars
  <2>2. CASE NoHardware
    BY <1>1, <1>2, <1>3, <1>4, <1>5, <2>2, QuietEffect
    DEF CaptureInv, SinkKept, NoHardware, RestTyped, Pointers, devVars, barVars, given,
        ownVars, hwVars
  <2> QED
    BY <1>2, <2>1, <2>2
<1> QED
  BY <1>2, <1>3, <1>4, <1>5, <1>6, HolderStep

\* To a pause: of a running pin the hardware is stopped first.
LEMMA ToPauseStep ==
    ASSUME CaptureInv, fault = NoFault, NEW p \in Pins, ToPause(p)
    PROVE  CaptureInv'
<1> DEFINE r == [pin[p] EXCEPT !.st = "pause",
                               !.hw = IF pin[p].st = "run" THEN "paused" ELSE pin[p].hw]
<1>1. PinsTyped /\ RestTyped
  BY TypeParts DEF CaptureInv
<1>2. /\ UNCHANGED <<devVars, ownVars, isr>>
      /\ \/ pin[p].st = "acquire" /\ pin[p].op = "idle" /\ NoHardware
         \/ pin[p].st = "run" /\ Stop
  BY DEF ToPause, Pause
<1>3. PinsTyped' /\ pin'[p] = r /\ \A q \in Pins \ {p} : pin'[q] = pin[q]
  <2>1. r \in PinRecord
    BY <1>1, PinFields, PinMoved
  <2>2. pin' = [pin EXCEPT ![p] = r]
    BY <1>1 DEF PinsTyped, ToPause
  <2> QED
    BY <1>1, <2>1, <2>2, PinBecomes
<1>4. /\ pin'[p].st = "pause" /\ pin'[p].op = pin[p].op
      /\ pin'[p].acquired = pin[p].acquired
      /\ pin'[p].format = pin[p].format /\ pin'[p].header = pin[p].header
      /\ pin'[p].frame = pin[p].frame /\ pin'[p].reformatted = pin[p].reformatted
  BY <1>1, <1>3, PinFields DEF PinRecord
<1>5. pin[p].acquired /\ pin[p].op = "idle" /\ sink = p /\ (pin[p].st # "run" => ~going /\ ~irq)
  BY <1>2, Acquired
<1> HIDE DEF r
<1>6. ~going' /\ ~irq' /\ SinkKept' /\ CardMapped' /\ FaultsExplained' /\ RestTyped'
  <2>1. CASE pin[p].st = "run" /\ Stop
    BY <1>1, <1>2, <2>1, StopEffect DEF RestTyped, Pointers, devVars, barVars, given, ownVars
  <2>2. CASE pin[p].st = "acquire" /\ NoHardware
    BY <1>1, <1>2, <1>3, <1>4, <1>5, <2>2, QuietEffect
    DEF CaptureInv, SinkKept, NoHardware, RestTyped, Pointers, devVars, barVars, given,
        ownVars, hwVars
  <2> QED
    BY <1>2, <2>1, <2>2
<1> QED
  BY <1>2, <1>3, <1>4, <1>5, <1>6, HolderStep

\* Only from a pause is the hardware started.
LEMMA ToRunStep ==
    ASSUME CaptureInv, fault = NoFault, NEW p \in Pins, ToRun(p)
    PROVE  CaptureInv'
<1> DEFINE r == [pin[p] EXCEPT !.st = "run", !.hw = "running"]
<1>1. PinsTyped /\ RestTyped
  BY TypeParts DEF CaptureInv
<1>2. UNCHANGED <<devVars, ownVars, isr>> /\ pin[p].st = "pause" /\ Start
  BY DEF ToRun, Pause
<1>3. PinsTyped' /\ pin'[p] = r /\ \A q \in Pins \ {p} : pin'[q] = pin[q]
  <2>1. r \in PinRecord
    BY <1>1, PinFields, PinMoved
  <2>2. pin' = [pin EXCEPT ![p] = r]
    BY <1>1 DEF PinsTyped, ToRun
  <2> QED
    BY <1>1, <2>1, <2>2, PinBecomes
<1>4. /\ pin'[p].st = "run" /\ pin'[p].hw = "running" /\ pin'[p].op = pin[p].op
      /\ pin'[p].acquired = pin[p].acquired
      /\ pin'[p].format = pin[p].format /\ pin'[p].header = pin[p].header
      /\ pin'[p].frame = pin[p].frame /\ pin'[p].reformatted = pin[p].reformatted
  BY <1>1, <1>3, PinFields DEF PinRecord
<1>5. pin[p].acquired /\ pin[p].op = "idle" /\ sink = p /\ sink # NoPin
  BY <1>2, Acquired
<1> HIDE DEF r
<1>6. CardMapped' /\ FaultsExplained' /\ RestTyped'
  BY <1>1, <1>2, StartEffect DEF RestTyped, Pointers, devVars, barVars, given, ownVars
<1>7. SinkKept'
  BY <1>2, <1>4, <1>5 DEF SinkKept, ownVars
<1> QED
  BY <1>2, <1>3, <1>4, <1>5, <1>6, <1>7, HolderStep

-----------------------------------------------------------------------------
(* Claiming and releasing the resources.                                   *)

\* A step of the one pin that deals with the resources, with the hardware at
\* rest, keeps everything when it keeps what is said of this pin.
LEMMA UserStep ==
    ASSUME CaptureInv, fault = NoFault, NEW p \in Pins, \A q \in Pins \ {p} : ~Holds(q),
           pin[p].st \in {"stop", "acquire"},
           UNCHANGED <<devVars, hwVars, isrVars, fault>>, PinsTyped',
           \A q \in Pins \ {p} : pin'[q] = pin[q],
           pin'[p].format = pin[p].format, pin'[p].header = pin[p].header,
           pin'[p].frame = pin[p].frame, pin'[p].reformatted = pin[p].reformatted,
           owned' \in BOOLEAN, sink' \in {p, NoPin},
           owned' <=> Holds(p)', sink' = p => Holds(p)',
           \/ pin'[p].st = "acquire" /\ pin'[p].acquired
              /\ \/ pin'[p].op = "idle" /\ sink' = p
                 \/ pin'[p].op = "dropping"
                 \/ pin'[p].op = "freeing" /\ sink' # p
           \/ pin'[p].st = "stop" /\ ~pin'[p].acquired
              /\ (pin'[p].op \in {"idle", "dropping"} \/ sink' # p)
    PROVE  CaptureInv'
<1>1. PinsTyped /\ RestTyped /\ OneStream /\ PinsOrderly
  BY TypeParts DEF CaptureInv
<1>2. sink \in {p, NoPin} /\ ~going /\ ~irq /\ (isr = "sink" => stale)
  BY <1>1 DEF OneStream, CaptureInv, SinkKept, RestTyped
<1>3. UNCHANGED <<going, irq, message, isr, stale, fault, phase, line>>
  BY DEF hwVars, isrVars, devVars, given
<1>4. RestTyped'
  BY <1>1, <1>3 DEF RestTyped, Pointers, devVars, barVars, given
<1>5. OneStream'
  <2>1. \A q \in Pins \ {p} : ~Holds(q)'
    BY DEF Holds
  <2>2. (owned <=> \E q \in Pins : Holds(q))'
    BY <2>1
  <2>3. (\A q, s \in Pins : Holds(q) /\ Holds(s) => q = s)'
    BY <2>1
  <2>4. (\A q \in Pins : pin[q].st \in {"acquire", "pause", "run"} => pin[q].acquired)'
    BY <1>1 DEF OneStream
  <2>5. ASSUME NEW q \in Pins, pin'[q].acquired, pin'[q].op = "idle"
        PROVE  sink' = q
    <3>1. Holds(q)'
      BY <2>5 DEF Holds
    <3>2. q = p
      BY <2>1, <3>1
    <3> QED
      BY <2>5, <3>2
  <2>6. (sink # NoPin => Holds(sink))'
    OBVIOUS
  <2>7. ~going' /\ ~irq'
    BY <1>2, <1>3
  <2> QED
    BY <2>2, <2>3, <2>4, <2>5, <2>6, <2>7 DEF OneStream
<1>6. PinsOrderly'
  <2>1. ASSUME NEW q \in Pins \ {p}
        PROVE  /\ pin'[q].op = "idle"
               /\ pin'[q].st \in {"closed", "stop"} => ~pin'[q].acquired
    BY <1>1 DEF Holds
  <2> QED
    BY <2>1 DEF PinsOrderly
<1>7. FormatsCovered' /\ FramesKept'
  BY FormatsStay DEF CaptureInv
<1>8. DeviceOrderly'
  BY DeviceStays, OpenStarted
<1>9. CardMapped' /\ FaultsExplained'
  BY <1>3, QuietEffect DEF NoHardware
<1>10. SinkKept'
  BY <1>2, <1>3 DEF SinkKept
<1> QED
  BY <1>4, <1>5, <1>6, <1>7, <1>8, <1>9, <1>10, TypePartsNext DEF CaptureInv

\* The exchange lets one pin past, with nobody holding the resources.
LEMMA ClaimStep ==
    ASSUME CaptureInv, fault = NoFault, NEW p \in Pins, Claim(p)
    PROVE  CaptureInv'
<1> DEFINE r == [pin[p] EXCEPT !.op = "claimed"]
<1>1. PinsTyped /\ RestTyped
  BY TypeParts DEF CaptureInv
<1>2. /\ pin[p].st = "stop" /\ pin[p].op = "idle" /\ ~owned /\ owned' = TRUE
      /\ UNCHANGED <<devVars, sink, hwVars, isrVars, fault>>
  BY DEF Claim
<1>3. PinsTyped' /\ pin'[p] = r /\ \A q \in Pins \ {p} : pin'[q] = pin[q]
  <2>1. r \in PinRecord
    BY <1>1, PinFields, PinChanges
  <2>2. pin' = [pin EXCEPT ![p] = r]
    BY <1>1 DEF PinsTyped, Claim, Goes
  <2> QED
    BY <1>1, <2>1, <2>2, PinBecomes
<1>4. /\ pin'[p].st = "stop" /\ pin'[p].op = "claimed"
      /\ pin'[p].acquired = pin[p].acquired
      /\ pin'[p].format = pin[p].format /\ pin'[p].header = pin[p].header
      /\ pin'[p].frame = pin[p].frame /\ pin'[p].reformatted = pin[p].reformatted
  BY <1>1, <1>2, <1>3, PinFields DEF PinRecord
<1>5. /\ \A q \in Pins : ~Holds(q)
      /\ ~pin[p].acquired
  BY <1>2 DEF CaptureInv, OneStream, PinsOrderly
<1>6. sink = NoPin
  BY <1>1, <1>5 DEF CaptureInv, OneStream, RestTyped
<1>7. sink' = NoPin /\ sink' # p /\ owned' \in BOOLEAN /\ Holds(p)' /\ ~pin'[p].acquired
  BY <1>2, <1>4, <1>5, <1>6, CaptureAssumption DEF CaptureAssumption, Holds
<1> HIDE DEF r
<1> QED
  BY <1>2, <1>3, <1>4, <1>5, <1>7, UserStep

\* The pin that claimed them looks at its format.
LEMMA TakeStep ==
    ASSUME CaptureInv, fault = NoFault, NEW p \in Pins, Take(p)
    PROVE  CaptureInv'
<1>1. PinsTyped /\ RestTyped
  BY TypeParts DEF CaptureInv
<1>2. /\ pin[p].op = "claimed" /\ pin[p].st = "stop" /\ ~pin[p].acquired
      /\ UNCHANGED <<devVars, owned, hwVars, isrVars>>
  BY DEF Take, CaptureInv, PinsOrderly
<1>3. /\ Holds(p) /\ owned /\ \A q \in Pins \ {p} : ~Holds(q)
      /\ sink = NoPin
  <2>1. Holds(p)
    BY <1>2 DEF Holds
  <2> QED
    BY <1>2, <2>1, SinkIs DEF CaptureInv, PinsOrderly
<1>4. CASE pin[p].header # "valid" /\ fault' = Faulted("header", "pin") /\ UNCHANGED <<pin, sink>>
  <2>1. UNCHANGED <<going, irq, message, isr, stale, pin, sink, owned>>
    BY <1>2, <1>4 DEF hwVars, isrVars
  <2>2. RestTyped'
    BY <1>1, <1>2, <1>4, <2>1 DEF RestTyped, Pointers, devVars, barVars, given, Faulted
  <2>3. PinsTyped' /\ OneStream' /\ PinsOrderly' /\ FormatsCovered' /\ FramesKept'
    BY <2>1, <1>1
    DEF PinsTyped, CaptureInv, OneStream, Holds, PinsOrderly, FormatsCovered, FramesKept
  <2>4. DeviceOrderly'
    BY <1>2, DeviceStays, OpenStarted
  <2>5. CardMapped' /\ SinkKept'
    BY <1>4, <2>1 DEF CardMapped, SinkKept, CaptureInv, Faulted, NoFault
  <2>6. pin'[p].op = "claimed" /\ pin'[p].reformatted
    BY <1>2, <1>4, <2>1 DEF CaptureInv, FramesKept
  <2>7. FaultsExplained'
    BY <1>4, <2>6 DEF FaultsExplained, Faulted
  <2> QED
    BY <2>2, <2>3, <2>4, <2>5, <2>7, TypePartsNext DEF CaptureInv
<1>5. CASE /\ sink' = p /\ UNCHANGED fault
           /\ pin' = [pin EXCEPT ![p].st = "acquire", ![p].op = "idle", ![p].acquired = TRUE]
  <2> DEFINE r == [pin[p] EXCEPT !.st = "acquire", !.op = "idle", !.acquired = TRUE]
  <2>1. PinsTyped' /\ pin'[p] = r /\ \A q \in Pins \ {p} : pin'[q] = pin[q]
    <3>1. r \in PinRecord
      BY <1>1, PinFields, PinAcquired
    <3>2. pin' = [pin EXCEPT ![p] = r]
      BY <1>1, <1>5 DEF PinsTyped
    <3> QED
      BY <1>1, <3>1, <3>2, PinBecomes
  <2>2. /\ pin'[p].st = "acquire" /\ pin'[p].op = "idle" /\ pin'[p].acquired
        /\ pin'[p].format = pin[p].format /\ pin'[p].header = pin[p].header
        /\ pin'[p].frame = pin[p].frame /\ pin'[p].reformatted = pin[p].reformatted
    BY <1>1, <2>1, PinFields DEF PinRecord
  <2>3. Holds(p)'
    BY <2>2 DEF Holds
  <2>4. owned' /\ owned' \in BOOLEAN
    BY <1>1, <1>2, <1>3 DEF RestTyped
  <2>5. (owned' <=> Holds(p)') /\ sink' = p
    BY <1>5, <2>3, <2>4
  <2>6. UNCHANGED <<devVars, hwVars, isrVars, fault>>
    BY <1>2, <1>5
  <2> HIDE DEF r
  <2> QED
    BY <1>2, <1>3, <2>1, <2>2, <2>3, <2>4, <2>5, <2>6, UserStep
<1>6. CASE Goes(p, "dropping") /\ UNCHANGED <<sink, fault>>
  <2> DEFINE r == [pin[p] EXCEPT !.op = "dropping"]
  <2>1. PinsTyped' /\ pin'[p] = r /\ \A q \in Pins \ {p} : pin'[q] = pin[q]
    <3>1. r \in PinRecord
      BY <1>1, PinFields, PinChanges
    <3>2. pin' = [pin EXCEPT ![p] = r]
      BY <1>1, <1>6 DEF PinsTyped, Goes
    <3> QED
      BY <1>1, <3>1, <3>2, PinBecomes
  <2>2. /\ pin'[p].st = "stop" /\ pin'[p].op = "dropping" /\ pin'[p].acquired = pin[p].acquired
        /\ pin'[p].format = pin[p].format /\ pin'[p].header = pin[p].header
        /\ pin'[p].frame = pin[p].frame /\ pin'[p].reformatted = pin[p].reformatted
    BY <1>1, <1>2, <2>1, PinFields DEF PinRecord
  <2>3. Holds(p)' /\ ~pin'[p].acquired
    BY <1>2, <2>2 DEF Holds
  <2>4. owned' /\ owned' \in BOOLEAN
    BY <1>1, <1>2, <1>3 DEF RestTyped
  <2> HIDE DEF r
  <2> QED
    BY <1>2, <1>3, <1>6, <2>1, <2>2, <2>3, <2>4, UserStep
<1> QED
  BY <1>4, <1>5, <1>6 DEF Take

\* A release forgets the sink, then frees the resources.
LEMMA ReleaseStep ==
    ASSUME CaptureInv, fault = NoFault, NEW p \in Pins, ReleaseHardwareResources(p)
    PROVE  CaptureInv'
<1>1. PinsTyped /\ RestTyped
  BY TypeParts DEF CaptureInv
<1>2. /\ pin[p].op \in {"dropping", "freeing"} /\ pin[p].st \in {"stop", "acquire"}
      /\ UNCHANGED <<devVars, hwVars, isrVars, fault>>
  BY DEF ReleaseHardwareResources, CaptureInv, PinsOrderly
<1>3. /\ Holds(p) /\ owned /\ \A q \in Pins \ {p} : ~Holds(q)
      /\ sink \in {p, NoPin}
  <2>1. Holds(p)
    BY <1>2 DEF Holds
  <2> QED
    BY <2>1, SinkIs
<1>4. CASE pin[p].op = "dropping" /\ sink' = NoPin /\ Goes(p, "freeing") /\ UNCHANGED owned
  <2> DEFINE r == [pin[p] EXCEPT !.op = "freeing"]
  <2>1. PinsTyped' /\ pin'[p] = r /\ \A q \in Pins \ {p} : pin'[q] = pin[q]
    <3>1. r \in PinRecord
      BY <1>1, PinFields, PinChanges
    <3>2. pin' = [pin EXCEPT ![p] = r]
      BY <1>1, <1>4 DEF PinsTyped, Goes
    <3> QED
      BY <1>1, <3>1, <3>2, PinBecomes
  <2>2. /\ pin'[p].st = pin[p].st /\ pin'[p].op = "freeing" /\ pin'[p].acquired = pin[p].acquired
        /\ pin'[p].format = pin[p].format /\ pin'[p].header = pin[p].header
        /\ pin'[p].frame = pin[p].frame /\ pin'[p].reformatted = pin[p].reformatted
    BY <1>1, <2>1, PinFields DEF PinRecord
  <2>3. Holds(p)' /\ sink' # p
    BY <1>4, <2>2, CaptureAssumption DEF CaptureAssumption, Holds
  <2>4. owned' /\ owned' \in BOOLEAN
    BY <1>1, <1>3, <1>4 DEF RestTyped
  <2>5. pin'[p].st = "acquire" => pin'[p].acquired
    BY <2>2 DEF CaptureInv, OneStream
  <2>6. pin[p].st = "stop" => ~pin[p].acquired
    BY DEF CaptureInv, PinsOrderly
  <2> HIDE DEF r
  <2> QED
    BY <1>2, <1>3, <1>4, <2>1, <2>2, <2>3, <2>4, <2>5, <2>6, UserStep
<1>5. CASE /\ pin[p].op = "freeing" /\ owned' = FALSE /\ UNCHANGED sink
           /\ pin' = [pin EXCEPT ![p].st = "stop", ![p].op = "idle", ![p].acquired = FALSE]
  <2> DEFINE r == [pin[p] EXCEPT !.st = "stop", !.op = "idle", !.acquired = FALSE]
  <2>1. PinsTyped' /\ pin'[p] = r /\ \A q \in Pins \ {p} : pin'[q] = pin[q]
    <3>1. r \in PinRecord
      BY <1>1, PinFields, PinAcquired
    <3>2. pin' = [pin EXCEPT ![p] = r]
      BY <1>1, <1>5 DEF PinsTyped
    <3> QED
      BY <1>1, <3>1, <3>2, PinBecomes
  <2>2. /\ pin'[p].st = "stop" /\ pin'[p].op = "idle" /\ ~pin'[p].acquired
        /\ pin'[p].format = pin[p].format /\ pin'[p].header = pin[p].header
        /\ pin'[p].frame = pin[p].frame /\ pin'[p].reformatted = pin[p].reformatted
    BY <1>1, <2>1, PinFields DEF PinRecord
  <2>3. ~Holds(p)' /\ ~owned' /\ owned' \in BOOLEAN
    BY <1>5, <2>2 DEF Holds
  <2>4. sink' = NoPin /\ sink' # p
    BY <1>3, <1>5, CaptureAssumption DEF CaptureAssumption, CaptureInv, PinsOrderly
  <2> HIDE DEF r
  <2> QED
    BY <1>2, <1>3, <2>1, <2>2, <2>3, <2>4, UserStep
<1> QED
  BY <1>2, <1>4, <1>5 DEF ReleaseHardwareResources

-----------------------------------------------------------------------------
(* Pins without the resources: created, closed, given a format.            *)

\* A step of a pin that has none of the resources before it or after.
LEMMA BystanderStep ==
    ASSUME CaptureInv, NEW p \in Pins, ~Holds(p), ~Holds(p)', phase = "started",
           pin[p].st \in {"closed", "stop"}, pin'[p].st \in {"closed", "stop"},
           UNCHANGED <<devVars, ownVars, hwVars, isrVars>>, PinsTyped',
           \A q \in Pins \ {p} : pin'[q] = pin[q],
           \A f \in pin'[p].format : /\ f.size >= ImageBytes(f)
                                     /\ pin'[p].frame < ImageBytes(f) => pin'[p].reformatted
                                     /\ ~pin'[p].reformatted => pin'[p].frame = f.size,
           pin'[p].st # "closed" /\ pin'[p].header # "valid" => pin'[p].reformatted,
           fault' = NoFault \/ fault' = Faulted("trace", "pin"), fault = NoFault
    PROVE  CaptureInv'
<1>1. PinsTyped /\ RestTyped /\ OneStream /\ PinsOrderly
  BY TypeParts DEF CaptureInv
<1>2. UNCHANGED <<owned, sink, going, irq, message, isr, stale, phase, line, regs, mapped>>
  BY DEF ownVars, hwVars, isrVars, devVars, given, barVars
<1>3. RestTyped'
  BY <1>1, <1>2
  DEF RestTyped, Pointers, devVars, barVars, given, NoFault, Faulted
<1>4. sink # p /\ (sink # NoPin => pin'[sink] = pin[sink])
  BY <1>1, CaptureAssumption DEF CaptureAssumption, OneStream, RestTyped
<1>5. OneStream'
  <2>1. \A q \in Pins : Holds(q)' <=> Holds(q)
    BY DEF Holds
  <2>2. (owned <=> \E q \in Pins : Holds(q))'
    BY <1>1, <1>2, <2>1 DEF OneStream
  <2>3. (\A q, s \in Pins : Holds(q) /\ Holds(s) => q = s)'
    BY <1>1, <2>1 DEF OneStream
  <2>4. (\A q \in Pins : pin[q].st \in {"acquire", "pause", "run"} => pin[q].acquired)'
    BY <1>1 DEF OneStream
  <2>5. ASSUME NEW q \in Pins, pin'[q].acquired, pin'[q].op = "idle"
        PROVE  sink' = q
    <3>1. q # p
      BY <2>5 DEF Holds
    <3>2. pin[q].acquired /\ pin[q].op = "idle"
      BY <2>5, <3>1
    <3> QED
      BY <1>1, <1>2, <3>2 DEF OneStream
  <2>6. (sink # NoPin => Holds(sink))'
    BY <1>1, <1>2, <2>1 DEF OneStream, RestTyped
  <2>7. (going \/ irq => sink # NoPin /\ pin[sink].st = "run" /\ pin[sink].hw = "running")'
    BY <1>1, <1>2, <1>4 DEF OneStream
  <2> QED
    BY <2>2, <2>3, <2>4, <2>5, <2>6, <2>7 DEF OneStream
<1>6. PinsOrderly'
  <2>1. pin'[p].op = "idle" /\ ~pin'[p].acquired
    BY DEF Holds
  <2> QED
    BY <1>1, <1>2, <2>1 DEF PinsOrderly
<1>7. FormatsCovered' /\ FramesKept'
  BY DEF CaptureInv, FormatsCovered, FramesKept
<1>8. DeviceOrderly'
  BY DeviceStays
<1>9. CardMapped' /\ SinkKept'
  BY <1>2, <1>4 DEF CaptureInv, CardMapped, SinkKept, NoFault, Faulted
<1>10. FaultsExplained'
  BY DEF FaultsExplained, NoFault, Faulted
<1> QED
  BY <1>3, <1>5, <1>6, <1>7, <1>8, <1>9, <1>10, TypePartsNext DEF CaptureInv

\* A pin at a stop is one of them.
LEMMA Idle ==
    ASSUME CaptureInv, NEW p \in Pins, pin[p].st \in {"closed", "stop"}, pin[p].op = "idle"
    PROVE  ~Holds(p)
  BY DEF CaptureInv, PinsOrderly, Holds

LEMMA CreateStep ==
    ASSUME CaptureInv, fault = NoFault, NEW p \in Pins, DispatchCreate(p)
    PROVE  CaptureInv'
<1>1. PinsTyped /\ RestTyped
  BY TypeParts DEF CaptureInv
<1>2. /\ phase = "started" /\ pin[p].st = "closed" /\ pin[p].op = "idle" /\ ~Holds(p)
      /\ ~pin[p].acquired
      /\ UNCHANGED <<devVars, ownVars, hwVars, isrVars>>
  BY <1>1, PinFields, Idle DEF DispatchCreate, CaptureInv, PinsOrderly
<1>3. CASE fault' = Faulted("trace", "pin") /\ UNCHANGED pin
  <2>1. PinsTyped' /\ ~Holds(p)'
    BY <1>1, <1>2, <1>3 DEF PinsTyped, Holds
  <2>2. \A f \in pin[p].format : /\ f.size >= ImageBytes(f)
                                 /\ pin[p].frame < ImageBytes(f) => pin[p].reformatted
                                 /\ ~pin[p].reformatted => pin[p].frame = f.size
    BY DEF CaptureInv, FormatsCovered, FramesKept
  <2> QED
    BY <1>2, <1>3, <2>1, <2>2, BystanderStep
<1>4. ASSUME NEW f \in Accepted, UNCHANGED fault,
             pin' = [pin EXCEPT ![p].st = "stop", ![p].format = {f}, ![p].header = "valid",
                                ![p].frame = f.size]
      PROVE  CaptureInv'
  <2> DEFINE r == [pin[p] EXCEPT !.st = "stop", !.format = {f}, !.header = "valid",
                                 !.frame = f.size]
  <2>1. f.size \in Nat /\ ImageBytes(f) \in Nat /\ f.size >= ImageBytes(f)
    BY AcceptedFits
  <2>2. PinsTyped' /\ pin'[p] = r /\ \A q \in Pins \ {p} : pin'[q] = pin[q]
    <3>1. r \in PinRecord
      BY <1>1, <2>1, PinFields, PinCreated
    <3>2. pin' = [pin EXCEPT ![p] = r]
      BY <1>1, <1>4 DEF PinsTyped
    <3> QED
      BY <1>1, <3>1, <3>2, PinBecomes
  <2>3. /\ pin'[p].st = "stop" /\ pin'[p].op = "idle" /\ pin'[p].acquired = pin[p].acquired
        /\ pin'[p].format = {f} /\ pin'[p].header = "valid"
        /\ pin'[p].frame = f.size /\ pin'[p].reformatted = pin[p].reformatted
    BY <1>1, <1>2, <2>2, PinFields DEF PinRecord
  <2>4. ~Holds(p)'
    BY <1>2, <2>3 DEF Holds
  <2> HIDE DEF r
  <2>5. \A g \in pin'[p].format : /\ g.size >= ImageBytes(g)
                                  /\ pin'[p].frame < ImageBytes(g) => pin'[p].reformatted
                                  /\ ~pin'[p].reformatted => pin'[p].frame = g.size
    BY <2>1, <2>3
  <2> QED
    BY <1>2, <1>4, <2>2, <2>3, <2>4, <2>5, BystanderStep
<1> QED
  BY <1>3, <1>4 DEF DispatchCreate

LEMMA CloseStep ==
    ASSUME CaptureInv, fault = NoFault, NEW p \in Pins, Close(p)
    PROVE  CaptureInv'
<1>1. PinsTyped /\ RestTyped
  BY TypeParts DEF CaptureInv
<1>2. /\ pin[p].st = "stop" /\ ~Holds(p) /\ phase = "started"
      /\ UNCHANGED <<devVars, ownVars, hwVars, isrVars, fault>>
      /\ pin' = [pin EXCEPT ![p] = Closed]
  BY Idle, OpenStarted DEF Close
<1>3. Closed \in PinRecord
  BY DEF Closed, PinRecord
<1>4. PinsTyped' /\ pin'[p] = Closed /\ \A q \in Pins \ {p} : pin'[q] = pin[q]
  BY <1>1, <1>2, <1>3, PinBecomes
<1>5. /\ pin'[p].st = "closed" /\ pin'[p].op = "idle" /\ ~pin'[p].acquired
      /\ pin'[p].format = {}
  BY <1>4 DEF Closed
<1>6. ~Holds(p)'
  BY <1>5 DEF Holds
<1> QED
  BY <1>2, <1>4, <1>5, <1>6, BystanderStep

\* A format that is set is an accepted one; after a failure there is none.
LEMMA FormatStep ==
    ASSUME CaptureInv, fault = NoFault, NEW p \in Pins,
           DispatchSetFormat(p) \/ SetFormatFails(p)
    PROVE  CaptureInv'
<1>1. PinsTyped /\ RestTyped
  BY TypeParts DEF CaptureInv
<1>2. /\ pin[p].st = "stop" /\ pin[p].op = "idle" /\ ~Holds(p) /\ phase = "started"
      /\ ~pin[p].acquired
      /\ UNCHANGED <<devVars, ownVars, hwVars, isrVars, fault>>
  BY Idle, OpenStarted DEF DispatchSetFormat, SetFormatFails, CaptureInv, PinsOrderly
<1>3. PICK F \in SUBSET Accepted, h \in {"valid", "null", "freed"} :
        pin' = [pin EXCEPT ![p].format = F, ![p].header = h, ![p].reformatted = TRUE]
  <2>1. CASE DispatchSetFormat(p)
    <3>1. PICK f \in Accepted :
            pin' = [pin EXCEPT ![p].format = {f}, ![p].header = "valid", ![p].reformatted = TRUE]
      BY <2>1 DEF DispatchSetFormat
    <3> QED
      BY <3>1
  <2>2. CASE SetFormatFails(p)
    <3>1. PICK h \in {"null", "freed"} :
            pin' = [pin EXCEPT ![p].format = {}, ![p].header = h, ![p].reformatted = TRUE]
      BY <2>2 DEF SetFormatFails
    <3> QED
      BY <3>1
  <2> QED
    BY <2>1, <2>2
<1> DEFINE r == [pin[p] EXCEPT !.format = F, !.header = h, !.reformatted = TRUE]
<1>4. PinsTyped' /\ pin'[p] = r /\ \A q \in Pins \ {p} : pin'[q] = pin[q]
  <2>1. r \in PinRecord
    BY <1>1, PinFields, PinReformatted
  <2>2. pin' = [pin EXCEPT ![p] = r]
    BY <1>1, <1>3 DEF PinsTyped
  <2> QED
    BY <1>1, <2>1, <2>2, PinBecomes
<1>5. /\ pin'[p].st = "stop" /\ pin'[p].op = "idle" /\ pin'[p].acquired = pin[p].acquired
      /\ pin'[p].format = F /\ pin'[p].reformatted
  BY <1>1, <1>2, <1>4, PinFields DEF PinRecord
<1>6. ~Holds(p)'
  BY <1>2, <1>5 DEF Holds
<1> HIDE DEF r
<1>7. \A f \in pin'[p].format : /\ f.size >= ImageBytes(f)
                                /\ pin'[p].frame < ImageBytes(f) => pin'[p].reformatted
                                /\ ~pin'[p].reformatted => pin'[p].frame = f.size
  BY <1>5, AcceptedFits
<1> QED
  BY <1>2, <1>4, <1>5, <1>6, <1>7, BystanderStep

-----------------------------------------------------------------------------
(* Frames.                                                                 *)

\* Asking a pin to process, and processing, touch nothing else of a pin.
PinsAlike ==
    \A q \in Pins :
        /\ pin'[q].st = pin[q].st /\ pin'[q].op = pin[q].op /\ pin'[q].hw = pin[q].hw
        /\ pin'[q].acquired = pin[q].acquired /\ pin'[q].format = pin[q].format
        /\ pin'[q].header = pin[q].header /\ pin'[q].frame = pin[q].frame
        /\ pin'[q].reformatted = pin[q].reformatted

LEMMA AlikeStep ==
    ASSUME CaptureInv, PinsAlike, PinsTyped', UNCHANGED <<devVars, ownVars, going, irq>>
    PROVE  /\ OneStream' /\ PinsOrderly' /\ FormatsCovered' /\ FramesKept'
           /\ DeviceOrderly'
<1>1. \A q \in Pins : Holds(q)' <=> Holds(q)
  BY DEF PinsAlike, Holds
<1>2. UNCHANGED <<owned, sink>> /\ sink \in Pins \cup {NoPin} /\ NoPin \notin Pins
  BY CaptureAssumption DEF CaptureAssumption, ownVars, CaptureInv, TypeOK
<1>3. OneStream'
  <2>1. (owned <=> \E q \in Pins : Holds(q))'
    BY <1>1, <1>2 DEF CaptureInv, OneStream
  <2>2. (\A q, s \in Pins : Holds(q) /\ Holds(s) => q = s)'
    BY <1>1 DEF CaptureInv, OneStream
  <2>3. (\A q \in Pins : pin[q].st \in {"acquire", "pause", "run"} => pin[q].acquired)'
    BY DEF CaptureInv, OneStream, PinsAlike
  <2>4. ASSUME NEW q \in Pins, pin'[q].acquired, pin'[q].op = "idle"
        PROVE  sink' = q
    <3>1. pin[q].acquired /\ pin[q].op = "idle"
      BY <2>4 DEF PinsAlike
    <3> QED
      BY <1>2, <3>1 DEF CaptureInv, OneStream
  <2>5. (sink # NoPin => Holds(sink))'
    BY <1>1, <1>2 DEF CaptureInv, OneStream
  <2>6. (going \/ irq => sink # NoPin /\ pin[sink].st = "run" /\ pin[sink].hw = "running")'
    BY <1>2 DEF CaptureInv, OneStream, PinsAlike
  <2> QED
    BY <2>1, <2>2, <2>3, <2>4, <2>5, <2>6 DEF OneStream
<1>4. PinsOrderly'
  BY <1>2 DEF CaptureInv, PinsOrderly, PinsAlike
<1>5. FormatsCovered' /\ FramesKept'
  BY FormatsStay DEF CaptureInv, PinsAlike
<1>6. DeviceOrderly'
  BY DEF CaptureInv, DeviceOrderly, Overtaken, devVars, given, barVars, PinsAlike
<1> QED
  BY <1>3, <1>4, <1>5, <1>6

\* What the card signals is found with its registers in place.
LEMMA CardStep ==
    ASSUME CaptureInv, fault = NoFault, CardFrame
    PROVE  CaptureInv'
<1>1. /\ UNCHANGED <<devVars, pin, ownVars, going, isrVars, fault>>
      /\ going /\ irq' = TRUE /\ message' = (message \/ (line = "message" /\ ~irq))
  BY DEF CardFrame
<1>2. phase = "started" /\ regs \in mapped
  BY <1>1 DEF CaptureInv, CardMapped
<1>3. irq' \in BOOLEAN /\ message' \in BOOLEAN
  BY <1>1, Zenon
<1>4. TypeOK'
  BY <1>1, <1>3
  DEF CaptureInv, TypeOK, Pointers, devVars, given, barVars, ownVars, isrVars
<1>5. OneStream'
  BY <1>1 DEF CaptureInv, OneStream, Holds, ownVars
<1>6. PinsOrderly' /\ FormatsCovered' /\ FramesKept' /\ SinkKept'
  BY <1>1 DEF CaptureInv, PinsOrderly, FormatsCovered, FramesKept, SinkKept, ownVars, isrVars
<1>7. DeviceOrderly'
  BY <1>1, <1>2, DeviceStays
<1>8. CardMapped' /\ FaultsExplained'
  BY <1>1, <1>2 DEF CardMapped, FaultsExplained, NoFault, devVars, barVars
<1> QED
  BY <1>4, <1>5, <1>6, <1>7, <1>8 DEF CaptureInv

\* The service routine finds the registers unless the line is shared, or the
\* device was stopped while a message was on its way.
LEMMA ReadStep ==
    ASSUME CaptureInv, fault = NoFault, ReadStatus
    PROVE  CaptureInv'
<1>1. /\ UNCHANGED <<devVars, pin, ownVars, going, irq>>
      /\ message' = FALSE /\ stale' = FALSE /\ isr' = (IF irq THEN "sink" ELSE "idle")
      /\ fault' = IF regs \in mapped THEN NoFault ELSE Faulted("registers", "isr")
      /\ \/ line = "message" /\ message
         \/ line # "message" /\ irq
         \/ line = "shared"
  BY DEF ReadStatus, Interrupted, UseRegs
<1>2. message' \in BOOLEAN /\ stale' \in BOOLEAN
  BY <1>1, Zenon
<1>3. TypeOK'
  BY <1>1, <1>2
  DEF CaptureInv, TypeOK, Pointers, devVars, given, barVars, ownVars, NoFault, Faulted
<1>4. OneStream'
  BY <1>1 DEF CaptureInv, OneStream, Holds, ownVars
<1>5. PinsOrderly' /\ FormatsCovered' /\ FramesKept'
  BY <1>1 DEF CaptureInv, PinsOrderly, FormatsCovered, FramesKept, ownVars
<1>6. DeviceOrderly'
  BY <1>1 DEF CaptureInv, DeviceOrderly, Overtaken, devVars, given, barVars
<1>7. SinkKept'
  BY <1>1 DEF CaptureInv, SinkKept, OneStream, ownVars
<1>8. CardMapped'
  BY <1>1 DEF CaptureInv, CardMapped, devVars, barVars, NoFault, Faulted
<1>9. FaultsExplained'
  <2>1. regs \notin mapped =>
            line = "shared" \/ (line = "message" /\ phase # "started") \/ dmaBar = Null
    BY <1>1 DEF CaptureInv, CardMapped, DeviceOrderly, TypeOK
  <2>2. UNCHANGED <<line, phase, dmaBar>>
    BY <1>1 DEF devVars, given, barVars
  <2> QED
    BY <1>1, <2>1, <2>2 DEF FaultsExplained, NoFault, Faulted
<1> QED
  BY <1>3, <1>4, <1>5, <1>6, <1>7, <1>8, <1>9 DEF CaptureInv

\* It finds a sink unless the hardware was stopped under it.
LEMMA AttemptStep ==
    ASSUME CaptureInv, fault = NoFault, AttemptProcessing
    PROVE  CaptureInv'
<1>1. PinsTyped /\ RestTyped
  BY TypeParts DEF CaptureInv
<1>2. isr = "sink" /\ isr' = "idle" /\ UNCHANGED <<devVars, ownVars, hwVars, stale>>
  BY DEF AttemptProcessing
<1>3. /\ sink = NoPin => stale /\ fault' = Faulted("sink", "isr") /\ UNCHANGED pin
      /\ sink # NoPin => /\ sink \in Pins
                         /\ pin' = [pin EXCEPT ![sink].attempt = TRUE]
                         /\ \/ fault' = NoFault
                            \/ fault' = Faulted("registers", "isr") /\ dmaBar = Null
  <2>1. CASE sink = NoPin
    BY <1>2, <2>1 DEF AttemptProcessing, CaptureInv, SinkKept
  <2>2. CASE sink # NoPin
    <3>1. sink \in Pins /\ pin[sink].st # "closed"
      BY <1>1, <2>2 DEF RestTyped, CaptureInv, OneStream, PinsOrderly, Holds
    <3> QED
      BY <2>2, <3>1, OpenStarted DEF AttemptProcessing, UseRegs
  <2> QED
    BY <2>1, <2>2
<1>4. PinsTyped' /\ PinsAlike
  <2>1. CASE sink = NoPin
    BY <1>1, <1>3, <2>1 DEF PinsTyped, PinsAlike
  <2>2. CASE sink # NoPin
    <3> DEFINE r == [pin[sink] EXCEPT !.attempt = TRUE]
    <3>1. r \in PinRecord /\ sink \in Pins
      BY <1>1, <1>3, <2>2, PinChanges DEF PinsTyped
    <3>2. pin' = [pin EXCEPT ![sink] = r]
      BY <1>1, <1>3, <2>2 DEF PinsTyped
    <3>3. PinsTyped' /\ pin'[sink] = r /\ \A q \in Pins \ {sink} : pin'[q] = pin[q]
      BY <1>1, <3>1, <3>2, PinBecomes
    <3>4. PinsAlike
      BY <1>1, <3>1, <3>3, PinFields DEF PinsAlike, PinRecord
    <3> QED
      BY <3>3, <3>4
  <2> QED
    BY <2>1, <2>2
<1>5. RestTyped'
  BY <1>1, <1>2, <1>3
  DEF RestTyped, Pointers, devVars, barVars, given, ownVars, hwVars, NoFault, Faulted
<1>6. SinkKept' /\ CardMapped' /\ FaultsExplained'
  BY <1>2, <1>3
  DEF SinkKept, CaptureInv, CardMapped, FaultsExplained, NoFault, Faulted, devVars, barVars, hwVars
<1> QED
  BY <1>2, <1>4, <1>5, <1>6, AlikeStep, TypePartsNext DEF CaptureInv, hwVars

\* Only a running pin, which is the sink, processes frames.
LEMMA ProcessStep ==
    ASSUME CaptureInv, fault = NoFault, NEW p \in Pins, Process(p)
    PROVE  CaptureInv'
<1>1. PinsTyped /\ RestTyped
  BY TypeParts DEF CaptureInv
<1>2. pin[p].st = "run" /\ UNCHANGED <<devVars, ownVars, hwVars, isrVars>>
  BY DEF Process, ProcessNothing, ProcessNoData, ProcessC4
<1>3. fault' = NoFault \/ \E what \in {"stack", "buffer"} : fault' = Faulted(what, "process")
  BY DEF Process, ProcessNothing, ProcessNoData, ProcessC4, CopyVideoCommonBuffer
<1>4. PICK a \in BOOLEAN, k \in BOOLEAN :
        pin' = [pin EXCEPT ![p].attempt = a, ![p].locked = k]
  <2>1. CASE ProcessNoData(p)
    BY <2>1 DEF ProcessNoData
  <2>2. CASE ProcessNothing(p) \/ ProcessC4(p)
    <3>1. PICK a \in BOOLEAN : pin' = [pin EXCEPT ![p].attempt = a]
      BY <2>2 DEF ProcessNothing, ProcessC4
    <3>2. pin' = [pin EXCEPT ![p].attempt = a, ![p].locked = pin[p].locked]
      BY <1>1, <3>1 DEF PinsTyped, PinRecord
    <3> QED
      BY <1>1, <3>2, PinFields
  <2> QED
    BY <2>1, <2>2 DEF Process
<1> DEFINE r == [pin[p] EXCEPT !.attempt = a, !.locked = k]
<1>5. PinsTyped' /\ pin'[p] = r /\ \A q \in Pins \ {p} : pin'[q] = pin[q]
  <2>1. r \in PinRecord
    BY <1>1, PinFields, PinProcessed
  <2>2. pin' = [pin EXCEPT ![p] = r]
    BY <1>1, <1>4 DEF PinsTyped
  <2> QED
    BY <1>1, <2>1, <2>2, PinBecomes
<1>6. PinsAlike
  <2>1. /\ r.st = pin[p].st /\ r.op = pin[p].op /\ r.hw = pin[p].hw
        /\ r.acquired = pin[p].acquired /\ r.format = pin[p].format
        /\ r.header = pin[p].header /\ r.frame = pin[p].frame
        /\ r.reformatted = pin[p].reformatted
    BY <1>1, PinFields DEF PinRecord
  <2> HIDE DEF r
  <2> QED
    BY <1>5, <2>1 DEF PinsAlike
<1> HIDE DEF r
<1>7. RestTyped'
  BY <1>1, <1>2, <1>3
  DEF RestTyped, Pointers, devVars, barVars, given, ownVars, hwVars, isrVars, NoFault, Faulted
<1>8. sink = p /\ p # NoPin
  BY <1>2, Acquired
<1>9. SinkKept' /\ CardMapped'
  BY <1>2, <1>3, <1>6, <1>8
  DEF CaptureInv, SinkKept, CardMapped, PinsAlike, NoFault, Faulted, ownVars, hwVars, isrVars,
      devVars, barVars
<1>10. FaultsExplained'
  BY <1>2, <1>3, <1>6, <1>8 DEF FaultsExplained, PinsAlike, NoFault, Faulted, ownVars
<1> QED
  BY <1>2, <1>5, <1>6, <1>7, <1>9, <1>10, AlikeStep, TypePartsNext DEF CaptureInv, hwVars

-----------------------------------------------------------------------------
(* The theorems.                                                           *)

LEMMA InitHolds == ASSUME Init PROVE CaptureInv
<1>1. PinsTyped
  <2>1. Closed \in PinRecord
    BY DEF Closed, PinRecord
  <2> QED
    BY <2>1 DEF Init, PinsTyped
<1>2. TypeOK
  <2>1. RestTyped
    <3>1. /\ connected \in BOOLEAN /\ buffer \in BOOLEAN /\ owned \in BOOLEAN
          /\ going \in BOOLEAN /\ irq \in BOOLEAN /\ message \in BOOLEAN /\ stale \in BOOLEAN
      BY Zenon DEF Init
    <3>2. /\ start \in 0 .. MaxStarts /\ fault.what = "none" /\ fault.by = "none"
          /\ mapped = {} /\ {dmaBar, videoBar, regs} \subseteq Pointers
      BY CaptureAssumption DEF CaptureAssumption, Init, Pointers, NoFault
    <3> QED
      BY <3>1, <3>2 DEF Init, RestTyped
  <2> QED
    BY <1>1, <2>1, TypeParts
<1>3. \A p \in Pins : /\ pin[p].st = "closed" /\ pin[p].op = "idle" /\ ~pin[p].acquired
                      /\ pin[p].format = {}
  BY DEF Init, Closed
<1>4. OneStream /\ PinsOrderly
  BY <1>3 DEF Init, OneStream, PinsOrderly, Holds
<1>5. FormatsCovered /\ FramesKept
  BY <1>3 DEF FormatsCovered, FramesKept
<1>6. DeviceOrderly /\ CardMapped /\ SinkKept /\ FaultsExplained
  BY <1>3 DEF Init, DeviceOrderly, CardMapped, SinkKept, FaultsExplained, NoFault
<1> QED
  BY <1>2, <1>4, <1>5, <1>6 DEF CaptureInv

LEMMA StepHolds == ASSUME CaptureInv, [Next]_vars PROVE CaptureInv'
<1>1. CASE UNCHANGED vars
  BY <1>1
  DEF vars, devVars, given, barVars, ownVars, hwVars, isrVars, CaptureInv, TypeOK, Pointers,
      OneStream, Holds, PinsOrderly, FormatsCovered, FramesKept, DeviceOrderly, Overtaken,
      CardMapped, SinkKept, FaultsExplained
<1>2. CASE Next
  <2>1. fault = NoFault
    BY <1>2 DEF Next
  <2>2. CASE Device
    BY <2>1, <2>2, MapStep, DeviceStep DEF Device
  <2>3. CASE ServiceRoutine \/ CardFrame
    BY <2>1, <2>3, ReadStep, AttemptStep, CardStep DEF ServiceRoutine
  <2>4. ASSUME NEW p \in Pins, PinStep(p) \/ Process(p)
        PROVE  CaptureInv'
    <3>1. CASE SetState(p)
      BY <2>1, <3>1, ClaimStep, TakeStep, ReleaseStep, ToStopStep, ToAcquireStep, ToPauseStep,
         ToRunStep DEF SetState
    <3> QED
      BY <2>1, <2>4, <3>1, CreateStep, CloseStep, FormatStep, ProcessStep DEF PinStep
  <2> QED
    BY <1>2, <2>2, <2>3, <2>4 DEF Next
<1> QED
  BY <1>1, <1>2

\* What every reachable state satisfies, however the pins, the service routine
\* and the start and stop of the device interleave.
THEOREM CaptureInvariant == Spec => []CaptureInv
<1>1. Init => CaptureInv
  BY InitHolds
<1>2. CaptureInv /\ [Next]_vars => CaptureInv'
  BY StepHolds
<1> QED
  BY <1>1, <1>2, PTL DEF Spec

\* Every variable keeps to its range.
THEOREM TypeCorrect == Spec => []TypeOK
  BY CaptureInvariant, PTL DEF CaptureInv

\* The hardware serves one pin: the exchange at device.cpp:1185 and the order
\* of the release at device.cpp:1311 let no two hold it, and it captures only
\* for a running sink.
THEOREM OneStreamOnly == Spec => []OneStream
  BY CaptureInvariant, PTL DEF CaptureInv

\* A pin's format holds its image, and its frames do unless it was changed.
THEOREM FormatsAlwaysCovered == Spec => []FormatsCovered
  BY CaptureInvariant, PTL DEF CaptureInv

\* What stops the system has the causes listed, and no other.
THEOREM FaultsHaveCauses == Spec => []FaultsExplained
  BY CaptureInvariant, PTL DEF CaptureInv

\* A device that was stopped captures nothing and keeps mapped only what a
\* later BAR of the same kind has overtaken.
THEOREM StoppedReleases == Spec => []StoppedIsReleased
<1>1. CaptureInv => StoppedIsReleased
  <2> SUFFICES ASSUME CaptureInv, phase = "stopped"
               PROVE  StoppedIsReleased
    BY DEF StoppedIsReleased
  <2>1. /\ \A p \in Pins : pin[p].st = "closed"
        /\ ~buffer /\ dmaBar = Null /\ videoBar = Null
        /\ \A b \in mapped : Overtaken(b)
    BY DEF CaptureInv, DeviceOrderly
  <2>2. ~going /\ ~irq
    BY <2>1 DEF CaptureInv, OneStream, TypeOK
  <2> QED
    BY <2>1, <2>2 DEF StoppedIsReleased, Overtaken
<1> QED
  BY <1>1, CaptureInvariant, PTL
==============================================================================
