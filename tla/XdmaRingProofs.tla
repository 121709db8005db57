--------------------------- MODULE XdmaRingProofs ----------------------------
(***************************************************************************)
(* Theorems about the streaming ring, for every number of blocks, block    *)
(* size, set of read sizes and bound.                                      *)
(***************************************************************************)
EXTENDS XdmaRing, SequenceTheorems, TLAPS

\* The flags stay flags: each step assigns them Boolean values.
LEMMA FlagsStep == ASSUME FlagsOK, [Next]_vars PROVE FlagsOK'
<1> USE DEF FlagsOK, hwVars, memVars, procVars, rdVars
<1>1. ASSUME NEW len \in 1 .. BlockSize, NEW eop \in BOOLEAN, HwFill(len, eop)
      PROVE FlagsOK'
  BY <1>1 DEF HwFill, HwWrite
<1>10. ASSUME NEW len \in 1 .. BlockSize, NEW eop \in BOOLEAN, NEW i \in Slots,
              HwFillLate(i, len, eop)
       PROVE FlagsOK'
  BY <1>10 DEF HwFillLate, HwWrite
<1>2. CASE HwFail
  BY <1>2 DEF HwFail
<1>3. CASE EvtDeviceFileCreate
  BY <1>3 DEF EvtDeviceFileCreate, EngineRingProgramDma
<1>4. CASE EvtFileCleanup
  BY <1>4 DEF EvtFileCleanup, EngineClearDmaResults
<1>5. CASE EvtChannelInterruptIsr \/ EvtChannelInterruptDpc
  BY <1>5 DEF EvtChannelInterruptIsr, EvtChannelInterruptDpc, ProcessRingBegin
<1>6. CASE ProcessRing
  <2>1. CASE ProcessRingScan
    BY <2>1 DEF ProcessRingScan
  <2>2. CASE ProcessRingScanned \/ ProcessRingPublish
    BY <2>2 DEF ProcessRingScanned, ProcessRingPublish
  <2>3. CASE ProcessRingSignal \/ DpcFinish
    BY <2>3 DEF ProcessRingSignal, DpcFinish, ProcessRingEnd
  <2> QED
    BY <1>6, <2>1, <2>2, <2>3 DEF ProcessRing
<1>7. ASSUME NEW n \in ReadLengths, EvtIoReadEngineRing(n)
      PROVE FlagsOK'
  BY <1>7 DEF EvtIoReadEngineRing
<1>8. CASE Reader
  <2>1. CASE WaitSignalled \/ WaitTimeout
    BY <2>1 DEF WaitSignalled, WaitTimeout
  <2>2. CASE PollError
    BY <2>2 DEF PollError
  <2>3. CASE PollNothing
    BY <2>3 DEF PollNothing
  <2>4. CASE PollCompleted \/ PollFinish
    BY <2>4 DEF PollCompleted, PollFinish, ProcessRingBegin, ProcessRingEnd
  <2>5. CASE Snapshot \/ CopyBlock
    BY <2>5 DEF Snapshot, CopyBlock
  <2>6. CASE CopyDone \/ CheckHead
    BY <2>6 DEF CopyDone, CheckHead
  <2>7. CASE ClearEvent \/ StoreHead
    BY <2>7 DEF ClearEvent, StoreHead
  <2> QED
    BY <1>8, <2>1, <2>2, <2>3, <2>4, <2>5, <2>6, <2>7 DEF Reader
<1>9. CASE UNCHANGED vars
  BY <1>9 DEF vars
<1> QED
  BY <1>1, <1>2, <1>3, <1>4, <1>5, <1>6, <1>7, <1>8, <1>9, <1>10 DEF Next

\* The indices stay in the ring and the counters natural.
LEMMA DataStep == ASSUME DataOK, [Next]_vars PROVE DataOK'
<1> USE RingAssumption DEF RingAssumption, DataOK, Slots, ProcStates, RdStates,
        EngineRingAdvance, hwVars, memVars, procVars, rdVars
<1>1. ASSUME NEW len \in 1 .. BlockSize, NEW eop \in BOOLEAN, HwFill(len, eop)
      PROVE DataOK'
  <2>1. /\ block' \in [Slots -> Nat] /\ ends' \in [Slots -> BOOLEAN] /\ filled' \in Nat
        /\ length' \in [Slots -> 0 .. BlockSize] /\ wb' \in {"zero", "count", "error"}
    BY <1>1 DEF HwFill, HwWrite
  <2>2. status' \in [Slots -> {"none", "more", "eop"}]
    BY <1>1 DEF HwFill, HwWrite
  <2>3. credits' \in Nat /\ hw' \in Slots
    BY <1>1 DEF HwFill
  <2> QED
    BY <1>1, <2>1, <2>2, <2>3 DEF HwFill
<1>10. ASSUME NEW len \in 1 .. BlockSize, NEW eop \in BOOLEAN, NEW i \in Slots,
              HwFillLate(i, len, eop)
       PROVE DataOK'
  <2>1. /\ block' \in [Slots -> Nat] /\ ends' \in [Slots -> BOOLEAN] /\ filled' \in Nat
        /\ length' \in [Slots -> 0 .. BlockSize] /\ wb' \in {"zero", "count", "error"}
    BY <1>10 DEF HwFillLate, HwWrite
  <2>2. status' \in [Slots -> {"none", "more", "eop"}]
    BY <1>10 DEF HwFillLate, HwWrite
  <2>3. late' \subseteq Slots
    BY <1>10 DEF HwFillLate
  <2> QED
    BY <1>10, <2>1, <2>2, <2>3 DEF HwFillLate
<1>2. CASE HwFail
  BY <1>2 DEF HwFail
<1>3. CASE EvtDeviceFileCreate
  BY <1>3 DEF EvtDeviceFileCreate, EngineRingProgramDma
<1>4. CASE EvtFileCleanup
  <2>1. /\ status' \in [Slots -> {"none", "more", "eop"}] /\ length' \in [Slots -> 0 .. BlockSize]
        /\ block' \in [Slots -> Nat] /\ ends' \in [Slots -> BOOLEAN]
    BY <1>4 DEF EvtFileCleanup, EngineClearDmaResults
  <2>2. late' \subseteq Slots
    <3>1. late' = late \/ late' = late \cup {hw}
      BY <1>4 DEF EvtFileCleanup
    <3> QED
      BY <3>1
  <2>3. handles' \in 0 .. 2 /\ credits' \in Nat /\ head' \in Slots /\ tail' \in Slots
    BY <1>4 DEF EvtFileCleanup
  <2>4. UNCHANGED <<hw, wb, filled, proc, scan, rdVars>>
    BY <1>4 DEF EvtFileCleanup
  <2> QED
    BY <2>1, <2>2, <2>3, <2>4
<1>5. CASE EvtChannelInterruptIsr \/ EvtChannelInterruptDpc
  <2>1. CASE EvtChannelInterruptIsr
    BY <2>1 DEF EvtChannelInterruptIsr
  <2>2. CASE EvtChannelInterruptDpc
    BY <2>2 DEF EvtChannelInterruptDpc, ProcessRingBegin
  <2> QED
    BY <1>5, <2>1, <2>2
<1>6. CASE ProcessRing
  <2>1. CASE ProcessRingScan
    BY <2>1 DEF ProcessRingScan
  <2>2. CASE ProcessRingScanned
    BY <2>2 DEF ProcessRingScanned
  <2>3. CASE ProcessRingPublish
    BY <2>3 DEF ProcessRingPublish
  <2>4. CASE ProcessRingSignal
    BY <2>4 DEF ProcessRingSignal
  <2>5. CASE DpcFinish
    BY <2>5 DEF DpcFinish, ProcessRingEnd
  <2> QED
    BY <1>6, <2>1, <2>2, <2>3, <2>4, <2>5 DEF ProcessRing
<1>7. ASSUME NEW n \in ReadLengths, EvtIoReadEngineRing(n)
      PROVE DataOK'
  BY <1>7 DEF EvtIoReadEngineRing
<1>8. CASE Reader
  <2>1. CASE WaitSignalled
    BY <2>1 DEF WaitSignalled
  <2>2. CASE WaitTimeout
    BY <2>2 DEF WaitTimeout, CompleteRead
  <2>3. CASE PollError
    BY <2>3 DEF PollError, CompleteRead
  <2>4. CASE PollNothing
    BY <2>4 DEF PollNothing, PollNext
  <2>5. CASE PollCompleted
    BY <2>5 DEF PollCompleted, ProcessRingBegin
  <2>6. CASE PollFinish
    BY <2>6 DEF PollFinish, PollNext, ProcessRingEnd
  <2>7. CASE Snapshot
    BY <2>7 DEF Snapshot
  <2>8. CASE CopyBlock
    <3>1. rdHead' \in Slots
      BY <2>8 DEF CopyBlock
    <3>2. /\ length' \in [Slots -> 0 .. BlockSize] /\ ends' \in [Slots -> BOOLEAN]
          /\ block' \in [Slots -> Nat] /\ taken' \in Nat
      BY <2>8 DEF CopyBlock
    <3>3. numDesc' \in Nat /\ rdLeft' \in Nat
      BY <2>8 DEF CopyBlock
    <3> QED
      BY <2>8, <3>1, <3>2, <3>3 DEF CopyBlock
  <2>9. CASE CopyDone
    BY <2>9 DEF CopyDone
  <2>10. CASE CheckHead
    BY <2>10 DEF CheckHead
  <2>11. CASE ClearEvent
    BY <2>11 DEF ClearEvent
  <2>12. CASE StoreHead
    BY <2>12 DEF StoreHead, CompleteRead
  <2> QED
    BY <1>8, <2>1, <2>2, <2>3, <2>4, <2>5, <2>6, <2>7, <2>8, <2>9, <2>10, <2>11, <2>12 DEF Reader
<1>9. CASE UNCHANGED vars
  BY <1>9 DEF vars
<1> QED
  BY <1>1, <1>2, <1>3, <1>4, <1>5, <1>6, <1>7, <1>8, <1>9, <1>10 DEF Next

\* Every variable keeps to its range, whatever the applications do.
THEOREM TypeCorrect == Spec => []TypeOK
<1>1. Init => FlagsOK
  BY DEF Init, FlagsOK
<1>2. Init => DataOK
  BY RingAssumption DEF RingAssumption, Init, DataOK, Slots, ProcStates, RdStates
<1>3. TypeOK /\ [Next]_vars => TypeOK'
  BY FlagsStep, DataStep DEF TypeOK
<1> QED
  BY <1>1, <1>2, <1>3, PTL DEF Spec, TypeOK

-----------------------------------------------------------------------------
(* Arithmetic of the ring: what EngineRingAdvance does to distances.       *)

LEMMA DistRange ==
    ASSUME NEW a \in Slots, NEW b \in Slots
    PROVE  Dist(a, b) \in 0 .. NumBlocks - 1 /\ Dist(a, a) = 0
  BY RingAssumption DEF RingAssumption, Slots, Dist

LEMMA DistInjective ==
    ASSUME NEW a \in Slots, NEW b \in Slots, NEW c \in Slots, Dist(a, b) = Dist(a, c)
    PROVE  b = c
  BY RingAssumption DEF RingAssumption, Slots, Dist

LEMMA DistAdvance ==
    ASSUME NEW a \in Slots, NEW b \in Slots, Dist(a, b) < NumBlocks - 1
    PROVE  /\ EngineRingAdvance(b) \in Slots
           /\ Dist(a, EngineRingAdvance(b)) = Dist(a, b) + 1
  BY RingAssumption DEF RingAssumption, Slots, Dist, EngineRingAdvance

\* Moving the origin from a to b turns the ring by the distance between them.
LEMMA DistRebase ==
    ASSUME NEW a \in Slots, NEW b \in Slots, NEW c \in Slots
    PROVE  Dist(b, c) = IF Dist(a, b) <= Dist(a, c)
                        THEN Dist(a, c) - Dist(a, b)
                        ELSE Dist(a, c) - Dist(a, b) + NumBlocks
  BY RingAssumption DEF RingAssumption, Slots, Dist

-----------------------------------------------------------------------------
(* The running ring: each step keeps the credits balanced, the positions   *)
(* ordered and the results marked.                                         *)

Ring == Balanced /\ PositionsOrdered /\ ResultsMarked

\* The reader's next slot lies between the published head and tail, the scan
\* between tail and hardware.
LEMMA PositionsInRing ==
    ASSUME DataOK, PositionsOrdered
    PROVE  /\ ReadPos \in Slots /\ ScanPos \in Slots
           /\ Ahead(ReadPos) <= Ahead(tail)
           /\ Ahead(tail) <= Ahead(ScanPos) /\ Ahead(ScanPos) <= Ahead(hw)
           /\ Ahead(ReadPos) \in Nat /\ Ahead(tail) \in Nat
           /\ Ahead(ScanPos) \in Nat /\ Ahead(hw) \in 0 .. NumBlocks - 1
<1>1. ReadPos \in Slots /\ ScanPos \in Slots
  BY DEF DataOK, ReadPos, ScanPos
<1>2. CASE Copying
  BY <1>1, <1>2, DistRange DEF PositionsOrdered, ReadPos, Ahead, DataOK
<1>3. CASE ~Copying
  BY <1>1, <1>3, DistRange DEF PositionsOrdered, ReadPos, Ahead, DataOK
<1> QED
  BY <1>2, <1>3

\* A step that moves no position and touches no result keeps all of it.
LEMMA Frame ==
    ASSUME Ring, run = TRUE,
           credits' = credits, head' = head, tail' = tail, hw' = hw,
           length' = length, status' = status, numDesc' = numDesc,
           ReadPos' = ReadPos, ScanPos' = ScanPos, Copying' <=> Copying,
           Copying => rdHead' = rdHead /\ rdTail' = rdTail
    PROVE  Ring'
<1>1. Balanced'
  BY DEF Ring, Balanced
<1>2. PositionsOrdered'
  <2>1. CASE Copying
    BY <2>1 DEF Ring, PositionsOrdered, Ahead
  <2>2. CASE ~Copying
    BY <2>2 DEF Ring, PositionsOrdered, Ahead
  <2> QED
    BY <2>1, <2>2
<1>3. ResultsMarked'
  BY DEF Ring, ResultsMarked, Ahead
<1> QED
  BY <1>1, <1>2, <1>3 DEF Ring

LEMMA FillStep ==
    ASSUME DataOK, run = TRUE, Ring,
           NEW len \in 1 .. BlockSize, NEW eop \in BOOLEAN, HwFill(len, eop)
    PROVE  Ring'
<1>1. /\ credits > 0 /\ credits' = credits - 1
      /\ head' = head /\ tail' = tail /\ hw' = EngineRingAdvance(hw)
      /\ ScanPos' = ScanPos /\ ReadPos' = ReadPos
      /\ rdHead' = rdHead /\ rdTail' = rdTail /\ numDesc' = numDesc
      /\ Copying' <=> Copying
  BY DEF HwFill, ScanPos, ReadPos, procVars, rdVars, Copying, Scanning
<1>2. /\ Ahead(ReadPos) <= Ahead(hw) /\ Ahead(ScanPos) <= Ahead(hw)
      /\ ReadPos \in Slots /\ ScanPos \in Slots
  BY PositionsInRing DEF Ring
<1>3. Dist(head, hw') = Dist(head, hw) + 1 /\ Dist(head, hw) < NumBlocks - 1
  BY <1>1, DistAdvance, DistRange, RingAssumption DEF RingAssumption, Ring, Balanced, DataOK
<1>4. Balanced'
  BY <1>1, <1>3, DistRange, RingAssumption DEF RingAssumption, Ring, Balanced, DataOK
<1>5. PositionsOrdered'
  <2>1. CASE Copying
    BY <1>1, <1>2, <1>3, <2>1, DistRange DEF Ring, PositionsOrdered, Ahead, DataOK
  <2>2. CASE ~Copying
    BY <1>1, <1>2, <1>3, <2>2, DistRange DEF Ring, PositionsOrdered, Ahead, DataOK
  <2> QED
    BY <2>1, <2>2
<1>6. ResultsMarked'
  <2> SUFFICES ASSUME NEW i \in Slots
               PROVE  /\ length'[i] > 0 <=>
                            /\ Dist(head, ReadPos) <= Dist(head, i)
                            /\ Dist(head, i) < Dist(head, hw')
                      /\ status'[i] # "none" <=>
                            /\ Dist(head, ScanPos) <= Dist(head, i)
                            /\ Dist(head, i) < Dist(head, hw')
    BY <1>1 DEF ResultsMarked, Ahead
  <2>1. CASE i = hw
    <3>1. length'[i] > 0 /\ status'[i] # "none"
      BY <2>1 DEF HwFill, HwWrite, DataOK
    <3> QED
      BY <1>2, <1>3, <2>1, <3>1, DistRange DEF Ahead, DataOK
  <2>2. CASE i # hw
    <3>1. Dist(head, i) # Dist(head, hw)
      BY <2>2, DistInjective DEF DataOK
    <3>2. length'[i] = length[i] /\ status'[i] = status[i]
      BY <2>2 DEF HwFill, HwWrite, DataOK
    <3> QED
      BY <1>2, <1>3, <3>1, <3>2, DistRange DEF Ring, ResultsMarked, Ahead, DataOK
  <2> QED
    BY <2>1, <2>2
<1> QED
  BY <1>4, <1>5, <1>6 DEF Ring

LEMMA ScanStep ==
    ASSUME DataOK, run = TRUE, Ring, ProcessRingScan
    PROVE  Ring'
<1>1. /\ credits' = credits /\ head' = head /\ tail' = tail /\ hw' = hw
      /\ ReadPos' = ReadPos /\ ScanPos = scan /\ ScanPos' = EngineRingAdvance(scan)
      /\ rdHead' = rdHead /\ rdTail' = rdTail /\ numDesc' = numDesc
      /\ length' = length
      /\ status[scan] # "none" /\ scan \in Slots
      /\ status' = [status EXCEPT ![scan] = "none"]
  BY DEF ProcessRingScan, ScanPos, ReadPos, hwVars, rdVars, Copying, Scanning, DataOK
<1>0. Copying' <=> Copying
  BY DEF ProcessRingScan, rdVars, Copying
<1>2. Dist(head, scan) < Dist(head, hw) /\ Dist(head, hw) <= NumBlocks - 1
  BY <1>1, DistRange DEF Ring, ResultsMarked, Ahead, DataOK
<1>3. Dist(head, ScanPos') = Dist(head, scan) + 1 /\ ScanPos' \in Slots
  BY <1>1, <1>2, DistAdvance, DistRange, RingAssumption DEF RingAssumption, DataOK
<1>4. Balanced'
  BY <1>1 DEF Ring, Balanced
<1>5. PositionsOrdered'
  <2>1. CASE Copying
    BY <1>1, <1>2, <1>3, <2>1, <1>0, DistRange DEF Ring, PositionsOrdered, Ahead, DataOK
  <2>2. CASE ~Copying
    <3>1. ~Copying' /\ numDesc' = 0
      BY <1>0, <1>1, <2>2 DEF Ring, PositionsOrdered
    <3>2. /\ Dist(head, tail) <= Dist(head, scan)
          /\ Dist(head, scan) \in Nat /\ Dist(head, hw) \in Nat
      BY <1>1, DistRange DEF Ring, PositionsOrdered, Ahead, DataOK
    <3>3. Dist(head, tail) <= Dist(head, ScanPos') /\ Dist(head, ScanPos') <= Dist(head, hw)
      BY <1>2, <1>3, <3>2, DistRange DEF DataOK
    <3> QED
      BY <1>1, <3>1, <3>3 DEF PositionsOrdered, Ahead
  <2> QED
    BY <2>1, <2>2
<1>6. ResultsMarked'
  <2>0. \A i \in Slots : length'[i] > 0 <=> /\ Dist(head, ReadPos') <= Dist(head, i)
                                            /\ Dist(head, i) < Dist(head, hw')
    BY <1>1 DEF Ring, ResultsMarked, Ahead
  <2> SUFFICES ASSUME NEW i \in Slots
               PROVE  status'[i] # "none" <=>
                            /\ Dist(head, ScanPos') <= Dist(head, i)
                            /\ Dist(head, i) < Dist(head, hw')
    BY <1>1, <2>0 DEF ResultsMarked, Ahead
  <2>1. CASE i = scan
    BY <1>1, <1>3, <2>1, DistRange DEF DataOK
  <2>2. CASE i # scan
    <3>1. Dist(head, i) # Dist(head, scan)
      BY <1>1, <2>2, DistInjective DEF DataOK
    <3>2. status'[i] = status[i]
      BY <1>1, <2>2 DEF DataOK
    <3> QED
      BY <1>1, <1>3, <3>1, <3>2, DistRange DEF Ring, ResultsMarked, Ahead, DataOK
  <2> QED
    BY <2>1, <2>2
<1> QED
  BY <1>4, <1>5, <1>6 DEF Ring

LEMMA PublishStep ==
    ASSUME DataOK, run = TRUE, Ring, ProcessRingPublish
    PROVE  Ring'
<1>1. /\ credits' = credits /\ head' = head /\ tail' = scan /\ hw' = hw
      /\ ReadPos' = ReadPos /\ ScanPos = scan /\ ScanPos' = scan
      /\ rdHead' = rdHead /\ rdTail' = rdTail /\ numDesc' = numDesc
      /\ length' = length /\ status' = status
  BY DEF ProcessRingPublish, ScanPos, ReadPos, hwVars, memVars, rdVars, Copying, Scanning
<1>0. Copying' <=> Copying
  BY DEF ProcessRingPublish, rdVars, Copying
<1>2. Balanced' /\ ResultsMarked'
  <2>1. Balanced'
    BY <1>1 DEF Ring, Balanced
  <2>2. ResultsMarked'
    BY <1>1 DEF Ring, ResultsMarked, Ahead
  <2> QED
    BY <2>1, <2>2
<1>3. PositionsOrdered'
  <2>1. CASE Copying
    BY <1>1, <2>1, <1>0, DistRange DEF Ring, PositionsOrdered, Ahead, DataOK
  <2>2. CASE ~Copying
    <3>1. ~Copying' /\ numDesc' = 0
      BY <1>0, <1>1, <2>2 DEF Ring, PositionsOrdered
    <3>2. Dist(head, scan) <= Dist(head, hw)
      BY <1>1 DEF Ring, PositionsOrdered, Ahead
    <3>3. Dist(head, scan) <= Dist(head, scan)
      BY <1>1, DistRange DEF DataOK
    <3> QED
      BY <1>1, <3>1, <3>2, <3>3 DEF PositionsOrdered, Ahead
  <2> QED
    BY <2>1, <2>2
<1> QED
  BY <1>2, <1>3 DEF Ring

LEMMA SnapshotStep ==
    ASSUME DataOK, run = TRUE, Ring, Snapshot
    PROVE  Ring'
<1>1. /\ credits' = credits /\ head' = head /\ tail' = tail /\ hw' = hw
      /\ ReadPos' = ReadPos /\ ScanPos' = ScanPos
      /\ rdHead' = head /\ rdTail' = tail /\ numDesc' = numDesc
      /\ length' = length /\ status' = status /\ ~Copying /\ Copying'
  BY DEF Snapshot, ScanPos, ReadPos, hwVars, memVars, procVars, Copying, Scanning
<1>2. Balanced' /\ ResultsMarked'
  BY <1>1 DEF Ring, Balanced, ResultsMarked, Ahead
<1>3. PositionsOrdered'
  BY <1>1, DistRange DEF Ring, PositionsOrdered, Ahead, DataOK
<1> QED
  BY <1>2, <1>3 DEF Ring

LEMMA CopyStep ==
    ASSUME DataOK, run = TRUE, Ring, CopyBlock
    PROVE  Ring'
<1>1. /\ credits' = credits /\ head' = head /\ tail' = tail /\ hw' = hw
      /\ ReadPos = rdHead /\ ReadPos' = EngineRingAdvance(rdHead) /\ ScanPos' = ScanPos
      /\ rdHead' = EngineRingAdvance(rdHead) /\ rdTail' = rdTail /\ rdHead # rdTail
      /\ numDesc' = numDesc + 1 /\ length' = [length EXCEPT ![rdHead] = 0]
      /\ status' = status /\ Copying /\ Copying'
  BY DEF CopyBlock, ScanPos, ReadPos, hwVars, procVars, Copying, Scanning
<1>2. /\ Dist(head, rdHead) < Dist(head, rdTail) /\ Dist(head, rdTail) <= NumBlocks - 1
  <2>1. Dist(head, rdHead) # Dist(head, rdTail)
    BY <1>1, DistInjective DEF DataOK
  <2> QED
    BY <1>1, <2>1, DistRange DEF Ring, PositionsOrdered, Ahead, DataOK
<1>3. Dist(head, rdHead') = Dist(head, rdHead) + 1 /\ rdHead' \in Slots
  BY <1>1, <1>2, DistAdvance, DistRange, RingAssumption DEF RingAssumption, DataOK
<1>4. Balanced'
  BY <1>1 DEF Ring, Balanced
<1>5. PositionsOrdered'
  BY <1>1, <1>2, <1>3, DistRange DEF Ring, PositionsOrdered, Ahead, DataOK
<1>6. ResultsMarked'
  <2> SUFFICES ASSUME NEW i \in Slots
               PROVE  length'[i] > 0 <=>
                            /\ Dist(head, rdHead') <= Dist(head, i)
                            /\ Dist(head, i) < Dist(head, hw)
    BY <1>1 DEF Ring, ResultsMarked, Ahead
  <2>1. CASE i = rdHead
    BY <1>1, <1>3, <2>1, DistRange DEF DataOK
  <2>2. CASE i # rdHead
    <3>1. Dist(head, i) # Dist(head, rdHead)
      BY <2>2, DistInjective DEF DataOK
    <3>2. length'[i] = length[i]
      BY <1>1, <2>2 DEF DataOK
    <3> QED
      BY <1>1, <1>3, <3>1, <3>2, DistRange DEF Ring, ResultsMarked, Ahead, DataOK
  <2> QED
    BY <2>1, <2>2
<1> QED
  BY <1>4, <1>5, <1>6 DEF Ring

LEMMA StoreStep ==
    ASSUME DataOK, run = TRUE, Ring, StoreHead
    PROVE  Ring'
<1>1. /\ credits' = credits + numDesc /\ head' = rdHead /\ tail' = tail /\ hw' = hw
      /\ ReadPos = rdHead /\ ReadPos' = rdHead /\ ScanPos' = ScanPos
      /\ numDesc' = 0 /\ length' = length /\ status' = status /\ Copying /\ ~Copying'
  BY DEF StoreHead, CompleteRead, ScanPos, ReadPos, memVars, procVars, Copying, Scanning
<1>2. /\ Ahead(rdHead) <= Ahead(tail) /\ Ahead(tail) <= Ahead(ScanPos)
      /\ Ahead(ScanPos) <= Ahead(hw) /\ ScanPos \in Slots /\ numDesc = Ahead(rdHead)
  BY <1>1, PositionsInRing DEF Ring, PositionsOrdered
<1>3. /\ Dist(rdHead, tail) = Dist(head, tail) - Dist(head, rdHead)
      /\ Dist(rdHead, ScanPos) = Dist(head, ScanPos) - Dist(head, rdHead)
      /\ Dist(rdHead, hw) = Dist(head, hw) - Dist(head, rdHead)
      /\ Dist(rdHead, rdHead) = 0
  <2>1. /\ tail \in Slots /\ hw \in Slots /\ head \in Slots /\ rdHead \in Slots
        /\ ScanPos \in Slots
    BY <1>2 DEF DataOK
  <2>2. ASSUME NEW c \in Slots, Dist(head, rdHead) <= Dist(head, c)
        PROVE  Dist(rdHead, c) = Dist(head, c) - Dist(head, rdHead)
    BY <2>1, <2>2, DistRebase
  <2>3. /\ Dist(head, rdHead) <= Dist(head, tail)
        /\ Dist(head, rdHead) <= Dist(head, ScanPos)
        /\ Dist(head, rdHead) <= Dist(head, hw)
    BY <1>2, <2>1, DistRange DEF Ahead
  <2> QED
    BY <2>1, <2>2, <2>3, DistRange
<1>4. Balanced'
  BY <1>1, <1>2, <1>3, DistRange, RingAssumption
  DEF RingAssumption, Ring, Balanced, Ahead, DataOK
<1>5. PositionsOrdered'
  BY <1>1, <1>2, <1>3, DistRange DEF PositionsOrdered, Ahead, DataOK
<1>6. ResultsMarked'
  <2> SUFFICES ASSUME NEW i \in Slots
               PROVE  /\ length[i] > 0 <=>
                            /\ 0 <= Dist(rdHead, i)
                            /\ Dist(rdHead, i) < Dist(rdHead, hw)
                      /\ status[i] # "none" <=>
                            /\ Dist(rdHead, ScanPos) <= Dist(rdHead, i)
                            /\ Dist(rdHead, i) < Dist(rdHead, hw)
    BY <1>1, <1>3 DEF ResultsMarked, Ahead
  <2>1. Dist(rdHead, i) = IF Dist(head, rdHead) <= Dist(head, i)
                          THEN Dist(head, i) - Dist(head, rdHead)
                          ELSE Dist(head, i) - Dist(head, rdHead) + NumBlocks
    BY DistRebase DEF DataOK
  <2> QED
    BY <1>1, <1>2, <1>3, <2>1, DistRange, RingAssumption
    DEF RingAssumption, Ring, ResultsMarked, Ahead, DataOK
<1> QED
  BY <1>4, <1>5, <1>6 DEF Ring

\* The other steps move no position: interrupts, waits, the ends of loops.
LEMMA QuietSteps ==
    ASSUME run = TRUE, Ring, PollerAlone,
           \/ HwFail \/ EvtChannelInterruptIsr \/ EvtChannelInterruptDpc
           \/ ProcessRingScanned \/ ProcessRingSignal \/ DpcFinish
           \/ \E n \in ReadLengths : EvtIoReadEngineRing(n)
           \/ WaitSignalled \/ WaitTimeout
           \/ PollError \/ PollNothing \/ PollCompleted \/ PollFinish
           \/ CopyDone \/ CheckHead \/ ClearEvent
    PROVE  Ring'
<1> USE DEF hwVars, memVars, procVars, rdVars, Copying, ReadPos, Scanning, ScanPos
<1>1. CASE HwFail
  BY <1>1, Frame DEF HwFail
<1>2. CASE EvtChannelInterruptIsr
  BY <1>2, Frame DEF EvtChannelInterruptIsr
<1>3. CASE EvtChannelInterruptDpc
  BY <1>3, Frame DEF EvtChannelInterruptDpc, ProcessRingBegin
<1>4. CASE ProcessRingScanned
  BY <1>4, Frame DEF ProcessRingScanned
<1>5. CASE ProcessRingSignal
  BY <1>5, Frame DEF ProcessRingSignal
<1>6. CASE DpcFinish
  BY <1>6, Frame DEF DpcFinish, ProcessRingEnd
<1>7. ASSUME NEW n \in ReadLengths, EvtIoReadEngineRing(n)
      PROVE  Ring'
  BY <1>7, Frame DEF EvtIoReadEngineRing
<1>8. CASE WaitSignalled
  BY <1>8, Frame DEF WaitSignalled
<1>9. CASE WaitTimeout
  BY <1>9, Frame DEF WaitTimeout, CompleteRead, Ring, PositionsOrdered
<1>10. CASE PollError
  BY <1>10, Frame DEF PollError, CompleteRead, Ring, PositionsOrdered
<1>11. CASE PollNothing
  BY <1>11, Frame DEF PollNothing, PollNext
<1>12. CASE PollCompleted
  BY <1>12, Frame DEF PollCompleted, ProcessRingBegin
<1>13. CASE PollFinish
  BY <1>13, Frame DEF PollFinish, PollNext, ProcessRingEnd, PollerAlone
<1>14. CASE CopyDone
  BY <1>14, Frame DEF CopyDone
<1>15. CASE CheckHead
  BY <1>15, Frame DEF CheckHead
<1>16. CASE ClearEvent
  BY <1>16, Frame DEF ClearEvent
<1> QED
  BY <1>1, <1>2, <1>3, <1>4, <1>5, <1>6, <1>7, <1>8, <1>9, <1>10, <1>11, <1>12, <1>13,
     <1>14, <1>15, <1>16

LEMMA RunningRing ==
    ASSUME TypeOK, run = TRUE, Ring, PollerAlone, Next, disturbed' = FALSE,
           ~EvtDeviceFileCreate, ~EvtFileCleanup
    PROVE  Ring'
<1> USE DEF TypeOK
<1>0. ~(\E len \in 1 .. BlockSize, eop \in BOOLEAN, i \in Slots : HwFillLate(i, len, eop))
  BY DEF HwFillLate
<1>1. CASE \E len \in 1 .. BlockSize, eop \in BOOLEAN : HwFill(len, eop)
  BY <1>1, FillStep
<1>2. CASE ProcessRing
  BY <1>2, ScanStep, PublishStep, QuietSteps DEF ProcessRing
<1>3. CASE Reader
  BY <1>3, SnapshotStep, CopyStep, StoreStep, QuietSteps DEF Reader
<1> QED
  BY <1>0, <1>1, <1>2, <1>3, QuietSteps DEF Next

\* An open that finds nothing left behind starts at the first slot, and what
\* is left of the last reader and of the last completion work is there too.
LEMMA OpenStep ==
    ASSUME DataOK, run = FALSE, handles = 0, ClosedRingEmpty, ~Copying => numDesc = 0,
           EvtDeviceFileCreate, ~LeftBehind
    PROVE  run' = TRUE /\ handles' = 1 /\ Ring'
<1> USE DEF EvtDeviceFileCreate, EngineRingProgramDma, ClosedRingEmpty, memVars, procVars,
        rdVars
<1>1. run' = TRUE /\ handles' = 1
  OBVIOUS
<1>2. /\ credits' = NumBlocks - 1 /\ head' = 0 /\ tail' = 0 /\ hw' = 0
      /\ length' = length /\ status' = status
  BY RingAssumption DEF RingAssumption, LeftBehind, DataOK
<1>3. /\ numDesc' = 0 /\ ReadPos' = 0 /\ ScanPos' = 0
      /\ Copying' => rdHead' = 0 /\ rdTail' = 0
  BY DEF Copying, ReadPos, Scanning, ScanPos, LeftBehind
<1>4. Dist(0, 0) = 0 /\ \A i \in Slots : Dist(0, i) >= 0
  BY RingAssumption DEF RingAssumption, Dist, Slots
<1>5. Balanced'
  BY <1>2, <1>4, RingAssumption DEF RingAssumption, Balanced
<1>6. PositionsOrdered'
  BY <1>2, <1>3, <1>4 DEF PositionsOrdered, Ahead
<1>7. ResultsMarked'
  <2>1. \A i \in Slots : Dist(head', i) >= 0 /\ Dist(head', i) \in Int /\ Dist(head', hw') = 0
    BY <1>2, <1>4, RingAssumption DEF RingAssumption, Dist, Slots
  <2>2. \A i \in Slots : length'[i] = 0 /\ status'[i] = "none"
    BY <1>2
  <2> QED
    BY <2>1, <2>2 DEF ResultsMarked, Ahead
<1> QED
  BY <1>1, <1>5, <1>6, <1>7 DEF Ring

\* Teardown clears every result, whatever was in the ring.
LEMMA CloseStep ==
    ASSUME handles = 1, EvtFileCleanup
    PROVE  run' = FALSE /\ handles' = 0 /\ ClosedRingEmpty'
  BY DEF EvtFileCleanup, EngineClearDmaResults, ClosedRingEmpty, Slots

\* In a closed ring the completion work and the reader find nothing.
LEMMA ClosedRing ==
    ASSUME DataOK, run = FALSE, handles = 0, ClosedRingEmpty, Next, disturbed' = FALSE,
           ~EvtDeviceFileCreate
    PROVE  run' = FALSE /\ handles' = 0 /\ ClosedRingEmpty'
<1> USE DEF ClosedRingEmpty, hwVars, memVars
<1>1. ~EvtFileCleanup /\ ~HwFail
  BY DEF EvtFileCleanup, HwFail
<1>2. /\ ~(\E len \in 1 .. BlockSize, eop \in BOOLEAN : HwFill(len, eop))
      /\ ~(\E len \in 1 .. BlockSize, eop \in BOOLEAN, i \in Slots : HwFillLate(i, len, eop))
  BY DEF HwFill, HwFillLate
<1>3. ~(\E n \in ReadLengths : EvtIoReadEngineRing(n))
  BY DEF EvtIoReadEngineRing
<1>4. CASE EvtChannelInterruptIsr \/ EvtChannelInterruptDpc
  BY <1>4 DEF EvtChannelInterruptIsr, EvtChannelInterruptDpc
<1>5. ~ProcessRingScan /\ ~CopyBlock
  BY DEF ProcessRingScan, CopyBlock, DataOK
<1>6. CASE ProcessRing
  BY <1>5, <1>6 DEF ProcessRing, ProcessRingScanned, ProcessRingPublish, ProcessRingSignal,
                    DpcFinish
<1>7. CASE Reader
  <2>1. CASE WaitSignalled \/ WaitTimeout \/ PollError \/ PollNothing
    BY <2>1 DEF WaitSignalled, WaitTimeout, PollError, PollNothing
  <2>2. CASE PollCompleted \/ PollFinish \/ Snapshot \/ CopyDone
    BY <2>2 DEF PollCompleted, PollFinish, Snapshot, CopyDone
  <2>3. CASE CheckHead \/ ClearEvent \/ StoreHead
    BY <2>3 DEF CheckHead, ClearEvent, StoreHead
  <2> QED
    BY <1>5, <1>7, <2>1, <2>2, <2>3 DEF Reader
<1> QED
  BY <1>1, <1>2, <1>3, <1>4, <1>6, <1>7 DEF Next

\* Only a reader that copies has counted descriptors.
LEMMA CountStep ==
    ASSUME ~Copying => numDesc = 0, PollerAlone, Next
    PROVE  ~Copying' => numDesc' = 0
<1> USE DEF Copying, rdVars
<1>1. ASSUME NEW len \in 1 .. BlockSize, NEW eop \in BOOLEAN, HwFill(len, eop)
      PROVE  ~Copying' => numDesc' = 0
  BY <1>1 DEF HwFill
<1>2. ASSUME NEW len \in 1 .. BlockSize, NEW eop \in BOOLEAN, NEW i \in Slots,
             HwFillLate(i, len, eop)
      PROVE  ~Copying' => numDesc' = 0
  BY <1>2 DEF HwFillLate
<1>3. CASE HwFail \/ EvtDeviceFileCreate \/ EvtFileCleanup
  BY <1>3 DEF HwFail, EvtDeviceFileCreate, EvtFileCleanup
<1>4. CASE EvtChannelInterruptIsr \/ EvtChannelInterruptDpc
  BY <1>4 DEF EvtChannelInterruptIsr, EvtChannelInterruptDpc
<1>5. CASE ProcessRing
  BY <1>5 DEF ProcessRing, ProcessRingScan, ProcessRingScanned, ProcessRingPublish,
              ProcessRingSignal, DpcFinish
<1>6. ASSUME NEW n \in ReadLengths, EvtIoReadEngineRing(n)
      PROVE  ~Copying' => numDesc' = 0
  BY <1>6 DEF EvtIoReadEngineRing
<1>7. CASE Reader
  <2>1. CASE WaitSignalled \/ WaitTimeout \/ PollError \/ PollNothing
    BY <2>1 DEF WaitSignalled, WaitTimeout, PollError, PollNothing, CompleteRead
  <2>2. CASE PollCompleted
    BY <2>2 DEF PollCompleted
  <2>3. CASE PollFinish
    BY <2>3 DEF PollFinish, PollerAlone
  <2>4. CASE Snapshot \/ CopyBlock \/ CopyDone \/ CheckHead \/ ClearEvent
    BY <2>4 DEF Snapshot, CopyBlock, CopyDone, CheckHead, ClearEvent
  <2>5. CASE StoreHead
    BY <2>5 DEF StoreHead, CompleteRead
  <2> QED
    BY <1>7, <2>1, <2>2, <2>3, <2>4, <2>5 DEF Reader
<1> QED
  BY <1>1, <1>2, <1>3, <1>4, <1>5, <1>6, <1>7 DEF Next

-----------------------------------------------------------------------------
(* Interrupts and polling.                                                 *)

\* A channel is only masked with its DPC queued or running.
LEMMA ArmedStep ==
    ASSUME ChannelArmed, Next
    PROVE  ChannelArmed'
<1> USE DEF ChannelArmed, procVars, hwVars
<1>1. ASSUME NEW len \in 1 .. BlockSize, NEW eop \in BOOLEAN, HwFill(len, eop)
      PROVE  ChannelArmed'
  BY <1>1 DEF HwFill
<1>2. ASSUME NEW len \in 1 .. BlockSize, NEW eop \in BOOLEAN, NEW i \in Slots,
             HwFillLate(i, len, eop)
      PROVE  ChannelArmed'
  BY <1>2 DEF HwFillLate
<1>3. CASE HwFail \/ EvtDeviceFileCreate \/ EvtFileCleanup
  <2>1. CASE HwFail \/ EvtFileCleanup
    BY <2>1 DEF HwFail, EvtFileCleanup
  <2>2. CASE EvtDeviceFileCreate
    BY <2>2, Zenon DEF EvtDeviceFileCreate
  <2> QED
    BY <1>3, <2>1, <2>2
<1>4. CASE EvtChannelInterruptIsr \/ EvtChannelInterruptDpc
  BY <1>4 DEF EvtChannelInterruptIsr, EvtChannelInterruptDpc, ProcessRingBegin
<1>5. CASE ProcessRing
  BY <1>5 DEF ProcessRing, ProcessRingScan, ProcessRingScanned, ProcessRingPublish,
              ProcessRingSignal, DpcFinish
<1>6. ASSUME NEW n \in ReadLengths, EvtIoReadEngineRing(n)
      PROVE  ChannelArmed'
  BY <1>6 DEF EvtIoReadEngineRing
<1>7. CASE Reader
  <2>1. CASE WaitSignalled \/ WaitTimeout \/ PollError \/ PollNothing
    BY <2>1 DEF WaitSignalled, WaitTimeout, PollError, PollNothing
  <2>2. CASE PollCompleted \/ PollFinish
    BY <2>2 DEF PollCompleted, PollFinish, ProcessRingBegin
  <2>3. CASE Snapshot \/ CopyBlock \/ CopyDone
    BY <2>3 DEF Snapshot, CopyBlock, CopyDone
  <2>4. CASE CheckHead \/ ClearEvent \/ StoreHead
    BY <2>4 DEF CheckHead, ClearEvent, StoreHead
  <2> QED
    BY <1>7, <2>1, <2>2, <2>3, <2>4 DEF Reader
<1> QED
  BY <1>1, <1>2, <1>3, <1>4, <1>5, <1>6, <1>7 DEF Next

\* What a scan leaves behind requests the interrupt again.
LEMMA RequestStep ==
    ASSUME DataOK, RequestRaised, ~run => ClosedRingEmpty, Next,
           EvtDeviceFileCreate => run = FALSE
    PROVE  RequestRaised'
<1> USE DEF RequestRaised, hwVars, memVars, procVars, rdVars, Scanning, ScanPos
<1>1. ASSUME NEW len \in 1 .. BlockSize, NEW eop \in BOOLEAN, HwFill(len, eop)
      PROVE  RequestRaised'
  BY <1>1 DEF HwFill, HwWrite
<1>2. ASSUME NEW len \in 1 .. BlockSize, NEW eop \in BOOLEAN, NEW i \in Slots,
             HwFillLate(i, len, eop)
      PROVE  RequestRaised'
  BY <1>2 DEF HwFillLate, HwWrite
<1>3. CASE HwFail
  BY <1>3 DEF HwFail
<1>4. CASE EvtDeviceFileCreate
  <2>1. status'[ScanPos'] = "none"
    BY <1>4, RingAssumption DEF RingAssumption, EvtDeviceFileCreate, ClosedRingEmpty, Slots, DataOK
  <2> QED
    BY <2>1
<1>5. CASE EvtFileCleanup
  BY <1>5 DEF EvtFileCleanup
<1>6. CASE EvtChannelInterruptIsr \/ EvtChannelInterruptDpc
  BY <1>6 DEF EvtChannelInterruptIsr, EvtChannelInterruptDpc, ProcessRingBegin
<1>7. CASE ProcessRing
  <2>1. CASE ProcessRingScan
    BY <2>1 DEF ProcessRingScan
  <2>2. CASE ProcessRingScanned
    BY <2>2 DEF ProcessRingScanned
  <2>3. CASE ProcessRingPublish
    BY <2>3 DEF ProcessRingPublish
  <2>4. CASE ProcessRingSignal
    BY <2>4 DEF ProcessRingSignal
  <2>5. CASE DpcFinish
    BY <2>5 DEF DpcFinish, ProcessRingEnd
  <2> QED
    BY <1>7, <2>1, <2>2, <2>3, <2>4, <2>5 DEF ProcessRing
<1>8. ASSUME NEW n \in ReadLengths, EvtIoReadEngineRing(n)
      PROVE  RequestRaised'
  BY <1>8 DEF EvtIoReadEngineRing
<1>9. CASE Reader
  <2>1. CASE WaitSignalled \/ WaitTimeout \/ PollError \/ PollNothing
    BY <2>1 DEF WaitSignalled, WaitTimeout, PollError, PollNothing
  <2>2. CASE PollCompleted \/ PollFinish
    BY <2>2 DEF PollCompleted, PollFinish, ProcessRingBegin
  <2>3. CASE Snapshot \/ CheckHead
    BY <2>3 DEF Snapshot, CheckHead
  <2>4. CASE CopyBlock
    BY <2>4 DEF CopyBlock
  <2>5. CASE CopyDone
    BY <2>5 DEF CopyDone
  <2>6. CASE ClearEvent \/ StoreHead
    BY <2>6 DEF ClearEvent, StoreHead
  <2> QED
    BY <1>9, <2>1, <2>2, <2>3, <2>4, <2>5, <2>6 DEF Reader
<1> HIDE DEF RequestRaised
<1> QED
  BY <1>1, <1>2, <1>3, <1>4, <1>5, <1>6, <1>7, <1>8, <1>9 DEF Next

\* Polled channels stay masked, and only their reader runs the completion work.
LEMMA PollerStep ==
    ASSUME PollerAlone, Next
    PROVE  PollerAlone'
<1> USE DEF PollerAlone, hwVars, memVars, procVars, rdVars
<1>1. ASSUME NEW len \in 1 .. BlockSize, NEW eop \in BOOLEAN, HwFill(len, eop)
      PROVE  PollerAlone'
  BY <1>1 DEF HwFill, HwWrite
<1>7. ASSUME NEW len \in 1 .. BlockSize, NEW eop \in BOOLEAN, NEW i \in Slots,
             HwFillLate(i, len, eop)
      PROVE  PollerAlone'
  BY <1>7 DEF HwFillLate, HwWrite
<1>2. CASE HwFail \/ EvtDeviceFileCreate \/ EvtFileCleanup
  BY <1>2
  DEF HwFail, EvtDeviceFileCreate, EngineRingProgramDma, EvtFileCleanup, EngineClearDmaResults
<1>3. CASE EvtChannelInterruptIsr \/ EvtChannelInterruptDpc
  BY <1>3 DEF EvtChannelInterruptIsr, EvtChannelInterruptDpc, ProcessRingBegin
<1>4. CASE ProcessRing
  BY <1>4 DEF ProcessRing, ProcessRingScan, ProcessRingScanned, ProcessRingPublish,
              ProcessRingSignal, DpcFinish, ProcessRingEnd
<1>5. ASSUME NEW n \in ReadLengths, EvtIoReadEngineRing(n)
      PROVE  PollerAlone'
  BY <1>5 DEF EvtIoReadEngineRing
<1>6. CASE Reader
  <2>1. CASE WaitSignalled \/ WaitTimeout \/ PollError \/ PollNothing
    BY <2>1 DEF WaitSignalled, WaitTimeout, PollError, PollNothing, CompleteRead, PollNext
  <2>2. CASE PollCompleted
    BY <2>2 DEF PollCompleted, ProcessRingBegin
  <2>3. CASE PollFinish
    BY <2>3 DEF PollFinish, ProcessRingEnd, PollNext
  <2>4. CASE Snapshot \/ CopyBlock \/ CopyDone \/ CheckHead \/ ClearEvent \/ StoreHead
    BY <2>4 DEF Snapshot, CopyBlock, CopyDone, CheckHead, ClearEvent, StoreHead, CompleteRead
  <2> QED
    BY <1>6, <2>1, <2>2, <2>3, <2>4 DEF Reader
<1> QED
  BY <1>1, <1>2, <1>3, <1>4, <1>5, <1>6, <1>7 DEF Next

-----------------------------------------------------------------------------
(* The inductive invariant and what follows from it.                       *)

LEMMA RingInvInit == ASSUME Init PROVE RingInv
<1>1. FlagsOK
  BY DEF Init, FlagsOK
<1>2. DataOK
  BY RingAssumption DEF RingAssumption, Init, DataOK, Slots, ProcStates, RdStates
<1> QED
  BY <1>1, <1>2
  DEF Init, TypeOK, RingInv, RingOrdered, ClosedRingEmpty, ChannelArmed, RequestRaised,
      PollerAlone, Slots

\* What is disturbed stays disturbed.
LEMMA DisturbedStep ==
    ASSUME FlagsOK, [Next]_vars, disturbed' = FALSE
    PROVE  disturbed = FALSE
<1>1. ASSUME NEW len \in 1 .. BlockSize, NEW eop \in BOOLEAN, HwFill(len, eop)
      PROVE  disturbed' = disturbed
  BY <1>1 DEF HwFill
<1>2. ASSUME NEW len \in 1 .. BlockSize, NEW eop \in BOOLEAN, NEW i \in Slots,
             HwFillLate(i, len, eop)
      PROVE  FALSE
  BY <1>2 DEF HwFillLate
<1>3. CASE EvtDeviceFileCreate
  BY <1>3 DEF EvtDeviceFileCreate, FlagsOK
<1>4. CASE EvtChannelInterruptIsr
  BY <1>4 DEF EvtChannelInterruptIsr, FlagsOK
<1>5. CASE HwFail \/ EvtFileCleanup \/ EvtChannelInterruptDpc
  BY <1>5 DEF HwFail, EvtFileCleanup, EvtChannelInterruptDpc
<1>6. CASE ProcessRing
  BY <1>6 DEF ProcessRing, ProcessRingScan, ProcessRingScanned, ProcessRingPublish,
              ProcessRingSignal, DpcFinish
<1>7. ASSUME NEW n \in ReadLengths, EvtIoReadEngineRing(n)
      PROVE  disturbed' = disturbed
  BY <1>7 DEF EvtIoReadEngineRing
<1>8. CASE Reader
  BY <1>8 DEF Reader, WaitSignalled, WaitTimeout, PollError, PollNothing, PollCompleted,
              PollFinish, Snapshot, CopyBlock, CopyDone, CheckHead, ClearEvent, StoreHead
<1>9. CASE UNCHANGED vars
  BY <1>9 DEF vars
<1> QED
  BY <1>1, <1>2, <1>3, <1>4, <1>5, <1>6, <1>7, <1>8, <1>9 DEF Next

\* An open that does not disturb the ring finds it closed, with nothing left.
LEMMA CleanOpen ==
    ASSUME TypeOK, RingOrdered, EvtDeviceFileCreate, disturbed' = FALSE
    PROVE  run = FALSE /\ ~LeftBehind
<1>1. disturbed' = (disturbed \/ handles > 0 \/ LeftBehind)
  BY DEF EvtDeviceFileCreate
<1>2. ~(handles > 0) /\ ~LeftBehind
  BY <1>1, Zenon
<1>3. run = FALSE
  BY <1>2 DEF RingOrdered, TypeOK, FlagsOK
<1> QED
  BY <1>2, <1>3

LEMMA OrderedStep ==
    ASSUME TypeOK, PollerAlone, RingOrdered, Next, disturbed' = FALSE
    PROVE  RingOrdered'
<1>1. EvtDeviceFileCreate => run = FALSE /\ ~LeftBehind
  BY CleanOpen
<1>2. EvtFileCleanup => run = TRUE
  BY DEF EvtFileCleanup, RingOrdered, TypeOK, FlagsOK
<1>3. RequestRaised'
  BY <1>1, RequestStep DEF RingOrdered, TypeOK
<1>4. ~Copying' => numDesc' = 0
  BY CountStep DEF RingOrdered
<1>5. /\ run' => handles' = 1 /\ Ring'
      /\ ~run' => handles' = 0 /\ ClosedRingEmpty'
  <2>1. CASE EvtDeviceFileCreate
    BY <1>1, <2>1, OpenStep DEF RingOrdered, TypeOK
  <2>2. CASE EvtFileCleanup
    BY <1>2, <2>2, CloseStep DEF RingOrdered
  <2>3. CASE run = TRUE /\ ~EvtDeviceFileCreate /\ ~EvtFileCleanup
    <3>1. Ring'
      BY <2>3, RunningRing DEF RingOrdered, Ring
    <3>2. run' = run /\ handles' = handles
      BY <2>3
      DEF Next, HwFill, HwFillLate, HwFail, EvtChannelInterruptIsr, EvtChannelInterruptDpc,
          ProcessRing, ProcessRingScan, ProcessRingScanned, ProcessRingPublish,
          ProcessRingSignal, DpcFinish, EvtIoReadEngineRing, Reader, WaitSignalled,
          WaitTimeout, PollError, PollNothing, PollCompleted, PollFinish, Snapshot,
          CopyBlock, CopyDone, CheckHead, ClearEvent, StoreHead, hwVars
    <3> QED
      BY <2>3, <3>1, <3>2 DEF RingOrdered
  <2>4. CASE run = FALSE /\ ~EvtDeviceFileCreate
    BY <2>4, ClosedRing DEF RingOrdered, TypeOK
  <2> QED
    BY <2>1, <2>2, <2>3, <2>4 DEF TypeOK, FlagsOK
<1> QED
  BY <1>3, <1>4, <1>5 DEF RingOrdered, Ring

LEMMA RingInvStep ==
    ASSUME RingInv, [Next]_vars
    PROVE  RingInv'
<1>1. TypeOK'
  BY FlagsStep, DataStep DEF RingInv, TypeOK
<1>2. CASE Next
  <2>1. ChannelArmed' /\ PollerAlone'
    BY <1>2, ArmedStep, PollerStep DEF RingInv
  <2>2. ~disturbed' => RingOrdered'
    <3> SUFFICES ASSUME disturbed' = FALSE
                 PROVE  RingOrdered'
      BY <1>1 DEF TypeOK, FlagsOK
    <3>1. disturbed = FALSE
      BY DisturbedStep DEF RingInv, TypeOK
    <3> QED
      BY <1>2, <3>1, OrderedStep DEF RingInv
  <2> QED
    BY <1>1, <2>1, <2>2 DEF RingInv
<1>3. CASE UNCHANGED vars
  BY <1>1, <1>3
  DEF vars, hwVars, memVars, procVars, rdVars, RingInv, RingOrdered, Balanced,
      PositionsOrdered, ResultsMarked, ClosedRingEmpty, ChannelArmed, RequestRaised,
      PollerAlone, Ahead, Copying, ReadPos, Scanning, ScanPos
<1> QED
  BY <1>2, <1>3

\* Until it is disturbed the ring keeps its order through every interleaving of
\* card, DPC, polling, reader, closes and opens.
THEOREM RingInvariant == Spec => []RingInv
<1>1. RingInv /\ [Next]_vars => RingInv'
  BY RingInvStep
<1>2. Init => RingInv
  BY RingInvInit
<1> QED
  BY <1>1, <1>2, PTL DEF Spec

\* No credit is lost or invented, so the hardware never runs out of its lease.
THEOREM CreditsBalance == Spec => []CreditBalance
<1>1. RingInv => CreditBalance
  BY DEF RingInv, RingOrdered, CreditBalance
<1> QED
  BY <1>1, RingInvariant, PTL

\* The slot the hardware writes next is read and scanned, until a result is
\* written late, a second handle is opened or an open finds something left.
THEOREM NeverOverrun == Spec => []NoOverrun
<1>1. ASSUME RingInv, ~disturbed, run, credits > 0
      PROVE  length[hw] = 0 /\ status[hw] = "none"
  <2>1. DataOK /\ ResultsMarked
    BY <1>1 DEF RingInv, RingOrdered, TypeOK
  <2>2. Ahead(hw) \in Int /\ ~(Ahead(hw) < Ahead(hw))
    BY <2>1, DistRange DEF DataOK, Ahead
  <2> QED
    BY <2>1, <2>2 DEF DataOK, ResultsMarked
<1>2. RingInv => NoOverrun
  BY <1>1 DEF NoOverrun
<1> QED
  BY <1>2, RingInvariant, PTL

\* No completion waits without an interrupt on its way.
THEOREM NeverSilent == Spec => []NoSilentCompletion
<1>1. RingInv => NoSilentCompletion
  BY DEF RingInv, RingOrdered, ChannelArmed, RequestRaised, NoSilentCompletion, Scanning,
         ScanPos
<1> QED
  BY <1>1, RingInvariant, PTL

-----------------------------------------------------------------------------
(* The ring implements the bounded FIFO.                                   *)

\* The slot d advances after slot a.
Turn(a, d) == IF a + d < NumBlocks THEN a + d ELSE a + d - NumBlocks

LEMMA WrapAround ==
    ASSUME NEW n \in Nat, NEW x \in Nat, n > 0, x < n + n
    PROVE  x % n = IF x < n THEN x ELSE x - n
<1>1. CASE x < n
  BY <1>1
<1>2. CASE x >= n
  <2> DEFINE q == x \div n
  <2>1. x = n * q + (x % n) /\ x % n \in 0 .. n - 1 /\ q \in Int
    OBVIOUS
  <2>2. q < 2
    <3> SUFFICES ASSUME q >= 2 PROVE FALSE
      BY <2>1
    <3>1. n * q >= n * 2
      BY <2>1
    <3> QED
      BY <2>1, <3>1
  <2>3. q > 0
    BY <1>2, <2>1
  <2> QED
    BY <1>2, <2>1, <2>2, <2>3
<1> QED
  BY <1>1, <1>2

LEMMA TurnIsMod ==
    ASSUME NEW a \in Slots, NEW d \in 0 .. NumBlocks - 1
    PROVE  (a + d) % NumBlocks = Turn(a, d) /\ Turn(a, d) \in Slots
  BY WrapAround, RingAssumption DEF RingAssumption, Slots, Turn

LEMMA TurnDist ==
    ASSUME NEW a \in Slots, NEW d \in 0 .. NumBlocks - 1
    PROVE  Dist(a, Turn(a, d)) = d
  BY RingAssumption DEF RingAssumption, Slots, Turn, Dist

\* What waits in a running ring, slot by slot.
WaitingBySlot ==
    /\ Waiting \in Seq(Nat)
    /\ Len(Waiting) = Dist(ReadPos, hw)
    /\ \A k \in 1 .. Dist(ReadPos, hw) : Waiting[k] = block[Turn(ReadPos, k - 1)]

LEMMA WaitingShape == DataOK /\ run = TRUE => WaitingBySlot
<1> SUFFICES ASSUME DataOK, run = TRUE
             PROVE  WaitingBySlot
  OBVIOUS
<1>1. ReadPos \in Slots /\ hw \in Slots
  BY DEF DataOK, ReadPos
<1>2. Dist(ReadPos, hw) \in 0 .. NumBlocks - 1 /\ Dist(ReadPos, hw) \in Nat
  BY <1>1, DistRange, RingAssumption DEF RingAssumption
<1>3. Waiting = [k \in 1 .. Dist(ReadPos, hw) |-> block[(ReadPos + k - 1) % NumBlocks]]
  BY DEF Waiting
<1>4. ASSUME NEW k \in 1 .. Dist(ReadPos, hw)
      PROVE  /\ (ReadPos + k - 1) % NumBlocks = Turn(ReadPos, k - 1)
             /\ Turn(ReadPos, k - 1) \in Slots
  <2>1. k - 1 \in 0 .. NumBlocks - 1 /\ ReadPos + (k - 1) = ReadPos + k - 1
    BY <1>1, <1>2, RingAssumption DEF RingAssumption, Slots
  <2> QED
    BY <1>1, <2>1, TurnIsMod
<1>5. \A k \in 1 .. Dist(ReadPos, hw) :
          /\ block[(ReadPos + k - 1) % NumBlocks] = block[Turn(ReadPos, k - 1)]
          /\ block[(ReadPos + k - 1) % NumBlocks] \in Nat
  BY <1>4 DEF DataOK
<1>6. Waiting \in [1 .. Dist(ReadPos, hw) -> Nat]
  BY <1>3, <1>5
<1> QED
  BY <1>2, <1>3, <1>5, <1>6 DEF WaitingBySlot

LEMMA WaitingShapeNext == DataOK' /\ run' = TRUE => WaitingBySlot'
<1>1. (DataOK /\ run = TRUE)' => WaitingBySlot'
  BY WaitingShape, PTL
<1> QED
  BY <1>1

\* A filled block joins at the end: the credits keep a place free for it.
LEMMA FillProduces ==
    ASSUME RingInv, RingInv', disturbed = FALSE,
           NEW len \in 1 .. BlockSize, NEW eop \in BOOLEAN, HwFill(len, eop)
    PROVE  Fifo!Produce
<1> DEFINE a == ReadPos
           n == Dist(ReadPos, hw)
<1>1. /\ run = TRUE /\ run' = TRUE /\ DataOK /\ DataOK' /\ Balanced /\ PositionsOrdered
      /\ credits > 0 /\ hw' = EngineRingAdvance(hw) /\ ReadPos' = ReadPos
      /\ filled' = filled + 1 /\ taken' = taken
      /\ block' = [block EXCEPT ![hw] = filled + 1]
  BY DEF RingInv, RingOrdered, TypeOK, FlagsOK, HwFill, HwWrite, ReadPos, Copying, rdVars
<1>2. a \in Slots /\ hw \in Slots
  BY <1>1, PositionsInRing DEF DataOK
<1>3. n < NumBlocks - 1 /\ n \in Nat
  <2>1. /\ credits + Dist(head, hw) = NumBlocks - 1
        /\ Dist(head, a) <= Dist(head, hw)
        /\ Dist(head, a) \in Nat /\ Dist(head, hw) \in 0 .. NumBlocks - 1
    BY <1>1, PositionsInRing DEF Balanced, Ahead
  <2>2. n = Dist(head, hw) - Dist(head, a)
    BY <1>1, <1>2, <2>1, DistRebase DEF DataOK
  <2> QED
    BY <1>1, <2>1, <2>2, RingAssumption DEF RingAssumption, DataOK
<1>4. Dist(a, hw') = n + 1
  BY <1>1, <1>2, <1>3, DistAdvance
<1>5. /\ Waiting \in Seq(Nat) /\ Len(Waiting) = n
      /\ \A k \in 1 .. n : Waiting[k] = block[Turn(a, k - 1)]
  BY <1>1, WaitingShape DEF WaitingBySlot
<1>6. /\ Waiting' \in Seq(Nat) /\ Len(Waiting') = n + 1
      /\ \A k \in 1 .. n + 1 : Waiting'[k] = block'[Turn(a, k - 1)]
  <2>1. WaitingBySlot'
    BY <1>1, WaitingShapeNext
  <2> QED
    BY <1>1, <1>4, <2>1 DEF WaitingBySlot
<1>7. filled + 1 \in Nat
  BY <1>1 DEF DataOK
<1> DEFINE s == Append(Waiting, filled + 1)
<1>8. /\ s \in Seq(Nat) /\ Len(s) = n + 1 /\ s[n + 1] = filled + 1
      /\ \A k \in 1 .. n : s[k] = Waiting[k]
  BY <1>5, <1>7, AppendProperties
<1>9. \A k \in 1 .. n + 1 : Waiting'[k] = s[k]
  <2> SUFFICES ASSUME NEW k \in 1 .. n + 1
               PROVE  Waiting'[k] = s[k]
    OBVIOUS
  <2>0. k \in Int /\ k - 1 \in 0 .. NumBlocks - 1
    BY <1>3, RingAssumption DEF RingAssumption
  <2>1. Turn(a, k - 1) \in Slots /\ Dist(a, Turn(a, k - 1)) = k - 1
    BY <1>2, <2>0, TurnIsMod, TurnDist
  <2>2. Waiting'[k] = block'[Turn(a, k - 1)]
    BY <1>6
  <2>3. CASE k = n + 1
    <3>1. Turn(a, k - 1) = hw
      BY <1>2, <1>3, <2>1, <2>3, DistInjective
    <3>2. block'[hw] = filled + 1
      BY <1>1, <1>2 DEF DataOK
    <3> QED
      BY <1>8, <2>2, <2>3, <3>1, <3>2
  <2>4. CASE k # n + 1
    <3>1. k \in 1 .. n
      BY <1>3, <2>0, <2>4
    <3>2. Turn(a, k - 1) # hw
      BY <1>3, <2>1, <3>1
    <3>3. block'[Turn(a, k - 1)] = block[Turn(a, k - 1)]
      BY <1>1, <2>1, <3>2 DEF DataOK
    <3> QED
      BY <1>5, <1>8, <2>2, <3>1, <3>3
  <2> QED
    BY <2>3, <2>4
<1>10. Waiting' = s
  BY <1>6, <1>8, <1>9, SeqEqual
<1> QED
  BY <1>1, <1>3, <1>5, <1>10 DEF Fifo!Produce

\* The block copied is the oldest that waits.
LEMMA CopyConsumes ==
    ASSUME RingInv, RingInv', disturbed = FALSE, CopyBlock
    PROVE  Fifo!Consume
<1> DEFINE n == Dist(rdHead, hw)
<1>1. /\ run = TRUE /\ run' = TRUE /\ DataOK /\ DataOK' /\ PositionsOrdered
      /\ Copying /\ Copying' /\ hw' = hw /\ block' = [block EXCEPT ![rdHead] = 0]
      /\ filled' = filled
      /\ rdHead # rdTail /\ rdHead' = EngineRingAdvance(rdHead) /\ taken' = block[rdHead]
  <2>1. run = TRUE
    BY DEF RingInv, RingOrdered, TypeOK, FlagsOK, DataOK, ClosedRingEmpty, CopyBlock
  <2> QED
    BY <2>1 DEF RingInv, RingOrdered, TypeOK, CopyBlock, Copying, hwVars
<1>2. ReadPos = rdHead /\ ReadPos' = rdHead' /\ rdHead \in Slots /\ hw \in Slots
  BY <1>1 DEF ReadPos, DataOK
<1>3. n > 0 /\ n \in 0 .. NumBlocks - 1
  <2>1. Dist(head, rdHead) # Dist(head, rdTail)
    BY <1>1, DistInjective DEF DataOK
  <2>2. Dist(head, rdHead) < Dist(head, hw)
    BY <1>1, <2>1, PositionsInRing, DistRange DEF PositionsOrdered, Ahead, DataOK
  <2>3. rdHead # hw
    BY <1>1, <2>2, DistRange DEF DataOK
  <2> QED
    BY <1>2, <2>3, DistRange, DistInjective, RingAssumption DEF RingAssumption
<1>4. Dist(rdHead', hw) = n - 1
  BY <1>1, <1>2, <1>3, RingAssumption DEF RingAssumption, Slots, Dist, EngineRingAdvance
<1>5. /\ Waiting \in Seq(Nat) /\ Len(Waiting) = n
      /\ \A k \in 1 .. n : Waiting[k] = block[Turn(rdHead, k - 1)]
  BY <1>1, <1>2, WaitingShape DEF WaitingBySlot
<1>6. /\ Waiting' \in Seq(Nat) /\ Len(Waiting') = n - 1
      /\ \A k \in 1 .. n - 1 : Waiting'[k] = block'[Turn(rdHead', k - 1)]
  <2>1. WaitingBySlot'
    BY <1>1, WaitingShapeNext
  <2> QED
    BY <1>1, <1>2, <1>4, <2>1 DEF WaitingBySlot
<1>7. Waiting # <<>> /\ Head(Waiting) = block[rdHead]
  <2>1. Turn(rdHead, 0) = rdHead
    BY <1>2, RingAssumption DEF RingAssumption, Turn, Slots
  <2>2. Waiting[1] = block[Turn(rdHead, 0)]
    BY <1>3, <1>5
  <2> QED
    BY <1>3, <1>5, <2>1, <2>2
<1>8. /\ Tail(Waiting) \in Seq(Nat) /\ Len(Tail(Waiting)) = n - 1
      /\ \A k \in 1 .. n - 1 : Tail(Waiting)[k] = Waiting[k + 1]
  BY <1>3, <1>5, <1>7, HeadTailProperties
<1>9. \A k \in 1 .. n - 1 : Waiting'[k] = Tail(Waiting)[k]
  <2> SUFFICES ASSUME NEW k \in 1 .. n - 1
               PROVE  Waiting'[k] = Tail(Waiting)[k]
    OBVIOUS
  <2>1. Turn(rdHead', k - 1) = Turn(rdHead, k)
    BY <1>1, <1>2, <1>3, RingAssumption
    DEF RingAssumption, Slots, Turn, EngineRingAdvance
  <2>2. k + 1 \in 1 .. n /\ (k + 1) - 1 = k
    BY <1>3
  <2>6. Turn(rdHead, k) # rdHead /\ Turn(rdHead, k) \in Slots
    <3>1. k \in 0 .. NumBlocks - 1 /\ k > 0
      BY <1>3, RingAssumption DEF RingAssumption
    <3> QED
      BY <1>2, <3>1, TurnDist, TurnIsMod, DistRange
  <2>7. block'[Turn(rdHead, k)] = block[Turn(rdHead, k)]
    BY <1>1, <2>6 DEF DataOK
  <2>3. Waiting'[k] = block[Turn(rdHead, k)]
    BY <1>6, <2>1, <2>7
  <2>4. Tail(Waiting)[k] = Waiting[k + 1]
    BY <1>8
  <2>5. Waiting[k + 1] = block[Turn(rdHead, k)]
    BY <1>5, <2>2
  <2> QED
    BY <2>3, <2>4, <2>5
<1>10. Waiting' = Tail(Waiting)
  BY <1>6, <1>8, <1>9, SeqEqual
<1> QED
  BY <1>1, <1>7, <1>10 DEF Fifo!Consume

\* Opening a ring leaves it empty, closing it drops what was not read.
LEMMA CloseDrops == ASSUME EvtFileCleanup PROVE Fifo!Drop
  BY DEF EvtFileCleanup, Fifo!Drop, Waiting, rdVars

LEMMA OpenKeeps ==
    ASSUME RingInv, RingInv', disturbed = FALSE, disturbed' = FALSE, EvtDeviceFileCreate
    PROVE  UNCHANGED <<Waiting, filled, taken, disturbed>>
<1>1. run = FALSE /\ run' = TRUE /\ DataOK' /\ ~LeftBehind
  BY CleanOpen DEF RingInv, TypeOK, EvtDeviceFileCreate, EngineRingProgramDma
<1>2. ReadPos' = 0 /\ hw' = 0 /\ filled' = filled /\ taken' = taken
  BY <1>1 DEF EvtDeviceFileCreate, EngineRingProgramDma, LeftBehind, ReadPos, Copying, memVars,
              rdVars
<1>3. WaitingBySlot'
  BY <1>1, WaitingShapeNext
<1>4. Dist(ReadPos, hw)' = 0
  BY <1>2 DEF Dist
<1>5. Waiting' = <<>>
  BY <1>3, <1>4 DEF WaitingBySlot
<1> QED
  BY <1>1, <1>2, <1>5 DEF Waiting

\* Every other step leaves the reader's slot, the hardware's and the blocks
\* between them: publishing a head moves what was already copied.
LEMMA OthersKeep ==
    ASSUME RingInv, Next, disturbed = FALSE, disturbed' = FALSE,
           ~EvtDeviceFileCreate, ~EvtFileCleanup, ~CopyBlock,
           ~\E len \in 1 .. BlockSize, eop \in BOOLEAN : HwFill(len, eop)
    PROVE  UNCHANGED <<Waiting, filled, taken, disturbed>>
<1>1. /\ run' = run /\ hw' = hw /\ block' = block /\ filled' = filled /\ taken' = taken
      /\ ReadPos' = ReadPos
  <2> USE DEF hwVars, memVars, procVars, rdVars, Copying, ReadPos
  <2>0. ~\E len \in 1 .. BlockSize, eop \in BOOLEAN, i \in Slots : HwFillLate(i, len, eop)
    BY DEF HwFillLate
  <2>1. CASE HwFail \/ EvtChannelInterruptIsr \/ EvtChannelInterruptDpc
    BY <2>1 DEF HwFail, EvtChannelInterruptIsr, EvtChannelInterruptDpc, ProcessRingBegin
  <2>2. CASE ProcessRing
    BY <2>2 DEF ProcessRing, ProcessRingScan, ProcessRingScanned, ProcessRingPublish,
                ProcessRingSignal, DpcFinish, ProcessRingEnd
  <2>3. CASE \E n \in ReadLengths : EvtIoReadEngineRing(n)
    BY <2>3 DEF EvtIoReadEngineRing
  <2>4. CASE WaitSignalled \/ WaitTimeout \/ PollError \/ PollNothing \/ PollCompleted
    BY <2>4 DEF WaitSignalled, WaitTimeout, PollError, PollNothing, PollCompleted, PollNext,
                CompleteRead, ProcessRingBegin
  <2>5. CASE PollFinish
    BY <2>5 DEF PollFinish, ProcessRingEnd, PollNext, RingInv, PollerAlone
  <2>6. CASE Snapshot \/ CopyDone \/ CheckHead \/ ClearEvent
    BY <2>6 DEF Snapshot, CopyDone, CheckHead, ClearEvent
  <2>7. CASE StoreHead
    BY <2>7 DEF StoreHead, CompleteRead
  <2> QED
    BY <2>0, <2>1, <2>2, <2>3, <2>4, <2>5, <2>6, <2>7 DEF Next, Reader
<1> QED
  BY <1>1 DEF Waiting

\* The ring implements the bounded FIFO of BlockFifo: every block the card
\* fills reaches the reader once, in order, or is dropped by a close that may
\* come at any step, and an open may follow at any step that has nothing left;
\* only a result written late, a second handle or an open that finds something
\* left of the last use breaks the order.
THEOREM RingImplementsFifo == Spec => ImplementsFifo
<1>1. Init => Fifo!Init
  BY DEF Init, Fifo!Init, Waiting
<1>2. ASSUME RingInv, RingInv', [Next]_vars
      PROVE  [Fifo!Next]_<<Waiting, filled, taken, disturbed>>
  <2>1. CASE disturbed'
    BY <2>1 DEF Fifo!Next
  <2>2. CASE ~disturbed'
    <3>0. disturbed = FALSE /\ disturbed' = FALSE
      BY <1>2, <2>2, DisturbedStep DEF RingInv, TypeOK, FlagsOK
    <3>1. CASE \E len \in 1 .. BlockSize, eop \in BOOLEAN : HwFill(len, eop)
      BY <1>2, <3>0, <3>1, FillProduces DEF Fifo!Next
    <3>2. CASE CopyBlock
      BY <1>2, <3>0, <3>2, CopyConsumes DEF Fifo!Next
    <3>3. CASE EvtFileCleanup
      BY <3>0, <3>3, CloseDrops DEF Fifo!Next
    <3>4. CASE EvtDeviceFileCreate
      BY <1>2, <3>0, <3>4, OpenKeeps
    <3>5. CASE UNCHANGED vars
      BY <3>5 DEF vars, hwVars, memVars, rdVars, Waiting, ReadPos, Copying
    <3> QED
      BY <1>2, <3>0, <3>1, <3>2, <3>3, <3>4, <3>5, OthersKeep
  <2> QED
    BY <2>1, <2>2
<1>3. Spec => []RingInv
  BY RingInvariant
<1> QED
  BY <1>1, <1>2, <1>3, PTL DEF Spec, ImplementsFifo, Fifo!Spec, Fifo!fifoVars

-----------------------------------------------------------------------------
(* The channel interrupt.                                                  *)

\* Only a reader in poll mode polls.
ReaderPolls == rd \in {"poll", "process"} => poll

LEMMA ReaderPollsStep ==
    ASSUME ReaderPolls, [Next]_vars
    PROVE  ReaderPolls'
<1> USE DEF ReaderPolls
<1>1. CASE UNCHANGED vars
  BY <1>1 DEF vars, rdVars
<1>2. CASE Next
  <2> USE DEF rdVars
  <2>1. \/ Reader \/ \E n \in ReadLengths : EvtIoReadEngineRing(n)
        \/ UNCHANGED <<poll, rd>>
    BY <1>2
    DEF Next, HwFill, HwFillLate, HwFail, EvtDeviceFileCreate, EvtFileCleanup,
        EvtChannelInterruptIsr, EvtChannelInterruptDpc, ProcessRing, ProcessRingScan,
        ProcessRingScanned, ProcessRingPublish, ProcessRingSignal, DpcFinish
  <2>2. (\E n \in ReadLengths : EvtIoReadEngineRing(n)) => ReaderPolls'
    BY DEF EvtIoReadEngineRing
  <2>3. WaitSignalled \/ WaitTimeout \/ PollError \/ PollNothing \/ PollCompleted \/ PollFinish
        => ReaderPolls'
    BY DEF WaitSignalled, WaitTimeout, PollError, PollNothing, PollCompleted, PollFinish,
           PollNext, CompleteRead
  <2>4. Snapshot \/ CopyBlock \/ CopyDone \/ CheckHead \/ ClearEvent \/ StoreHead
        => ReaderPolls'
    BY DEF Snapshot, CopyBlock, CopyDone, CheckHead, ClearEvent, StoreHead, CompleteRead
  <2> QED
    BY <2>1, <2>2, <2>3, <2>4 DEF Reader
<1> QED
  BY <1>1, <1>2

\* A step that leaves the mask, the queue and the DPC alone.
LEMMA InterruptStill ==
    ASSUME irqEn' = irqEn, dpcQueued' = dpcQueued, proc # "idle" <=> proc' # "idle"
    PROVE  Interrupt!Elsewhere
  BY DEF Interrupt!Elsewhere

\* In interrupt mode the reader never does the work of the DPC.
LEMMA ReaderElsewhere ==
    ASSUME ~poll, ReaderPolls, Reader
    PROVE  Interrupt!Elsewhere
<1> USE DEF procVars, hwVars
<1>1. CASE WaitSignalled \/ WaitTimeout
  BY <1>1, InterruptStill DEF WaitSignalled, WaitTimeout
<1>2. ~PollError /\ ~PollNothing /\ ~PollCompleted /\ ~PollFinish
  BY DEF ReaderPolls, PollError, PollNothing, PollCompleted, PollFinish
<1>3. CASE Snapshot \/ CopyBlock \/ CopyDone
  BY <1>3, InterruptStill DEF Snapshot, CopyBlock, CopyDone
<1>4. CASE CheckHead \/ ClearEvent \/ StoreHead
  BY <1>4, InterruptStill DEF CheckHead, ClearEvent, StoreHead
<1> QED
  BY <1>1, <1>2, <1>3, <1>4 DEF Reader

\* The work of the DPC is one run from its start to its last step.
LEMMA WorkRuns ==
    ASSUME ~poll, ProcessRing
    PROVE  Interrupt!End \/ Interrupt!Elsewhere
<1> USE DEF procVars, hwVars
<1>1. CASE ProcessRingScan \/ ProcessRingScanned \/ ProcessRingPublish \/ ProcessRingSignal
  BY <1>1, InterruptStill
  DEF ProcessRingScan, ProcessRingScanned, ProcessRingPublish, ProcessRingSignal
<1>2. CASE DpcFinish
  BY <1>2 DEF DpcFinish, ProcessRingEnd, Interrupt!End
<1> QED
  BY <1>1, <1>2 DEF ProcessRing

\* The channel is enabled while its DPC is queued or runs.
TooEarly == irqEn /\ (dpcQueued \/ proc # "idle")

\* An open finds the channel of an idle ring enabled, and otherwise enables it
\* too early.
LEMMA OpenEnables ==
    ASSUME RingInv, ~poll, EvtDeviceFileCreate
    PROVE  Interrupt!Elsewhere \/ TooEarly'
<1>1. irqEn' = TRUE /\ dpcQueued' = dpcQueued /\ proc' = proc
  BY DEF EvtDeviceFileCreate, procVars
<1>2. CASE dpcQueued \/ proc # "idle"
  BY <1>1, <1>2 DEF TooEarly
<1>3. CASE ~(dpcQueued \/ proc # "idle")
  <2>1. irqEn = TRUE
    BY <1>3 DEF RingInv, ChannelArmed, TypeOK, FlagsOK
  <2> QED
    BY <1>1, <2>1, InterruptStill
<1> QED
  BY <1>2, <1>3

LEMMA InterruptStep ==
    ASSUME RingInv, ReaderPolls, Next, ~poll
    PROVE  \/ Interrupt!Isr \/ Interrupt!Start \/ Interrupt!End \/ Interrupt!Elsewhere
           \/ TooEarly'
<1> USE DEF procVars, hwVars
<1>1. ASSUME NEW len \in 1 .. BlockSize, NEW eop \in BOOLEAN, HwFill(len, eop)
      PROVE  Interrupt!Elsewhere
  BY <1>1, InterruptStill DEF HwFill
<1>6. ASSUME NEW len \in 1 .. BlockSize, NEW eop \in BOOLEAN, NEW i \in Slots,
             HwFillLate(i, len, eop)
      PROVE  Interrupt!Elsewhere
  BY <1>6, InterruptStill DEF HwFillLate
<1>2. HwFail \/ EvtFileCleanup => Interrupt!Elsewhere
  BY InterruptStill DEF HwFail, EvtFileCleanup
<1>3. EvtChannelInterruptIsr => Interrupt!Isr
  BY DEF EvtChannelInterruptIsr, Interrupt!Isr
<1>4. EvtChannelInterruptDpc => Interrupt!Start
  BY DEF EvtChannelInterruptDpc, ProcessRingBegin, Interrupt!Start
<1>5. ASSUME NEW n \in ReadLengths, EvtIoReadEngineRing(n)
      PROVE  Interrupt!Elsewhere
  BY <1>5, InterruptStill DEF EvtIoReadEngineRing
<1> QED
  BY <1>1, <1>2, <1>3, <1>4, <1>5, <1>6, OpenEnables, WorkRuns, ReaderElsewhere DEF Next

\* The channel interrupt of a ring keeps to SourceInterrupt: the completion work
\* runs once for what was masked, and no open or close finds it masked for good;
\* only an open enables it while it is queued or runs.
THEOREM RingImplementsInterrupt == Spec => ImplementsInterrupt
<1>1. Init => ReaderPolls /\ Interrupt!Init
  BY DEF Init, ReaderPolls, Interrupt!Init
<1>2. ReaderPolls /\ [Next]_vars => ReaderPolls'
  BY ReaderPollsStep
<1>3. RingInv /\ ReaderPolls /\ [Next]_vars => [Interrupt!Next]_(Interrupt!vars)
  <2> SUFFICES ASSUME RingInv, ReaderPolls, [Next]_vars
               PROVE  [Interrupt!Next]_(Interrupt!vars)
    OBVIOUS
  <2>1. CASE UNCHANGED vars
    BY <2>1 DEF vars, hwVars, procVars, Interrupt!vars
  <2>2. CASE poll'
    BY <2>2 DEF Interrupt!Next
  <2>3. CASE Next /\ ~poll'
    <3>1. ~poll
      BY <2>3
      DEF Next, HwFill, HwFillLate, HwFail, EvtDeviceFileCreate, EvtFileCleanup,
          EvtChannelInterruptIsr, EvtChannelInterruptDpc, ProcessRing, ProcessRingScan,
          ProcessRingScanned, ProcessRingPublish, ProcessRingSignal, DpcFinish,
          EvtIoReadEngineRing, Reader, WaitSignalled, WaitTimeout, PollError, PollNothing,
          PollCompleted, PollFinish,
          Snapshot, CopyBlock, CopyDone, CheckHead, ClearEvent, StoreHead
    <3> QED
      BY <2>3, <3>1, InterruptStep DEF Interrupt!Next, TooEarly
  <2> QED
    BY <2>1, <2>2, <2>3
<1>4. Spec => []RingInv
  BY RingInvariant
<1> QED
  BY <1>1, <1>2, <1>3, <1>4, PTL DEF Spec, ImplementsInterrupt, Interrupt!Spec

==============================================================================
