---------------------------- MODULE XdmaDescriptors ----------------------------
(***************************************************************************)
(* How libxdma/dma_engine.c prepares a descriptor list for being fetched   *)
(* in blocks (OptimizeDescriptors), and how the engine then fetches it.    *)
(*                                                                         *)
(* Addresses are counted in descriptors: the buffer lies on a descriptor   *)
(* boundary, so a page and a read request are whole numbers of them.       *)
(***************************************************************************)
EXTENDS Integers

CONSTANTS
    PageDescs,  \* descriptors in the 4K no block may cross the end of
    ReadSizes,  \* descriptors in a PCIe read request of the maximum sizes a
                \* system may set (pcieMRRS)
    MaxDescs    \* bound: descriptors of a transfer

ASSUME DescriptorsAssumption ==
    /\ PageDescs \in Nat \ {0}
    /\ ReadSizes \subseteq Nat \ {0, 1}
    /\ MaxDescs \in Nat \ {0}

VARIABLES
    mrrs,       \* descriptors in a read request
    base,       \* where in its page the buffer starts (firstDescLo)
    numDesc,    \* descriptors of the transfer
    firstAdj,   \* sgdma->firstDescAdj
    nextAdj,    \* the adjacent count in the control word of each descriptor
    from,       \* the descriptor the last fetch began with
    fetched     \* descriptors fetched so far

vars == <<mrrs, base, numDesc, firstAdj, nextAdj, from, fetched>>

Smaller(a, b) == IF a < b THEN a ELSE b
Indices == 0 .. numDesc - 1

\* A transfer of any length at any place; its control words hold no count yet.
Init ==
    /\ mrrs \in ReadSizes /\ base \in 0 .. PageDescs - 1 /\ numDesc \in 1 .. MaxDescs
    /\ firstAdj = -1 /\ nextAdj = [i \in Indices |-> 0]
    /\ from = 0 /\ fetched = 0

-----------------------------------------------------------------------------
\* Descriptors that follow the one at an address in its page.
AdjTo4k(address) == PageDescs - (address % PageDescs) - 1

\* Mutant: the first of a request is not taken off.
NextAdjMaxWhole(adjMax) == [i \in Indices |-> adjMax + 1]

\* The most the descriptor after the i-th may have beside it: it counts down to
\* the end of the request that descriptor is in, then starts the next request.
NextAdjMax(adjMax) ==
    LET max[i \in Indices] ==
            IF i = 0 THEN adjMax - 1
            ELSE LET last == max[i - 1] IN IF last # 0 THEN last - 1 ELSE adjMax
    IN  max

\* Mutant: the last descriptor is not told apart.
AdjTotalWrapped(i) == numDesc - 1 - (i + 1)

\* How many of the transfer come after the descriptor after the i-th.
AdjTotal(i) == IF i # numDesc - 1 THEN numDesc - 1 - (i + 1) ELSE 0

\* Where the i-th descriptor points to: the one after it, the last to nothing.
NextAddress(i) == IF i # numDesc - 1 THEN base + i + 1 ELSE 0

OptimizeDescriptors ==
    /\ firstAdj = -1
    /\ firstAdj' = Smaller(AdjTo4k(base), Smaller(numDesc - 1, mrrs - 1))
    /\ nextAdj' =
        [i \in Indices |->
            Smaller(AdjTo4k(NextAddress(i)), Smaller(AdjTotal(i), NextAdjMax(mrrs - 1)[i]))]
    /\ UNCHANGED <<mrrs, base, numDesc, from, fetched>>

\* The engine (external) fetches a block: the number of descriptors comes from
\* the register, later from the last descriptor it has.
Fetch ==
    /\ firstAdj # -1 /\ fetched < numDesc
    /\ from' = fetched
    /\ fetched' = fetched + 1 + (IF fetched = 0 THEN firstAdj ELSE nextAdj[fetched - 1])
    /\ UNCHANGED <<mrrs, base, numDesc, firstAdj, nextAdj>>

Next == OptimizeDescriptors \/ Fetch

Spec == Init /\ [][Next]_vars

-----------------------------------------------------------------------------
(* Properties.                                                             *)

\* Every variable keeps to its range; in particular no count is negative,
\* which in the code would be a wrapped-around unsigned one.
TypeOK ==
    /\ mrrs \in ReadSizes /\ base \in 0 .. PageDescs - 1 /\ numDesc \in 1 .. MaxDescs
    /\ firstAdj \in -1 .. MaxDescs - 1
    /\ nextAdj \in [Indices -> 0 .. MaxDescs - 1]
    /\ from \in 0 .. MaxDescs /\ fetched \in Nat

\* What a fetch may span: no more than a read request holds, however the counts
\* of earlier, shorter fetches have left off; no end of a page; and no more than
\* the transfer has, for beyond lie what an earlier transfer has left in the
\* buffer, or other memory.
WithinRequest == fetched - from <= mrrs
WithinPage == fetched > 0 => (base + from) \div PageDescs = (base + fetched - 1) \div PageDescs
WithinTransfer == fetched <= numDesc

\* Every block the engine fetches keeps to the three limits of
\* OptimizeDescriptors (dma_engine.c:240-244) at a time, for every transfer and
\* place in a page.
FetchWithinLimits == WithinRequest /\ WithinPage /\ WithinTransfer
==============================================================================
