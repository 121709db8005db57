------------------------ MODULE XdmaDescriptorsProofs -------------------------
(***************************************************************************)
(* Theorems about the block fetch of descriptor lists, for every size of a *)
(* page and of a read request, every place of the buffer and every number  *)
(* of descriptors.                                                         *)
(***************************************************************************)
EXTENDS XdmaDescriptors, WellFoundedInduction, TLAPS

-----------------------------------------------------------------------------
(* Arithmetic.                                                             *)

\* A set of natural numbers has a least member: what inductions rest on here.
LEMMA LeastNatural ==
    ASSUME NEW T, T \subseteq Nat, T # {}
    PROVE  \E n \in T : \A m \in T : ~(m < n)
<1>1. \E n \in T : \A m \in T : ~(<<m, n>> \in OpToRel(<, Nat))
  BY NatLessThanWellFounded, WFMin, Zenon DEF OpToRel
<1> QED
  BY <1>1 DEF OpToRel

\* What AdjTo4k leaves to the end of a page stays in the page.
LEMMA SamePage ==
    ASSUME NEW a \in Nat, NEW k \in Nat, NEW p \in Nat \ {0}, k <= p - (a % p) - 1
    PROVE  (a + k) \div p = a \div p
  OBVIOUS

\* Quotient and remainder are unique.
LEMMA RemainderUnique ==
    ASSUME NEW m \in Nat \ {0}, NEW q \in Int, NEW r \in 0 .. m - 1
    PROVE  (m * q + r) % m = r
<1> DEFINE x == m * q + r
           d == x \div m
           s == x % m
<1>1. x \in Int /\ d \in Int /\ s \in 0 .. m - 1 /\ x = m * d + s
  OBVIOUS
<1> HIDE DEF d, s
<1>2. m * (q - d) = s - r
  <2>1. m * (q - d) = m * q - m * d
    BY <1>1
  <2>2. m * q + r = m * d + s /\ m * q \in Int /\ m * d \in Int
    BY <1>1
  <2> QED
    BY <1>1, <2>1, <2>2
<1>3. q - d \in Int /\ -m < m * (q - d) /\ m * (q - d) < m
  BY <1>1, <1>2
<1>4. ASSUME NEW k \in Int, -m < m * k, m * k < m
      PROVE  k = 0
  <2>1. k >= 1 => m * k >= m
    OBVIOUS
  <2>2. k <= -1 => m * k <= -m
    OBVIOUS
  <2> QED
    BY <1>4, <2>1, <2>2
<1>5. q - d = 0
  BY <1>3, <1>4
<1>6. s = r
  BY <1>1, <1>2, <1>5
<1> QED
  BY <1>6 DEF s

\* Counting down modulo m: from zero it goes on with the largest remainder.
LEMMA RemainderBefore ==
    ASSUME NEW y \in Int, NEW m \in Nat \ {0}
    PROVE  /\ y % m \in 0 .. m - 1
           /\ (y - 1) % m = IF y % m # 0 THEN (y % m) - 1 ELSE m - 1
<1> DEFINE q == y \div m
           r == y % m
<1>1. q \in Int /\ r \in 0 .. m - 1 /\ y = m * q + r
  OBVIOUS
<1>2. CASE r # 0
  <2>1. r - 1 \in 0 .. m - 1 /\ y - 1 = m * q + (r - 1)
    BY <1>1, <1>2
  <2> HIDE DEF q, r
  <2>2. (m * q + (r - 1)) % m = r - 1
    BY <1>1, <2>1, RemainderUnique
  <2> QED
    BY <1>1, <1>2, <2>1, <2>2 DEF r
<1>3. CASE r = 0
  <2>1. m - 1 \in 0 .. m - 1 /\ q - 1 \in Int /\ m * (q - 1) = m * q - m
    BY <1>1
  <2>2. y - 1 = m * (q - 1) + (m - 1)
    BY <1>1, <1>3, <2>1
  <2> HIDE DEF q, r
  <2>3. (m * (q - 1) + (m - 1)) % m = m - 1
    BY <2>1, RemainderUnique
  <2> QED
    BY <1>1, <1>3, <2>2, <2>3 DEF r
<1> QED
  BY <1>1, <1>2, <1>3

-----------------------------------------------------------------------------
(* NextAdjMax.                                                             *)

\* The loop of OptimizeDescriptors over nextAdjMax, for the i-th descriptor.
Countdown(a, i) == (a - 1 - i) % (a + 1)

\* One equation defines the loop; the closed form solves it.
Loop(f, a) ==
    f = [i \in Indices |->
            IF i = 0 THEN a - 1
            ELSE LET last == f[i - 1] IN IF last # 0 THEN last - 1 ELSE a]

LEMMA CountdownStep ==
    ASSUME NEW a \in Nat \ {0}, NEW i \in Nat
    PROVE  Countdown(a, i) = IF i = 0 THEN a - 1
                             ELSE IF Countdown(a, i - 1) # 0 THEN Countdown(a, i - 1) - 1 ELSE a
<1>1. CASE i = 0
  <2>1. (a - 1) % (a + 1) = a - 1
    OBVIOUS
  <2> QED
    BY <1>1, <2>1 DEF Countdown
<1>2. CASE i # 0
  <2> DEFINE y == a - 1 - (i - 1)
             m == a + 1
  <2>1. y \in Int /\ m \in Nat \ {0} /\ a - 1 - i = y - 1 /\ m - 1 = a
    OBVIOUS
  <2>2. Countdown(a, i) = (y - 1) % m /\ Countdown(a, i - 1) = y % m
    BY <2>1 DEF Countdown
  <2> HIDE DEF y, m
  <2> QED
    BY <1>2, <2>1, <2>2, RemainderBefore
<1> QED
  BY <1>1, <1>2

\* The recursive definition has the closed form for every length of a list.
LEMMA NextAdjMaxCountsDown ==
    ASSUME numDesc \in Nat, NEW a \in Nat \ {0}, NEW i \in Indices
    PROVE  NextAdjMax(a)[i] = Countdown(a, i)
<1> DEFINE f == NextAdjMax(a)
           g == [j \in Indices |-> Countdown(a, j)]
           T == {j \in Indices : f[j] # Countdown(a, j)}
<1>1. Loop(f, a)
  <2>1. Loop(g, a)
    <3>1. \A j \in Indices : j \in Nat /\ (j # 0 => j - 1 \in Indices)
      BY DEF Indices
    <3>2. g = [j \in Indices |->
                  IF j = 0 THEN a - 1
                  ELSE LET last == g[j - 1] IN IF last # 0 THEN last - 1 ELSE a]
      BY <3>1, CountdownStep
    <3> QED
      BY <3>2 DEF Loop
  <2>2. Loop(CHOOSE h : Loop(h, a), a)
    BY <2>1
  <2>3. f = CHOOSE h : Loop(h, a)
    BY DEF NextAdjMax, Loop
  <2> QED
    BY <2>2, <2>3
<1>2. SUFFICES ASSUME T # {} PROVE FALSE
  OBVIOUS
<1>3. T \subseteq Nat
  BY DEF Indices
<1>4. PICK n \in T : \A m \in T : ~(m < n)
  BY <1>2, <1>3, LeastNatural
<1>5. f[n] = IF n = 0 THEN a - 1 ELSE IF f[n - 1] # 0 THEN f[n - 1] - 1 ELSE a
  BY <1>1 DEF Loop
<1>6. n \in Nat /\ (n # 0 => n - 1 \in Indices /\ n - 1 < n)
  BY DEF Indices
<1>7. n # 0 => f[n - 1] = Countdown(a, n - 1)
  BY <1>4, <1>6
<1> QED
  BY <1>5, <1>6, <1>7, CountdownStep

\* So every count fits into a read request.
LEMMA NextAdjMaxRange ==
    ASSUME numDesc \in Nat, NEW a \in Nat \ {0}, NEW i \in Indices
    PROVE  NextAdjMax(a)[i] \in 0 .. a
<1>1. i \in Int
  BY DEF Indices
<1>2. a - 1 - i \in Int /\ a + 1 \in Nat \ {0} /\ (a + 1) - 1 = a
  BY <1>1
<1>3. Countdown(a, i) \in 0 .. (a + 1) - 1
  BY <1>2, RemainderBefore, Zenon DEF Countdown
<1> QED
  BY <1>2, <1>3, NextAdjMaxCountsDown

-----------------------------------------------------------------------------
(* The fetches.                                                            *)

\* The adjacent count with descriptor i - 1 keeps the block that begins with
\* the i-th to what a request holds, to its page and to the transfer.
CountsFit ==
    firstAdj # -1 =>
        /\ base + firstAdj <= PageDescs - 1
        /\ firstAdj <= numDesc - 1 /\ firstAdj <= mrrs - 1
        /\ \A i \in Indices :
              i # numDesc - 1 => /\ nextAdj[i] <= PageDescs - ((base + i + 1) % PageDescs) - 1
                                 /\ i + 1 + nextAdj[i] <= numDesc - 1
                                 /\ nextAdj[i] <= mrrs - 1

Placed == from <= fetched /\ (fetched > 0 => from < fetched) /\ (firstAdj = -1 => fetched = 0)

FetchInv == TypeOK /\ CountsFit /\ Placed /\ FetchWithinLimits

LEMMA FetchInvInit == Init => FetchInv
  BY DescriptorsAssumption DEF DescriptorsAssumption, Init, FetchInv, TypeOK, CountsFit, Placed,
     FetchWithinLimits, WithinRequest, WithinPage, WithinTransfer, Indices

\* OptimizeDescriptors: each count is the least of the three limits.
LEMMA OptimizeStep == ASSUME FetchInv, OptimizeDescriptors PROVE FetchInv'
<1> USE DescriptorsAssumption DEF DescriptorsAssumption
<1>1. /\ mrrs \in Nat /\ mrrs >= 2 /\ base \in 0 .. PageDescs - 1 /\ numDesc \in 1 .. MaxDescs
      /\ UNCHANGED <<mrrs, base, numDesc, from, fetched>> /\ Indices' = Indices /\ fetched = 0
  BY DEF FetchInv, TypeOK, OptimizeDescriptors, Indices, Placed
<1>2. base % PageDescs = base
  <2>1. PageDescs * 0 + base = base
    BY <1>1
  <2>2. (PageDescs * 0 + base) % PageDescs = base
    BY <1>1, RemainderUnique
  <2> QED
    BY <2>1, <2>2
<1>3. /\ firstAdj' \in 0 .. MaxDescs - 1 /\ base + firstAdj' <= PageDescs - 1
      /\ firstAdj' <= numDesc - 1 /\ firstAdj' <= mrrs - 1
  BY <1>1, <1>2 DEF OptimizeDescriptors, Smaller, AdjTo4k
<1>4. ASSUME NEW i \in Indices
      PROVE  /\ nextAdj'[i] \in 0 .. MaxDescs - 1
             /\ i # numDesc - 1 =>
                  /\ nextAdj'[i] <= PageDescs - ((base + i + 1) % PageDescs) - 1
                  /\ i + 1 + nextAdj'[i] <= numDesc - 1
                  /\ nextAdj'[i] <= mrrs - 1
  <2> DEFINE most == NextAdjMax(mrrs - 1)[i]
             left == AdjTo4k(NextAddress(i))
  <2>1. most \in 0 .. mrrs - 1
    BY <1>1, NextAdjMaxRange
  <2>2. i \in 0 .. numDesc - 1 /\ NextAddress(i) \in Nat
    BY <1>1 DEF Indices, NextAddress
  <2>3. NextAddress(i) % PageDescs \in 0 .. PageDescs - 1
    BY <2>2
  <2>4. left \in 0 .. PageDescs - 1
    BY <2>3 DEF AdjTo4k
  <2>5. nextAdj'[i] = Smaller(left, Smaller(AdjTotal(i), most))
    BY DEF OptimizeDescriptors
  <2>6. i # numDesc - 1 => left = PageDescs - ((base + i + 1) % PageDescs) - 1
    BY DEF AdjTo4k, NextAddress
  <2> HIDE DEF most, left
  <2> QED
    BY <1>1, <2>1, <2>2, <2>4, <2>5, <2>6 DEF Smaller, AdjTotal
<1>5. nextAdj' \in [Indices -> 0 .. MaxDescs - 1]
  BY <1>4 DEF OptimizeDescriptors
<1>6. TypeOK'
  BY <1>1, <1>3, <1>5 DEF FetchInv, TypeOK
<1>7. CountsFit'
  BY <1>1, <1>3, <1>4 DEF CountsFit
<1>8. Placed' /\ FetchWithinLimits'
  BY <1>1, <1>3
  DEF FetchInv, Placed, FetchWithinLimits, WithinRequest, WithinPage, WithinTransfer
<1> QED
  BY <1>6, <1>7, <1>8 DEF FetchInv

\* A fetch begins where the last one ended and takes what the count allows.
LEMMA FetchStep == ASSUME FetchInv, Fetch PROVE FetchInv'
<1> USE DescriptorsAssumption DEF DescriptorsAssumption
<1> DEFINE adj == IF fetched = 0 THEN firstAdj ELSE nextAdj[fetched - 1]
<1>1. /\ mrrs \in Nat /\ mrrs >= 2 /\ base \in 0 .. PageDescs - 1 /\ numDesc \in 1 .. MaxDescs
      /\ fetched \in 0 .. numDesc - 1 /\ firstAdj # -1 /\ from' = fetched
      /\ fetched' = fetched + 1 + adj
      /\ UNCHANGED <<mrrs, base, numDesc, firstAdj, nextAdj>> /\ Indices' = Indices
  BY DEF FetchInv, TypeOK, Fetch, Indices
<1>2. /\ adj \in Nat /\ adj <= mrrs - 1 /\ fetched + adj <= numDesc - 1
      /\ adj <= PageDescs - ((base + fetched) % PageDescs) - 1
  <2>1. CASE fetched = 0
    <3>1. PageDescs * 0 + base = base /\ (PageDescs * 0 + base) % PageDescs = base
      BY <1>1, RemainderUnique
    <3>2. (base + fetched) % PageDescs = base
      BY <1>1, <2>1, <3>1
    <3> QED
      BY <1>1, <2>1, <3>2 DEF FetchInv, TypeOK, CountsFit
  <2>2. CASE fetched # 0
    <3>1. /\ fetched - 1 \in Indices /\ fetched - 1 # numDesc - 1
          /\ base + (fetched - 1) + 1 = base + fetched /\ (fetched - 1) + 1 = fetched
      BY <1>1, <2>2 DEF Indices
    <3>2. nextAdj[fetched - 1] \in Nat
      BY <3>1 DEF FetchInv, TypeOK
    <3>3. /\ nextAdj[fetched - 1] <= PageDescs - ((base + (fetched - 1) + 1) % PageDescs) - 1
          /\ (fetched - 1) + 1 + nextAdj[fetched - 1] <= numDesc - 1
          /\ nextAdj[fetched - 1] <= mrrs - 1
      BY <1>1, <3>1 DEF FetchInv, CountsFit
    <3> QED
      BY <2>2, <3>1, <3>2, <3>3
  <2> QED
    BY <2>1, <2>2
<1> HIDE DEF adj
<1>3. (base + fetched + adj) \div PageDescs = (base + fetched) \div PageDescs
  <2> DEFINE a == base + fetched
  <2>1. a \in Nat /\ PageDescs \in Nat \ {0} /\ adj <= PageDescs - (a % PageDescs) - 1
    BY <1>1, <1>2
  <2> HIDE DEF a
  <2>2. (a + adj) \div PageDescs = a \div PageDescs
    BY <1>2, <2>1, SamePage
  <2> QED
    BY <2>2 DEF a
<1>4. base' + fetched' - 1 = base + fetched + adj /\ base' + from' = base + fetched
  BY <1>1, <1>2
<1>5. TypeOK' /\ Placed' /\ CountsFit'
  BY <1>1, <1>2 DEF FetchInv, TypeOK, Placed, CountsFit
<1>6. WithinPage'
  BY <1>1, <1>3, <1>4 DEF WithinPage
<1>7. WithinRequest' /\ WithinTransfer'
  BY <1>1, <1>2 DEF WithinRequest, WithinTransfer
<1> QED
  BY <1>5, <1>6, <1>7 DEF FetchInv, FetchWithinLimits

LEMMA FetchInvStep == ASSUME FetchInv, [Next]_vars PROVE FetchInv'
<1>1. CASE UNCHANGED vars
  BY <1>1 DEF vars, FetchInv, TypeOK, CountsFit, Placed, FetchWithinLimits, WithinRequest,
              WithinPage, WithinTransfer, Indices
<1> QED
  BY <1>1, OptimizeStep, FetchStep DEF Next

\* Every variable keeps to its range: in particular no count goes below zero,
\* as the unsigned ones of the code would not show.
THEOREM TypeCorrect == Spec => []TypeOK
<1>1. FetchInv /\ [Next]_vars => FetchInv'
  BY FetchInvStep
<1>2. FetchInv => TypeOK
  BY DEF FetchInv
<1> QED
  BY <1>1, <1>2, FetchInvInit, PTL DEF Spec

\* Every block the engine fetches lies within a read request, within a page and
\* within the transfer.
THEOREM FetchesWithinLimits == Spec => []FetchWithinLimits
<1>1. FetchInv /\ [Next]_vars => FetchInv'
  BY FetchInvStep
<1>2. FetchInv => FetchWithinLimits
  BY DEF FetchInv
<1> QED
  BY <1>1, <1>2, FetchInvInit, PTL DEF Spec
==============================================================================
