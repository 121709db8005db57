---------------------------- MODULE XdmaIrqProofs -----------------------------
(***************************************************************************)
(* Theorems about interrupt delivery, for every set of sources, order of   *)
(* them and number of processors.                                          *)
(***************************************************************************)
EXTENDS XdmaIrq, TLAPS

\* A DPC of source s is on processor p.
Serves(p, s) == dpc[p] # "idle" /\ Order[at[p]] = s

\* DPCs run on the processors there are; only the shared one looks around, and
\* one that works is at a source.
DpcPlaces ==
    /\ \A p \in Processors \ cpus : dpc[p] = "idle"
    /\ \A p \in Processors :
           /\ dpc[p] = "look" => shared /\ at[p] \in 1 .. Len(Order) + 1
           /\ dpc[p] \in Working => at[p] \in DOMAIN Order
           /\ dpc[p] = "enable" /\ ~shared => at[p] \in DOMAIN Order
    /\ IF shared THEN queued \subseteq {Line} ELSE Line \notin queued

\* With a vector of its own a source is enabled, queued or served, and served
\* once, unless an open has enabled it meanwhile.
ServedOnce ==
    ~shared => \A s \in Sources \ opened :
        /\ \A p, q \in Processors : Serves(p, s) /\ Serves(q, s) => p = q
        /\ s \in queued => \A p \in Processors : ~Serves(p, s)
        /\ s \in en => s \notin queued /\ \A p \in Processors : ~Serves(p, s)

IrqInv == TypeOK /\ DpcPlaces /\ MaskedIsOwed /\ ServedOnce

\* The vector of a source has a place in the order.
LEMMA PlaceOf ==
    ASSUME NEW d \in Sources
    PROVE  LET i == CHOOSE i \in DOMAIN Order : Order[i] = d
           IN  i \in DOMAIN Order /\ Order[i] = d
  BY IrqAssumption DEF IrqAssumption

LEMMA OrderOfSources ==
    /\ Len(Order) \in Nat /\ DOMAIN Order = 1 .. Len(Order)
    /\ \A i \in 1 .. Len(Order) : Order[i] \in Sources
  BY IrqAssumption DEF IrqAssumption

LEMMA IrqInvInit == ASSUME Init PROVE IrqInv
  BY IrqAssumption
  DEF IrqAssumption, Init, IrqInv, TypeOK, DpcPlaces, MaskedIsOwed, ServedOnce, Serves, Working

-----------------------------------------------------------------------------
(* Steps that touch no DPC on a processor.                                 *)

\* A DPC on a processor stays there while its variables do.
LEMMA Still ==
    ASSUME UNCHANGED <<cpus, dpc, at>>
    PROVE  /\ Idle' <=> Idle
           /\ \A p \in Processors, s \in Sources : Serves(p, s)' <=> Serves(p, s)
  BY DEF Idle, Serves

\* Interrupts are asked for or no longer, requests come and go, and an open
\* enables an engine.
LEMMA CardStep ==
    ASSUME IrqInv,
           \/ \E s \in Sources : Raise(s)
           \/ \E u \in Users : RemoveCause(u)
           \/ \E e \in Engines : EngineEnableInterrupt(e) \/ RequestBegin(e) \/ RequestEnd(e)
    PROVE  IrqInv'
<1> USE DEF IrqInv, TypeOK, DpcPlaces, MaskedIsOwed, ServedOnce
<1>1. ASSUME NEW s \in Sources, Raise(s)
      PROVE  IrqInv'
  BY <1>1, Still DEF Raise
<1>2. ASSUME NEW u \in Users, RemoveCause(u)
      PROVE  IrqInv'
  BY <1>2, Still DEF RemoveCause
<1>3. ASSUME NEW e \in Engines, EngineEnableInterrupt(e)
      PROVE  IrqInv'
  BY <1>3, Still DEF EngineEnableInterrupt, Sources
<1>4. ASSUME NEW e \in Engines, RequestBegin(e) \/ RequestEnd(e)
      PROVE  IrqInv'
  BY <1>4, Still DEF RequestBegin, RequestEnd
<1> HIDE DEF IrqInv
<1> QED
  BY <1>1, <1>2, <1>3, <1>4

\* A service routine masks what it queues.
LEMMA IsrStep == ASSUME IrqInv, Isr PROVE IrqInv'
<1> USE DEF IrqInv, TypeOK, DpcPlaces, MaskedIsOwed, ServedOnce
<1>1. CASE EvtInterruptIsr
  BY <1>1, Still DEF EvtInterruptIsr, Requested
<1>2. ASSUME NEW s \in Sources, EvtSourceIsr(s)
      PROVE  IrqInv'
  BY <1>2, Still, IrqAssumption DEF IrqAssumption, EvtSourceIsr, Requested
<1> HIDE DEF IrqInv
<1> QED
  BY <1>1, <1>2 DEF Isr

\* Everything is enabled again only when no DPC is left.
LEMMA PowerStep == ASSUME IrqInv, EvtInterruptDisable \/ EvtInterruptEnable PROVE IrqInv'
<1> USE DEF IrqInv, TypeOK, DpcPlaces, MaskedIsOwed, ServedOnce
<1>1. CASE EvtInterruptDisable
  BY <1>1, Still DEF EvtInterruptDisable
<1>2. CASE EvtInterruptEnable
  <2>1. \A p \in Processors : dpc[p] = "idle"
    BY <1>2 DEF EvtInterruptEnable, Idle
  <2> QED
    BY <1>2, <2>1 DEF EvtInterruptEnable, Serves
<1> HIDE DEF IrqInv
<1> QED
  BY <1>1, <1>2

-----------------------------------------------------------------------------
(* The DPCs.                                                               *)

\* What a step of processor p that goes somewhere changes.
LEMMA Moves ==
    ASSUME TypeOK, NEW p \in Processors, NEW where, NEW i, Goto(p, where, i)
    PROVE  /\ dpc'[p] = where /\ at'[p] = i
           /\ \A q \in Processors \ {p} : dpc'[q] = dpc[q] /\ at'[q] = at[q]
           /\ \A q \in Processors \ {p}, s \in Sources : Serves(q, s)' <=> Serves(q, s)
           /\ where \in {"idle", "look", "begin", "end", "enable"} =>
                  dpc' \in [Processors -> {"idle", "look", "begin", "end", "enable"}]
           /\ i \in 0 .. Len(Order) + 1 => at' \in [Processors -> 0 .. Len(Order) + 1]
  BY DEF TypeOK, Goto, Serves

\* A queued DPC is taken: the only one of its source moves to a processor.
LEMMA StartStep ==
    ASSUME IrqInv, NEW d \in Sources \cup {Line}, NEW p \in cpus, DpcStart(p, d)
    PROVE  IrqInv'
<1> USE DEF IrqInv
<1> DEFINE i == CHOOSE j \in DOMAIN Order : Order[j] = d
<1>1. /\ p \in Processors /\ dpc[p] = "idle" /\ d \in queued /\ queued' = queued \ {d}
      /\ UNCHANGED <<shared, cpus, connected, src, en, pending, reqs, opened>>
  BY DEF DpcStart, TypeOK
<1>2. CASE d = Line
  <2>1. Goto(p, "look", 1) /\ shared
    BY <1>1, <1>2 DEF DpcStart, DpcPlaces, TypeOK
  <2>2. TypeOK' /\ DpcPlaces'
    BY <1>1, <2>1, Moves, OrderOfSources DEF TypeOK, DpcPlaces, Working
  <2>3. MaskedIsOwed' /\ ServedOnce'
    BY <1>1, <2>1, Moves, IrqAssumption DEF IrqAssumption, MaskedIsOwed, ServedOnce, Idle, TypeOK
  <2> QED
    BY <2>2, <2>3
<1>3. CASE d # Line
  <2>1. /\ Goto(p, "begin", i) /\ ~shared /\ d \in Sources
        /\ i \in DOMAIN Order /\ Order[i] = d
    BY <1>1, <1>3, PlaceOf DEF DpcStart, DpcPlaces, TypeOK
  <2> HIDE DEF i
  <2>2. TypeOK' /\ DpcPlaces'
    BY <1>1, <1>3, <2>1, Moves, OrderOfSources DEF TypeOK, DpcPlaces, Working
  <2>3. \A s \in Sources : Serves(p, s)' <=> s = d
    BY <1>1, <2>1, Moves DEF Serves
  <2>4. \A q \in Processors \ {p}, s \in Sources : Serves(q, s)' <=> Serves(q, s)
    BY <1>1, <2>1, Moves
  <2>5. \A s \in Sources : ~Serves(p, s)
    BY <1>1 DEF Serves
  <2>6. MaskedIsOwed'
    <3> SUFFICES ASSUME connected, NEW s \in Sources \ en
                 PROVE  s \in queued' \/ \E q \in cpus : Serves(q, s)'
      BY <1>1, <2>1 DEF MaskedIsOwed, Serves
    <3>1. s \in queued \/ \E q \in cpus : Serves(q, s)
      BY <2>1 DEF MaskedIsOwed, Serves
    <3> QED
      BY <1>1, <2>3, <2>4, <2>5, <3>1 DEF TypeOK
  <2>7. ServedOnce'
    BY <1>1, <2>1, <2>3, <2>4, <2>5 DEF ServedOnce
  <2> QED
    BY <2>2, <2>6, <2>7
<1> QED
  BY <1>2, <1>3

\* A step from one source to the next, or within the work for one: with a
\* vector of its own the DPC stays with its source.
LEMMA WorkStep ==
    ASSUME IrqInv, NEW p \in cpus, DpcLook(p) \/ WorkBegin(p) \/ WorkEnd(p)
    PROVE  IrqInv'
<1> USE DEF IrqInv
<1>1. /\ p \in Processors /\ dpc[p] # "idle"
      /\ UNCHANGED <<shared, cpus, connected, en, pending, queued, reqs, opened>>
      /\ src' \subseteq src
  BY DEF DpcLook, WorkBegin, WorkEnd, TypeOK
<1>2. PICK where \in {"look", "begin", "end", "enable"}, i \in 0 .. Len(Order) + 1 :
          /\ Goto(p, where, i)
          /\ where = "look" => shared /\ i # 0
          /\ where \in Working => i \in DOMAIN Order
          /\ ~shared => i = at[p] /\ i \in DOMAIN Order
  <2>1. CASE DpcLook(p)
    BY <1>1, <2>1, OrderOfSources DEF DpcLook, DpcPlaces, Working
  <2>2. CASE WorkBegin(p)
    BY <1>1, <2>2, OrderOfSources DEF WorkBegin, DpcPlaces, Working
  <2>3. CASE WorkEnd(p)
    BY <1>1, <2>3, OrderOfSources DEF WorkEnd, DpcPlaces, Working
  <2> QED
    BY <2>1, <2>2, <2>3
<1>3. TypeOK' /\ DpcPlaces'
  <2>1. /\ dpc'[p] = where /\ at'[p] = i
        /\ \A q \in Processors \ {p} : dpc'[q] = dpc[q] /\ at'[q] = at[q]
        /\ dpc' \in [Processors -> {"idle", "look", "begin", "end", "enable"}]
        /\ at' \in [Processors -> 0 .. Len(Order) + 1]
    BY <1>1, <1>2, Moves
  <2> QED
    BY <1>1, <1>2, <2>1, OrderOfSources DEF TypeOK, DpcPlaces, Working
<1>4. ~shared => \A q \in Processors, s \in Sources : Serves(q, s)' <=> Serves(q, s)
  BY <1>1, <1>2, Moves DEF Serves
<1>5. shared => ~Idle'
  BY <1>1, <1>2, Moves DEF Idle
<1>6. MaskedIsOwed'
  <2>1. CASE shared
    BY <1>1, <1>5, <2>1 DEF MaskedIsOwed
  <2>2. CASE ~shared
    <3> SUFFICES ASSUME connected, NEW s \in Sources \ en
                 PROVE  s \in queued \/ \E q \in cpus : Serves(q, s)'
      BY <1>1, <2>2 DEF MaskedIsOwed, Serves
    <3>1. s \in queued \/ \E q \in cpus : Serves(q, s)
      BY <2>2 DEF MaskedIsOwed, Serves
    <3> QED
      BY <1>4, <2>2, <3>1 DEF TypeOK
  <2> QED
    BY <2>1, <2>2 DEF TypeOK
<1>7. ServedOnce'
  BY <1>1, <1>4 DEF ServedOnce
<1> QED
  BY <1>3, <1>6, <1>7

\* The last step of a DPC: the shared one enables all that is pending, which is
\* all that is masked, another one its source.
LEMMA EnableStep == ASSUME IrqInv, NEW p \in cpus, DpcEnable(p) PROVE IrqInv'
<1> USE DEF IrqInv
<1>1. /\ p \in Processors /\ dpc[p] = "enable" /\ Goto(p, "idle", 0) /\ pending' = {}
      /\ UNCHANGED <<shared, cpus, connected, src, queued, reqs, opened>>
  BY DEF DpcEnable, TypeOK
<1>2. ~shared => at[p] \in DOMAIN Order /\ Order[at[p]] \in Sources /\ Serves(p, Order[at[p]])
  BY <1>1, OrderOfSources DEF DpcPlaces, Serves
<1>3. TypeOK' /\ DpcPlaces'
  <2>1. /\ dpc'[p] = "idle"
        /\ \A q \in Processors \ {p} : dpc'[q] = dpc[q] /\ at'[q] = at[q]
        /\ dpc' \in [Processors -> {"idle", "look", "begin", "end", "enable"}]
        /\ at' \in [Processors -> 0 .. Len(Order) + 1]
    BY <1>1, Moves, OrderOfSources
  <2>2. en' \subseteq Sources
    BY <1>2 DEF DpcEnable, TypeOK
  <2>3. DpcPlaces'
    BY <1>1, <2>1 DEF DpcPlaces, Working
  <2> QED
    BY <1>1, <2>1, <2>2, <2>3 DEF TypeOK
<1>4. CASE shared
  BY <1>1, <1>3, <1>4 DEF MaskedIsOwed, ServedOnce, DpcEnable, TypeOK
<1>5. CASE ~shared
  <2>1. /\ \A s \in Sources : ~Serves(p, s)' /\ (Serves(p, s) => s = Order[at[p]])
        /\ \A q \in Processors \ {p}, s \in Sources : Serves(q, s)' <=> Serves(q, s)
    BY <1>1, Moves DEF Serves
  <2>2. en' = en \cup {Order[at[p]]}
    BY <1>5 DEF DpcEnable
  <2>3. MaskedIsOwed'
    <3> SUFFICES ASSUME connected, NEW s \in Sources \ en'
                 PROVE  s \in queued \/ \E q \in cpus : Serves(q, s)'
      BY <1>1, <1>5 DEF MaskedIsOwed, Serves
    <3>1. s \in queued \/ \E q \in cpus : Serves(q, s)
      BY <1>5, <2>2 DEF MaskedIsOwed, Serves
    <3> QED
      BY <2>1, <2>2, <3>1 DEF TypeOK
  <2>4. ServedOnce'
    BY <1>1, <1>2, <1>5, <2>1, <2>2 DEF ServedOnce
  <2> QED
    BY <1>3, <2>3, <2>4
<1> QED
  BY <1>4, <1>5

LEMMA IrqInvStep == ASSUME IrqInv, [Next]_vars PROVE IrqInv'
<1>1. CASE UNCHANGED vars
  BY <1>1, Still DEF vars, IrqInv, TypeOK, DpcPlaces, MaskedIsOwed, ServedOnce
<1>2. ASSUME NEW d \in Sources \cup {Line}, Dispatch(d)
      PROVE  IrqInv'
  BY <1>2, StartStep DEF Dispatch
<1>3. ASSUME NEW p \in cpus, DpcStep(p)
      PROVE  IrqInv'
  BY <1>3, WorkStep, EnableStep DEF DpcStep
<1> QED
  BY <1>1, <1>2, <1>3, CardStep, IsrStep, PowerStep DEF Next

-----------------------------------------------------------------------------
(* Theorems.                                                               *)

\* The places of DPCs, what is masked and who serves it are kept in step by
\* every interleaving of service routines, DPCs, opens and power transitions.
THEOREM IrqInvariant == Spec => []IrqInv
<1>1. Init => IrqInv
  BY IrqInvInit
<1>2. IrqInv /\ [Next]_vars => IrqInv'
  BY IrqInvStep
<1> QED
  BY <1>1, <1>2, PTL DEF Spec

\* Every variable keeps to its range; a DPC never looks past the end of its list.
THEOREM TypeCorrect == Spec => []TypeOK
<1>1. IrqInv => TypeOK
  BY DEF IrqInv
<1> QED
  BY <1>1, IrqInvariant, PTL

\* No source stays masked without a DPC that is to enable it.
THEOREM MaskedAreOwed == Spec => []MaskedIsOwed
<1>1. IrqInv => MaskedIsOwed
  BY DEF IrqInv
<1> QED
  BY <1>1, IrqInvariant, PTL

\* The unlocked work of an engine runs once at a time on its own vector.
THEOREM WorkExclusive == Spec => []WorkIsExclusive
<1>1. ASSUME IrqInv, NEW p \in cpus, NEW q \in cpus, NEW e \in Engines \ opened,
             p # q, WorksFor(p, e), WorksFor(q, e), ~shared
      PROVE  FALSE
  <2>1. p \in Processors /\ q \in Processors /\ e \in Sources \ opened
    BY <1>1 DEF IrqInv, TypeOK, Sources
  <2>2. Serves(p, e) /\ Serves(q, e)
    BY <1>1 DEF WorksFor, Working, Serves
  <2> QED
    BY <1>1, <2>1, <2>2 DEF IrqInv, ServedOnce
<1>2. IrqInv => WorkIsExclusive
  BY <1>1 DEF WorkIsExclusive
<1> QED
  BY <1>2, IrqInvariant, PTL

-----------------------------------------------------------------------------
(* What the code of a source sees of its vector.                           *)

\* With a vector of its own, a source is served where a DPC runs for it.
LEMMA RunsServes ==
    ASSUME IrqInv, IrqInv', ~shared, UNCHANGED <<shared, cpus>>, NEW s \in Sources
    PROVE  /\ Runs(s) <=> \E p \in Processors : Serves(p, s)
           /\ Runs(s)' <=> \E p \in Processors : Serves(p, s)'
<1>1. \A p \in Processors :
          /\ dpc[p] # "idle" => p \in cpus /\ at[p] \in DOMAIN Order
          /\ dpc'[p] # "idle" => p \in cpus /\ at'[p] \in DOMAIN Order
  BY DEF IrqInv, TypeOK, DpcPlaces, Working
<1> QED
  BY <1>1 DEF IrqInv, TypeOK, Runs, Serves

\* A source whose vector a step leaves alone.
LEMMA VectorStill ==
    ASSUME NEW s \in Sources, UNCHANGED connected, s \in en <=> s \in en', s \in queued <=> s \in queued',
           Runs(s) <=> Runs(s)'
    PROVE  Vector(s)!Elsewhere
  BY DEF Vector!Elsewhere

\* Requests come and go, and an open enables what the source's own was not.
LEMMA VectorCard ==
    ASSUME NEW s \in Sources, s \notin opened',
           \/ \E t \in Sources : Raise(t)
           \/ \E u \in Users : RemoveCause(u)
           \/ \E e \in Engines : EngineEnableInterrupt(e) \/ RequestBegin(e) \/ RequestEnd(e)
    PROVE  Vector(s)!Elsewhere
<1>1. Runs(s) <=> Runs(s)'
  BY DEF Raise, RemoveCause, EngineEnableInterrupt, RequestBegin, RequestEnd, Runs
<1> QED
  BY <1>1, VectorStill DEF Raise, RemoveCause, EngineEnableInterrupt, RequestBegin, RequestEnd

LEMMA VectorIsr ==
    ASSUME NEW s \in Sources, ~shared, Isr
    PROVE  Vector(s)!Isr \/ Vector(s)!Elsewhere
<1>1. PICK t \in Sources : EvtSourceIsr(t)
  BY DEF Isr, EvtInterruptIsr
<1>2. Runs(s) <=> Runs(s)'
  BY <1>1 DEF EvtSourceIsr, Runs
<1>3. CASE t = s
  BY <1>1, <1>2, <1>3 DEF EvtSourceIsr, Requested, Vector!Isr
<1>4. CASE t # s
  BY <1>1, <1>2, <1>4, VectorStill DEF EvtSourceIsr
<1> QED
  BY <1>3, <1>4

LEMMA VectorPower ==
    ASSUME IrqInv, NEW s \in Sources, ~shared, EvtInterruptDisable \/ EvtInterruptEnable
    PROVE  Vector(s)!Disable \/ Vector(s)!Enable
<1>1. Runs(s) <=> Runs(s)'
  BY DEF EvtInterruptDisable, EvtInterruptEnable, Runs
<1>2. CASE EvtInterruptDisable
  BY <1>1, <1>2 DEF EvtInterruptDisable, Vector!Disable
<1>3. CASE EvtInterruptEnable
  <2>1. ~Runs(s)
    BY <1>3 DEF EvtInterruptEnable, Idle, Runs
  <2> QED
    BY <1>1, <1>3, <2>1 DEF EvtInterruptEnable, Vector!Enable
<1> QED
  BY <1>2, <1>3

\* A DPC starts for a source that is queued: none runs for it yet.
LEMMA VectorStart ==
    ASSUME IrqInv, IrqInv', NEW s \in Sources, ~shared, s \notin opened,
           NEW d \in Sources \cup {Line}, NEW p \in cpus, DpcStart(p, d)
    PROVE  Vector(s)!Start \/ Vector(s)!Elsewhere
<1> DEFINE i == CHOOSE j \in DOMAIN Order : Order[j] = d
<1>1. /\ p \in Processors /\ dpc[p] = "idle" /\ d \in queued /\ queued' = queued \ {d}
      /\ UNCHANGED <<shared, cpus, connected, en>>
  BY DEF DpcStart, IrqInv, TypeOK
<1>2. d \in Sources /\ d # Line
  BY <1>1 DEF IrqInv, DpcPlaces
<1>3. Goto(p, "begin", i) /\ i \in DOMAIN Order /\ Order[i] = d
  BY <1>2, PlaceOf DEF DpcStart
<1> HIDE DEF i
<1>4. /\ \A q \in Processors \ {p} : Serves(q, s)' <=> Serves(q, s)
      /\ Serves(p, s)' <=> s = d
      /\ ~Serves(p, s)
  BY <1>1, <1>3, Moves DEF Serves, IrqInv
<1>5. /\ Runs(s) <=> \E q \in Processors : Serves(q, s)
      /\ Runs(s)' <=> \E q \in Processors : Serves(q, s)'
  BY <1>1, RunsServes
<1>6. CASE s = d
  <2>1. ~Runs(s)
    BY <1>1, <1>5, <1>6 DEF IrqInv, ServedOnce
  <2>2. Runs(s)'
    BY <1>1, <1>4, <1>5, <1>6
  <2> QED
    BY <1>1, <1>6, <2>1, <2>2 DEF Vector!Start
<1>7. CASE s # d
  <2>1. Runs(s) <=> Runs(s)'
    BY <1>1, <1>4, <1>5, <1>7
  <2> QED
    BY <1>1, <1>7, <2>1, VectorStill
<1> QED
  BY <1>6, <1>7

\* While it works, a DPC stays with its source.
LEMMA VectorWork ==
    ASSUME IrqInv, IrqInv', NEW s \in Sources, ~shared,
           NEW p \in cpus, WorkBegin(p) \/ WorkEnd(p)
    PROVE  Vector(s)!Elsewhere
<1>1. /\ p \in Processors /\ dpc[p] \in Working
      /\ UNCHANGED <<shared, cpus, connected, en, queued>>
  BY DEF WorkBegin, WorkEnd, Working, IrqInv, TypeOK
<1>2. PICK where \in {"end", "enable"} : Goto(p, where, at[p])
  BY DEF WorkBegin, WorkEnd
<1>3. \A q \in Processors : Serves(q, s)' <=> Serves(q, s)
  BY <1>1, <1>2, Moves DEF Serves, IrqInv, Working
<1>4. Runs(s) <=> Runs(s)'
  BY <1>1, <1>3, RunsServes
<1> QED
  BY <1>1, <1>4, VectorStill

\* The last step of a DPC enables its source and no other.
LEMMA VectorEnable ==
    ASSUME IrqInv, IrqInv', NEW s \in Sources, ~shared, s \notin opened,
           NEW p \in cpus, DpcEnable(p)
    PROVE  Vector(s)!End \/ Vector(s)!Elsewhere
<1> DEFINE t == Order[at[p]]
<1>1. /\ p \in Processors /\ dpc[p] = "enable" /\ Goto(p, "idle", 0)
      /\ UNCHANGED <<shared, cpus, connected, queued>> /\ en' = en \cup {t}
  BY DEF DpcEnable, IrqInv, TypeOK
<1>2. /\ \A q \in Processors \ {p} : Serves(q, s)' <=> Serves(q, s)
      /\ ~Serves(p, s)'
      /\ Serves(p, s) <=> s = t
  BY <1>1, Moves DEF Serves, IrqInv
<1> HIDE DEF t
<1>3. /\ Runs(s) <=> \E q \in Processors : Serves(q, s)
      /\ Runs(s)' <=> \E q \in Processors : Serves(q, s)'
  BY <1>1, RunsServes
<1>4. CASE s = t
  <2>1. Runs(s)
    BY <1>1, <1>2, <1>3, <1>4
  <2>2. \A q \in Processors : Serves(q, s) => q = p
    BY <1>1, <1>2, <1>4 DEF IrqInv, ServedOnce
  <2>3. ~Runs(s)'
    BY <1>2, <1>3, <2>2
  <2> QED
    BY <1>1, <1>4, <2>1, <2>3 DEF Vector!End
<1>5. CASE s # t
  <2>1. Runs(s) <=> Runs(s)'
    BY <1>1, <1>2, <1>3, <1>5
  <2> QED
    BY <1>1, <1>5, <2>1, VectorStill
<1> QED
  BY <1>4, <1>5

LEMMA VectorStep ==
    ASSUME IrqInv, IrqInv', [Next]_vars, NEW s \in Sources
    PROVE  [Vector(s)!Next]_(Vector(s)!vars)
<1>1. CASE UNCHANGED vars
  BY <1>1 DEF vars, Runs, Vector!vars
<1>2. CASE shared' \/ s \in opened'
  BY <1>2 DEF Vector!Next
<1>3. CASE Next /\ ~shared' /\ s \notin opened'
  <2>1. ~shared /\ s \notin opened
    BY <1>3
    DEF Next, Raise, RemoveCause, EngineEnableInterrupt, RequestBegin, RequestEnd, Isr,
        EvtInterruptIsr, EvtSourceIsr,
        Dispatch, DpcStart, DpcStep, DpcLook, WorkBegin, WorkEnd, DpcEnable,
        EvtInterruptDisable, EvtInterruptEnable
  <2>2. ASSUME NEW d \in Sources \cup {Line}, Dispatch(d)
        PROVE  Vector(s)!Start \/ Vector(s)!Elsewhere
    BY <2>1, <2>2, VectorStart DEF Dispatch
  <2>3. ASSUME NEW p \in cpus, DpcStep(p)
        PROVE  Vector(s)!End \/ Vector(s)!Elsewhere
    <3>1. ~DpcLook(p)
      BY <2>1 DEF DpcLook, IrqInv, DpcPlaces, TypeOK
    <3> QED
      BY <2>1, <2>3, <3>1, VectorWork, VectorEnable DEF DpcStep
  <2>4. \/ Vector(s)!Isr \/ Vector(s)!Start \/ Vector(s)!End
        \/ Vector(s)!Disable \/ Vector(s)!Enable \/ Vector(s)!Elsewhere
    BY <1>3, <2>1, <2>2, <2>3, VectorCard, VectorIsr, VectorPower DEF Next
  <2> QED
    BY <2>1, <2>4 DEF Vector!Next
<1> QED
  BY <1>1, <1>2, <1>3

\* Each source with a vector of its own has the interrupt of SourceInterrupt,
\* whatever the other sources, processors and power transitions do.
THEOREM IrqImplementsVectors == Spec => ImplementsVectors
<1>1. Init => \A s \in Sources : Vector(s)!Init
  BY DEF Init, Runs, Vector!Init
<1>2. IrqInv /\ IrqInv' /\ [Next]_vars
      => [\A s \in Sources : [Vector(s)!Next]_(Vector(s)!vars)]_vars
  BY VectorStep
<1> QED
  BY <1>1, <1>2, IrqInvariant, PTL DEF Spec, ImplementsVectors

-----------------------------------------------------------------------------
(* User events: XdmaUserEvent has the registers and DPCs of this module,   *)
(* and the readers and the user logic beside them.                         *)

CONSTANTS NumEvents, Readers
VARIABLES held, file, cause, rd, seen

Event == INSTANCE XdmaUserEvent

\* While the device is in D0 an event is enabled, or its DPC is queued, or it
\* runs, and only one of these.
EventOwed ==
    connected => \A e \in Event!Events :
        /\ e \in en \cup queued \cup dpc
        /\ ~(e \in en /\ e \in queued) /\ ~(e \in en /\ e \in dpc) /\ ~(e \in queued /\ e \in dpc)

EventInv == Event!TypeOK /\ EventOwed

LEMMA EventStep ==
    ASSUME EventInv, [Event!Next]_(Event!vars)
    PROVE  EventInv'
<1> USE DEF EventInv, Event!TypeOK, EventOwed
<1>1. CASE UNCHANGED Event!vars
  BY <1>1 DEF Event!vars
<1>2. ASSUME NEW e \in Event!Events, Event!Raise(e) \/ Event!Lower(e)
      PROVE  EventInv'
  BY <1>2 DEF Event!Raise, Event!Lower
<1>3. ASSUME NEW e \in Event!Events, Event!EvtUserInterruptIsr(e)
      PROVE  EventInv'
  BY <1>3 DEF Event!EvtUserInterruptIsr, Event!Requested
<1>4. ASSUME NEW e \in Event!Events, Event!EvtUserInterruptDpc(e)
      PROVE  EventInv'
  BY <1>4 DEF Event!EvtUserInterruptDpc
<1>5. ASSUME NEW e \in Event!Events, Event!DpcEnable(e)
      PROVE  EventInv'
  BY <1>5 DEF Event!DpcEnable
<1>6. CASE Event!EvtUserInterruptDisable \/ Event!EvtUserInterruptEnable
  BY <1>6 DEF Event!EvtUserInterruptDisable, Event!EvtUserInterruptEnable
<1>7. ASSUME NEW r \in Readers, Event!Read(r)
      PROVE  EventInv'
  BY <1>7
  DEF Event!Read, Event!EvtReadUserEvent, Event!Wait, Event!Timeout, Event!ReportEvent,
      Event!ReadTo
<1> HIDE DEF EventInv
<1> QED
  BY <1>1, <1>2, <1>3, <1>4, <1>5, <1>6, <1>7 DEF Event!Next

THEOREM EventInvariant == Event!Spec => []EventInv
<1>1. Event!Init => EventInv
  BY DEF Event!Init, EventInv, Event!TypeOK, EventOwed
<1>2. EventInv /\ [Event!Next]_(Event!vars) => EventInv'
  BY EventStep
<1> QED
  BY <1>1, <1>2, PTL DEF Event!Spec

\* Every variable of the user events keeps to its range, for every number of
\* events and readers.
THEOREM EventTypeCorrect == Event!Spec => []Event!TypeOK
<1>1. EventInv => Event!TypeOK
  BY DEF EventInv
<1> QED
  BY <1>1, EventInvariant, PTL

\* An event is never lost between the routines: masked, it has its DPC queued
\* or running, once.
THEOREM EventsOwed == Event!Spec => []EventOwed
<1>1. EventInv => EventOwed
  BY DEF EventInv
<1> QED
  BY <1>1, EventInvariant, PTL

\* What a step of the interrupt of event x is for the vector of event e.
LEMMA EventVector ==
    ASSUME EventInv, NEW e \in Event!Events, NEW x \in Event!Events,
           \/ Event!EvtUserInterruptIsr(x) \/ Event!EvtUserInterruptDpc(x)
           \/ Event!DpcEnable(x)
    PROVE  \/ Event!Vector(e)!Isr \/ Event!Vector(e)!Start \/ Event!Vector(e)!End
           \/ Event!Vector(e)!Elsewhere
<1>1. CASE Event!EvtUserInterruptIsr(x)
  <2>1. CASE e = x
    BY <1>1, <2>1 DEF Event!EvtUserInterruptIsr, Event!Requested, Event!Vector!Isr
  <2>2. CASE e # x
    BY <1>1, <2>2 DEF Event!EvtUserInterruptIsr, Event!Vector!Elsewhere
  <2> QED
    BY <2>1, <2>2
<1>2. CASE Event!EvtUserInterruptDpc(x)
  <2>1. CASE e = x
    BY <1>2, <2>1 DEF Event!EvtUserInterruptDpc, Event!Vector!Start
  <2>2. CASE e # x
    BY <1>2, <2>2 DEF Event!EvtUserInterruptDpc, Event!Vector!Elsewhere
  <2> QED
    BY <2>1, <2>2
<1>3. CASE Event!DpcEnable(x)
  <2>1. CASE e = x
    BY <1>3, <2>1 DEF Event!DpcEnable, Event!Vector!End
  <2>2. CASE e # x
    BY <1>3, <2>2 DEF Event!DpcEnable, Event!Vector!Elsewhere
  <2> QED
    BY <2>1, <2>2
<1> QED
  BY <1>1, <1>2, <1>3

LEMMA EventVectorStep ==
    ASSUME EventInv, [Event!Next]_(Event!vars), NEW e \in Event!Events
    PROVE  [Event!Vector(e)!Next]_(Event!Vector(e)!vars)
<1>1. CASE UNCHANGED Event!vars
  BY <1>1 DEF Event!vars, Event!Vector!vars
<1>2. ASSUME NEW x \in Event!Events, Event!Raise(x) \/ Event!Lower(x)
      PROVE  Event!Vector(e)!Elsewhere
  BY <1>2 DEF Event!Raise, Event!Lower, Event!Vector!Elsewhere
<1>3. Event!EvtUserInterruptDisable => Event!Vector(e)!Disable
  BY DEF Event!EvtUserInterruptDisable, Event!Vector!Disable
<1>4. Event!EvtUserInterruptEnable => Event!Vector(e)!Enable
  BY DEF Event!EvtUserInterruptEnable, Event!Vector!Enable
<1>5. ASSUME NEW r \in Readers, Event!Read(r)
      PROVE  Event!Vector(e)!Elsewhere
  BY <1>5
  DEF Event!Read, Event!EvtReadUserEvent, Event!Wait, Event!Timeout, Event!ReportEvent,
      Event!Vector!Elsewhere
<1>6. CASE Event!Next
  <2>1. \/ Event!Vector(e)!Isr \/ Event!Vector(e)!Start \/ Event!Vector(e)!End
        \/ Event!Vector(e)!Disable \/ Event!Vector(e)!Enable \/ Event!Vector(e)!Elsewhere
    BY <1>2, <1>3, <1>4, <1>5, <1>6, EventVector DEF Event!Next
  <2> QED
    BY <2>1 DEF Event!Vector!Next
<1> QED
  BY <1>1, <1>6

\* The events of XdmaUserEvent have the vectors that this module delivers: both
\* keep to SourceInterrupt.
THEOREM EventsImplementVectors == Event!Spec => Event!ImplementsVectors
<1>1. Event!Init => \A e \in Event!Events : Event!Vector(e)!Init
  BY DEF Event!Init, Event!Vector!Init
<1>2. EventInv /\ [Event!Next]_(Event!vars)
      => [\A e \in Event!Events : [Event!Vector(e)!Next]_(Event!Vector(e)!vars)]_(Event!vars)
  BY EventVectorStep
<1> QED
  BY <1>1, <1>2, EventInvariant, PTL DEF Event!Spec, Event!ImplementsVectors
==============================================================================
