------------------------------ MODULE BlockFifo ------------------------------
(***************************************************************************)
(* What the card-to-host streaming ring promises its reader, with no ring: *)
(* a bounded first-in first-out store of received blocks.  The card        *)
(* appends the next block only while fewer than Capacity blocks wait, the  *)
(* reader always takes the oldest one, and closing the file drops what was *)
(* not read.  Blocks are named by the order in which the card filled them. *)
(* Once the promise is broken from outside, nothing is said.               *)
(***************************************************************************)
EXTENDS Naturals, Sequences

CONSTANT Capacity       \* how many blocks may wait to be read, a natural number

VARIABLES
    fifo,       \* the blocks that wait, oldest first
    made,       \* how many blocks the card has filled so far
    taken,      \* the block the reader took last, 0 before the first
    broken      \* something happened the driver has no defence against

fifoVars == <<fifo, made, taken, broken>>

Init == fifo = <<>> /\ made = 0 /\ taken = 0

Produce ==
    /\ Len(fifo) < Capacity
    /\ made' = made + 1
    /\ fifo' = Append(fifo, made + 1)
    /\ UNCHANGED taken

Consume ==
    /\ fifo # <<>>
    /\ taken' = Head(fifo)
    /\ fifo' = Tail(fifo)
    /\ UNCHANGED made

Drop ==
    /\ fifo' = <<>>
    /\ UNCHANGED <<made, taken>>

Next == (~broken /\ (Produce \/ Consume \/ Drop)) \/ broken'

Spec == Init /\ [][Next]_fifoVars
==============================================================================
