------------------------------ MODULE AvsFormat ------------------------------
(***************************************************************************)
(* Which video formats the capture pin offers and takes: the intersection  *)
(* of data ranges and the check of a connection format                     *)
(* (avsadma/capture.cpp), in words of a width given as a constant.         *)
(*                                                                         *)
(* A format is what both look at of a KS_DATAFORMAT_VIDEOINFOHEADER or a   *)
(* KS_DATARANGE_VIDEO: its bitmap header, whether its specifier is that of *)
(* video, whether the headers fit into the size it states ("fits"), and    *)
(* its flags and configuration capabilities as one value ("caps").         *)
(***************************************************************************)
EXTENDS Integers, FiniteSets

CONSTANTS
    WordSize,   \* number of values of a ULONG
    Ranges,     \* CapturePinDataRanges
    Given       \* formats and ranges applications come with

Format == [video : BOOLEAN, fits : BOOLEAN, caps : STRING, width : Int, height : Int,
           bits : Nat, comp : STRING, size : Nat]

ASSUME FormatAssumption ==
    /\ WordSize \in Nat \ {0}
    /\ IsFiniteSet(Ranges) /\ IsFiniteSet(Given)
    /\ Ranges \cup Given \subseteq Format
    /\ \A r \in Ranges : /\ r.width \in 0 .. WordSize - 1
                         /\ r.height \in 1 - WordSize .. WordSize - 1

ULong(n) == n % WordSize
Abs(n) == IF n < 0 THEN -n ELSE n

\* KS_DIBSIZE of ksmedia.h (external): rows of whole 32-bit words, each step in
\* a ULONG.
DibSize(f) ==
    LET bits == ULong(ULong(f.width) * f.bits)
        row  == (ULong(bits + 31) \div 32) * 4
    IN  ULong(ULong(Abs(f.height)) * row)

\* IntersectHandler, once the buffer is found large enough: the format of the
\* caller with the size of its image computed, or none.  The flags of both
\* ranges are to be the same; the picture is taken from the caller as it is.
IntersectHandler(caller, range) ==
    IF caller.video /\ caller.caps = range.caps /\ caller.fits
    THEN {[caller EXCEPT !.size = DibSize(caller)]}
    ELSE {}

\* Mutant: the product is never found to have overflowed.
MultiplyUnchecked(a, b) == [ok |-> TRUE, product |-> ULong(a * b)]

MultiplyCheckOverflow(a, b) ==
    LET ab == ULong(a * b) IN [ok |-> a = 0 \/ ab \div a = b, product |-> ab]

\* What DispatchSetFormat asks of a connection format before it changes
\* anything: the picture of the range, and a size that holds it.
Acceptable(f, range) ==
    LET pixels == MultiplyCheckOverflow(ULong(f.width), ULong(Abs(f.height)))
        bytes  == MultiplyCheckOverflow(pixels.product, f.bits \div 8)
    IN  /\ f.video /\ f.fits
        /\ f.width = range.width /\ f.height = range.height /\ f.comp = range.comp
        /\ pixels.ok /\ bytes.ok
        /\ f.size >= bytes.product

\* A connection is made with a format of the application's own, or with one it
\* has from an intersection.
Connections == Given \cup UNION {IntersectHandler(c, r) : c \in Given, r \in Ranges}

\* Those the pin is created with, or is set to.
Accepted == {f \in Connections : \E r \in Ranges : Acceptable(f, r)}

\* The bytes of the picture.
ImageBytes(f) == Abs(f.width) * Abs(f.height) * (f.bits \div 8)
==============================================================================
