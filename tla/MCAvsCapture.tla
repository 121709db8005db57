---------------------------- MODULE MCAvsCapture -----------------------------
(* Words of eight bits and the driver's two ranges, of one picture.  Formats  *)
(* of it with too small a size, with so many bits that the size of the image  *)
(* overflows to what is stated, with so few that it is taken but has no       *)
(* synthesizer, with another height, headers or capabilities.                 *)
EXTENDS AvsCapture, TLC

MCFormat(w, h, b, c, s) ==
    [video |-> TRUE, fits |-> TRUE, caps |-> "c", width |-> w, height |-> h, bits |-> b,
     comp |-> c, size |-> s]

MCRanges == {MCFormat(4, 2, 24, "RGB", 24), MCFormat(4, 2, 16, "YUY2", 16)}

MCGiven ==
    MCRanges \cup
    {MCFormat(4, 2, 24, "RGB", 8), MCFormat(4, 2, 264, "YUY2", 8), MCFormat(4, 2, 8, "YUY2", 8),
     MCFormat(4, -2, 16, "YUY2", 16),
     [MCFormat(4, 2, 16, "YUY2", 24) EXCEPT !.fits = FALSE],
     [MCFormat(4, 2, 16, "YUY2", 12) EXCEPT !.caps = "other"]}

MCBarLayouts == {<<"memory", "memory", "large40">>, <<"large">>}

MCSymmetry == Permutations(Pins)
==============================================================================
