------------------------------- MODULE MCRing --------------------------------
(* Small instances of the streaming ring for TLC. *)
EXTENDS XdmaRing

\* Less than a block, which cuts it short, and more than one.
MCReadLengths == {1, 3}

\* Bound: a disturbed ring, of which little is claimed but that reads end, is
\* followed for fewer blocks: one, and two where the reader polls.
DisturbedBriefly == disturbed => filled <= IF poll THEN 2 ELSE 1
==============================================================================
