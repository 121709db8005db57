----------------------------- MODULE MCUserEvent -----------------------------
(* Two events and two readers, of the same event or of one each. *)
EXTENDS XdmaUserEvent
==============================================================================
