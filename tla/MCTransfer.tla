----------------------------- MODULE MCTransfer ------------------------------
(* Two requests, each moved in one transfer of two elements or split in two. *)
EXTENDS XdmaTransfer

MCLayouts == {<<2>>, <<1, 1>>}
==============================================================================
