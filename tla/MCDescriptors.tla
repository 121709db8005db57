---------------------------- MODULE MCDescriptors ----------------------------
(* Pages of 16 descriptors, requests of a quarter, a half and a whole page,  *)
(* transfers of up to three pages.                                           *)
EXTENDS XdmaDescriptors

MCReadSizes == {4, 8, 16}
==============================================================================
