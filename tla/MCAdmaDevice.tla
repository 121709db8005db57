---------------------------- MODULE MCAdmaDevice -----------------------------
(* The registers in a BAR that is mapped whole or in part, one that is not    *)
(* mapped, one whose mapping is compiled out, and no second BAR at all.       *)
EXTENDS AdmaDevice

MCBarLayouts ==
    {<<"memory", "memory">>, <<"memory", "large40">>, <<"large", "memory">>, <<"memory", "large">>,
     <<"memory", "large48">>, <<"memory">>}
==============================================================================
