------------------------------ MODULE MCDevice -------------------------------
(* Two channels a direction, designs with gaps, and three BAR layouts: only   *)
(* the registers, all three BARs, and no registers at all.                   *)
EXTENDS XdmaDevice

MCCards ==
    [engines : {{0, 2}, {1, 2, 3}, {3}}, stream : BOOLEAN]
MCBarLayouts == {[num |-> 1, config |-> 0], [num |-> 3, config |-> 1], [num |-> 2, config |-> 2]}
MCInterrupts ==
    {[kind |-> "line", pin |-> 0], [kind |-> "line", pin |-> 1],
     [kind |-> "msi", pin |-> 0], [kind |-> "msix", pin |-> 0]}
==============================================================================
