---------------------------- MODULE MCAdmaTransfer ----------------------------
(* A list of two elements, in two windows or crossing from one into the next, *)
(* meets one in either.  The addresses in w2 do not select entry 0.           *)
EXTENDS AdmaTransfer

MCEntry == [w \in Windows |-> IF w = "w1" THEN 0 ELSE 1]
MCLoads == {<< << <<"w1">>, <<"w1">> >>, << <<"w2">> >> >>,
            << << <<"w1", "w2">>, <<"w2">> >>, << <<"w1">> >> >>}
==============================================================================
