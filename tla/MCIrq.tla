------------------------------- MODULE MCIrq ---------------------------------
(* An engine with requests, one with a stream and a user event, on one or   *)
(* two processors.                                                          *)
EXTENDS XdmaIrq

CONSTANTS h2c, c2h, event

MCEngines == {h2c, c2h}
MCStreams == {c2h}
MCUsers == {event}
MCOrder == <<h2c, c2h, event>>
==============================================================================
