--------------------------- MODULE SourceInterrupt ---------------------------
(***************************************************************************)
(* What the code of one interrupt source with a vector of its own can      *)
(* count on, with no other source, no processors and no registers: the     *)
(* service routine runs for a request that is enabled, and masks it; what  *)
(* it queues runs once, not while an earlier run is going on, and enables  *)
(* the source when it ends.  A device that leaves D0 masks the source and  *)
(* comes back when nothing of it is left running.                          *)
(***************************************************************************)

VARIABLES
    up,         \* the device is in D0 and its interrupts are connected
    request,    \* the source requests its interrupt
    enabled,    \* its bit in the enable register
    queued,     \* its DPC is queued
    busy,       \* its DPC runs
    broken      \* someone else has enabled it: nothing is said while that lasts

vars == <<up, request, enabled, queued, busy, broken>>

Init == broken \/ (up /\ enabled /\ ~queued /\ ~busy)

Isr ==
    /\ up /\ request /\ enabled
    /\ ~enabled' /\ queued'
    /\ (busy' <=> busy) /\ (up' <=> up)

Start ==
    /\ queued /\ ~busy
    /\ ~queued' /\ busy'
    /\ (enabled' <=> enabled) /\ (up' <=> up)

\* Also when the device has left D0 meanwhile.
End ==
    /\ busy
    /\ ~busy' /\ enabled'
    /\ (queued' <=> queued) /\ (up' <=> up)

Disable ==
    /\ up
    /\ ~up' /\ ~enabled'
    /\ (queued' <=> queued) /\ (busy' <=> busy)

Enable ==
    /\ ~up /\ ~queued /\ ~busy
    /\ up' /\ enabled'
    /\ (queued' <=> queued) /\ (busy' <=> busy)

\* The request comes and goes as the card and the work on it have it.
Elsewhere ==
    (up' <=> up) /\ (enabled' <=> enabled) /\ (queued' <=> queued) /\ (busy' <=> busy)

Next ==
    \/ Isr \/ Start \/ End \/ Disable \/ Enable \/ Elsewhere
    \/ broken \/ broken'

Spec == Init /\ [][Next]_vars
==============================================================================
