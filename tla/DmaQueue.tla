------------------------------- MODULE DmaQueue ------------------------------
(***************************************************************************)
(* What the queues of an engine promise the applications, with no engine:  *)
(* requests are served one at a time and in their order, the data of each  *)
(* is moved element by element and every element once, none is moved       *)
(* before its request is served or after it has ended, but for what a      *)
(* cancellation leaves behind, and a request that ends well is told of no  *)
(* more than was moved, and of all of it unless the framework has cut it   *)
(* short.                                                                  *)
(*                                                                         *)
(* The promise ends when it is broken from outside (see the modules that   *)
(* implement it): from then on nothing is said.                            *)
(***************************************************************************)
EXTENDS Naturals

CONSTANT Requests       \* numbered as applications make them

VARIABLES
    queue,      \* the queue each request is for
    list,       \* its elements: the request, a part of it and an index there
    req,        \* where each request is
    result,     \* how it has ended
    told,       \* the elements it was told of when it ended well
    data,       \* the elements that were moved
    again,      \* one of them was moved a second time
    cut,        \* requests the framework has cut short
    broken      \* something happened the driver has no defence against

given == <<queue, list>>
vars  == <<given, req, result, told, data, again, cut, broken>>

Ends == {"ok", "error", "failed", "cancelled"}

Init ==
    /\ req = [r \in Requests |-> "new"]
    /\ result = [r \in Requests |-> "none"] /\ told = [r \in Requests |-> {}]
    /\ data = {} /\ again = FALSE /\ cut = {}

Finish(r, how) ==
    /\ req' = [req EXCEPT ![r] = "done"]
    /\ result' = [result EXCEPT ![r] = how]

Submit(r) ==
    /\ req[r] = "new" /\ \A s \in Requests : s < r => req[s] # "new"
    /\ req' = [req EXCEPT ![r] = "queued"]
    /\ UNCHANGED <<result, told, data, cut>>

\* A request may end before it is served, but not well.
TurnAway(r) ==
    /\ req[r] \in {"new", "queued"}
    /\ \E how \in Ends \ {"ok"} : Finish(r, how)
    /\ UNCHANGED <<told, data, cut>>

\* It is served when all before it in its queue have ended.
Serve(r) ==
    /\ req[r] = "queued"
    /\ \A s \in Requests : s < r /\ queue[s] = queue[r] => req[s] = "done"
    /\ req' = [req EXCEPT ![r] = "owned"]
    /\ UNCHANGED <<result, told, data, cut>>

Before(y, x) == y[2] < x[2] \/ (y[2] = x[2] /\ y[3] < x[3])

\* Element x is the next of request r that has not been moved.
IsNext(r, x) ==
    /\ x \in list[r] \ data
    /\ \A y \in list[r] : Before(y, x) => y \in data

\* A cancellation does not wait for what the card was told to move.
Move(r) ==
    /\ req[r] = "owned" \/ result[r] = "cancelled"
    /\ \E x \in list[r] : IsNext(r, x) /\ data' = data \cup {x}
    /\ UNCHANGED <<req, result, told, cut>>

\* The framework cannot go on with a request that is being served.
Cut(r) ==
    /\ req[r] = "owned"
    /\ cut' = cut \cup {r}
    /\ UNCHANGED <<req, result, told, data>>

EndWell(r) ==
    /\ req[r] = "owned"
    /\ Finish(r, "ok")
    /\ \E part \in SUBSET list[r] : /\ part \subseteq data /\ (r \in cut \/ part = list[r])
                                    /\ told' = [told EXCEPT ![r] = part]
    /\ UNCHANGED <<data, cut>>

End(r) ==
    /\ req[r] = "owned"
    /\ \E how \in Ends \ {"ok"} : Finish(r, how)
    /\ UNCHANGED <<told, data, cut>>

Promised ==
    /\ \E r \in Requests :
           \/ Submit(r) \/ TurnAway(r) \/ Serve(r)
           \/ Move(r) \/ Cut(r) \/ EndWell(r) \/ End(r)
    /\ UNCHANGED <<given, again, broken>>

Next == (~broken /\ Promised) \/ broken'

Spec == Init /\ [][Next]_vars
==============================================================================
