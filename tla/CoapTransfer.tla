---------------------------- MODULE CoapTransfer ----------------------------
(***************************************************************************)
(* What a blockwise transfer promises to the user of one request: the      *)
(* content that is handed over is the whole resource, it is handed over    *)
(* once, and only after the server has the whole payload of the request.   *)
(***************************************************************************)
VARIABLES
    stage,      \* "running", then "done" or "failed"
    uploaded,   \* whether the server has the payload
    handed      \* what the user got: "nothing" or the "whole" content

transferVars == <<stage, uploaded, handed>>

Init == stage = "running" /\ uploaded \in BOOLEAN /\ handed = "nothing"

Upload == stage = "running" /\ ~uploaded /\ uploaded' = TRUE /\ UNCHANGED <<stage, handed>>

HandOver == /\ stage = "running" /\ uploaded
            /\ stage' = "done" /\ handed' = "whole"
            /\ UNCHANGED uploaded

Fail == stage = "running" /\ stage' = "failed" /\ UNCHANGED <<uploaded, handed>>

Next == Upload \/ HandOver \/ Fail

Spec == Init /\ [][Next]_transferVars
=============================================================================
