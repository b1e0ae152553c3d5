------------------------ MODULE CoapRequestLifecycle ------------------------
(***************************************************************************)
(* What a QCoapClient promises of every request, whatever the network and  *)
(* the other requests do: the protocol tracks it during one period, never  *)
(* again once that is over, and its reply reaches one outcome, once.  A    *)
(* reply completes only when its exchange is over; the user may withdraw   *)
(* from it (abort, delete, cancel an observation) at any time.             *)
(***************************************************************************)
CONSTANT Requests

VARIABLES phase, outcome

lifecycleVars == <<phase, outcome>>

LifecycleInit ==
    /\ phase = [r \in Requests |-> "new"]
    /\ outcome = [r \in Requests |-> "none"]

Move(r, from, to) == phase[r] = from /\ phase' = [phase EXCEPT ![r] = to]

Post(r) == Move(r, "new", "posted") /\ UNCHANGED outcome

\* Tracking begins; the request whose token r took over is not tracked any more.
Begin(r) ==
    /\ phase[r] = "posted"
    /\ \/ phase' = [phase EXCEPT ![r] = "tracked"]
       \/ \E s \in Requests \ {r} :
             phase[s] = "tracked" /\ phase' = [phase EXCEPT ![r] = "tracked", ![s] = "over"]
    /\ UNCHANGED outcome

Drop(r) == Move(r, "posted", "over") /\ UNCHANGED outcome

End(r) == Move(r, "tracked", "over") /\ UNCHANGED outcome

Reach(r, o) ==
    /\ outcome[r] = "none"
    /\ outcome' = [outcome EXCEPT ![r] = o]
    /\ UNCHANGED phase

Complete(r) == phase[r] = "over" /\ Reach(r, "completed")

Withdraw(r) == phase[r] # "new" /\ Reach(r, "withdrawn")

LifecycleNext ==
    \E r \in Requests : \/ Post(r) \/ Begin(r) \/ Drop(r) \/ End(r)
                        \/ Complete(r) \/ Withdraw(r)

Spec == LifecycleInit /\ [][LifecycleNext]_lifecycleVars
=============================================================================
