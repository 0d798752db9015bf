--------------------------- MODULE AccessLifecycle ---------------------------
(***************************************************************************)
(* What just-in-time access promises, without saying how: a request is     *)
(* reviewed, then granted or closed; only a grant opens the access; a      *)
(* request that is closed is closed for good, with the access shut.        *)
(***************************************************************************)
CONSTANT Requests

VARIABLES
  phase,  \* where each request stands
  open    \* whether the subject is let in

vars == <<phase, open>>

Phase == {"absent", "review", "granted", "live", "closing", "faulted", "closed"}

MoveTo(r, from, to) ==
  /\ phase[r] \in from
  /\ phase' = [phase EXCEPT ![r] = to]
  /\ UNCHANGED open

Submit(r) == MoveTo(r, {"absent"}, "review")
Refuse(r) == MoveTo(r, {"review"}, "closed")
Grant(r)  == MoveTo(r, {"review"}, "granted")

Open(r) ==
  /\ phase[r] = "granted"
  /\ open' = [open EXCEPT ![r] = TRUE]
  /\ UNCHANGED phase

Activate(r) == open[r] /\ MoveTo(r, {"granted"}, "live")
Withdraw(r) == MoveTo(r, {"live", "faulted"}, "closing")
Fail(r)     == MoveTo(r, {"granted", "live", "closing"}, "faulted")

Shut(r) ==
  /\ phase[r] \in {"live", "closing", "faulted"}
  /\ open' = [open EXCEPT ![r] = FALSE]
  /\ UNCHANGED phase

Close(r) == ~open[r] /\ MoveTo(r, {"live", "closing"}, "closed")

Init == /\ phase = [r \in Requests |-> "absent"]
        /\ open  = [r \in Requests |-> FALSE]

Next == \E r \in Requests :
          \/ Submit(r) \/ Refuse(r) \/ Grant(r) \/ Open(r) \/ Activate(r)
          \/ Withdraw(r) \/ Fail(r) \/ Shut(r) \/ Close(r)

Spec == Init /\ [][Next]_vars
-----------------------------------------------------------------------------
(* The access is open only between the grant and the close: nobody is let  *)
(* in during the review or after a refusal, a revocation or an expiry.     *)
OpenOnlyWhileGranted ==
  \A r \in Requests : open[r] => phase[r] \in {"granted", "live", "closing", "faulted"}

(* A closed request stays closed: what the contract calls a terminal state.*)
ClosedIsFinal ==
  [][\A r \in Requests : phase[r] = "closed" => phase'[r] = "closed"]_vars
=============================================================================
