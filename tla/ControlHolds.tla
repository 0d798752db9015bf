----------------------------- MODULE ControlHolds -----------------------------
(***************************************************************************)
(* What the sandbox promises of its controls: an action holds a control at *)
(* most once, from being applied to being released or displaced, and no    *)
(* hold lasts for ever.                                                    *)
(***************************************************************************)
CONSTANTS Controls, Actions, Nobody

VARIABLES
  holder,  \* the action for which each control is in force, or Nobody
  spent    \* actions that have been applied, or can no longer be

vars == <<holder, spent>>

TypeOK == holder \in [Controls -> Actions \cup {Nobody}] /\ spent \subseteq Actions

Init == holder = [c \in Controls |-> Nobody] /\ spent = {}

(* A new action applies its control; who held it before is displaced.      *)
Apply(c, a) ==
  /\ a \notin spent
  /\ holder' = [holder EXCEPT ![c] = a]
  /\ spent' = spent \cup {a}

(* An execution fails before the control is applied.                       *)
Fail(a) == a \notin spent /\ spent' = spent \cup {a} /\ UNCHANGED holder

(* A rollback, or the expiry of all that is due.                           *)
Release(C) ==
  /\ \A c \in C : holder[c] # Nobody
  /\ holder' = [c \in Controls |-> IF c \in C THEN Nobody ELSE holder[c]]
  /\ UNCHANGED spent

Next ==
  \/ \E c \in Controls, a \in Actions : Apply(c, a)
  \/ \E a \in Actions : Fail(a)
  \/ \E C \in SUBSET Controls : Release(C)

Spec == Init /\ [][Next]_vars

(* Every hold ends.                                                        *)
HoldsEnd == \A c \in Controls, a \in Actions : holder[c] = a ~> holder[c] # a
=============================================================================
