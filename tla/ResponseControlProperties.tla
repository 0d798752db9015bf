---------------------- MODULE ResponseControlProperties ----------------------
(* What the response actions and the sandbox's controls must satisfy.      *)
EXTENDS ResponseControl

(* Types of the variables.                                                 *)
TypeOK ==
  /\ facts \in [Cases -> Facts]
  /\ DOMAIN action \subseteq Keys /\ \A k \in DOMAIN action : action[k] \in ActionRow
  /\ DOMAIN control \subseteq Controls /\ \A c \in DOMAIN control : control[c] \in ControlRow
  /\ due \subseteq DOMAIN action
  /\ DOMAIN txn = Process
  /\ aborts \in 0..MaxAborts

InForce(c) == c \in DOMAIN control /\ control[c].active

Authorised(row) ==
  \/ row.decided = "auto_authorized" /\ row.ask.type \notin Tier3
  \/ row.decided = "awaiting_approval" /\ row.approver \notin {Nobody, row.by}

(* A control was applied only for an action the policy allowed by itself,  *)
(* or that somebody other than its requester approved: approve_action's    *)
(* separation of duties seen from the control, through executions that     *)
(* work on a row loaded long before (response_policy.py, response_service).*)
ControlIsAuthorised == \A c \in DOMAIN control : Authorised(action[control[c].by])

(* A control is in force exactly while the action that applied it last is  *)
(* active: no rollback, expiry or failed execution leaves it behind, and   *)
(* none of another action takes it away (sandbox_enforcement.py).          *)
ControlFollowsOwner ==
  \A c \in DOMAIN control : control[c].active <=> action[control[c].by].status = "active"

(* The policy refuses a hold that a live action already gives, so no two   *)
(* live automatic actions of a case are of one type and scope.             *)
NoDuplicateHold ==
  \A k, l \in DOMAIN action :
    (/\ k # l
     /\ {action[k].decided, action[l].decided} = {"auto_authorized"}
     /\ {action[k].status, action[l].status} \subseteq LiveStatus)
    => action[k].ask # action[l].ask

(* A terminal action never leaves its status ("Terminal actions cannot     *)
(* become active again", API_CONTRACT.md), whichever handlers are called.  *)
TerminalStaysTerminal ==
  [][\A k \in DOMAIN action :
       action[k].status \in TERMINAL_STATUSES => action'[k].status = action[k].status]_vars

(* Refinement: holders are the actions for which a control is in force.    *)
Holds == INSTANCE ControlHolds WITH
  Controls <- Controls, Actions <- Keys, Nobody <- Nobody,
  holder <- [c \in Controls |-> IF InForce(c) THEN control[c].by ELSE Nobody],
  spent  <- {k \in DOMAIN action :
               action[k].status \in {"active", "expired", "rolled_back", "failed"}}

(* Each action takes its control at most once; a displaced, rolled back,   *)
(* expired or failed one never takes it back.                              *)
ImplementsHolds == Holds!Spec

(* Every hold ends: an expired one is rolled back by the task of main.py,  *)
(* whatever the operators do ("automatic_on_expiry").                      *)
HoldsEnd == Holds!HoldsEnd
=============================================================================
