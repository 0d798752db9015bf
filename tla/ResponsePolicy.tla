---------------------------- MODULE ResponsePolicy ----------------------------
(***************************************************************************)
(* The response policy, engine/response_policy.py: which containment may   *)
(* be applied to the actor of a case, by itself or with an approval.  And  *)
(* the sandbox's table of controls, engine/sandbox_enforcement.py.         *)
(*                                                                         *)
(* A scope is a function from the keys of target_scope to identifiers.     *)
(* Ids, reasons in words and the blast radius are left out.                *)
(***************************************************************************)
EXTENDS Naturals, FiniteSets

Tier0 == {"observe"}
Tier1 == {"step_up_auth"}
Tier2 == {"block_external_upload", "freeze_privilege_change", "rate_limit_download"}
Tier3 == {"revoke_session", "isolate_device", "disable_account"}
ActionType == Tier0 \cup Tier1 \cup Tier2 \cup Tier3

Status == {"proposed", "auto_authorized", "awaiting_approval", "approved",
           "executing", "active", "expired", "rolled_back", "failed", "rejected"}
TERMINAL_STATUSES == {"expired", "rolled_back", "failed", "rejected"}
LiveStatus == {"auto_authorized", "approved", "executing", "active"}

(* What the policy reads of a case.  A row is one event of it: raw risk in *)
(* halves of a percentage point (the stored 0..100 is compared with 0.5),  *)
(* credit 1 only when its context explains it in full.                     *)
Reason   == {"privilege_escalation", "external_upload", "external_destination",
             "bulk_download"}
Category == {"identity", "resource_access", "privilege", "data_movement",
             "temporal_sequence"}
Row == [event : Nat, raw : 0..200, explained : BOOLEAN, reasons : SUBSET Reason,
        categories : SUBSET Category]
CaseFacts == [rows : SUBSET Row, residual : 0..100,
              confidence : {"low", "moderate", "high"},
              quality : {"sufficient", "sparse", "insufficient"}]

RESPONSE_PRIORITY_THRESHOLD == 75
RESPONSE_MIN_INDEPENDENT_CATEGORIES == 2
-----------------------------------------------------------------------------
Supporting(facts) ==
  {row \in facts.rows : ~row.explained /\ (row.raw >= 1 \/ row.reasons # {})}

EvidenceCategories(facts) == UNION {row.categories : row \in Supporting(facts)}
TriggerEvents(facts)      == {row.event : row \in Supporting(facts)}
Decisive(facts)           == \E row \in Supporting(facts) : row.reasons # {}

UnresolvedReasons(facts) ==
  UNION {row.reasons : row \in {x \in facts.rows : ~x.explained}}

(* "privilege_change" is what the code looks for; see Reason for what the  *)
(* rows may hold.                                                          *)
Recommend(facts) ==
  CASE UnresolvedReasons(facts) \cap {"external_upload", "external_destination"} # {}
         -> "block_external_upload"
    [] "privilege_change" \in UnresolvedReasons(facts) -> "freeze_privilege_change"
    [] "bulk_download" \in UnresolvedReasons(facts)    -> "rate_limit_download"
    [] OTHER -> IF facts.quality # "sufficient" \/ facts.confidence = "low"
                THEN "step_up_auth" ELSE "observe"

ScopeValues(scope) == {scope[k] : k \in DOMAIN scope}

ConflictPairs ==
  {{"step_up_auth", "revoke_session"}, {"step_up_auth", "disable_account"},
   {"revoke_session", "disable_account"}, {"isolate_device", "disable_account"}}

(* Mutant of Duplicates: only a control in force counts as equivalent.     *)
DuplicatesInForce(type, scope, existing) ==
  \E a \in existing : a.type = type /\ a.scope = scope /\ a.status = "active"

(* existing: the actions of the same case, as [type, scope, status].       *)
Duplicates(type, scope, existing) ==
  \E a \in existing : a.type = type /\ a.scope = scope /\ a.status \in LiveStatus

InConflict(type, scope, existing) ==
  \E a \in existing :
    /\ a.status \in LiveStatus
    /\ {type, a.type} \in ConflictPairs
    /\ \/ ScopeValues(scope) \cap ScopeValues(a.scope) # {}
       \/ "disable_account" \in {type, a.type}

(* The safeguards of containment, tiers 2 and 3.                           *)
Safe(scope, facts) ==
  /\ facts.residual >= RESPONSE_PRIORITY_THRESHOLD
  /\ TriggerEvents(facts) # {}
  /\ \/ Decisive(facts)
     \/ /\ Cardinality(EvidenceCategories(facts)) >= RESPONSE_MIN_INDEPENDENT_CATEGORIES
        /\ facts.confidence # "low"
        /\ facts.quality = "sufficient"
  /\ DOMAIN scope # {}

Allowed(type, scope, facts, existing) ==
  /\ ~Duplicates(type, scope, existing)
  /\ ~InConflict(type, scope, existing)
  /\ type \in Tier0 \cup Tier1 \/ (type \in Tier2 \cup Tier3 /\ Safe(scope, facts))

NeedsApproval(type) == type \in Tier3

(* The status a new action gets: create_action turns the decision into a   *)
(* transition out of "proposed".                                           *)
DecidedStatus(type, scope, facts, existing) ==
  CASE ~Allowed(type, scope, facts, existing) -> "rejected"
    [] NeedsApproval(type)                    -> "awaiting_approval"
    [] OTHER                                  -> "auto_authorized"
-----------------------------------------------------------------------------
ControlType(type) ==
  CASE type = "observe"                 -> "monitoring"
    [] type = "step_up_auth"            -> "step_up_auth"
    [] type = "block_external_upload"   -> "upload_destination"
    [] type = "freeze_privilege_change" -> "privilege_change"
    [] type = "rate_limit_download"     -> "download_rate_limit"
    [] type = "revoke_session"          -> "session"
    [] type = "isolate_device"          -> "device_isolation"
    [] type = "disable_account"         -> "account_status"

ControlKey(type) ==
  CASE type \in {"observe", "disable_account"}     -> "entity_ref"
    [] type \in {"step_up_auth", "revoke_session"} -> "session"
    [] type = "block_external_upload"              -> "destination"
    [] type = "freeze_privilege_change"            -> "permission"
    [] type = "rate_limit_download"                -> "resource"
    [] type = "isolate_device"                     -> "device"

(* The control an action applies.  A scope without the control's key names *)
(* none, and the execution fails; an account is known without it.          *)
HasTarget(type, scope) ==
  ControlKey(type) \in DOMAIN scope \/ ControlKey(type) = "entity_ref"

Target(type, scope, entity) ==
  <<ControlType(type),
    IF ControlKey(type) \in DOMAIN scope THEN scope[ControlKey(type)] ELSE entity>>
=============================================================================
