---------------------------- MODULE AccessPolicy ----------------------------
(***************************************************************************)
(* The deterministic just-in-time access policy (access_control/policy.py):*)
(* a pure function from what is known of a request to a decision.  Nothing *)
(* the AI reviewer says is an input.                                       *)
(*                                                                         *)
(* Identities, resources and actions only matter to the policy through the *)
(* question "does this item's scope cover the request", so an item of      *)
(* evidence carries the answer (inScope) instead of three scope lists, and *)
(* a justification carries whether it has the twenty characters            *)
(* break-glass asks for.                                                   *)
(***************************************************************************)
EXTENDS Integers, FiniteSets

Sensitivity    == {"public", "internal", "restricted", "critical"}
Trust          == {"trusted", "untrusted", "unknown"}
Authentication == {"single_factor", "mfa", "phishing_resistant"}
Role           == {"reviewer", "resource_owner", "admin"}

BusinessType == {"ticket", "incident", "project"}
EvidenceType == BusinessType \cup {"resource_owner_sponsorship", "identity_verification",
                                   "device_attestation", "location_attestation"}
EvidenceItem == [type : EvidenceType, status : {"pending", "verified", "rejected"},
                 inScope : BOOLEAN]

(* Facts about the subject that block a request: an unresolved critical    *)
(* reason of the linked case, and a containment action in force.           *)
Risk == {"critical_evidence", "containment"}

MinDuration == 60
MaxDuration == 86400
Duration    == MinDuration..MaxDuration

(* What a request is created with and never changes afterwards.            *)
RequestProfile == [sensitivity : Sensitivity, device : Trust, location : Trust,
                   authentication : Authentication, breakGlass : BOOLEAN,
                   justified : BOOLEAN, duration : Duration]

PolicyInput == [profile : RequestProfile, evidence : SUBSET EvidenceItem,
                risks : SUBSET Risk, isAdmin : BOOLEAN]
-----------------------------------------------------------------------------
When(condition, reason) == IF condition THEN {reason} ELSE {}

(* Mutant of Scoped: the scopes of verified evidence are not looked at.    *)
VerifiedOfAnyScope(evidence) == {e \in evidence : e.status = "verified"}

(* Verified evidence whose scopes cover the request.                       *)
Scoped(evidence) == {e \in evidence : e.status = "verified" /\ e.inScope}

ScopedTypes(evidence) == {e.type : e \in Scoped(evidence)}

Missing(in) ==
  LET sensitivity == in.profile.sensitivity
      types       == ScopedTypes(in.evidence)
  IN  When(sensitivity \in {"restricted", "critical"} /\ types \cap BusinessType = {},
           "VERIFIED_BUSINESS_CONTEXT")
      \cup
      When(sensitivity = "critical" /\ "resource_owner_sponsorship" \notin types,
           "RESOURCE_OWNER_SPONSORSHIP")
      \cup
      When(sensitivity # "public" /\ Scoped(in.evidence) = {},
           "VERIFIED_SCOPED_EVIDENCE")

Blocking(in) ==
  LET p == in.profile
  IN  When(p.sensitivity \in {"restricted", "critical"} /\ p.device # "trusted",
           "DEVICE_NOT_TRUSTED")
      \cup
      When(p.sensitivity = "critical" /\ p.authentication # "phishing_resistant",
           "STEP_UP_AUTH_REQUIRED")
      \cup
      When(p.sensitivity # "critical"
             /\ p.authentication \notin {"mfa", "phishing_resistant"},
           "MFA_REQUIRED")
      \cup
      When(p.location = "untrusted", "UNTRUSTED_LOCATION")
      \cup
      When("critical_evidence" \in in.risks, "UNRESOLVED_CRITICAL_SECURITY_EVIDENCE")
      \cup
      When("containment" \in in.risks, "ACTIVE_CONTAINMENT_CONFLICT")
      \cup
      When(p.breakGlass /\ ~in.isAdmin, "BREAK_GLASS_ADMIN_REQUIRED")
      \cup
      When(p.breakGlass /\ ~p.justified, "BREAK_GLASS_JUSTIFICATION_REQUIRED")

(* Mutant of Eligible: breaking the glass overrides what blocks.           *)
EligibleOrGlassBroken(in) ==
  (Blocking(in) = {} \/ in.profile.breakGlass) /\ Missing(in) = {}

Eligible(in) == Blocking(in) = {} /\ Missing(in) = {}

(* Mutant of RequiredRoles: the owner replaces the reviewer.               *)
RequiredRolesOwnerOnly(profile) ==
  IF profile.breakGlass THEN {"admin"}
  ELSE IF profile.sensitivity = "critical" THEN {"resource_owner"}
  ELSE {"reviewer"}

(* Break-glass replaces the other approver roles, it does not add to them. *)
RequiredRoles(profile) ==
  IF profile.breakGlass THEN {"admin"}
  ELSE IF profile.sensitivity = "critical" THEN {"resource_owner", "reviewer"}
  ELSE {"reviewer"}

SensitivityTTL == [public |-> 86400, internal |-> 28800,
                   restricted |-> 14400, critical |-> 3600]

MaximumDuration(profile) ==
  LET ceiling == IF profile.breakGlass THEN 900 ELSE SensitivityTTL[profile.sensitivity]
  IN  IF profile.duration < ceiling THEN profile.duration ELSE ceiling

(* The part of AccessPolicyDecision the workflow acts on.                  *)
Decision == [eligible : BOOLEAN, roles : SUBSET Role]

(* Mutant of EvaluateAccessPolicy: every request asks for a reviewer only. *)
EvaluateForReviewer(in) == [eligible |-> Eligible(in), roles |-> {"reviewer"}]

EvaluateAccessPolicy(in) ==
  [eligible |-> Eligible(in), roles |-> RequiredRoles(in.profile)]
=============================================================================
