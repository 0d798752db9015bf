------------------------ MODULE AccessPolicyProperties ------------------------
(***************************************************************************)
(* What the access policy promises, as the facts about one request change  *)
(* between its evaluations: evidence is attached and never taken back,     *)
(* risks come and go, and the principal who evaluates may be an admin or   *)
(* not.  What the request asks for is fixed when it is created.            *)
(***************************************************************************)
EXTENDS AccessPolicy

CONSTANTS
  Profiles,  \* what a request may ask for
  Catalog    \* the evidence items that may be attached to it

ASSUME CasesAssumption ==
  Profiles \subseteq RequestProfile /\ Catalog \subseteq EvidenceItem

VARIABLE in  \* what the policy would be given now

Attach(item) == in' = [in EXCEPT !.evidence = @ \cup {item}]

RiskStarts(risk) == in' = [in EXCEPT !.risks = @ \cup {risk}]

RiskEnds(risk) == in' = [in EXCEPT !.risks = @ \ {risk}]

EvaluatorChanges == in' = [in EXCEPT !.isAdmin = ~@]

Init == in \in [profile : Profiles, evidence : {{}}, risks : {{}}, isAdmin : BOOLEAN]

Next ==
  \/ \E item \in Catalog : Attach(item)
  \/ \E risk \in Risk : RiskStarts(risk) \/ RiskEnds(risk)
  \/ EvaluatorChanges

Spec == Init /\ [][Next]_in

TypeOK == in \in PolicyInput
-----------------------------------------------------------------------------
Level == [public |-> 0, internal |-> 1, restricted |-> 2, critical |-> 3]

With(profile) == [in EXCEPT !.profile = profile]

AskingFor(sensitivity) == [in.profile EXCEPT !.sensitivity = sensitivity]

GlassBroken == [in.profile EXCEPT !.breakGlass = TRUE]
GlassIntact == [in.profile EXCEPT !.breakGlass = FALSE]

(* A more sensitive resource is never easier to get at, nor for longer,    *)
(* and never with fewer approvers: the checks of each level include those  *)
(* of the levels below, though each is written with conditions of its own. *)
SensitivityOnlyTightens ==
  \A low, high \in Sensitivity : Level[low] <= Level[high] =>
    /\ Eligible(With(AskingFor(high))) => Eligible(With(AskingFor(low)))
    /\ MaximumDuration(AskingFor(high)) <= MaximumDuration(AskingFor(low))
    /\ RequiredRoles(AskingFor(low)) \subseteq RequiredRoles(AskingFor(high))

(* Break-glass changes who approves and shortens the access; it waives no  *)
(* check, so nothing becomes eligible by breaking the glass.               *)
BreakGlassWaivesNoCheck ==
  /\ Eligible(With(GlassBroken)) => Eligible(With(GlassIntact))
  /\ MaximumDuration(GlassBroken) <= MaximumDuration(GlassIntact)

(* Evidence cures only what was missing: attaching some never makes an     *)
(* eligible request ineligible, never lifts a block, and does nothing at   *)
(* all when it is unverified or does not cover the request.                *)
EvidenceOnlyCures ==
  [][\A item \in Catalog : Attach(item) =>
       /\ Missing(in') \subseteq Missing(in)
       /\ Blocking(in') = Blocking(in)
       /\ item.status # "verified" \/ ~item.inScope => Missing(in') = Missing(in)]_in
=============================================================================
