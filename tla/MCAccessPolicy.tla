---------------------------- MODULE MCAccessPolicy ----------------------------
(* An instance of AccessPolicyProperties for TLC: every profile, with the  *)
(* durations on either side of the ceilings, and one evidence item of each *)
(* sort the policy distinguishes.                                          *)
EXTENDS AccessPolicyProperties

Durations == {600, 14400, 86400}

AllProfiles ==
  [sensitivity : Sensitivity, device : Trust, location : Trust,
   authentication : Authentication, breakGlass : BOOLEAN, justified : BOOLEAN,
   duration : Durations]

Item(type, status, inScope) == [type |-> type, status |-> status, inScope |-> inScope]

SomeEvidence ==
  {Item("ticket", "verified", TRUE), Item("incident", "pending", TRUE),
   Item("resource_owner_sponsorship", "verified", TRUE),
   Item("project", "verified", FALSE)}
=============================================================================
