--------------------------- MODULE MCAccessControl ---------------------------
(* Instances of AccessControl for TLC.                                     *)
EXTENDS AccessControlProperties, TLC

Request1  == "arq1"
OneRequest == {Request1}

Critical ==
  [sensitivity |-> "critical", device |-> "trusted", location |-> "trusted",
   authentication |-> "phishing_resistant", breakGlass |-> FALSE, justified |-> TRUE,
   duration |-> 3600]
Internal == [Critical EXCEPT !.sensitivity = "internal"]

CriticalProfile == [r \in OneRequest |-> Critical]
InternalProfile == [r \in OneRequest |-> Internal]

(* The requester is a reviewer too: self-approval must be possible to try. *)
Requested == [r \in OneRequest |-> [who |-> "alice", role |-> "analyst"]]

Deciders ==
  {[who |-> "alice", role |-> "reviewer",       owns |-> {}],
   [who |-> "bob",   role |-> "reviewer",       owns |-> {}],
   [who |-> "dave",  role |-> "reviewer",       owns |-> {}],
   [who |-> "carol", role |-> "resource_owner", owns |-> OneRequest]}

Ticket      == [type |-> "ticket", status |-> "verified", inScope |-> TRUE]
Attestation == [type |-> "device_attestation", status |-> "verified", inScope |-> FALSE]
Sponsor     == [type |-> "resource_owner_sponsorship", status |-> "verified", inScope |-> TRUE]

(* Workers are interchangeable; used by runs without liveness properties. *)
WorkerSymmetry == Permutations(Workers)

CriticalEvidence == {Ticket, Sponsor}
InternalEvidence == {Ticket, Attestation}
=============================================================================
