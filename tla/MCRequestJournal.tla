--------------------------- MODULE MCRequestJournal ---------------------------
(* Instances of RequestJournal for TLC.                                    *)
EXTENDS RequestJournalProperties

Sent(op, request, key, body) == [op |-> op, request |-> request, key |-> key, body |-> body]

(* One request is being reviewed; evidence is sent for it and more context *)
(* asked for meanwhile.  Another is created, under one key with two bodies.*)
InReview  == {"r1"}
ItsReview == {Sent("AI_REVIEW", "r1", "-", "-")}

Clients ==
  {Sent("request_context", "r1", "k1", "b1"), Sent("evidence", "r1", "k1", "b1"),
   Sent("create", "r2", "k1", "b1"), Sent("create", "r2", "k1", "b2"),
   Sent("evaluate", "unknown", "k1", "b1")}

Symmetry == Permutations(Sessions)
=============================================================================
