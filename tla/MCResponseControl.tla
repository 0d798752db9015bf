-------------------------- MODULE MCResponseControl --------------------------
(* Instances of ResponseControl for TLC.                                   *)
EXTENDS ResponseControlProperties, TLC

Case1 == "case1"
OneCase == {Case1}
Actor == [c \in OneCase |-> "act"]

Upload == [event |-> 1, raw |-> 200, explained |-> FALSE,
           reasons |-> {"external_upload"}, categories |-> {"data_movement"}]
Serious == [rows |-> {Upload}, residual |-> 100, confidence |-> "high",
            quality |-> "sufficient"]
Benign == [Serious EXCEPT !.rows = {}, !.residual = 25]

SeriousOnly == {Serious}
Changing    == {Serious, Benign}

Ask(type, scope) == [case |-> Case1, type |-> type, scope |-> scope]
BlockUpload   == Ask("block_external_upload", [destination |-> "d1", session |-> "s1"])
RevokeSession == Ask("revoke_session", [session |-> "s1"])
StepUp        == Ask("step_up_auth", [session |-> "s1"])
(* The scope's values are in the case, its keys are not the control's.     *)
Misdirected   == Ask("block_external_upload", [session |-> "s1"])

Holds1 == {BlockUpload, RevokeSession}
Holds2 == {BlockUpload, RevokeSession, StepUp, Misdirected}
KeySymmetry == Permutations(Keys)
SessionSymmetry == Permutations(Sessions)
Symmetry == KeySymmetry \cup SessionSymmetry
=============================================================================
