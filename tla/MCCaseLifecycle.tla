--------------------------- MODULE MCCaseLifecycle ---------------------------
(* Instances of CaseLifecycle for TLC.                                     *)
EXTENDS CaseLifecycleProperties, TLC

Calm == [time |-> 2, device |-> "d1", action |-> "file_access", resource |-> "docs",
         class |-> "public", destination |-> None, internal |-> FALSE,
         volume |-> 0]
(* Weeks later: a critical file is read, then sent away.                   *)
ReadSecret == [Calm EXCEPT !.time = 60, !.resource = "secret", !.class = "critical"]
SendSecret == [Calm EXCEPT !.time = 62, !.action = "external_upload", !.resource = "secret",
                           !.class = "restricted", !.destination = "drop", !.volume = 1]

(* An assessment finds nothing in the actor's history, or most signals.    *)
Quiet   == [deviation |-> 0, anomaly |-> 0, login |-> 0, sequence |-> 0]
Strange == [deviation |-> 3, anomaly |-> 2, login |-> 3, sequence |-> 2]
QuietOrStrange == {Quiet, Strange}

ThreeEvents == <<Calm, ReadSecret, SendSecret>>

(* A project on the secret without a destination, a revision that names    *)
(* one, and an entry for reading it only.                                  *)
Project  == [from |-> 59, until |-> 64, resources |-> {"secret"}, actions |-> {},
             destinations |-> {}]
Transfer == [Project EXCEPT !.from = 61, !.destinations = {"drop"}]
Reading  == [Project EXCEPT !.until = 60, !.actions = {"file_access"}, !.destinations = AnyDestination]

(* Sessions differ in nothing but what they are doing.                     *)
Interchangeable == Permutations(Sessions)

ThreeEntries == [project |-> Project, transfer |-> Transfer, reading |-> Reading]
=============================================================================
