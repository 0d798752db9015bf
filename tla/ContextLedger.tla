---------------------------- MODULE ContextLedger ----------------------------
(***************************************************************************)
(* How an event is explained by the approved entries of the context        *)
(* ledger, engine/context.py, and what an assessment makes of it,          *)
(* engine/fusion.py.                                                       *)
(*                                                                         *)
(* Time is counted in quarters of a day.  Credit is counted in halves: a   *)
(* pair of an event and an entry scores 0, 1/2 or 1.  Signals are counted  *)
(* in quarters.  Those that come from histories, the actor's and its       *)
(* cohort's, are an argument of an assessment: they are computed anew as   *)
(* of its time, for all its events.  Percentages and the rounding to four  *)
(* places are left out.                                                    *)
(***************************************************************************)
EXTENDS Integers, FiniteSets, FiniteSetsExt, Functions

None           == "none"    \* no resource, no classification, no destination
AnyDestination == {"any"}   \* approved_destinations is null

Class  == {None, "public", "internal", "restricted", "critical"}
Action == {"login", "privilege_change", "file_access", "repo_access",
           "file_download", "external_upload", "permission_request"}

(* volume is in quarters of the bulk threshold; internal says whether a    *)
(* destination begins with one of the internal prefixes.                   *)
Event == [time : Nat, device : STRING, action : Action, resource : STRING, class : Class,
          destination : STRING, internal : BOOLEAN, volume : Nat]

(* What histories say as of a time: the larger of the personal and the     *)
(* cohort deviation (S_t, P_t), the behaviour model (M_t), the login rules *)
(* (L_t) and the sequence of privilege, access and transfer (Q_t).         *)
Signals == [deviation : 0..4, anomaly : 0..4, login : 0..4, sequence : 0..4]

(* An empty set of resources or actions constrains nothing.                *)
Entry == [from : Nat, until : Nat, resources : SUBSET STRING, actions : SUBSET Action,
          destinations : SUBSET STRING]

WINDOW_48H               == 8
TRANSITION_LEAD          == 1    \* six hours before a change point
MIN_PERSONAL_HISTORY     == 56   \* fourteen days
LARGE_DOWNLOAD           == 2    \* 500 of 1000
BULK_DOWNLOAD            == 4
-----------------------------------------------------------------------------
TimeMatch(event, entry) == entry.from <= event.time /\ event.time <= entry.until

ResourceMisses(event, entry) ==
  event.resource # None /\ entry.resources # {} /\ event.resource \notin entry.resources

ActionMisses(event, entry) == entry.actions # {} /\ event.action \notin entry.actions

DestinationMisses(event, entry) ==
  /\ event.destination # None
  /\ event.action \in {"external_upload", "file_download"}
  /\ entry.destinations # AnyDestination
  /\ event.destination \notin entry.destinations

(* Credit in halves.  With time, resource and action allowed a destination *)
(* that is not costs half.                                                 *)
Score(event, entry) ==
  IF ~TimeMatch(event, entry) \/ ResourceMisses(event, entry) \/ ActionMisses(event, entry) THEN 0
  ELSE IF DestinationMisses(event, entry) THEN 1 ELSE 2

(* Mutant of BestScore: the entry that counts is the one effective latest. *)
LatestScore(event, entries) ==
  IF entries = {} THEN 0
  ELSE LET latest == CHOOSE x \in entries : \A y \in entries : y.from <= x.from
       IN  Score(event, latest)

BestScore(event, entries) == Max({0} \cup {Score(event, entry) : entry \in entries})

(* A field that matching needs is missing, or history is short and nothing *)
(* approved is about that time: neither guilt nor coverage.                *)
Indeterminate(event, entries, history) ==
  \/ event.resource # None /\ event.class = None
  \/ history < MIN_PERSONAL_HISTORY /\ \A entry \in entries : ~TimeMatch(event, entry)

Credit(event, entries, history) ==
  IF Indeterminate(event, entries, history) THEN 0 ELSE BestScore(event, entries)

Unexplained(event, entries, history) ==
  ~Indeterminate(event, entries, history) /\ BestScore(event, entries) = 0
-----------------------------------------------------------------------------
CriticalReasons(event) ==
  {r \in {"privilege_escalation", "external_upload", "external_destination", "bulk_download"} :
     CASE r = "privilege_escalation" -> event.action = "privilege_change"
       [] r = "external_upload"      -> event.action = "external_upload"
       [] r = "external_destination" -> /\ event.action = "external_upload"
                                        /\ event.destination # None /\ ~event.internal
       [] r = "bulk_download"        -> /\ event.action = "file_download"
                                        /\ event.volume >= BULK_DOWNLOAD}

(* CLASSIFICATION_SCORE, in quarters; without a class it counts as public. *)
Sensitivity(class) ==
  CASE class = "critical" -> 4 [] class = "restricted" -> 3 [] class = "internal" -> 2
    [] OTHER -> 1

Resourceful == {"file_access", "repo_access", "file_download", "external_upload"}

IdentitySignal(event, signals) ==
  IF event.action = "login" THEN Max({signals.anomaly, signals.login}) ELSE signals.anomaly

ResourceSignal(event, signals) ==
  IF event.action \in Resourceful THEN Max({Sensitivity(event.class), signals.deviation}) ELSE 0

MovementSignal(event) ==
  CASE event.action = "external_upload" -> 4
    [] event.action = "file_download"   -> Min({event.volume, BULK_DOWNLOAD})
    [] OTHER                            -> 0

SequenceSignal(event, signals) == IF event.action \in Resourceful THEN signals.sequence ELSE 0

(* Noisy-or of the categories, in 1/256; a privilege change alone is 1.    *)
RawRisk(event, signals) ==
  IF event.action = "privilege_change" THEN 256
  ELSE 256 - (4 - IdentitySignal(event, signals)) * (4 - ResourceSignal(event, signals))
             * (4 - MovementSignal(event)) * (4 - SequenceSignal(event, signals))

(* Of an event in 1/512: what its context leaves of its raw risk, and      *)
(* never less than a quarter if it is critical.                            *)
CRITICAL_EVENT_FLOOR == 128

(* Mutant of Residual: the floor comes on top.                             *)
ResidualAboveFloor(event, raw, credit) ==
  raw * (2 - credit) + (IF CriticalReasons(event) # {} THEN CRITICAL_EVENT_FLOOR ELSE 0)

Residual(event, raw, credit) ==
  Max({raw * (2 - credit), IF CriticalReasons(event) # {} THEN CRITICAL_EVENT_FLOOR ELSE 0})

(* Noisy-or over a case, as its complement in 1/512^n for n events.        *)
Complement(risk) == FoldFunction(LAMBDA x, y : x * y, 1, [e \in DOMAIN risk |-> 512 - risk[e]])

(* Coverage is the credit weighted by risk, a fraction; [0, 1] if no risk. *)
RiskTotal(raw)           == MapThenSumSet(LAMBDA e : 2 * raw[e], DOMAIN raw)
RiskCovered(raw, credit) == MapThenSumSet(LAMBDA e : raw[e] * credit[e], DOMAIN credit)
=============================================================================
