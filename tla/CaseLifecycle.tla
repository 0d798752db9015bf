---------------------------- MODULE CaseLifecycle ----------------------------
(***************************************************************************)
(* The cases of one actor: detection and reassessment (case_builder.py),   *)
(* reopening (context.py), and the routes that ingest events, propose and  *)
(* review context and take feedback (api/routes.py).                       *)
(*                                                                         *)
(* A review and a feedback are one transaction each.  Ingesting an event   *)
(* is up to four: the event, the reopened statuses or the actor's latch,   *)
(* and each case.  The steps here are those transactions; between them     *)
(* other sessions commit and a process may die.  Transactions themselves   *)
(* do not overlap.                                                         *)
(*                                                                         *)
(* Baseline and Page-Hinkley detector are a choice among the answers they  *)
(* can give: too little signal, back at the baseline, no change, a change  *)
(* at a time.  So are the signals that histories give an assessment: it is *)
(* made as of a time of its own, and the cohort's events are not modelled. *)
(* Events may be dated in the future; the clock is that of the reviews.    *)
(* Cases of different actors meet only in their role's threshold.  A       *)
(* person's scopes are left out, and so is the review that is refused for  *)
(* coming from the proposer.                                               *)
(***************************************************************************)
EXTENDS ContextLedger

CONSTANTS
  Events,        \* ids of the events that may be ingested
  EventOf,       \* [Events -> Event]
  Entries,       \* ids of context entries
  EntryOf,       \* [Entries -> Entry]
  CaseIds,       \* 1..n; the bound n is on the cases of the actor
  ChangePoints,  \* times at which the detector may place a change
  SignalsSeen,   \* what histories may say of the actor at an assessment
  Instants,      \* bound: the times at which reviews may take place
  Sessions,      \* sessions that ingest
  Thresholds,    \* the role's threshold at first, in halves of a point
  MaxFeedback,   \* bound: verdicts given
  MaxCrashes     \* bound: ingests that end after one of their commits

NoEntry == "no entry"

RISK_PROBE == 7    \* 35 of 100, in twentieths

ASSUME CaseAssumption ==
  /\ EventOf \in [Events -> Event]
  /\ EntryOf \in [Entries -> Entry] /\ NoEntry \notin Entries
  /\ IsFiniteSet(Events) /\ IsFiniteSet(CaseIds)
  /\ CaseIds \subseteq Nat /\ ChangePoints \subseteq Nat
  /\ SignalsSeen \subseteq Signals /\ Instants \subseteq Nat
  /\ Thresholds \subseteq 20..180
  /\ MaxFeedback \in Nat /\ MaxCrashes \in Nat

VARIABLES
  ingested,   \* ids of the events committed
  approval,   \* entry id -> its approval_state, "absent" before its proposal
  base,       \* entry id -> the entry it supersedes, or NoEntry
  case,       \* case id -> row of the cases table with its current assessment
  regime,     \* the actor's regime_state
  threshold,  \* the role's cohort threshold
  now,        \* the clock
  txn,        \* what each session still has to do
  feedbacks, crashes

vars == <<ingested, approval, base, case, regime, threshold, now, txn, feedbacks, crashes>>

LiveStatus == {"open", "reopened", "reviewing"}
CaseStatus == LiveStatus \cup {"resolved"}
Approval   == {"absent", "pending", "approved", "rejected", "superseded"}

(* evidence is the domain of credit; raw the risks and credit the credits  *)
(* of the last assessment; matched the entries that gave credit.           *)
CaseRow(E) ==
  [status : CaseStatus, created : Nat, raw : [E -> 0..256], credit : [E -> 0..2],
   unresolved : SUBSET E, matched : SUBSET Entries, flagged : BOOLEAN]

NoCase(t) ==
  [status |-> "open", created |-> t, raw |-> <<>>, credit |-> <<>>, unresolved |-> {},
   matched |-> {}, flagged |-> FALSE]

Idle == [phase |-> "idle"]
-----------------------------------------------------------------------------
Time(e) == EventOf[e].time
Happened(E, from, until) == {e \in E : from <= Time(e) /\ Time(e) <= until}
Approved(ledger) == {n \in Entries : ledger[n] = "approved"}
Rows(N) == {EntryOf[n] : n \in N}
Cases == DOMAIN case
Evidence(c) == DOMAIN case[c].credit

HistoryAt(E, t) ==
  LET before == {Time(e) : e \in Happened(E, 0, t)}
  IN  IF before = {} THEN 0 ELSE t - Min(before)

(* compute_risk_for_events: the events E as of t, with what histories say. *)
Assessment(E, t, ledger, signals) ==
  LET entries == {n \in Approved(ledger) : EntryOf[n].from <= t}
      history == HistoryAt(ingested, t)
      scoped  == {e \in E : Time(e) <= t}
      vague   == {e \in scoped : Indeterminate(EventOf[e], Rows(entries), history)}
  IN  [raw        |-> [e \in scoped |-> RawRisk(EventOf[e], signals)],
       credit     |-> [e \in scoped |-> Credit(EventOf[e], Rows(entries), history)],
       unresolved |-> vague,
       matched    |-> {n \in entries : \E e \in scoped \ vague : Score(EventOf[e], EntryOf[n]) > 0}]

(* Mutant of Assessed: matched_context_ids is written when a case begins.  *)
AssessedOnce(row, assessment) ==
  [row EXCEPT !.raw = assessment.raw, !.credit = assessment.credit,
              !.unresolved = assessment.unresolved,
              !.matched = IF row.credit = <<>> THEN assessment.matched ELSE @]

Assessed(row, assessment) ==
  [row EXCEPT !.raw = assessment.raw, !.credit = assessment.credit,
              !.unresolved = assessment.unresolved, !.matched = assessment.matched]

(* recompute_case: on the case's events or, if it has none, on those two   *)
(* days around its creation.                                               *)
Recomputed(row, E, ledger, signals) ==
  LET events == IF E # {} THEN E
                ELSE Happened(ingested, row.created - WINDOW_48H, row.created + WINDOW_48H)
      asOf   == Max({row.created} \cup {Time(e) : e \in events})
  IN  Assessed(row, Assessment(events, asOf, ledger, signals))

(* The scores of a case are those of its last assessment.                  *)
RawOf(row) == [e \in DOMAIN row.credit |-> 2 * row.raw[e]]
ResidualOf(row) == [e \in DOMAIN row.credit |-> Residual(EventOf[e], row.raw[e], row.credit[e])]
(* The counterfactual in which no context is credited.                     *)
WithoutContext(row) == [row EXCEPT !.credit = [e \in DOMAIN row.credit |-> 0]]

(* Is the probability 1 - Complement(risk) at least so many twentieths?    *)
AtLeast(risk, twentieths) ==
  20 * Complement(risk) <= (20 - twentieths) * Complement([e \in DOMAIN risk |-> 0])

Total(row)   == RiskTotal(row.raw)
Covered(row) == RiskCovered(row.raw, row.credit)

(* context_coverage rises by a quarter or more.                            *)
CoverageRises(before, after) ==
  LET Norm(x) == IF x = 0 THEN 1 ELSE x
      b == Norm(Total(before))
      a == Norm(Total(after))
  IN  4 * (Covered(after) * b - Covered(before) * a) >= a * b
-----------------------------------------------------------------------------
(* select_unusual_events.                                                  *)
Unusual(E, lookback) ==
  LET known(f) == {EventOf[e][f] : e \in lookback}
      strange  ==
        {e \in E : LET event == EventOf[e] IN
           \/ event.device \notin known("device")
           \/ event.resource \notin known("resource") \cup {None}
           \/ event.destination \notin known("destination") \cup {None}
           \/ event.action \in {"privilege_change", "external_upload"}
           \/ event.class \in {"restricted", "critical"}
           \/ event.action = "file_download" /\ event.volume > LARGE_DOWNLOAD}
  IN  IF strange # {} THEN strange ELSE E

Before(t) == {e \in ingested : Time(e) < t}

(* Candidates when no change is found: unusual events of the last 48 h.    *)
RecentUnusual(t) ==
  Unusual(Happened(ingested, t - WINDOW_48H, t), Before(t - WINDOW_48H))

(* collect_transition_events around a change at cp.                        *)
Transition(cp, t) ==
  Unusual(Happened(ingested, cp - TRANSITION_LEAD, Min({cp + WINDOW_48H, t})),
          Before(cp - TRANSITION_LEAD))

NewestLive ==
  CHOOSE c \in {x \in Cases : case[x].status \in LiveStatus} :
    \A d \in Cases : case[d].status \in LiveStatus => case[d].created <= case[c].created

(* create_or_update_case.                                                  *)
CreateOrUpdate(E, t, signals) ==
  LET result == Assessment(E, t, approval, signals)
  IN  IF \E c \in Cases : case[c].status \in LiveStatus
      THEN case' = [case EXCEPT ![NewestLive] = Assessed(@, result)]
      ELSE \E id \in CaseIds \ Cases :
             /\ \A other \in CaseIds \ Cases : id <= other
             /\ case' = [c \in Cases \cup {id} |->
                  IF c \in Cases THEN case[c] ELSE Assessed(NoCase(t), result)]
-----------------------------------------------------------------------------
(* POST /entities/{ref}/events: the event's own commit.                    *)
Ingest(p, e) ==
  /\ txn[p] = Idle /\ e \notin ingested
  /\ ingested' = ingested \cup {e}
  /\ txn' = [txn EXCEPT ![p] = [phase |-> "reopen", event |-> e]]
  /\ UNCHANGED <<approval, base, case, regime, threshold, now, feedbacks, crashes>>

(* Does event e lie outside the entries that explained case c?             *)
Outside(c, e) ==
  LET own      == case[c].matched \cap Approved(approval)
      relevant == IF own # {} THEN own ELSE Approved(approval)
  IN  Unexplained(EventOf[e], Rows(relevant), HistoryAt(ingested, Time(e)))

(* check_auto_reopen, with its own commit.                                 *)
Reopen(p) ==
  /\ txn[p].phase = "reopen"
  /\ LET e == txn[p].event
         reopened == {c \in Cases : case[c].status = "resolved" /\ Outside(c, e)}
     IN  /\ case' = [c \in Cases |-> IF c \in reopened THEN [case[c] EXCEPT !.status = "reopened"]
                                     ELSE case[c]]
         /\ txn' = [txn EXCEPT ![p] =
              IF reopened = {} THEN [phase |-> "detect", event |-> e]
              ELSE [phase |-> "recompute", event |-> e, todo |-> reopened]]
  /\ UNCHANGED <<ingested, approval, base, regime, threshold, now, feedbacks, crashes>>

RecomputeReopened(p) ==
  /\ txn[p].phase = "recompute"
  /\ LET c    == Min(txn[p].todo)
         rest == txn[p].todo \ {c}
     IN  /\ \E signals \in SignalsSeen :
              case' = [case EXCEPT ![c] =
                         Recomputed(@, Evidence(c) \cup {txn[p].event}, approval, signals)]
         /\ txn' = [txn EXCEPT ![p] = IF rest = {} THEN Idle ELSE [@ EXCEPT !.todo = rest]]
  /\ UNCHANGED <<ingested, approval, base, regime, threshold, now, feedbacks, crashes>>

(* detect_and_build_cases, with the answers of the detector.               *)
Detecting(p) == txn[p].phase = "detect"
Done(p)      == txn' = [txn EXCEPT ![p] = Idle]

(* Too few samples; or the latch holds.                                    *)
DetectNothing(p) ==
  /\ Detecting(p) /\ Done(p)
  /\ UNCHANGED <<ingested, approval, base, case, regime, threshold, now, feedbacks, crashes>>

Rearm(p) ==
  /\ Detecting(p) /\ regime = "latched" /\ Done(p)
  /\ regime' = "nominal"
  /\ UNCHANGED <<ingested, approval, base, case, threshold, now, feedbacks, crashes>>

(* The probe and the assessment are made as of one time.                   *)
BuildIfRisk(E, t) ==
  \E signals \in SignalsSeen :
    IF AtLeast([e \in E |-> 2 * RawRisk(EventOf[e], signals)], RISK_PROBE)
    THEN CreateOrUpdate(E, t, signals) ELSE UNCHANGED case

DetectByRisk(p) ==
  /\ Detecting(p) /\ regime = "nominal" /\ Done(p)
  /\ LET t == Time(txn[p].event) IN BuildIfRisk(RecentUnusual(t), t)
  /\ UNCHANGED <<ingested, approval, base, regime, threshold, now, feedbacks, crashes>>

(* A change: the latch is committed before the case is built.              *)
Latch(p) ==
  /\ Detecting(p) /\ regime = "nominal"
  /\ \E cp \in ChangePoints \cap Min({Time(e) : e \in ingested})..Time(txn[p].event) :
       txn' = [txn EXCEPT ![p] = [phase |-> "build", event |-> txn[p].event, at |-> cp]]
  /\ regime' = "latched"
  /\ UNCHANGED <<ingested, approval, base, case, threshold, now, feedbacks, crashes>>

(* Mutant of Build: only a risky transition makes a case.                  *)
BuildIfRisky(p) ==
  /\ txn[p].phase = "build" /\ Done(p)
  /\ LET t == Time(txn[p].event) IN BuildIfRisk(Transition(txn[p].at, t), t)
  /\ UNCHANGED <<ingested, approval, base, regime, threshold, now, feedbacks, crashes>>

Build(p) ==
  /\ txn[p].phase = "build" /\ Done(p)
  /\ LET t == Time(txn[p].event)
     IN  \E signals \in SignalsSeen : CreateOrUpdate(Transition(txn[p].at, t), t, signals)
  /\ UNCHANGED <<ingested, approval, base, regime, threshold, now, feedbacks, crashes>>

Crash(p) ==
  /\ txn[p] # Idle /\ crashes < MaxCrashes /\ Done(p)
  /\ crashes' = crashes + 1
  /\ UNCHANGED <<ingested, approval, base, case, regime, threshold, now, feedbacks>>
-----------------------------------------------------------------------------
Propose(n, previous) ==
  /\ approval[n] = "absent"
  /\ previous # NoEntry => approval[previous] = "approved"
  /\ approval' = [approval EXCEPT ![n] = "pending"]
  /\ base' = [base EXCEPT ![n] = previous]
  /\ UNCHANGED <<ingested, case, regime, threshold, now, txn, feedbacks, crashes>>

Reject(n) ==
  /\ approval[n] = "pending"
  /\ approval' = [approval EXCEPT ![n] = "rejected"]
  /\ UNCHANGED <<ingested, base, case, regime, threshold, now, txn, feedbacks, crashes>>

(* An approval of a revision takes its predecessor out of force; it fails  *)
(* with 409 when that is no longer in force.                               *)
Activated(n) ==
  [m \in Entries |-> IF m = n THEN "approved"
                     ELSE IF m = base[n] THEN "superseded" ELSE approval[m]]

(* Mutant of MayApprove: the predecessor was looked at by Propose.         *)
MayApproveProposed(n) == approval[n] = "pending"

MayApprove(n) ==
  approval[n] = "pending" /\ (base[n] # NoEntry => approval[base[n]] = "approved")

(* Mutant of AffectedBy: only the new entry's range.                       *)
AffectedByNew(n) == {c \in Cases : \E e \in Evidence(c) : TimeMatch(EventOf[e], EntryOf[n])}

(* Cases with an event in the range of the entry or of its predecessor.    *)
AffectedBy(n) ==
  {c \in Cases : \E e \in Evidence(c), m \in {n, base[n]} \ {NoEntry} :
                   TimeMatch(EventOf[e], EntryOf[m])}

(* late_context: the entry explains, in full or in part, an event that is  *)
(* dated before its approval.                                              *)
LateContextIfFull(n) ==
  \E e \in ingested : Time(e) < now /\ Score(EventOf[e], EntryOf[n]) = 2

LateContext(n) ==
  \E e \in ingested : Time(e) < now /\ Score(EventOf[e], EntryOf[n]) > 0

Reassessed(c, n, signals) ==
  LET row == Recomputed(case[c], Evidence(c), Activated(n), signals)
  IN  [row EXCEPT !.flagged = @ \/ (LateContext(n) /\ CoverageRises(case[c], row))]

Approve(n) ==
  /\ MayApprove(n)
  /\ approval' = Activated(n)
  /\ \E signals \in [AffectedBy(n) -> SignalsSeen] :
       case' = [c \in Cases |->
         IF c \in AffectedBy(n) THEN Reassessed(c, n, signals[c]) ELSE case[c]]
  /\ UNCHANGED <<ingested, base, regime, threshold, now, txn, feedbacks, crashes>>
-----------------------------------------------------------------------------
Verdict == {"authorized", "benign_unusual", "policy_violation", "compromised",
            "insufficient_evidence"}

StatusAfter(verdict) ==
  CASE verdict \in {"authorized", "benign_unusual"}    -> "resolved"
    [] verdict \in {"policy_violation", "compromised"} -> "reviewing"
    [] verdict = "insufficient_evidence"               -> "open"

Adjustment(verdict) ==
  CASE verdict \in {"authorized", "benign_unusual"}    -> 4
    [] verdict \in {"policy_violation", "compromised"} -> -6
    [] verdict = "insufficient_evidence"               -> 1

(* Mutant of Adjusted: the threshold is only kept from above.              *)
AdjustedBelow90(verdict) == Min({180, threshold + Adjustment(verdict)})

Adjusted(verdict) == Max({20, Min({180, threshold + Adjustment(verdict)})})

(* apply_feedback.                                                         *)
Feedback(c, verdict) ==
  /\ feedbacks < MaxFeedback
  /\ case' = [case EXCEPT ![c].status = StatusAfter(verdict)]
  /\ threshold' = Adjusted(verdict)
  /\ feedbacks' = feedbacks + 1
  /\ UNCHANGED <<ingested, approval, base, regime, now, txn, crashes>>
-----------------------------------------------------------------------------
(* rank_cases.  Cases of equal risk come in the order of their ids.        *)
Live == {c \in Cases : case[c].status \in LiveStatus}

HardRule(c) ==
  \E e \in Evidence(c) : /\ EventOf[e].class = "critical"
                         /\ case[c].credit[e] = 0 /\ e \notin case[c].unresolved

ResidualComplement(c) ==
  LET risk == ResidualOf(case[c])
  IN  Complement(risk) * 512 ^ (Cardinality(Events) - Cardinality(DOMAIN risk))

Top(cases, budget) ==
  LET Ahead(c, d) ==
        \/ ResidualComplement(c) < ResidualComplement(d)
        \/ ResidualComplement(c) = ResidualComplement(d) /\ c < d
  IN  IF Cardinality(cases) <= budget THEN cases
      ELSE {c \in cases : Cardinality({d \in cases : Ahead(d, c)}) < budget}

(* Mutant of Ranked: the budget is the only rule.                          *)
RankedByRisk(budget) == Top(Live, budget)

Ranked(budget) == Top(Live, budget) \cup {c \in Live : HardRule(c)}
-----------------------------------------------------------------------------
TimePasses ==
  /\ \E later \in Instants : now < later /\ now' = later
  /\ UNCHANGED <<ingested, approval, base, case, regime, threshold, txn, feedbacks, crashes>>

Init ==
  /\ ingested = {}
  /\ approval = [n \in Entries |-> "absent"]
  /\ base = [n \in Entries |-> NoEntry]
  /\ case = <<>>
  /\ regime = "nominal"
  /\ threshold \in Thresholds
  /\ now \in Instants
  /\ txn = [p \in Sessions |-> Idle]
  /\ feedbacks = 0 /\ crashes = 0

IngestStep(p) ==
  \/ \E e \in Events : Ingest(p, e)
  \/ Reopen(p) \/ RecomputeReopened(p)
  \/ DetectNothing(p) \/ Rearm(p) \/ DetectByRisk(p) \/ Latch(p) \/ Build(p)

Next ==
  \/ \E p \in Sessions : IngestStep(p) \/ Crash(p)
  \/ \E n \in Entries : \/ \E previous \in Entries \cup {NoEntry} : Propose(n, previous)
                        \/ Reject(n) \/ Approve(n)
  \/ \E c \in Cases, verdict \in Verdict : Feedback(c, verdict)
  \/ TimePasses

Spec == Init /\ [][Next]_vars
=============================================================================
