---------------------------- MODULE AccessControl ----------------------------
(***************************************************************************)
(* Just-in-time access: the request workflow (access_control/service.py),  *)
(* the outbox jobs it enqueues (outbox.py), the worker that executes them  *)
(* against the enforcement provider (worker.py, enforcement.py) and the    *)
(* monitor that revokes a grant when an event leaves its scope             *)
(* (monitoring.py).                                                        *)
(*                                                                         *)
(* A request handler of the API takes the request's row FOR UPDATE and     *)
(* holds it to its commit, so a handler is one atomic action.  The worker  *)
(* and the monitor read the row without a lock, go on for as long as the   *)
(* provider takes, and write back the columns they computed from what they *)
(* read: each is a transaction of several actions holding a snapshot.      *)
(* Isolation says whether other transactions may run in between:           *)
(*   "postgresql"  they may, as row locks alone allow;                     *)
(*   "serial"      they may not, as in the single session the tests use.   *)
(* An open transaction that dies leaves the database as it was; what the   *)
(* provider has done stays done.                                           *)
(*                                                                         *)
(* Left out: notifications (no other operation reads them), wording,       *)
(* hashes and the audit trail.  A worker transaction takes one job (the    *)
(* code takes up to twenty and processes them in turn).  A retry's backoff *)
(* always elapses, so a job in "retry" is due.                             *)
(***************************************************************************)
EXTENDS AccessPolicy

CONSTANTS
  Requests,         \* request ids
  Workers,          \* worker processes
  Profile,          \* [Requests -> RequestProfile]
  Creator,          \* [Requests -> [who, role]], the principal who asks
  LinkedCase,       \* the requests with a linked case
  Principals,       \* the [who, role, owns] that may decide on requests
  EvidenceCatalog,  \* the evidence items that may be attached
  Provider,         \* "sandbox" or "signed_webhook"
  ReviewProvider,   \* "disabled" or "groq"
  Isolation,        \* "serial" or "postgresql"
  MaxAttempts,      \* attempts before a job fails: 5 in the code
  MaxVersion,       \* bound: no review step is taken at or above this version
  MaxCrashes        \* bound: transactions that may die

ASSUME ConstantsAssumption ==
  /\ Profile \in [Requests -> RequestProfile]
  /\ DOMAIN Creator = Requests
  /\ LinkedCase \subseteq Requests
  /\ \A p \in Principals : p.role \in Role
  /\ EvidenceCatalog \subseteq EvidenceItem
  /\ Provider \in {"sandbox", "signed_webhook"}
  /\ ReviewProvider \in {"disabled", "groq"}
  /\ Isolation \in {"serial", "postgresql"}
  /\ MaxAttempts \in Nat \ {0}
  /\ MaxVersion \in Nat
  /\ MaxCrashes \in Nat

VARIABLES
  state,      \* workflow_state; "NONE" before the request exists
  version,    \* the optimistic version column
  decision,   \* the stored policy_decision
  evidence,   \* attached evidence
  approvals,  \* rows of approval_decisions
  grant,      \* enforcement_state of the access_grants row, "none" without one
  outbox,     \* deduplication key -> job row, for the jobs enqueued so far
  access,     \* outside the database: does the provider let the subject in
  risks,      \* what the case and the response actions say of the subject
  worker,     \* the open transaction of each worker
  monitor,    \* version an open event-ingest transaction has read, 0 if none
  crashes     \* transactions that died so far

row  == <<state, version, decision>>
vars == <<state, version, decision, evidence, approvals, grant, outbox, access,
          risks, worker, monitor, crashes>>
-----------------------------------------------------------------------------
ReviewState == {"PAUSED", "EVIDENCE_READY", "AI_REVIEW_PENDING", "AI_REVIEWED",
                "MORE_CONTEXT_REQUIRED", "AWAITING_APPROVAL"}
TerminalState == {"DENIED", "REVOKED", "EXPIRED"}
State == {"NONE"} \cup ReviewState \cup TerminalState
           \cup {"APPROVED", "ENFORCING", "ACTIVE", "REVOKING", "ENFORCEMENT_FAILED"}

ALLOWED_TRANSITIONS ==
  [NONE                  |-> {},
   PAUSED                |-> {"EVIDENCE_READY", "MORE_CONTEXT_REQUIRED", "DENIED"},
   EVIDENCE_READY        |-> {"AI_REVIEW_PENDING", "MORE_CONTEXT_REQUIRED",
                              "AWAITING_APPROVAL", "DENIED"},
   AI_REVIEW_PENDING     |-> {"AI_REVIEWED", "MORE_CONTEXT_REQUIRED", "DENIED"},
   AI_REVIEWED           |-> {"MORE_CONTEXT_REQUIRED", "AWAITING_APPROVAL", "DENIED"},
   MORE_CONTEXT_REQUIRED |-> {"EVIDENCE_READY", "DENIED"},
   AWAITING_APPROVAL     |-> {"APPROVED", "MORE_CONTEXT_REQUIRED", "DENIED"},
   APPROVED              |-> {"ENFORCING"},
   ENFORCING             |-> {"ACTIVE", "ENFORCEMENT_FAILED"},
   ACTIVE                |-> {"REVOKING", "EXPIRED"},
   REVOKING              |-> {"REVOKED", "ENFORCEMENT_FAILED"},
   ENFORCEMENT_FAILED    |-> {"REVOKING"},
   DENIED                |-> {},
   REVOKED               |-> {},
   EXPIRED               |-> {}]

GrantState == {"none", "pending", "active", "failed", "verification_failed",
               "revocation_failed", "revoked", "expired"}

(* A job is named by its deduplication key: the request it is about (a     *)
(* request has at most one grant) and, for reviews and revocations, the    *)
(* version at which it was enqueued.                                       *)
JobType == {"AI_REVIEW", "ENFORCEMENT", "REVOCATION", "EXPIRY"}
JobKey  == [type : JobType, req : Requests, version : Nat]
JobRow  == [status : {"pending", "retry", "completed", "failed"}, attempts : Nat,
            due : BOOLEAN]

AIReviewJob(r, v)   == [type |-> "AI_REVIEW",   req |-> r, version |-> v]
EnforcementJob(r)   == [type |-> "ENFORCEMENT", req |-> r, version |-> 0]
ExpiryJob(r)        == [type |-> "EXPIRY",      req |-> r, version |-> 0]

(* Mutant of RevocationJob: a grant's revocation and its expiry share one  *)
(* deduplication key, so the second is taken for a repetition of the first.*)
RevocationSharesExpiryKey(r, v) == ExpiryJob(r)

RevocationJob(r, v) == [type |-> "REVOCATION",  req |-> r, version |-> v]

Enqueued(box, k, due) ==
  IF k \in DOMAIN box THEN box
  ELSE [x \in DOMAIN box \cup {k} |->
          IF x = k THEN [status |-> "pending", attempts |-> 0, due |-> due] ELSE box[x]]

EnqueuedNow(box, k)   == Enqueued(box, k, TRUE)

(* Mutant of EnqueuedLater: the job meant for later is forgotten.          *)
NeverEnqueued(box, k) == box

EnqueuedLater(box, k) == Enqueued(box, k, FALSE)

(* A claimed job leaves its transaction: the claim's increment of attempts *)
(* commits together with the outcome.                                      *)
Settled(box, k, status) ==
  [box EXCEPT ![k] = [status |-> status, attempts |-> box[k].attempts + 1,
                      due |-> box[k].due]]

Completed(box, k) == Settled(box, k, "completed")

(* Mutant of Retried: the row keeps the status the claim gave it.          *)
RetriedStillClaimed(box, k) == Settled(box, k, "processing")

Retried(box, k) ==
  Settled(box, k, IF box[k].attempts + 1 < MaxAttempts THEN "retry" ELSE "failed")

OutboxTyped(box) == DOMAIN box \subseteq JobKey /\ box \in [DOMAIN box -> JobRow]

Live(k) == k \in DOMAIN outbox /\ outbox[k].status \in {"pending", "retry"}

Approval == [who : {p.who : p \in Principals}, role : Role,
             decision : {"approve", "deny"}]
-----------------------------------------------------------------------------
Outcome == {"none", "verified", "rejected", "unverified", "raised", "verify_raised"}

Transaction == [phase : {"loaded", "called"}, job : JobKey, state : State,
                version : Nat, outcome : Outcome]
NoTransaction == [phase |-> "idle"]

(* The database is not inside somebody else's transaction.                 *)
Exclusive ==
  Isolation = "serial" => /\ \A w \in Workers : worker[w] = NoTransaction
                          /\ \A r \in Requests : monitor[r] = 0

Requester(r) == Creator[r].who

(* transition(): refuse a move the table lacks, else write it and bump.    *)
Transition(r, s) ==
  /\ s \in ALLOWED_TRANSITIONS[state[r]]
  /\ state'   = [state EXCEPT ![r] = s]
  /\ version' = [version EXCEPT ![r] = @ + 1]

ReviewMayGoOn(r) == version[r] < MaxVersion

PolicyInputs(r, isAdmin) ==
  [profile |-> Profile[r], evidence |-> evidence[r], risks |-> risks[r],
   isAdmin |-> isAdmin]

ApprovedRoles(r) == {a.role : a \in {b \in approvals[r] : b.decision = "approve"}}
-----------------------------------------------------------------------------
(* API handlers.                                                           *)

CreateRequest(r) ==
  /\ Exclusive
  /\ state[r] = "NONE"
  /\ Profile[r].breakGlass => Creator[r].role = "admin"
  /\ state'   = [state EXCEPT ![r] = "PAUSED"]
  /\ version' = [version EXCEPT ![r] = 1]
  /\ UNCHANGED <<decision, evidence, approvals, grant, outbox, access, risks, worker,
                 monitor, crashes>>

(* An item stands for all documents of its sort.  A document attached      *)
(* before (same hash) is returned without any effect, so that is no step.  *)
AddEvidence(r, item) ==
  /\ Exclusive
  /\ state[r] # "NONE"
  /\ evidence' = [evidence EXCEPT ![r] = @ \cup {item}]
  /\ \/ /\ item.status = "verified"
        /\ state[r] \in {"PAUSED", "MORE_CONTEXT_REQUIRED"}
        /\ Transition(r, "EVIDENCE_READY")
     \/ /\ ~(/\ item.status = "verified"
              /\ state[r] \in {"PAUSED", "MORE_CONTEXT_REQUIRED"})
        /\ UNCHANGED <<state, version>>
  /\ UNCHANGED <<decision, approvals, grant, outbox, access, risks, worker, monitor,
                 crashes>>

(* The evaluation bumps the version once, a resulting move once more.      *)
EvaluateRequest(r, isAdmin) ==
  LET in == PolicyInputs(r, isAdmin)
      MoveTo(s) ==
        IF s = state[r]
        THEN UNCHANGED state /\ version' = [version EXCEPT ![r] = @ + 1]
        ELSE /\ s \in ALLOWED_TRANSITIONS[state[r]]
             /\ state'   = [state EXCEPT ![r] = s]
             /\ version' = [version EXCEPT ![r] = @ + 2]
  IN  /\ Exclusive
      /\ ReviewMayGoOn(r)
      /\ state[r] \in {"PAUSED", "EVIDENCE_READY", "MORE_CONTEXT_REQUIRED"}
      /\ decision' = [decision EXCEPT ![r] = EvaluateAccessPolicy(in)]
      /\ \/ Blocking(in) # {} /\ MoveTo("DENIED")
         \/ /\ Blocking(in) = {}
            /\ Missing(in) # {}
            /\ MoveTo("MORE_CONTEXT_REQUIRED")
         \/ /\ Eligible(in)
            /\ MoveTo(IF state[r] = "PAUSED" THEN "EVIDENCE_READY" ELSE state[r])
      /\ UNCHANGED <<evidence, approvals, grant, outbox, access, risks, worker, monitor,
                     crashes>>

(* The code also names AI_REVIEWED as a source; the table refuses it.      *)
RequestAIReview(r) ==
  /\ Exclusive
  /\ ReviewMayGoOn(r)
  /\ decision[r].eligible
  /\ state[r] \in {"EVIDENCE_READY", "AI_REVIEWED"}
  /\ Transition(r, "AI_REVIEW_PENDING")
  /\ outbox' = EnqueuedNow(outbox, AIReviewJob(r, version[r] + 1))
  /\ UNCHANGED <<decision, evidence, approvals, grant, access, risks, worker, monitor,
                 crashes>>

RequestMoreContext(r) ==
  /\ Exclusive
  /\ ReviewMayGoOn(r)
  /\ state[r] \in {"EVIDENCE_READY", "AI_REVIEWED", "AWAITING_APPROVAL",
                   "AI_REVIEW_PENDING"}
  /\ Transition(r, "MORE_CONTEXT_REQUIRED")
  /\ UNCHANGED <<decision, evidence, approvals, grant, outbox, access, risks, worker,
                 monitor, crashes>>

(* Mutant of MayDecide: nobody compares the caller with the requester.     *)
MayDecideForOneself(p, r) ==
  /\ Exclusive
  /\ p.role = "resource_owner" => r \in p.owns
  /\ decision[r].eligible
  /\ p.role \in decision[r].roles
  /\ state[r] \in {"EVIDENCE_READY", "AI_REVIEWED", "AWAITING_APPROVAL"}
  /\ \A a \in approvals[r] : <<a.who, a.role>> # <<p.who, p.role>>

(* The checks record_approval makes before it stores a decision.  The      *)
(* caller's expected_version is the current one (any other is refused).    *)
(* One principal decides once per role (unique constraint).                *)
MayDecide(p, r) ==
  /\ Exclusive
  /\ p.role = "resource_owner" => r \in p.owns
  /\ p.who # Requester(r)
  /\ decision[r].eligible
  /\ p.role \in decision[r].roles
  /\ state[r] \in {"EVIDENCE_READY", "AI_REVIEWED", "AWAITING_APPROVAL"}
  /\ \A a \in approvals[r] : <<a.who, a.role>> # <<p.who, p.role>>

(* Deciding on a request not yet awaiting approval first moves it there.   *)
ApprovalStarts(r) == IF state[r] = "AWAITING_APPROVAL" THEN 0 ELSE 1

Recorded(p, r, d) ==
  approvals' = [approvals EXCEPT
                  ![r] = @ \cup {[who |-> p.who, role |-> p.role, decision |-> d]}]

Deny(p, r) ==
  /\ MayDecide(p, r)
  /\ Recorded(p, r, "deny")
  /\ state'   = [state EXCEPT ![r] = "DENIED"]
  /\ version' = [version EXCEPT ![r] = @ + ApprovalStarts(r) + 1]
  /\ UNCHANGED <<decision, evidence, grant, outbox, access, risks, worker, monitor,
                 crashes>>

ApproveInPart(p, r) ==
  /\ MayDecide(p, r)
  /\ ~(decision[r].roles \subseteq ApprovedRoles(r) \cup {p.role})
  /\ Recorded(p, r, "approve")
  /\ state'   = [state EXCEPT ![r] = "AWAITING_APPROVAL"]
  /\ version' = [version EXCEPT ![r] = @ + ApprovalStarts(r)]
  /\ UNCHANGED <<decision, evidence, grant, outbox, access, risks, worker, monitor,
                 crashes>>

(* The last approval also runs create_grant, which returns a grant that    *)
(* exists already and leaves the request in APPROVED.                      *)
ApproveInFull(p, r) ==
  /\ MayDecide(p, r)
  /\ decision[r].roles \subseteq ApprovedRoles(r) \cup {p.role}
  /\ Recorded(p, r, "approve")
  /\ \/ /\ grant[r] = "none"
        /\ grant'   = [grant EXCEPT ![r] = "pending"]
        /\ state'   = [state EXCEPT ![r] = "ENFORCING"]
        /\ version' = [version EXCEPT ![r] = @ + ApprovalStarts(r) + 2]
        /\ outbox'  = EnqueuedNow(outbox, EnforcementJob(r))
     \/ /\ grant[r] # "none"
        /\ state'   = [state EXCEPT ![r] = "APPROVED"]
        /\ version' = [version EXCEPT ![r] = @ + ApprovalStarts(r) + 1]
        /\ UNCHANGED <<grant, outbox>>
  /\ UNCHANGED <<decision, evidence, access, risks, worker, monitor, crashes>>

Revoke(r) ==
  /\ Exclusive
  /\ state[r] = "ACTIVE"
  /\ Transition(r, "REVOKING")
  /\ outbox' = EnqueuedNow(outbox, RevocationJob(r, version[r] + 1))
  /\ UNCHANGED <<decision, evidence, approvals, grant, access, risks, worker, monitor,
                 crashes>>
-----------------------------------------------------------------------------
(* The event-ingest route: after the event is committed, the monitor loads *)
(* the subject's ACTIVE requests without a lock and revokes those whose    *)
(* scope the event leaves.  At most one such transaction per request.      *)

MonitorLoads(r) ==
  /\ Exclusive
  /\ monitor[r] = 0
  /\ state[r] = "ACTIVE"
  /\ monitor' = [monitor EXCEPT ![r] = version[r]]
  /\ UNCHANGED <<row, evidence, approvals, grant, outbox, access, risks, worker, crashes>>

(* With a linked case a protective hold on the subject may come with it.   *)
MonitorRevokes(r) ==
  /\ monitor[r] # 0
  /\ monitor' = [monitor EXCEPT ![r] = 0]
  /\ state'   = [state EXCEPT ![r] = "REVOKING"]
  /\ version' = [version EXCEPT ![r] = monitor[r] + 1]
  /\ outbox'  = EnqueuedNow(outbox, RevocationJob(r, monitor[r] + 1))
  /\ \/ UNCHANGED risks
     \/ r \in LinkedCase /\ risks' = [risks EXCEPT ![r] = @ \cup {"containment"}]
  /\ UNCHANGED <<decision, evidence, approvals, grant, access, worker, crashes>>

(* The ingest dies after its event was committed: nothing is revoked.      *)
MonitorDies(r) ==
  /\ monitor[r] # 0
  /\ crashes < MaxCrashes
  /\ crashes' = crashes + 1
  /\ monitor' = [monitor EXCEPT ![r] = 0]
  /\ UNCHANGED <<row, evidence, approvals, grant, outbox, access, risks, worker>>
-----------------------------------------------------------------------------
(* The worker.                                                             *)

(* Mutant of Claimed: rows are claimed without SKIP LOCKED.                *)
ClaimedByNobody(k) == FALSE

(* Claimed rows stay locked to the end of the claiming transaction, and    *)
(* other workers skip them.  A claim is never committed on its own, so no  *)
(* committed row is "processing" or leased.                                *)
Claimed(k) == \E w \in Workers : worker[w] # NoTransaction /\ worker[w].job = k

ClaimJob(w, k) ==
  /\ Exclusive
  /\ worker[w] = NoTransaction
  /\ Live(k)
  /\ outbox[k].due
  /\ ~Claimed(k)
  /\ worker' = [worker EXCEPT ![w] =
       [phase |-> "loaded", job |-> k, state |-> state[k.req],
        version |-> version[k.req], outcome |-> "none"]]
  /\ UNCHANGED <<row, evidence, approvals, grant, outbox, access, risks, monitor, crashes>>

InPhase(w, phase, types) == worker[w].phase = phase /\ worker[w].job.type \in types

Dismissed(w) == worker' = [worker EXCEPT ![w] = NoTransaction]

(* Mutants of MayMove and Overwrite: a job writes the state itself instead *)
(* of calling transition(), so nothing is checked, or nothing is counted.  *)
MayMoveAnywhere(w, s) == TRUE

OverwriteStateOnly(w, s, moves) ==
  LET r == worker[w].job.req
  IN  /\ state'   = [state EXCEPT ![r] = s]
      /\ version' = [version EXCEPT ![r] = worker[w].version]

(* The transitions a job makes start from the state its transaction read;  *)
(* what they compute overwrites the row as it is by now.  A move the table *)
(* refuses raises, and the job is retried.                                 *)
MayMove(w, s) == s \in ALLOWED_TRANSITIONS[worker[w].state]

Overwrite(w, s, moves) ==
  LET r == worker[w].job.req
  IN  /\ state'   = [state EXCEPT ![r] = s]
      /\ version' = [version EXCEPT ![r] = worker[w].version + moves]

JobDone(w)   == outbox' = Completed(outbox, worker[w].job)
JobRaised(w) == outbox' = Retried(outbox, worker[w].job) /\ UNCHANGED <<state, version>>

GrantBecomes(w, g) == grant' = [grant EXCEPT ![worker[w].job.req] = g]

ReviewOutcomes ==
  IF ReviewProvider = "disabled" THEN {"unavailable"}
  ELSE {"completed", "unavailable", "raised"}

(* _process_ai: AI_REVIEWED and one move on, both in one commit.           *)
FinishReview(w) ==
  /\ InPhase(w, "loaded", {"AI_REVIEW"})
  /\ \E o \in ReviewOutcomes :
       LET critical == Profile[worker[w].job.req].sensitivity = "critical"
           next == IF o = "unavailable" /\ critical
                   THEN "MORE_CONTEXT_REQUIRED" ELSE "AWAITING_APPROVAL"
       IN  \/ /\ o # "raised"
              /\ MayMove(w, "AI_REVIEWED")
              /\ Overwrite(w, next, 2)
              /\ JobDone(w)
           \/ /\ o = "raised" \/ ~MayMove(w, "AI_REVIEWED")
              /\ JobRaised(w)
  /\ Dismissed(w)
  /\ UNCHANGED <<decision, evidence, approvals, grant, access, risks, monitor, crashes>>

(* The provider's answers, and what each may have done to the access.  An  *)
(* answer the caller never got ("raised") may or may not have taken effect.*)
ActivateOutcomes ==
  IF Provider = "sandbox" THEN {"verified"}
  ELSE {"verified", "rejected", "unverified", "raised", "verify_raised"}

RevokeOutcomes ==
  IF Provider = "sandbox" THEN {"verified"} ELSE {"verified", "unverified", "raised"}

AccessAfter(type, o, on) ==
  IF type = "ENFORCEMENT"
  THEN CASE o \in {"verified", "verify_raised"} -> {TRUE}
         [] o = "rejected"                       -> {on}
         [] OTHER                                -> {on, TRUE}
  ELSE IF o = "verified" THEN {FALSE} ELSE {on, FALSE}

CallProvider(w, types, outcomes) ==
  /\ InPhase(w, "loaded", types)
  /\ \E o \in outcomes :
       LET k == worker[w].job
       IN  /\ worker' = [worker EXCEPT ![w] =
                           [worker[w] EXCEPT !.phase = "called", !.outcome = o]]
           /\ \E on \in AccessAfter(k.type, o, access[k.req]) :
                access' = [access EXCEPT ![k.req] = on]
  /\ UNCHANGED <<row, evidence, approvals, grant, outbox, risks, monitor, crashes>>

(* provider.activate and, if it succeeded, provider.verify.                *)
CallActivate(w) == CallProvider(w, {"ENFORCEMENT"}, ActivateOutcomes)

(* provider.revoke, unless the snapshot says the grant has ended.          *)
CallRevoke(w) ==
  /\ worker[w] # NoTransaction
  /\ worker[w].state \notin {"REVOKED", "EXPIRED"}
  /\ CallProvider(w, {"REVOCATION", "EXPIRY"}, RevokeOutcomes)

(* What _process_enforcement writes to the grant before anything raises.   *)
EnforcementState(o) ==
  CASE o = "rejected"   -> "failed"
    [] o = "unverified" -> "verification_failed"
    [] OTHER            -> "active"

FinishEnforcement(w) ==
  LET r == worker[w].job.req
      o == worker[w].outcome
  IN  /\ InPhase(w, "called", {"ENFORCEMENT"})
      /\ IF o = "raised" THEN UNCHANGED grant ELSE GrantBecomes(w, EnforcementState(o))
      /\ \/ /\ o = "verified"
            /\ MayMove(w, "ACTIVE")
            /\ Overwrite(w, "ACTIVE", 1)
            /\ outbox' = EnqueuedLater(Completed(outbox, worker[w].job), ExpiryJob(r))
         \/ /\ o \in {"rejected", "unverified"}
            /\ MayMove(w, "ENFORCEMENT_FAILED")
            /\ Overwrite(w, "ENFORCEMENT_FAILED", 1)
            /\ JobDone(w)
         \/ /\ \/ o \in {"raised", "verify_raised"}
               \/ o = "verified" /\ ~MayMove(w, "ACTIVE")
               \/ o \in {"rejected", "unverified"} /\ ~MayMove(w, "ENFORCEMENT_FAILED")
            /\ JobRaised(w)
      /\ Dismissed(w)
      /\ UNCHANGED <<decision, evidence, approvals, access, risks, monitor, crashes>>

(* A revocation or expiry of a grant that has ended completes at once.     *)
SkipRevoke(w) ==
  /\ InPhase(w, "loaded", {"REVOCATION", "EXPIRY"})
  /\ worker[w].state \in {"REVOKED", "EXPIRED"}
  /\ JobDone(w)
  /\ Dismissed(w)
  /\ UNCHANGED <<row, evidence, approvals, grant, access, risks, monitor, crashes>>

FinishRevoke(w) ==
  LET expired == worker[w].job.type = "EXPIRY"
      ended   == IF expired THEN "EXPIRED" ELSE "REVOKED"
      o       == worker[w].outcome
      stuck   == worker[w].state # "REVOKING" /\ ~MayMove(w, "REVOKING")
  IN  /\ InPhase(w, "called", {"REVOCATION", "EXPIRY"})
      /\ CASE o = "raised"     -> UNCHANGED grant
           [] o = "unverified" -> GrantBecomes(w, "revocation_failed")
           [] OTHER            -> GrantBecomes(w, IF expired THEN "expired" ELSE "revoked")
      /\ \/ /\ o = "verified"
            /\ MayMove(w, ended)
            /\ Overwrite(w, ended, 1)
            /\ JobDone(w)
         \/ /\ o = "unverified"
            /\ ~stuck
            /\ Overwrite(w, "ENFORCEMENT_FAILED", IF worker[w].state = "REVOKING" THEN 1 ELSE 2)
            /\ JobDone(w)
         \/ /\ \/ o = "raised"
               \/ o = "verified" /\ ~MayMove(w, ended)
               \/ o = "unverified" /\ stuck
            /\ JobRaised(w)
      /\ Dismissed(w)
      /\ UNCHANGED <<decision, evidence, approvals, access, risks, monitor, crashes>>

(* Mutant of WorkerDies: the claim was committed and nobody reclaims it.   *)
WorkerDiesHoldingJob(w) ==
  /\ worker[w] # NoTransaction
  /\ crashes < MaxCrashes
  /\ crashes' = crashes + 1
  /\ outbox' = Settled(outbox, worker[w].job, "failed")
  /\ Dismissed(w)
  /\ UNCHANGED <<row, evidence, approvals, grant, access, risks, monitor>>

(* The worker process dies: its transaction, claim included, rolls back.   *)
WorkerDies(w) ==
  /\ worker[w] # NoTransaction
  /\ crashes < MaxCrashes
  /\ crashes' = crashes + 1
  /\ Dismissed(w)
  /\ UNCHANGED <<row, evidence, approvals, grant, outbox, access, risks, monitor>>
-----------------------------------------------------------------------------
(* The surroundings.                                                       *)

(* available_at of the expiry job, the grant's expires_at, is reached.     *)
TtlElapses(r) ==
  /\ Live(ExpiryJob(r))
  /\ ~outbox[ExpiryJob(r)].due
  /\ outbox' = [outbox EXCEPT ![ExpiryJob(r)] = [@ EXCEPT !.due = TRUE]]
  /\ UNCHANGED <<row, evidence, approvals, grant, access, risks, worker, monitor, crashes>>

(* The case is rescored, a response action starts or ends.                 *)
RiskChanges(r, risk) ==
  /\ risk = "critical_evidence" => r \in LinkedCase
  /\ risks' = [risks EXCEPT ![r] = IF risk \in @ THEN @ \ {risk} ELSE @ \cup {risk}]
  /\ UNCHANGED <<row, evidence, approvals, grant, outbox, access, worker, monitor, crashes>>
-----------------------------------------------------------------------------
Init ==
  /\ state     = [r \in Requests |-> "NONE"]
  /\ version   = [r \in Requests |-> 0]
  /\ decision  = [r \in Requests |-> [eligible |-> FALSE, roles |-> {}]]
  /\ evidence  = [r \in Requests |-> {}]
  /\ approvals = [r \in Requests |-> {}]
  /\ grant     = [r \in Requests |-> "none"]
  /\ outbox    = [k \in {} |-> [status |-> "pending", attempts |-> 0, due |-> TRUE]]
  /\ access    = [r \in Requests |-> FALSE]
  /\ risks     = [r \in Requests |-> {}]
  /\ worker    = [w \in Workers |-> NoTransaction]
  /\ monitor   = [r \in Requests |-> 0]
  /\ crashes   = 0

Handlers(r) ==
  \/ CreateRequest(r)
  \/ \E item \in EvidenceCatalog : AddEvidence(r, item)
  \/ \E isAdmin \in BOOLEAN : EvaluateRequest(r, isAdmin)
  \/ RequestAIReview(r)
  \/ RequestMoreContext(r)
  \/ \E p \in Principals : Deny(p, r) \/ ApproveInPart(p, r) \/ ApproveInFull(p, r)
  \/ Revoke(r)

WorkerStep(w) ==
  \/ \E k \in DOMAIN outbox : ClaimJob(w, k)
  \/ FinishReview(w)
  \/ CallActivate(w)
  \/ FinishEnforcement(w)
  \/ CallRevoke(w)
  \/ SkipRevoke(w)
  \/ FinishRevoke(w)

Next ==
  \/ \E r \in Requests : \/ Handlers(r)
                         \/ MonitorLoads(r) \/ MonitorRevokes(r) \/ MonitorDies(r)
                         \/ TtlElapses(r)
                         \/ \E risk \in Risk : RiskChanges(r, risk)
  \/ \E w \in Workers : WorkerStep(w) \/ WorkerDies(w)

Spec == Init /\ [][Next]_vars

(* The worker loops for ever and is restarted when it dies, an ingest that *)
(* read its grants goes on to its commit, and time passes.  Nobody has to  *)
(* make a request, decide on one or report an event.                       *)
Fairness ==
  /\ \A w \in Workers : WF_vars(WorkerStep(w))
  /\ \A r \in Requests : WF_vars(MonitorRevokes(r)) /\ WF_vars(TtlElapses(r))

FairSpec == Spec /\ Fairness
-----------------------------------------------------------------------------
TypeOK ==
  /\ state     \in [Requests -> State]
  /\ version   \in [Requests -> Nat]
  /\ decision  \in [Requests -> Decision]
  /\ evidence  \in [Requests -> SUBSET EvidenceCatalog]
  /\ approvals \in [Requests -> SUBSET Approval]
  /\ grant     \in [Requests -> GrantState]
  /\ OutboxTyped(outbox)
  /\ access    \in [Requests -> BOOLEAN]
  /\ risks     \in [Requests -> SUBSET Risk]
  /\ worker    \in [Workers -> Transaction \cup {NoTransaction}]
  /\ monitor   \in [Requests -> Nat]
  /\ crashes   \in 0..MaxCrashes
=============================================================================
