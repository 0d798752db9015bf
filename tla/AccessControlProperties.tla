----------------------- MODULE AccessControlProperties -----------------------
(***************************************************************************)
(* What should be true of just-in-time access.                             *)
(***************************************************************************)
EXTENDS AccessControl

(* The required roles have approved, and none of them was the requester.   *)
Authorised(r) ==
  RequiredRoles(Profile[r]) \subseteq
    {a.role : a \in {b \in approvals[r] : b.decision = "approve" /\ b.who # Requester(r)}}

(* Whatever the worker, the provider and crashes do, the subject is let in *)
(* only under a grant, and only if people other than the requester have    *)
(* approved in every role the policy requires of the request.              *)
AccessNeedsAuthority ==
  \A r \in Requests : access[r] => grant[r] # "none" /\ Authorised(r)

(* The inductive invariant behind AccessNeedsAuthority: how the authority  *)
(* given by the approvals travels through the grant, the outbox and the    *)
(* open transactions to the call that opens the access.                    *)
NoSelfApproval ==
  \A r \in Requests : \A a \in approvals[r] : a.who # Requester(r)

EligibleDecisionNamesRoles ==
  \A r \in Requests : decision[r].eligible => decision[r].roles = RequiredRoles(Profile[r])

GrantsAreAuthorised == \A r \in Requests : grant[r] # "none" => Authorised(r)

GrantJobsHaveGrants ==
  \A k \in DOMAIN outbox : k.type # "AI_REVIEW" => grant[k.req] # "none"

TransactionsHoldJobs ==
  \A w \in Workers : worker[w] # NoTransaction => worker[w].job \in DOMAIN outbox

ActiveHasGrant ==
  \A r \in Requests : state[r] = "ACTIVE" \/ monitor[r] # 0 => grant[r] # "none"

OpenHasGrant == \A r \in Requests : access[r] => grant[r] # "none"

AuthorityInvariant ==
  /\ NoSelfApproval
  /\ EligibleDecisionNamesRoles
  /\ GrantsAreAuthorised
  /\ GrantJobsHaveGrants
  /\ TransactionsHoldJobs
  /\ ActiveHasGrant
  /\ OpenHasGrant

(* A grant shown as revoked or expired really lets nobody in, whichever of *)
(* two overlapping jobs was the last to write it and however calls failed. *)
GrantStateTruthful ==
  \A r \in Requests : grant[r] \in {"revoked", "expired"} => ~access[r]

(* The inductive invariant behind GrantStateTruthful: nothing ends a grant *)
(* before its one activation job is over, and that job is the only thing   *)
(* that lets the subject in, so what an ending has shut stays shut.        *)
ClaimsAreExclusive ==
  \A v, w \in Workers :
    v # w /\ worker[v] # NoTransaction /\ worker[w] # NoTransaction =>
      worker[v].job # worker[w].job

ClaimedJobsAreLive ==
  \A w \in Workers : worker[w] # NoTransaction => Live(worker[w].job)

ActivationHasOneJob ==
  \A k \in DOMAIN outbox : k.type = "ENFORCEMENT" => k = EnforcementJob(k.req)

ActivationOver(r) == /\ EnforcementJob(r) \in DOMAIN outbox
                     /\ outbox[EnforcementJob(r)].status = "completed"

EndingJobs == {"REVOCATION", "EXPIRY"}

EndingFollowsActivation ==
  /\ \A k \in DOMAIN outbox : k.type \in EndingJobs => ActivationOver(k.req)
  /\ \A r \in Requests : state[r] = "ACTIVE" \/ monitor[r] # 0 => ActivationOver(r)

VerifiedEndingShuts ==
  \A w \in Workers :
    InPhase(w, "called", EndingJobs) =>
      /\ worker[w].outcome \in RevokeOutcomes
      /\ worker[w].outcome = "verified" => ~access[worker[w].job.req]

EndedGrantsAreShut ==
  \A r \in Requests :
    grant[r] \in {"revoked", "expired"} => ~access[r] /\ ActivationOver(r)

TruthInvariant ==
  /\ ClaimsAreExclusive
  /\ ClaimedJobsAreLive
  /\ ActivationHasOneJob
  /\ EndingFollowsActivation
  /\ VerifiedEndingShuts
  /\ EndedGrantsAreShut

(* A request that waits for the worker has a job the worker will take: an  *)
(* advisory review, an activation, the end of its lifetime, a revocation.  *)
PendingWorkHasJob ==
  \A r \in Requests :
    /\ state[r] = "AI_REVIEW_PENDING" =>
         \E k \in DOMAIN outbox : k.type = "AI_REVIEW" /\ k.req = r /\ Live(k)
    /\ state[r] = "ENFORCING" => Live(EnforcementJob(r))
    /\ state[r] = "ACTIVE" => Live(ExpiryJob(r))
    /\ state[r] = "REVOKING" =>
         \E k \in DOMAIN outbox : k.type = "REVOCATION" /\ k.req = r /\ Live(k)

(* While a subject being revoked is still let in, there is a revocation    *)
(* job that can still run, however the provider answers.                   *)
RevocationIsDurable ==
  \A r \in Requests : state[r] = "REVOKING" /\ access[r] =>
    \E k \in DOMAIN outbox : k.type = "REVOCATION" /\ k.req = r /\ Live(k)

(* The inductive invariant behind the properties of serial transactions:   *)
(* one transaction is open at a time and its snapshot is the current row,  *)
(* so the workflow state tells how far the activation of a grant has got.  *)
OneTransactionAtATime ==
  /\ \A v, w \in Workers : v # w => worker[v] = NoTransaction \/ worker[w] = NoTransaction
  /\ \A q, r \in Requests : q # r => monitor[q] = 0 \/ monitor[r] = 0
  /\ \A w \in Workers, r \in Requests : worker[w] = NoTransaction \/ monitor[r] = 0

SnapshotsAreCurrent ==
  /\ \A w \in Workers :
       worker[w] # NoTransaction => /\ worker[w].state = state[worker[w].job.req]
                                    /\ worker[w].version = version[worker[w].job.req]
  /\ \A r \in Requests :
       monitor[r] # 0 => state[r] = "ACTIVE" /\ monitor[r] = version[r]

ActivationMatchesState ==
  \A r \in Requests :
    /\ Live(EnforcementJob(r)) => state[r] = "ENFORCING"
    /\ ActivationOver(r) => state[r] \in {"ACTIVE", "REVOKING", "ENFORCEMENT_FAILED",
                                          "REVOKED", "EXPIRED"}

VerifiedActivationOpens ==
  \A w \in Workers :
    InPhase(w, "called", {"ENFORCEMENT"}) =>
      /\ worker[w].outcome \in ActivateOutcomes
      /\ worker[w].outcome = "verified" => access[worker[w].job.req]

AbsentRowsHaveNoVersion == \A r \in Requests : state[r] = "NONE" => version[r] = 0

SerialInvariant ==
  /\ AbsentRowsHaveNoVersion
  /\ OneTransactionAtATime
  /\ SnapshotsAreCurrent
  /\ ActivationMatchesState
  /\ VerifiedActivationOpens

(* The inductive invariant behind PendingWorkHasJob: the version in the    *)
(* deduplication key makes the job of each round a new one.                *)
JobVersionsAreOld ==
  \A k \in DOMAIN outbox :
    k.type \in {"AI_REVIEW", "REVOCATION"} => k.version <= version[k.req]

AwaitedJobIsLive ==
  \A r \in Requests :
    /\ state[r] = "AI_REVIEW_PENDING" => Live(AIReviewJob(r, version[r]))
    /\ state[r] = "ENFORCING" => Live(EnforcementJob(r))
    /\ state[r] = "ACTIVE" => Live(ExpiryJob(r))
    /\ state[r] = "REVOKING" => Live(RevocationJob(r, version[r]))

PendingInvariant == JobVersionsAreOld /\ AwaitedJobIsLive

(* The version a reviewer sends back identifies what the reviewer saw: the *)
(* workflow state and the policy decision never change unless the version  *)
(* grows, so no two contents of a row ever carry the same version.         *)
VersionIdentifiesRow ==
  [][\A r \in Requests :
       <<state[r], decision[r]>> # <<state'[r], decision'[r]>> => version'[r] > version[r]]_vars

(* A request in a terminal state stays in it.                              *)
TerminalStatesAreFinal ==
  [][\A r \in Requests : state[r] \in TerminalState => state'[r] = state[r]]_vars

(* Access, once open, is shut again: by its lifetime if by nothing else.   *)
AccessIsTemporary == \A r \in Requests : access[r] ~> ~access[r]

(* What the requester is told of an activated grant: it is active until    *)
(* its expiry, so after it the access is shut.                             *)
ActiveUntilExpiry == \A r \in Requests : state[r] = "ACTIVE" ~> ~access[r]

(* A revocation that was asked for shuts the access and is recorded.       *)
RevocationTakesEffect ==
  \A r \in Requests : state[r] = "REVOKING" ~> state[r] = "REVOKED" /\ ~access[r]
-----------------------------------------------------------------------------
PhaseOf(s) ==
  CASE s = "NONE"                      -> "absent"
    [] s \in ReviewState               -> "review"
    [] s \in {"APPROVED", "ENFORCING"} -> "granted"
    [] s = "ACTIVE"                    -> "live"
    [] s = "REVOKING"                  -> "closing"
    [] s = "ENFORCEMENT_FAILED"        -> "faulted"
    [] s \in TerminalState             -> "closed"

Lifecycle == INSTANCE AccessLifecycle
               WITH phase <- [r \in Requests |-> PhaseOf(state[r])], open <- access

(* The workflow, the outbox, the worker and the provider together do what  *)
(* AccessLifecycle promises.                                               *)
ImplementsLifecycle == Lifecycle!Spec
=============================================================================
