------------------------- MODULE AccessControlProofs -------------------------
(***************************************************************************)
(* Proofs about just-in-time access, for every set of requests, workers,   *)
(* approvers and evidence, either provider and either isolation.           *)
(***************************************************************************)
EXTENDS AccessControlProperties, TLAPS

(* Enqueuing keeps the outbox well-typed and adds at most the given key.   *)
LEMMA EnqueuedType ==
  ASSUME NEW box, OutboxTyped(box), NEW k \in JobKey
  PROVE  /\ DOMAIN EnqueuedNow(box, k) = DOMAIN box \cup {k}
         /\ OutboxTyped(EnqueuedNow(box, k))
         /\ DOMAIN EnqueuedLater(box, k) = DOMAIN box \cup {k}
         /\ OutboxTyped(EnqueuedLater(box, k))
<1>1. ASSUME NEW due \in BOOLEAN, NEW new, new = Enqueued(box, k, due)
      PROVE  DOMAIN new = DOMAIN box \cup {k} /\ new \in [DOMAIN new -> JobRow]
  BY <1>1 DEF Enqueued, JobRow, OutboxTyped
<1>2. ASSUME NEW new, DOMAIN new = DOMAIN box \cup {k}, new \in [DOMAIN new -> JobRow]
      PROVE  OutboxTyped(new)
  BY <1>2 DEF OutboxTyped
<1>3. QED
  BY <1>1, <1>2 DEF EnqueuedNow, EnqueuedLater

(* Settling a job keeps the outbox well-typed and its keys as they are.    *)
LEMMA SettledType ==
  ASSUME NEW box, OutboxTyped(box), NEW k \in JobKey
  PROVE  /\ DOMAIN Completed(box, k) = DOMAIN box
         /\ OutboxTyped(Completed(box, k))
         /\ DOMAIN Retried(box, k) = DOMAIN box
         /\ OutboxTyped(Retried(box, k))
<1>1. ASSUME NEW s \in {"pending", "retry", "completed", "failed"}
      PROVE  DOMAIN Settled(box, k, s) = DOMAIN box /\ OutboxTyped(Settled(box, k, s))
  <2> DEFINE settled == [status |-> s, attempts |-> box[k].attempts + 1,
                         due |-> box[k].due]
  <2>1. Settled(box, k, s) = [box EXCEPT ![k] = settled]
    BY DEF Settled
  <2>2. k \in DOMAIN box => settled \in JobRow
    BY DEF JobRow, OutboxTyped
  <2> HIDE DEF settled
  <2>3. QED
    BY <2>1, <2>2 DEF OutboxTyped
<1>2. QED
  BY <1>1 DEF Completed, Retried

(* Every job the code enqueues has a key of the right type.                *)
LEMMA JobKeyType ==
  ASSUME NEW r \in Requests, NEW v \in Nat
  PROVE  /\ AIReviewJob(r, v) \in JobKey
         /\ EnforcementJob(r) \in JobKey
         /\ RevocationJob(r, v) \in JobKey
         /\ ExpiryJob(r) \in JobKey
BY DEF AIReviewJob, EnforcementJob, RevocationJob, ExpiryJob, JobKey, JobType

(* The policy always answers with a decision.                              *)
LEMMA PolicyType ==
  ASSUME NEW in
  PROVE  EvaluateAccessPolicy(in) \in Decision
BY DEF EvaluateAccessPolicy, Decision, Eligible, RequiredRoles, Role

(* Every step keeps the types.                                             *)
LEMMA TypeStep == TypeOK /\ [Next]_vars => TypeOK'
<1> SUFFICES ASSUME TypeOK, [Next]_vars PROVE TypeOK'
  OBVIOUS
<1> USE ConstantsAssumption DEF TypeOK
<1>k. ASSUME NEW r \in Requests, NEW v \in Nat
      PROVE  AIReviewJob(r, v + 1) \in JobKey /\ RevocationJob(r, v + 1) \in JobKey
  BY JobKeyType
<1>g. ASSUME NEW r \in Requests PROVE EnforcementJob(r) \in JobKey /\ ExpiryJob(r) \in JobKey
  BY 0 \in Nat, JobKeyType
<1>h. ASSUME NEW r \in Requests, Handlers(r) PROVE TypeOK'
  <2>1. ASSUME CreateRequest(r) PROVE TypeOK'
    BY <2>1 DEF CreateRequest, State, ReviewState
  <2>2. ASSUME NEW item \in EvidenceCatalog, AddEvidence(r, item) PROVE TypeOK'
    BY <2>2 DEF AddEvidence, Transition, State, ReviewState
  <2>3. ASSUME NEW isAdmin \in BOOLEAN, EvaluateRequest(r, isAdmin) PROVE TypeOK'
    BY <2>3, PolicyType DEF EvaluateRequest, State, ReviewState, TerminalState
  <2>4. ASSUME RequestAIReview(r) PROVE TypeOK'
    <3>1. OutboxTyped(outbox')
      BY <2>4, EnqueuedType, <1>k DEF RequestAIReview
    <3>2. QED
      BY <2>4, <3>1 DEF RequestAIReview, Transition, State, ReviewState
  <2>5. ASSUME RequestMoreContext(r) PROVE TypeOK'
    BY <2>5 DEF RequestMoreContext, Transition, State, ReviewState
  <2>6. ASSUME NEW p \in Principals, NEW d \in {"approve", "deny"}, Recorded(p, r, d)
        PROVE  approvals' \in [Requests -> SUBSET Approval]
    BY <2>6 DEF Recorded, Approval
  <2>7. ASSUME NEW p \in Principals, Deny(p, r) PROVE TypeOK'
    BY <2>6, <2>7 DEF Deny, ApprovalStarts, State, TerminalState
  <2>8. ASSUME NEW p \in Principals, ApproveInPart(p, r) PROVE TypeOK'
    BY <2>6, <2>8 DEF ApproveInPart, ApprovalStarts, State, ReviewState
  <2>9. ASSUME NEW p \in Principals, ApproveInFull(p, r) PROVE TypeOK'
    <3>0. outbox' = EnqueuedNow(outbox, EnforcementJob(r)) \/ outbox' = outbox
      BY <2>9 DEF ApproveInFull
    <3>1. OutboxTyped(outbox')
      <4>1. OutboxTyped(EnqueuedNow(outbox, EnforcementJob(r)))
        BY EnqueuedType, <1>g
      <4>2. QED
        BY <3>0, <4>1
    <3>2. approvals' \in [Requests -> SUBSET Approval]
      BY <2>6, <2>9 DEF ApproveInFull
    <3>3. /\ state' \in [Requests -> State]
          /\ version' \in [Requests -> Nat]
          /\ grant' \in [Requests -> GrantState]
      BY <2>9 DEF ApproveInFull, ApprovalStarts, State, GrantState
    <3>4. QED
      BY <2>9, <3>1, <3>2, <3>3 DEF ApproveInFull
  <2>10. ASSUME Revoke(r) PROVE TypeOK'
    <3>1. OutboxTyped(outbox')
      BY <2>10, EnqueuedType, <1>k DEF Revoke
    <3>2. QED
      BY <2>10, <3>1 DEF Revoke, Transition, State
  <2>11. QED
    BY <1>h, <2>1, <2>2, <2>3, <2>4, <2>5, <2>7, <2>8, <2>9, <2>10 DEF Handlers
<1>m. ASSUME NEW r \in Requests, MonitorLoads(r) \/ MonitorRevokes(r) \/ MonitorDies(r)
      PROVE  TypeOK'
  <2>1. ASSUME MonitorLoads(r) PROVE TypeOK'
    BY <2>1 DEF MonitorLoads, row
  <2>2. ASSUME MonitorRevokes(r) PROVE TypeOK'
    <3>1. OutboxTyped(outbox')
      BY <2>2, EnqueuedType, <1>k DEF MonitorRevokes
    <3>2. QED
      BY <2>2, <3>1 DEF MonitorRevokes, State, Risk
  <2>3. ASSUME MonitorDies(r) PROVE TypeOK'
    BY <2>3 DEF MonitorDies, row
  <2>4. QED
    BY <1>m, <2>1, <2>2, <2>3
<1>t. ASSUME NEW r \in Requests, TtlElapses(r) PROVE TypeOK'
  BY <1>t DEF TtlElapses, OutboxTyped, Live, JobRow, row
<1>r. ASSUME NEW r \in Requests, NEW risk \in Risk, RiskChanges(r, risk) PROVE TypeOK'
  BY <1>r DEF RiskChanges, row
<1>w. ASSUME NEW w \in Workers, WorkerStep(w) \/ WorkerDies(w) PROVE TypeOK'
  <2> DEFINE t == worker[w]
  <2>a. ASSUME t # NoTransaction
        PROVE  t \in Transaction /\ t.job \in JobKey /\ t.job.req \in Requests
    BY <2>a DEF Transaction, JobKey
  <2>b. ASSUME NEW phase \in {"loaded", "called"}, NEW types, InPhase(w, phase, types)
        PROVE  t # NoTransaction
    BY <2>b DEF InPhase, NoTransaction
  <2>c. Dismissed(w) => worker' \in [Workers -> Transaction \cup {NoTransaction}]
    BY DEF Dismissed
  <2>d. ASSUME t # NoTransaction, NEW s \in State, NEW n \in Nat, Overwrite(w, s, n)
        PROVE  state' \in [Requests -> State] /\ version' \in [Requests -> Nat]
    BY <2>a, <2>d DEF Overwrite, Transaction
  <2>e. ASSUME t # NoTransaction, JobDone(w) \/ JobRaised(w)
        PROVE  OutboxTyped(outbox')
    BY <2>a, <2>e, SettledType DEF JobDone, JobRaised
  <2>f. JobRaised(w) => UNCHANGED <<state, version>>
    BY DEF JobRaised
  <2>1. ASSUME NEW k \in DOMAIN outbox, ClaimJob(w, k) PROVE TypeOK'
    <3>1. k \in JobKey /\ k.req \in Requests
      BY DEF JobKey, OutboxTyped
    <3>2. [phase |-> "loaded", job |-> k, state |-> state[k.req],
           version |-> version[k.req], outcome |-> "none"] \in Transaction
      BY <3>1 DEF Transaction, Outcome
    <3>3. QED
      BY <2>1, <3>2 DEF ClaimJob, row
  <2>2. ASSUME FinishReview(w) PROVE TypeOK'
    BY <2>2, <2>b, <2>c, <2>d, <2>e, <2>f DEF FinishReview, State, ReviewState
  <2>3. ASSUME NEW types, NEW outcomes \in SUBSET Outcome, CallProvider(w, types, outcomes)
        PROVE  TypeOK'
    <3>1. t # NoTransaction
      BY <2>3, <2>b DEF CallProvider
    <3>2. PICK o \in outcomes :
            /\ worker' = [worker EXCEPT ![w] = [t EXCEPT !.phase = "called", !.outcome = o]]
            /\ \E on \in AccessAfter(t.job.type, o, access[t.job.req]) :
                 access' = [access EXCEPT ![t.job.req] = on]
      BY <2>3 DEF CallProvider
    <3>3. AccessAfter(t.job.type, o, access[t.job.req]) \subseteq BOOLEAN
      BY <3>1, <2>a DEF AccessAfter
    <3>4. access' \in [Requests -> BOOLEAN]
      BY <3>2, <3>3
    <3>5. [t EXCEPT !.phase = "called", !.outcome = o] \in Transaction
      BY <3>1, <2>a DEF Transaction
    <3>6. QED
      BY <2>3, <3>2, <3>4, <3>5 DEF CallProvider, row
  <2>4. ASSUME CallActivate(w) PROVE TypeOK'
    BY <2>3, <2>4 DEF CallActivate, ActivateOutcomes, Outcome
  <2>5. ASSUME FinishEnforcement(w) PROVE TypeOK'
    <3>1. t # NoTransaction
      BY <2>5, <2>b DEF FinishEnforcement
    <3>2. grant' \in [Requests -> GrantState]
      BY <2>5 DEF FinishEnforcement, GrantBecomes, EnforcementState, GrantState
    <3>3. CASE JobDone(w) \/ JobRaised(w)
      BY <2>5, <3>1, <3>2, <3>3, <2>c, <2>d, <2>e, <2>f DEF FinishEnforcement, State
    <3>4. CASE /\ Overwrite(w, "ACTIVE", 1)
               /\ outbox' = EnqueuedLater(Completed(outbox, t.job), ExpiryJob(t.job.req))
      <4>1. OutboxTyped(outbox')
        BY <3>1, <3>4, <2>a, EnqueuedType, SettledType, JobKeyType
      <4>2. QED
        BY <2>5, <3>1, <3>2, <3>4, <4>1, <2>c, <2>d DEF FinishEnforcement, State
    <3>5. QED
      BY <2>5, <3>3, <3>4 DEF FinishEnforcement
  <2>6. ASSUME CallRevoke(w) PROVE TypeOK'
    BY <2>3, <2>6 DEF CallRevoke, RevokeOutcomes, Outcome
  <2>7. ASSUME SkipRevoke(w) PROVE TypeOK'
    BY <2>7, <2>b, <2>c, <2>e DEF SkipRevoke, row
  <2>8. ASSUME FinishRevoke(w) PROVE TypeOK'
    <3>1. t # NoTransaction
      BY <2>8, <2>b DEF FinishRevoke
    <3>2. grant' \in [Requests -> GrantState]
      BY <2>8 DEF FinishRevoke, GrantBecomes, GrantState
    <3>3. JobDone(w) \/ JobRaised(w)
      BY <2>8 DEF FinishRevoke
    <3>4. state' \in [Requests -> State] /\ version' \in [Requests -> Nat]
      BY <2>8, <3>1, <2>d, <2>f DEF FinishRevoke, State, TerminalState
    <3>5. QED
      BY <2>8, <3>1, <3>2, <3>3, <3>4, <2>c, <2>e DEF FinishRevoke
  <2>9. ASSUME WorkerDies(w) PROVE TypeOK'
    BY <2>9, <2>c DEF WorkerDies, row
  <2>10. QED
    BY <1>w, <2>1, <2>2, <2>4, <2>5, <2>6, <2>7, <2>8, <2>9 DEF WorkerStep
<1>u. CASE UNCHANGED vars
  BY <1>u DEF vars, row
<1>q. QED
  BY <1>h, <1>m, <1>t, <1>r, <1>w, <1>u DEF Next

(* The state of every execution has the type the schema gives it.          *)
THEOREM TypeCorrect == Spec => []TypeOK
<1>1. Init => TypeOK
  BY ConstantsAssumption
  DEF Init, TypeOK, State, Decision, GrantState, OutboxTyped, JobRow, NoTransaction
<1>2. QED
  BY <1>1, TypeStep, PTL DEF Spec
-----------------------------------------------------------------------------
(* Approvals only accumulate, so a request once authorised remains so.     *)
LEMMA AuthorityIsKept ==
  ASSUME NEW r \in Requests, Authorised(r), approvals[r] \subseteq approvals'[r]
  PROVE  Authorised(r)'
BY DEF Authorised, Requester

(* A decision that is not the requester's own, in the roles the decision   *)
(* names, completes the authority of a request whose policy found it       *)
(* eligible.                                                               *)
LEMMA LastApprovalAuthorises ==
  ASSUME TypeOK, NoSelfApproval, EligibleDecisionNamesRoles,
         NEW r \in Requests, NEW p \in Principals, ApproveInFull(p, r)
  PROVE  Authorised(r)'
<1> DEFINE a == [who |-> p.who, role |-> p.role, decision |-> "approve"]
<1>1. approvals'[r] = approvals[r] \cup {a}
  BY DEF ApproveInFull, Recorded, TypeOK
<1>2. a.who # Requester(r) /\ a.role = p.role /\ a.decision = "approve"
  BY DEF ApproveInFull, MayDecide
<1>3. RequiredRoles(Profile[r]) \subseteq ApprovedRoles(r) \cup {p.role}
  BY DEF ApproveInFull, MayDecide, EligibleDecisionNamesRoles
<1>4. \A role \in ApprovedRoles(r) :
        \E b \in approvals[r] : b.role = role /\ b.decision = "approve" /\ b.who # Requester(r)
  BY DEF ApprovedRoles, NoSelfApproval
<1> HIDE DEF a
<1>5. \A role \in RequiredRoles(Profile[r]) :
        \E b \in approvals'[r] : b.role = role /\ b.decision = "approve" /\ b.who # Requester(r)
  BY <1>1, <1>2, <1>3, <1>4
<1>6. QED
  BY <1>5 DEF Authorised, Requester

(* Every step keeps the approvals already given, and none of them becomes  *)
(* one by the requester.                                                   *)
LEMMA ApprovalsStep ==
  ASSUME TypeOK, NoSelfApproval, [Next]_vars
  PROVE  NoSelfApproval' /\ \A r \in Requests : approvals[r] \subseteq approvals'[r]
<1>1. ASSUME NEW r \in Requests, NEW p \in Principals, NEW d, MayDecide(p, r), Recorded(p, r, d)
      PROVE  NoSelfApproval' /\ \A q \in Requests : approvals[q] \subseteq approvals'[q]
  BY <1>1 DEF MayDecide, Recorded, NoSelfApproval, TypeOK, Requester
<1>2. ASSUME UNCHANGED approvals
      PROVE  NoSelfApproval' /\ \A q \in Requests : approvals[q] \subseteq approvals'[q]
  BY <1>2 DEF NoSelfApproval, Requester
<1>3. ASSUME NEW r \in Requests, Handlers(r)
      PROVE  \/ UNCHANGED approvals
             \/ \E p \in Principals, d \in {"approve", "deny"} : MayDecide(p, r) /\ Recorded(p, r, d)
  BY <1>3 DEF Handlers, CreateRequest, AddEvidence, EvaluateRequest, RequestAIReview,
              RequestMoreContext, Deny, ApproveInPart, ApproveInFull, Revoke
<1>4. ASSUME NEW r \in Requests,
             \/ MonitorLoads(r) \/ MonitorRevokes(r) \/ MonitorDies(r) \/ TtlElapses(r)
             \/ \E risk \in Risk : RiskChanges(r, risk)
      PROVE  UNCHANGED approvals
  BY <1>4 DEF MonitorLoads, MonitorRevokes, MonitorDies, TtlElapses, RiskChanges
<1>5. ASSUME NEW w \in Workers, WorkerStep(w) \/ WorkerDies(w)
      PROVE  UNCHANGED approvals
  BY <1>5 DEF WorkerStep, ClaimJob, FinishReview, CallActivate, CallRevoke, CallProvider,
              FinishEnforcement, SkipRevoke, FinishRevoke, WorkerDies
<1>6. QED
  BY <1>1, <1>2, <1>3, <1>4, <1>5 DEF Next, vars

(* A stored decision that says eligible names the roles of the profile.    *)
LEMMA DecisionStep ==
  ASSUME TypeOK, EligibleDecisionNamesRoles, [Next]_vars
  PROVE  EligibleDecisionNamesRoles'
<1>1. ASSUME NEW r \in Requests, NEW isAdmin \in BOOLEAN, EvaluateRequest(r, isAdmin)
      PROVE  EligibleDecisionNamesRoles'
  <2>1. decision' = [decision EXCEPT ![r] = EvaluateAccessPolicy(PolicyInputs(r, isAdmin))]
    BY <1>1 DEF EvaluateRequest
  <2>2. EvaluateAccessPolicy(PolicyInputs(r, isAdmin)).roles = RequiredRoles(Profile[r])
    BY DEF EvaluateAccessPolicy, PolicyInputs
  <2>3. QED
    BY <2>1, <2>2 DEF EligibleDecisionNamesRoles, TypeOK
<1>2. ASSUME UNCHANGED decision PROVE EligibleDecisionNamesRoles'
  BY <1>2 DEF EligibleDecisionNamesRoles
<1>3. ASSUME NEW r \in Requests, Handlers(r)
      PROVE  UNCHANGED decision \/ \E isAdmin \in BOOLEAN : EvaluateRequest(r, isAdmin)
  BY <1>3 DEF Handlers, CreateRequest, AddEvidence, RequestAIReview,
              RequestMoreContext, Deny, ApproveInPart, ApproveInFull, Revoke
<1>4. ASSUME NEW r \in Requests,
             \/ MonitorLoads(r) \/ MonitorRevokes(r) \/ MonitorDies(r) \/ TtlElapses(r)
             \/ \E risk \in Risk : RiskChanges(r, risk)
      PROVE  UNCHANGED decision
  BY <1>4 DEF MonitorLoads, MonitorRevokes, MonitorDies, TtlElapses, RiskChanges, row
<1>5. ASSUME NEW w \in Workers, WorkerStep(w) \/ WorkerDies(w)
      PROVE  UNCHANGED decision
  BY <1>5 DEF WorkerStep, ClaimJob, FinishReview, CallActivate, CallRevoke, CallProvider,
              FinishEnforcement, SkipRevoke, FinishRevoke, WorkerDies, row
<1>6. QED
  BY <1>1, <1>2, <1>3, <1>4, <1>5 DEF Next, vars, row

(* A grant never goes away again, and appears only with the last approval. *)
LEMMA GrantStep ==
  ASSUME TypeOK, [Next]_vars, NEW r \in Requests
  PROVE  /\ grant[r] # "none" => grant'[r] # "none"
         /\ grant[r] = "none" /\ grant'[r] # "none" /\ TransactionsHoldJobs
              /\ GrantJobsHaveGrants => \E p \in Principals : ApproveInFull(p, r)
<1>1. ASSUME NEW q \in Requests, NEW p \in Principals, ApproveInFull(p, q)
      PROVE  /\ grant[r] # "none" => grant'[r] # "none"
             /\ grant[r] = "none" /\ grant'[r] # "none" => q = r
  BY <1>1 DEF ApproveInFull, TypeOK
<1>2. ASSUME NEW w \in Workers, FinishEnforcement(w) \/ FinishRevoke(w)
      PROVE  /\ grant[r] # "none" => grant'[r] # "none"
             /\ grant[r] = "none" /\ grant'[r] # "none" =>
                  ~(TransactionsHoldJobs /\ GrantJobsHaveGrants)
  <2>1. PICK g \in GrantState : g # "none" /\ (UNCHANGED grant \/ GrantBecomes(w, g))
    BY <1>2 DEF FinishEnforcement, FinishRevoke, EnforcementState, GrantState
  <2>2. worker[w] # NoTransaction /\ worker[w].job.type # "AI_REVIEW"
    BY <1>2 DEF FinishEnforcement, FinishRevoke, InPhase, NoTransaction
  <2>3. grant[r] = "none" /\ grant'[r] # "none" => worker[w].job.req = r
    BY <2>1 DEF GrantBecomes, TypeOK
  <2>4. grant[r] # "none" => grant'[r] # "none"
    BY <2>1 DEF GrantBecomes, TypeOK
  <2>5. QED
    BY <2>2, <2>3, <2>4 DEF TransactionsHoldJobs, GrantJobsHaveGrants
<1>3. ASSUME NEW q \in Requests, Handlers(q)
      PROVE  UNCHANGED grant \/ \E p \in Principals : ApproveInFull(p, q)
  BY <1>3 DEF Handlers, CreateRequest, AddEvidence, EvaluateRequest, RequestAIReview,
              RequestMoreContext, Deny, ApproveInPart, Revoke
<1>4. ASSUME NEW q \in Requests,
             \/ MonitorLoads(q) \/ MonitorRevokes(q) \/ MonitorDies(q) \/ TtlElapses(q)
             \/ \E risk \in Risk : RiskChanges(q, risk)
      PROVE  UNCHANGED grant
  BY <1>4 DEF MonitorLoads, MonitorRevokes, MonitorDies, TtlElapses, RiskChanges
<1>5. ASSUME NEW w \in Workers, WorkerStep(w) \/ WorkerDies(w)
      PROVE  UNCHANGED grant \/ FinishEnforcement(w) \/ FinishRevoke(w)
  BY <1>5 DEF WorkerStep, ClaimJob, FinishReview, CallActivate, CallRevoke, CallProvider,
              SkipRevoke, WorkerDies
<1>6. QED
  BY <1>1, <1>2, <1>3, <1>4, <1>5 DEF Next, vars

(* A job that is enqueued needs no grant (a review), or is about a request *)
(* that has one by the end of the step; no job is ever deleted.            *)
LEMMA OutboxStep ==
  ASSUME TypeOK, AuthorityInvariant, [Next]_vars
  PROVE  /\ DOMAIN outbox \subseteq DOMAIN outbox'
         /\ \A k \in DOMAIN outbox' \ DOMAIN outbox :
              k.type # "AI_REVIEW" => grant'[k.req] # "none"
<1> DEFINE Goal == /\ DOMAIN outbox \subseteq DOMAIN outbox'
                   /\ \A k \in DOMAIN outbox' \ DOMAIN outbox :
                        k.type # "AI_REVIEW" => grant'[k.req] # "none"
<1>0. OutboxTyped(outbox)
  BY DEF TypeOK
<1>1. ASSUME NEW k \in JobKey, outbox' = EnqueuedNow(outbox, k),
             k.type = "AI_REVIEW" \/ grant'[k.req] # "none"
      PROVE  Goal
  <2>1. DOMAIN outbox' = DOMAIN outbox \cup {k}
    BY <1>0, <1>1, EnqueuedType
  <2>2. QED
    BY <1>1, <2>1
<1>2. ASSUME NEW w \in Workers, worker[w] # NoTransaction, JobDone(w) \/ JobRaised(w)
      PROVE  Goal
  <2>1. worker[w].job \in JobKey
    BY <1>2 DEF TypeOK, Transaction
  <2>2. DOMAIN outbox' = DOMAIN outbox
    BY <1>0, <1>2, <2>1, SettledType DEF JobDone, JobRaised
  <2>3. QED
    BY <2>2
<1>3. ASSUME NEW r \in Requests, RequestAIReview(r) PROVE Goal
  <2>1. AIReviewJob(r, version[r] + 1) \in JobKey
    BY JobKeyType DEF TypeOK
  <2>2. AIReviewJob(r, version[r] + 1).type = "AI_REVIEW"
    BY DEF AIReviewJob
  <2>3. QED
    BY <1>1, <1>3, <2>1, <2>2 DEF RequestAIReview
<1>4. ASSUME NEW r \in Requests, NEW p \in Principals, ApproveInFull(p, r) PROVE Goal
  <2>1. EnforcementJob(r) \in JobKey
    BY 0 \in Nat, JobKeyType
  <2>2. EnforcementJob(r).req = r
    BY DEF EnforcementJob
  <2>3. CASE grant[r] = "none"
    BY <1>1, <1>4, <2>1, <2>2, <2>3 DEF ApproveInFull, TypeOK
  <2>4. CASE UNCHANGED outbox
    BY <2>4
  <2>5. QED
    BY <1>4, <2>3, <2>4 DEF ApproveInFull
<1>5. ASSUME NEW r \in Requests, Revoke(r) \/ MonitorRevokes(r) PROVE Goal
  <2>1. grant'[r] # "none"
    BY <1>5 DEF AuthorityInvariant, ActiveHasGrant, Revoke, MonitorRevokes
  <2>2. \A v \in Nat : RevocationJob(r, v) \in JobKey /\ RevocationJob(r, v).req = r
    BY JobKeyType DEF RevocationJob
  <2>3. PICK v \in Nat : outbox' = EnqueuedNow(outbox, RevocationJob(r, v))
    BY <1>5 DEF Revoke, MonitorRevokes, TypeOK
  <2>4. QED
    BY <1>1, <2>1, <2>2, <2>3
<1>6. ASSUME NEW r \in Requests, TtlElapses(r) PROVE Goal
  BY <1>6 DEF TtlElapses
<1>7. ASSUME NEW w \in Workers, FinishEnforcement(w) PROVE Goal
  <2>1. worker[w] # NoTransaction /\ worker[w].job.type # "AI_REVIEW"
    BY <1>7 DEF FinishEnforcement, InPhase, NoTransaction
  <2> DEFINE k == worker[w].job
             x == ExpiryJob(k.req)
  <2>2. k \in JobKey /\ k.req \in Requests /\ k \in DOMAIN outbox
    BY <2>1 DEF TypeOK, Transaction, JobKey, AuthorityInvariant, TransactionsHoldJobs
  <2>3. grant'[k.req] # "none"
    BY <2>1, <2>2, GrantStep DEF AuthorityInvariant, GrantJobsHaveGrants
  <2>4. x \in JobKey /\ x.req = k.req
    BY 0 \in Nat, <2>2, JobKeyType DEF ExpiryJob
  <2>5. CASE outbox' = EnqueuedLater(Completed(outbox, k), x)
    <3>1. DOMAIN Completed(outbox, k) = DOMAIN outbox /\ OutboxTyped(Completed(outbox, k))
      BY <1>0, <2>2, SettledType
    <3>2. DOMAIN EnqueuedLater(Completed(outbox, k), x) = DOMAIN outbox \cup {x}
      BY <2>4, <3>1, EnqueuedType
    <3>3. QED
      BY <2>3, <2>4, <2>5, <3>2
  <2>6. QED
    BY <1>2, <1>7, <2>1, <2>5 DEF FinishEnforcement
<1>8. ASSUME NEW w \in Workers, FinishReview(w) \/ SkipRevoke(w) \/ FinishRevoke(w)
      PROVE  Goal
  <2>1. worker[w] # NoTransaction
    BY <1>8 DEF FinishReview, SkipRevoke, FinishRevoke, InPhase, NoTransaction
  <2>2. QED
    BY <1>2, <1>8, <2>1 DEF FinishReview, SkipRevoke, FinishRevoke
<1>9. ASSUME UNCHANGED outbox PROVE Goal
  BY <1>9
<1>10. ASSUME NEW r \in Requests, Handlers(r) PROVE Goal
  BY <1>3, <1>4, <1>5, <1>9, <1>10 DEF Handlers, CreateRequest, AddEvidence,
     EvaluateRequest, RequestMoreContext, Deny, ApproveInPart
<1>11. ASSUME NEW r \in Requests,
              \/ MonitorLoads(r) \/ MonitorRevokes(r) \/ MonitorDies(r) \/ TtlElapses(r)
              \/ \E risk \in Risk : RiskChanges(r, risk)
       PROVE  Goal
  BY <1>5, <1>6, <1>9, <1>11 DEF MonitorLoads, MonitorDies, RiskChanges
<1>12. ASSUME NEW w \in Workers, WorkerStep(w) \/ WorkerDies(w) PROVE Goal
  BY <1>7, <1>8, <1>9, <1>12 DEF WorkerStep, ClaimJob, CallActivate, CallRevoke,
     CallProvider, WorkerDies
<1> HIDE DEF Goal
<1>13. Goal
  BY <1>9, <1>10, <1>11, <1>12 DEF Next, vars
<1>14. QED
  BY <1>13 DEF Goal

(* The access opens, and a request becomes active or is watched as active, *)
(* only with a grant; a transaction never changes its job.                 *)
LEMMA ActiveAccessStep ==
  ASSUME TypeOK, AuthorityInvariant, [Next]_vars
  PROVE  /\ \A r \in Requests :
              (access'[r] \/ state'[r] = "ACTIVE" \/ monitor'[r] # 0) => grant[r] # "none"
         /\ \A w \in Workers : worker'[w] # NoTransaction => worker'[w].job \in DOMAIN outbox
<1> DEFINE Goal ==
      /\ \A r \in Requests :
           (access'[r] \/ state'[r] = "ACTIVE" \/ monitor'[r] # 0) => grant[r] # "none"
      /\ \A w \in Workers : worker'[w] # NoTransaction => worker'[w].job \in DOMAIN outbox
<1> USE DEF TypeOK, AuthorityInvariant, ActiveHasGrant, OpenHasGrant, TransactionsHoldJobs
<1>1. ASSUME NEW r \in Requests, Handlers(r) PROVE Goal
  <2>1. UNCHANGED <<access, monitor, worker>>
    BY <1>1 DEF Handlers, CreateRequest, AddEvidence, EvaluateRequest, RequestAIReview,
                RequestMoreContext, Deny, ApproveInPart, ApproveInFull, Revoke
  <2>2. \A q \in Requests : state'[q] = "ACTIVE" => state[q] = "ACTIVE"
    BY <1>1 DEF Handlers, CreateRequest, AddEvidence, EvaluateRequest, RequestAIReview,
                RequestMoreContext, Deny, ApproveInPart, ApproveInFull, Revoke, Transition
  <2>3. QED
    BY <2>1, <2>2
<1>2. ASSUME NEW r \in Requests, MonitorLoads(r) \/ MonitorRevokes(r) \/ MonitorDies(r)
      PROVE  Goal
  <2>1. UNCHANGED <<access, worker>>
    BY <1>2 DEF MonitorLoads, MonitorRevokes, MonitorDies
  <2>2. \A q \in Requests : /\ state'[q] = "ACTIVE" => state[q] = "ACTIVE"
                            /\ monitor'[q] # 0 => monitor[q] # 0 \/ state[q] = "ACTIVE"
    BY <1>2 DEF MonitorLoads, MonitorRevokes, MonitorDies, row
  <2>3. QED
    BY <2>1, <2>2
<1>3. ASSUME UNCHANGED <<state, access, monitor, worker>> PROVE Goal
  BY <1>3
<1>4. ASSUME NEW w \in Workers, WorkerStep(w) \/ WorkerDies(w) PROVE Goal
  <2>1. UNCHANGED monitor
    BY <1>4 DEF WorkerStep, ClaimJob, FinishReview, CallActivate, CallRevoke, CallProvider,
                FinishEnforcement, SkipRevoke, FinishRevoke, WorkerDies
  <2>2. ASSUME NEW phase, NEW types, InPhase(w, phase, types),
               types \subseteq JobType \ {"AI_REVIEW"}, phase \in {"loaded", "called"}
        PROVE  /\ worker[w] # NoTransaction
               /\ worker[w].job \in DOMAIN outbox
               /\ grant[worker[w].job.req] # "none"
    <3>1. worker[w] # NoTransaction /\ worker[w].job.type # "AI_REVIEW"
      BY <2>2 DEF InPhase, NoTransaction
    <3>2. QED
      BY <3>1 DEF GrantJobsHaveGrants
  <2>3. ASSUME NEW k \in DOMAIN outbox, ClaimJob(w, k) PROVE Goal
    BY <2>1, <2>3 DEF ClaimJob, row
  <2>4. ASSUME NEW types, NEW outcomes, CallProvider(w, types, outcomes),
               types \subseteq JobType \ {"AI_REVIEW"}
        PROVE  Goal
    <3>1. InPhase(w, "loaded", types) /\ UNCHANGED state
      BY <2>4 DEF CallProvider, row
    <3>2. \A r \in Requests : access'[r] => access[r] \/ r = worker[w].job.req
      BY <2>4 DEF CallProvider
    <3>3. \A v \in Workers : worker'[v] # NoTransaction =>
            worker[v] # NoTransaction /\ worker'[v].job = worker[v].job
      <4>1. PICK o \in outcomes : worker' = [worker EXCEPT ![w] =
                [worker[w] EXCEPT !.phase = "called", !.outcome = o]]
        BY <2>4 DEF CallProvider
      <4>2. worker[w] \in Transaction
        BY <2>2, <2>4, <3>1
      <4>3. [worker[w] EXCEPT !.phase = "called", !.outcome = o].job = worker[w].job
        BY <4>2 DEF Transaction
      <4>4. QED
        BY <2>2, <2>4, <3>1, <4>1, <4>3
    <3>4. QED
      BY <2>1, <2>2, <2>4, <3>1, <3>2, <3>3
  <2>5. ASSUME CallActivate(w) \/ CallRevoke(w) PROVE Goal
    BY <2>4, <2>5 DEF CallActivate, CallRevoke, JobType
  <2>6. ASSUME FinishEnforcement(w) PROVE Goal
    <3>1. UNCHANGED access /\ Dismissed(w) /\ InPhase(w, "called", {"ENFORCEMENT"})
      BY <2>6 DEF FinishEnforcement
    <3>2. worker[w] # NoTransaction /\ grant[worker[w].job.req] # "none"
      BY <2>2, <3>1 DEF JobType
    <3>3. \A r \in Requests : state'[r] = "ACTIVE" => state[r] = "ACTIVE" \/ r = worker[w].job.req
      BY <2>6 DEF FinishEnforcement, Overwrite, JobRaised
    <3>4. QED
      BY <2>1, <3>1, <3>2, <3>3 DEF Dismissed
  <2>7. ASSUME FinishReview(w) \/ SkipRevoke(w) \/ FinishRevoke(w) \/ WorkerDies(w) PROVE Goal
    <3>1. UNCHANGED access /\ Dismissed(w)
      BY <2>7 DEF FinishReview, SkipRevoke, FinishRevoke, WorkerDies
    <3>2. \A r \in Requests : state'[r] = "ACTIVE" => state[r] = "ACTIVE"
      BY <2>7 DEF FinishReview, SkipRevoke, FinishRevoke, WorkerDies, Overwrite, JobRaised, row
    <3>3. QED
      BY <2>1, <3>1, <3>2 DEF Dismissed
  <2>8. QED
    BY <1>4, <2>3, <2>5, <2>6, <2>7 DEF WorkerStep
<1>5. ASSUME NEW r \in Requests, TtlElapses(r) \/ \E risk \in Risk : RiskChanges(r, risk)
      PROVE  Goal
  BY <1>3, <1>5 DEF TtlElapses, RiskChanges, row
<1> HIDE DEF Goal
<1>6. Goal
  BY <1>1, <1>2, <1>3, <1>4, <1>5 DEF Next, vars, row
<1>7. QED
  BY <1>6 DEF Goal

(* The authority invariant is inductive.                                   *)
LEMMA AuthorityStep == TypeOK /\ AuthorityInvariant /\ [Next]_vars => AuthorityInvariant'
<1> SUFFICES ASSUME TypeOK, AuthorityInvariant, [Next]_vars PROVE AuthorityInvariant'
  OBVIOUS
<1>1. NoSelfApproval'
  BY ApprovalsStep DEF AuthorityInvariant
<1>2. EligibleDecisionNamesRoles'
  BY DecisionStep DEF AuthorityInvariant
<1>3. \A r \in Requests : grant[r] # "none" => grant'[r] # "none"
  BY GrantStep
<1>4. GrantsAreAuthorised'
  <2> SUFFICES ASSUME NEW r \in Requests, grant'[r] # "none" PROVE Authorised(r)'
    BY DEF GrantsAreAuthorised
  <2>1. CASE grant[r] # "none"
    BY <2>1, ApprovalsStep, AuthorityIsKept DEF AuthorityInvariant, GrantsAreAuthorised
  <2>2. CASE grant[r] = "none"
    BY <2>2, GrantStep, LastApprovalAuthorises DEF AuthorityInvariant
  <2>3. QED
    BY <2>1, <2>2
<1>5. GrantJobsHaveGrants'
  <2>1. \A k \in DOMAIN outbox : k.req \in Requests
    BY DEF TypeOK, OutboxTyped, JobKey
  <2>2. QED
    BY <1>3, <2>1, OutboxStep DEF AuthorityInvariant, GrantJobsHaveGrants
<1>6. TransactionsHoldJobs'
  BY ActiveAccessStep, OutboxStep DEF TransactionsHoldJobs, NoTransaction
<1>7. ActiveHasGrant' /\ OpenHasGrant'
  BY <1>3, ActiveAccessStep DEF ActiveHasGrant, OpenHasGrant
<1>8. QED
  BY <1>1, <1>2, <1>4, <1>5, <1>6, <1>7 DEF AuthorityInvariant

(* The path from the approvals to the provider: no one approves a request  *)
(* of their own, a grant is created only when every role the policy        *)
(* requires has approved, jobs that reach the provider have a grant, and   *)
(* access is open only under one (record_approval, create_grant, worker).  *)
THEOREM AuthorityIsInvariant == Spec => []AuthorityInvariant
<1>1. Init => AuthorityInvariant
  BY DEF Init, AuthorityInvariant, NoSelfApproval, EligibleDecisionNamesRoles,
         GrantsAreAuthorised, GrantJobsHaveGrants, TransactionsHoldJobs, ActiveHasGrant,
         OpenHasGrant
<1>2. QED
  BY <1>1, TypeCorrect, AuthorityStep, PTL DEF Spec

(* Nobody is ever let in without a grant and the approvals, by others, in  *)
(* every role the policy requires: for every set of requests and workers,  *)
(* however the webhook answers, wherever a worker dies, and whatever the   *)
(* transactions of PostgreSQL overwrite.                                   *)
THEOREM AccessIsAuthorised == Spec => []AccessNeedsAuthority
<1>1. AuthorityInvariant => AccessNeedsAuthority
  BY DEF AuthorityInvariant, OpenHasGrant, GrantsAreAuthorised, AccessNeedsAuthority
<1>2. QED
  BY <1>1, AuthorityIsInvariant, PTL
-----------------------------------------------------------------------------
(* Enqueuing adds a pending job unless the key is known, and leaves every  *)
(* row that is there alone.                                                *)
LEMMA EnqueuedRows ==
  ASSUME NEW box, OutboxTyped(box), NEW k \in JobKey
  PROVE  /\ DOMAIN EnqueuedNow(box, k) = DOMAIN box \cup {k}
         /\ \A x \in DOMAIN box : EnqueuedNow(box, k)[x] = box[x]
         /\ k \notin DOMAIN box => EnqueuedNow(box, k)[k].status = "pending"
         /\ DOMAIN EnqueuedLater(box, k) = DOMAIN box \cup {k}
         /\ \A x \in DOMAIN box : EnqueuedLater(box, k)[x] = box[x]
         /\ k \notin DOMAIN box => EnqueuedLater(box, k)[k].status = "pending"
<1>1. ASSUME NEW due \in BOOLEAN, NEW new, new = Enqueued(box, k, due)
      PROVE  /\ DOMAIN new = DOMAIN box \cup {k}
             /\ \A x \in DOMAIN box : new[x] = box[x]
             /\ k \notin DOMAIN box => new[k].status = "pending"
  BY <1>1 DEF Enqueued, OutboxTyped
<1>2. QED
  BY <1>1 DEF EnqueuedNow, EnqueuedLater

(* Settling a job leaves every other row alone.                            *)
LEMMA SettledRows ==
  ASSUME NEW box, OutboxTyped(box), NEW k \in DOMAIN box
  PROVE  /\ Completed(box, k)[k].status = "completed"
         /\ DOMAIN Completed(box, k) = DOMAIN box
         /\ DOMAIN Retried(box, k) = DOMAIN box
         /\ \A x \in DOMAIN box \ {k} :
              Completed(box, k)[x] = box[x] /\ Retried(box, k)[x] = box[x]
BY DEF OutboxTyped, Completed, Retried, Settled

(* A step changes the transaction of one worker at most: it opens by a     *)
(* claim, goes on to the provider's answer, and is closed.                 *)
LEMMA TransactionStep ==
  ASSUME TypeOK, [Next]_vars
  PROVE  \/ UNCHANGED worker
         \/ \E w \in Workers : Dismissed(w)
         \/ \E w \in Workers : CallActivate(w) \/ CallRevoke(w)
         \/ \E w \in Workers, k \in DOMAIN outbox : ClaimJob(w, k)
<1>1. ASSUME NEW r \in Requests, Handlers(r) PROVE UNCHANGED worker
  BY <1>1 DEF Handlers, CreateRequest, AddEvidence, EvaluateRequest, RequestAIReview,
              RequestMoreContext, Deny, ApproveInPart, ApproveInFull, Revoke
<1>2. ASSUME NEW r \in Requests,
             \/ MonitorLoads(r) \/ MonitorRevokes(r) \/ MonitorDies(r) \/ TtlElapses(r)
             \/ \E risk \in Risk : RiskChanges(r, risk)
      PROVE  UNCHANGED worker
  BY <1>2 DEF MonitorLoads, MonitorRevokes, MonitorDies, TtlElapses, RiskChanges
<1>3. ASSUME NEW w \in Workers, WorkerStep(w) \/ WorkerDies(w)
      PROVE  \/ Dismissed(w) \/ CallActivate(w) \/ CallRevoke(w)
             \/ \E k \in DOMAIN outbox : ClaimJob(w, k)
  BY <1>3 DEF WorkerStep, FinishReview, FinishEnforcement, SkipRevoke, FinishRevoke, WorkerDies
<1>4. QED
  BY <1>1, <1>2, <1>3 DEF Next, vars

(* A call leaves the transaction open, with its job, in phase "called".    *)
LEMMA CallKeepsJob ==
  ASSUME TypeOK, NEW w \in Workers, CallActivate(w) \/ CallRevoke(w)
  PROVE  /\ worker[w] # NoTransaction
         /\ \A v \in Workers \ {w} : worker'[v] = worker[v]
         /\ worker'[w] # NoTransaction
         /\ worker'[w].job = worker[w].job
         /\ worker'[w].phase = "called"
         /\ CallActivate(w) => worker[w].job.type = "ENFORCEMENT"
         /\ CallRevoke(w) => /\ worker[w].job.type \in EndingJobs
                             /\ worker'[w].outcome \in RevokeOutcomes
<1>1. ASSUME NEW types, NEW outcomes, CallProvider(w, types, outcomes)
      PROVE  /\ worker[w] # NoTransaction
             /\ \A v \in Workers \ {w} : worker'[v] = worker[v]
             /\ worker'[w] # NoTransaction
             /\ worker'[w].job = worker[w].job
             /\ worker'[w].phase = "called"
             /\ worker'[w].outcome \in outcomes
             /\ worker[w].job.type \in types
  <2>1. worker[w] # NoTransaction /\ worker[w].job.type \in types
    BY <1>1 DEF CallProvider, InPhase, NoTransaction
  <2>2. PICK o \in outcomes :
          worker' = [worker EXCEPT ![w] = [worker[w] EXCEPT !.phase = "called", !.outcome = o]]
    BY <1>1 DEF CallProvider
  <2>3. worker[w] \in Transaction
    BY <2>1 DEF TypeOK
  <2>4. QED
    BY <2>1, <2>2, <2>3 DEF TypeOK, Transaction, NoTransaction
<1>2. CASE CallActivate(w)
  <2>1. ~CallRevoke(w)
    BY <1>2 DEF CallActivate, CallRevoke, CallProvider, InPhase
  <2>2. QED
    BY <1>1, <1>2, <2>1 DEF CallActivate
<1>3. CASE CallRevoke(w)
  <2>1. ~CallActivate(w)
    BY <1>3 DEF CallActivate, CallRevoke, CallProvider, InPhase
  <2>2. QED
    BY <1>1, <1>3, <2>1 DEF CallRevoke, EndingJobs
<1>4. QED
  BY <1>2, <1>3

(* Two workers never hold the same job: a claim skips the locked rows.     *)
LEMMA ExclusiveStep ==
  ASSUME TypeOK, ClaimsAreExclusive, [Next]_vars
  PROVE  ClaimsAreExclusive'
<1>1. ASSUME NEW w \in Workers, Dismissed(w) PROVE ClaimsAreExclusive'
  BY <1>1 DEF Dismissed, ClaimsAreExclusive, TypeOK, NoTransaction
<1>2. ASSUME NEW w \in Workers, CallActivate(w) \/ CallRevoke(w) PROVE ClaimsAreExclusive'
  <2>1. \A v \in Workers : worker'[v] # NoTransaction =>
          worker[v] # NoTransaction /\ worker'[v].job = worker[v].job
    BY <1>2, CallKeepsJob
  <2>2. QED
    BY <2>1 DEF ClaimsAreExclusive, NoTransaction
<1>3. ASSUME NEW w \in Workers, NEW k \in DOMAIN outbox, ClaimJob(w, k)
      PROVE  ClaimsAreExclusive'
  <2>1. /\ worker'[w].job = k
        /\ \A v \in Workers \ {w} : worker'[v] = worker[v]
    BY <1>3 DEF ClaimJob, TypeOK
  <2>2. \A v \in Workers : worker[v] # NoTransaction => worker[v].job # k
    BY <1>3 DEF ClaimJob, Claimed
  <2>3. QED
    BY <2>1, <2>2 DEF ClaimsAreExclusive, NoTransaction
<1>4. ASSUME UNCHANGED worker PROVE ClaimsAreExclusive'
  BY <1>4 DEF ClaimsAreExclusive, NoTransaction
<1>5. QED
  BY <1>1, <1>2, <1>3, <1>4, TransactionStep

(* A job is written by nobody but the worker that holds it, and then only  *)
(* at the end of its transaction; otherwise it keeps its status.           *)
LEMMA StatusStep ==
  ASSUME TypeOK, AuthorityInvariant, [Next]_vars, NEW k \in DOMAIN outbox
  PROVE  /\ k \in DOMAIN outbox'
         /\ \/ outbox'[k].status = outbox[k].status
            \/ \E w \in Workers : worker[w] # NoTransaction /\ worker[w].job = k /\ Dismissed(w)
<1> DEFINE Goal == /\ k \in DOMAIN outbox'
                   /\ \/ outbox'[k].status = outbox[k].status
                      \/ \E w \in Workers :
                           worker[w] # NoTransaction /\ worker[w].job = k /\ Dismissed(w)
<1>0. OutboxTyped(outbox) /\ k \in JobKey
  BY DEF TypeOK, OutboxTyped
<1>1. ASSUME NEW j \in JobKey, outbox' = EnqueuedNow(outbox, j) PROVE Goal
  BY <1>0, <1>1, EnqueuedRows
<1>2. ASSUME NEW w \in Workers, worker[w] # NoTransaction, Dismissed(w),
             JobDone(w) \/ JobRaised(w)
      PROVE  Goal
  <2>1. worker[w].job \in DOMAIN outbox
    BY <1>2 DEF AuthorityInvariant, TransactionsHoldJobs
  <2>2. CASE worker[w].job = k
    BY <1>0, <1>2, <2>1, <2>2, SettledRows DEF JobDone, JobRaised
  <2>3. CASE worker[w].job # k
    BY <1>0, <1>2, <2>1, <2>3, SettledRows DEF JobDone, JobRaised
  <2>4. QED
    BY <2>2, <2>3
<1>3. ASSUME UNCHANGED outbox PROVE Goal
  BY <1>3
<1>4. ASSUME NEW r \in Requests, Handlers(r) PROVE Goal
  <2>1. \A v \in Nat : AIReviewJob(r, v) \in JobKey /\ RevocationJob(r, v) \in JobKey
    BY JobKeyType
  <2>2. EnforcementJob(r) \in JobKey
    BY JobKeyType, 0 \in Nat
  <2>3. version[r] + 1 \in Nat
    BY DEF TypeOK
  <2>4. QED
    BY <1>1, <1>3, <1>4, <2>1, <2>2, <2>3
    DEF Handlers, CreateRequest, AddEvidence, EvaluateRequest, RequestAIReview,
        RequestMoreContext, Deny, ApproveInPart, ApproveInFull, Revoke
<1>5. ASSUME NEW r \in Requests, MonitorRevokes(r) PROVE Goal
  <2>1. RevocationJob(r, monitor[r] + 1) \in JobKey
    BY JobKeyType DEF TypeOK
  <2>2. QED
    BY <1>1, <1>5, <2>1 DEF MonitorRevokes
<1>6. ASSUME NEW r \in Requests, TtlElapses(r) PROVE Goal
  BY <1>0, <1>6 DEF TtlElapses, OutboxTyped, JobRow, Live
<1>7. ASSUME NEW r \in Requests,
             \/ MonitorLoads(r) \/ MonitorDies(r) \/ \E risk \in Risk : RiskChanges(r, risk)
      PROVE  Goal
  BY <1>3, <1>7 DEF MonitorLoads, MonitorDies, RiskChanges
<1>8. ASSUME NEW w \in Workers, FinishEnforcement(w) PROVE Goal
  <2> DEFINE j == worker[w].job
             x == ExpiryJob(j.req)
  <2>1. worker[w] # NoTransaction /\ Dismissed(w)
    BY <1>8 DEF FinishEnforcement, InPhase, NoTransaction
  <2>2. j \in DOMAIN outbox /\ j \in JobKey /\ x \in JobKey
    BY <2>1, 0 \in Nat, JobKeyType
    DEF AuthorityInvariant, TransactionsHoldJobs, TypeOK, Transaction, JobKey
  <2>3. CASE outbox' = EnqueuedLater(Completed(outbox, j), x)
    <3>1. DOMAIN Completed(outbox, j) = DOMAIN outbox /\ OutboxTyped(Completed(outbox, j))
      BY <1>0, <2>2, SettledType
    <3>2. /\ DOMAIN outbox' = DOMAIN Completed(outbox, j) \cup {x}
          /\ \A y \in DOMAIN Completed(outbox, j) : outbox'[y] = Completed(outbox, j)[y]
      BY <2>2, <2>3, <3>1, EnqueuedRows
    <3>3. k # j => Completed(outbox, j)[k] = outbox[k]
      BY <1>0, <2>2, SettledRows
    <3>4. QED
      BY <2>1, <3>1, <3>2, <3>3
  <2>4. QED
    BY <1>2, <1>8, <2>1, <2>3 DEF FinishEnforcement
<1>9. ASSUME NEW w \in Workers, FinishReview(w) \/ SkipRevoke(w) \/ FinishRevoke(w)
      PROVE  Goal
  <2>1. worker[w] # NoTransaction
    BY <1>9 DEF FinishReview, SkipRevoke, FinishRevoke, InPhase, NoTransaction
  <2>2. QED
    BY <1>2, <1>9, <2>1 DEF FinishReview, SkipRevoke, FinishRevoke
<1>10. ASSUME NEW w \in Workers, WorkerStep(w) \/ WorkerDies(w) PROVE Goal
  BY <1>3, <1>8, <1>9, <1>10
  DEF WorkerStep, ClaimJob, CallActivate, CallRevoke, CallProvider, WorkerDies
<1> HIDE DEF Goal
<1>11. Goal
  BY <1>3, <1>4, <1>5, <1>6, <1>7, <1>10 DEF Next, vars
<1>12. QED
  BY <1>11 DEF Goal

(* Who enqueues what: a review is asked for, the last approval creates the *)
(* activation, the end of an activation its expiry, and whoever sees the   *)
(* request active its revocation.                                          *)
LEMMA NewJobStep ==
  ASSUME TypeOK, AuthorityInvariant, [Next]_vars,
         NEW k \in DOMAIN outbox', k \notin DOMAIN outbox
  PROVE  /\ outbox'[k].status = "pending"
         /\ \/ /\ RequestAIReview(k.req)
               /\ k = AIReviewJob(k.req, version[k.req] + 1)
            \/ /\ k = EnforcementJob(k.req)
               /\ \E p \in Principals : ApproveInFull(p, k.req)
            \/ /\ Revoke(k.req)
               /\ k = RevocationJob(k.req, version[k.req] + 1)
            \/ /\ MonitorRevokes(k.req)
               /\ k = RevocationJob(k.req, monitor[k.req] + 1)
            \/ /\ k = ExpiryJob(k.req)
               /\ \E w \in Workers : /\ FinishEnforcement(w)
                                     /\ worker[w].job.req = k.req
                                     /\ outbox' = EnqueuedLater(Completed(outbox, worker[w].job), k)
<1> DEFINE New(r) ==
      \/ RequestAIReview(r) /\ k = AIReviewJob(r, version[r] + 1)
      \/ k = EnforcementJob(r) /\ \E p \in Principals : ApproveInFull(p, r)
      \/ Revoke(r) /\ k = RevocationJob(r, version[r] + 1)
      \/ MonitorRevokes(r) /\ k = RevocationJob(r, monitor[r] + 1)
      \/ /\ k = ExpiryJob(r)
         /\ \E w \in Workers : /\ FinishEnforcement(w)
                               /\ worker[w].job.req = r
                               /\ outbox' = EnqueuedLater(Completed(outbox, worker[w].job), k)
    Goal == outbox'[k].status = "pending" /\ New(k.req)
<1>0. OutboxTyped(outbox)
  BY DEF TypeOK
<1>1. ASSUME NEW j \in JobKey, outbox' = EnqueuedNow(outbox, j)
      PROVE  k = j /\ outbox'[k].status = "pending"
  <2>1. /\ DOMAIN outbox' = DOMAIN outbox \cup {j}
        /\ j \notin DOMAIN outbox => outbox'[j].status = "pending"
    BY <1>0, <1>1, EnqueuedRows
  <2>2. QED
    BY <2>1
<1>2. ASSUME NEW w \in Workers, worker[w] # NoTransaction, JobDone(w) \/ JobRaised(w)
      PROVE  FALSE
  <2>1. worker[w].job \in DOMAIN outbox
    BY <1>2 DEF AuthorityInvariant, TransactionsHoldJobs
  <2>2. QED
    BY <1>0, <1>2, <2>1, SettledRows DEF JobDone, JobRaised
<1>3. ASSUME NEW r \in Requests, NEW v \in Nat
      PROVE  /\ AIReviewJob(r, v).req = r /\ EnforcementJob(r).req = r
             /\ RevocationJob(r, v).req = r /\ ExpiryJob(r).req = r
  BY DEF AIReviewJob, EnforcementJob, RevocationJob, ExpiryJob
<1>4. ASSUME NEW r \in Requests
      PROVE  /\ AIReviewJob(r, version[r] + 1) \in JobKey
             /\ RevocationJob(r, version[r] + 1) \in JobKey
             /\ RevocationJob(r, monitor[r] + 1) \in JobKey
             /\ EnforcementJob(r) \in JobKey
             /\ ExpiryJob(r) \in JobKey
             /\ version[r] + 1 \in Nat
             /\ monitor[r] + 1 \in Nat
  BY JobKeyType, 0 \in Nat DEF TypeOK
<1>5. ASSUME NEW r \in Requests, Handlers(r) PROVE Goal
  <2>1. CASE RequestAIReview(r)
    BY <2>1, <1>1, <1>3, <1>4 DEF RequestAIReview
  <2>2. CASE Revoke(r)
    BY <2>2, <1>1, <1>3, <1>4 DEF Revoke
  <2>3. ASSUME NEW p \in Principals, ApproveInFull(p, r) PROVE Goal
    <3>1. outbox' = EnqueuedNow(outbox, EnforcementJob(r))
      BY <2>3 DEF ApproveInFull
    <3>2. QED
      BY <2>3, <3>1, <1>1, <1>3, <1>4, 0 \in Nat
  <2>4. QED
    BY <1>5, <2>1, <2>2, <2>3
    DEF Handlers, CreateRequest, AddEvidence, EvaluateRequest, RequestMoreContext, Deny,
        ApproveInPart
<1>6. ASSUME NEW r \in Requests, MonitorRevokes(r) PROVE Goal
  <2>1. k = RevocationJob(r, monitor[r] + 1) /\ outbox'[k].status = "pending"
    BY <1>6, <1>1, <1>4 DEF MonitorRevokes
  <2>2. k.req = r
    BY <2>1, <1>3, <1>4
  <2>3. QED
    BY <1>6, <2>1, <2>2
<1>7. ASSUME NEW w \in Workers, FinishEnforcement(w) PROVE Goal
  <2> DEFINE j == worker[w].job
             x == ExpiryJob(j.req)
  <2>1. worker[w] # NoTransaction
    BY <1>7 DEF FinishEnforcement, InPhase, NoTransaction
  <2>2. j \in DOMAIN outbox /\ j \in JobKey /\ j.req \in Requests
    BY <2>1 DEF AuthorityInvariant, TransactionsHoldJobs, TypeOK, Transaction, JobKey
  <2>3. outbox' = EnqueuedLater(Completed(outbox, j), x)
    BY <1>2, <1>7, <2>1 DEF FinishEnforcement
  <2>4. DOMAIN Completed(outbox, j) = DOMAIN outbox /\ OutboxTyped(Completed(outbox, j))
    BY <1>0, <2>2, SettledType
  <2>5. x \in JobKey /\ x.req = j.req
    BY <2>2, <1>3, <1>4, 0 \in Nat
  <2>6. /\ DOMAIN outbox' = DOMAIN Completed(outbox, j) \cup {x}
        /\ x \notin DOMAIN Completed(outbox, j) => outbox'[x].status = "pending"
    BY <2>3, <2>4, <2>5, EnqueuedRows
  <2>7. k = x /\ outbox'[k].status = "pending"
    BY <2>4, <2>6
  <2>8. QED
    BY <1>7, <2>3, <2>5, <2>7
<1>8. ASSUME NEW w \in Workers, FinishReview(w) \/ SkipRevoke(w) \/ FinishRevoke(w)
      PROVE  Goal
  <2>1. worker[w] # NoTransaction
    BY <1>8 DEF FinishReview, SkipRevoke, FinishRevoke, InPhase, NoTransaction
  <2>2. QED
    BY <1>2, <1>8, <2>1 DEF FinishReview, SkipRevoke, FinishRevoke
<1>9. ~UNCHANGED outbox
  OBVIOUS
<1>10. ASSUME NEW r \in Requests, TtlElapses(r) PROVE FALSE
  BY <1>10 DEF TtlElapses
<1>11. ASSUME NEW w \in Workers, WorkerStep(w) \/ WorkerDies(w) PROVE Goal
  BY <1>7, <1>8, <1>9, <1>11
  DEF WorkerStep, ClaimJob, CallActivate, CallRevoke, CallProvider, WorkerDies
<1>12. ASSUME NEW r \in Requests,
              \/ MonitorLoads(r) \/ MonitorDies(r) \/ \E risk \in Risk : RiskChanges(r, risk)
       PROVE  FALSE
  BY <1>9, <1>12 DEF MonitorLoads, MonitorDies, RiskChanges
<1> HIDE DEF Goal
<1>13. Goal
  BY <1>5, <1>6, <1>9, <1>10, <1>11, <1>12 DEF Next, vars
<1>14. QED
  BY <1>13 DEF Goal, New

(* A job somebody holds can still run, and nobody but the holder ends it.  *)
LEMMA ClaimedLiveStep ==
  ASSUME TypeOK, AuthorityInvariant, ClaimsAreExclusive, ClaimedJobsAreLive, [Next]_vars
  PROVE  ClaimedJobsAreLive'
<1> SUFFICES ASSUME NEW v \in Workers, worker'[v] # NoTransaction
             PROVE  Live(worker[v].job)'
  BY DEF ClaimedJobsAreLive, NoTransaction
<1>1. ASSUME worker[v] # NoTransaction, worker'[v].job = worker[v].job PROVE Live(worker[v].job)'
  <2>1. Live(worker[v].job)
    BY <1>1 DEF ClaimedJobsAreLive
  <2>2. ASSUME NEW w \in Workers, worker[w] # NoTransaction, worker[w].job = worker[v].job,
               Dismissed(w)
        PROVE  FALSE
    <3>1. w = v
      BY <1>1, <2>2 DEF ClaimsAreExclusive
    <3>2. QED
      BY <2>2, <3>1 DEF Dismissed, TypeOK
  <2>3. /\ worker[v].job \in DOMAIN outbox'
        /\ outbox'[worker[v].job].status = outbox[worker[v].job].status
    BY <2>1, <2>2, StatusStep DEF Live
  <2>4. QED
    BY <1>1, <2>1, <2>3 DEF Live
<1>2. CASE UNCHANGED worker
  BY <1>1, <1>2
<1>3. ASSUME NEW w \in Workers, Dismissed(w) PROVE Live(worker[v].job)'
  BY <1>1, <1>3 DEF Dismissed, TypeOK
<1>4. ASSUME NEW w \in Workers, CallActivate(w) \/ CallRevoke(w) PROVE Live(worker[v].job)'
  BY <1>1, <1>4, CallKeepsJob
<1>5. ASSUME NEW w \in Workers, NEW k \in DOMAIN outbox, ClaimJob(w, k)
      PROVE  Live(worker[v].job)'
  <2>1. CASE v = w
    BY <1>5, <2>1 DEF ClaimJob, TypeOK, Live
  <2>2. CASE v # w
    BY <1>1, <1>5, <2>2 DEF ClaimJob, TypeOK
  <2>3. QED
    BY <2>1, <2>2
<1>6. QED
  BY <1>2, <1>3, <1>4, <1>5, TransactionStep

(* A job that is over stays over: its key is never enqueued again.         *)
LEMMA ActivationStaysOver ==
  ASSUME TypeOK, AuthorityInvariant, ClaimedJobsAreLive, [Next]_vars,
         NEW r \in Requests, ActivationOver(r)
  PROVE  ActivationOver(r)'
<1> DEFINE k == EnforcementJob(r)
<1>1. k \in DOMAIN outbox /\ outbox[k].status = "completed"
  BY DEF ActivationOver
<1>2. \A w \in Workers : worker[w] # NoTransaction => worker[w].job # k
  BY <1>1 DEF ClaimedJobsAreLive, Live
<1> HIDE DEF k
<1>3. k \in DOMAIN outbox' /\ outbox'[k].status = "completed"
  BY <1>1, <1>2, StatusStep
<1>4. QED
  BY <1>3 DEF k, ActivationOver, EnforcementJob

(* Every activation of a request is the same job.                          *)
LEMMA OneActivationStep ==
  ASSUME TypeOK, AuthorityInvariant, ActivationHasOneJob, [Next]_vars
  PROVE  ActivationHasOneJob'
<1> SUFFICES ASSUME NEW k \in DOMAIN outbox', k.type = "ENFORCEMENT"
             PROVE  k = EnforcementJob(k.req)
  BY DEF ActivationHasOneJob, EnforcementJob
<1>1. CASE k \in DOMAIN outbox
  BY <1>1 DEF ActivationHasOneJob
<1>2. CASE k \notin DOMAIN outbox
  BY <1>2, NewJobStep DEF AIReviewJob, RevocationJob, ExpiryJob
<1>3. QED
  BY <1>1, <1>2

(* An activation that succeeds is over.                                    *)
LEMMA ActivationEnds ==
  ASSUME TypeOK, AuthorityInvariant, ActivationHasOneJob, NEW w \in Workers,
         FinishEnforcement(w), NEW r, r = worker[w].job.req,
         outbox' = EnqueuedLater(Completed(outbox, worker[w].job), ExpiryJob(r))
  PROVE  ActivationOver(r)'
<1> DEFINE j == worker[w].job
           done == Completed(outbox, j)
<1>1. worker[w] # NoTransaction /\ j.type = "ENFORCEMENT"
  BY DEF FinishEnforcement, InPhase, NoTransaction
<1>2. j \in DOMAIN outbox /\ j \in JobKey /\ r \in Requests
  BY <1>1 DEF AuthorityInvariant, TransactionsHoldJobs, TypeOK, Transaction, JobKey
<1>3. j = EnforcementJob(r)
  BY <1>1, <1>2 DEF ActivationHasOneJob
<1>4. DOMAIN done = DOMAIN outbox /\ OutboxTyped(done) /\ ExpiryJob(r) \in JobKey
  BY <1>2, SettledType, JobKeyType, 0 \in Nat DEF TypeOK
<1>5. done[j].status = "completed"
  BY <1>2, SettledRows DEF TypeOK
<1>6. /\ DOMAIN outbox' = DOMAIN done \cup {ExpiryJob(r)}
      /\ \A x \in DOMAIN done : outbox'[x] = done[x]
  BY <1>4, EnqueuedRows
<1>7. j \in DOMAIN outbox' /\ outbox'[j].status = "completed"
  BY <1>2, <1>4, <1>5, <1>6
<1>8. QED
  BY <1>3, <1>7 DEF ActivationOver, EnforcementJob

(* Only a call to activate opens the access.                               *)
LEMMA AccessOpens ==
  ASSUME TypeOK, [Next]_vars, NEW r \in Requests, access'[r], ~access[r]
  PROVE  \E w \in Workers : CallActivate(w) /\ worker[w].job.req = r
<1>1. ASSUME NEW q \in Requests, Handlers(q) PROVE UNCHANGED access
  BY <1>1 DEF Handlers, CreateRequest, AddEvidence, EvaluateRequest, RequestAIReview,
              RequestMoreContext, Deny, ApproveInPart, ApproveInFull, Revoke
<1>2. ASSUME NEW q \in Requests,
             \/ MonitorLoads(q) \/ MonitorRevokes(q) \/ MonitorDies(q) \/ TtlElapses(q)
             \/ \E risk \in Risk : RiskChanges(q, risk)
      PROVE  UNCHANGED access
  BY <1>2 DEF MonitorLoads, MonitorRevokes, MonitorDies, TtlElapses, RiskChanges
<1>3. ASSUME NEW w \in Workers, WorkerStep(w) \/ WorkerDies(w)
      PROVE  UNCHANGED access \/ CallActivate(w) \/ CallRevoke(w)
  BY <1>3 DEF WorkerStep, ClaimJob, FinishReview, FinishEnforcement, SkipRevoke,
              FinishRevoke, WorkerDies
<1>4. ASSUME NEW w \in Workers, CallRevoke(w) PROVE FALSE
  <2> DEFINE k == worker[w].job
  <2>1. k.type # "ENFORCEMENT" /\ worker[w] # NoTransaction
    BY <1>4, CallKeepsJob DEF EndingJobs
  <2>2. PICK o \in RevokeOutcomes :
          \E on \in AccessAfter(k.type, o, access[k.req]) :
            access' = [access EXCEPT ![k.req] = on]
    BY <1>4 DEF CallRevoke, CallProvider
  <2>3. \A on \in AccessAfter(k.type, o, access[k.req]) : on \in {access[k.req], FALSE}
    BY <2>1, <2>2 DEF AccessAfter
  <2> HIDE DEF k
  <2>4. QED
    BY <2>2, <2>3 DEF TypeOK
<1>5. ASSUME NEW w \in Workers, CallActivate(w) PROVE worker[w].job.req = r
  BY <1>5 DEF CallActivate, CallProvider, TypeOK
<1>6. QED
  BY <1>1, <1>2, <1>3, <1>4, <1>5 DEF Next, vars

(* Only the end of a revocation or expiry, answered and verified as such,  *)
(* shows a grant as ended.                                                 *)
LEMMA GrantEnds ==
  ASSUME TypeOK, VerifiedEndingShuts, [Next]_vars, NEW r \in Requests,
         grant'[r] \in {"revoked", "expired"}, grant'[r] # grant[r]
  PROVE  /\ UNCHANGED access
         /\ \E w \in Workers : /\ worker[w] # NoTransaction
                               /\ InPhase(w, "called", EndingJobs)
                               /\ worker[w].job.req = r
                               /\ worker[w].outcome = "verified"
<1>1. ASSUME NEW q \in Requests, Handlers(q) PROVE UNCHANGED grant \/ grant'[q] = "pending"
  BY <1>1 DEF Handlers, CreateRequest, AddEvidence, EvaluateRequest, RequestAIReview,
              RequestMoreContext, Deny, ApproveInPart, ApproveInFull, Revoke, TypeOK
<1>2. ASSUME NEW q \in Requests, Handlers(q) PROVE \A x \in Requests \ {q} : grant'[x] = grant[x]
  BY <1>2 DEF Handlers, CreateRequest, AddEvidence, EvaluateRequest, RequestAIReview,
              RequestMoreContext, Deny, ApproveInPart, ApproveInFull, Revoke, TypeOK
<1>3. ASSUME NEW q \in Requests,
             \/ MonitorLoads(q) \/ MonitorRevokes(q) \/ MonitorDies(q) \/ TtlElapses(q)
             \/ \E risk \in Risk : RiskChanges(q, risk)
      PROVE  UNCHANGED grant
  BY <1>3 DEF MonitorLoads, MonitorRevokes, MonitorDies, TtlElapses, RiskChanges
<1>4. ASSUME NEW w \in Workers, WorkerStep(w) \/ WorkerDies(w)
      PROVE  UNCHANGED grant \/ FinishEnforcement(w) \/ FinishRevoke(w)
  BY <1>4 DEF WorkerStep, ClaimJob, FinishReview, CallActivate, CallRevoke, CallProvider,
              SkipRevoke, WorkerDies
<1>5. ASSUME NEW w \in Workers, FinishEnforcement(w) PROVE FALSE
  <2>1. UNCHANGED grant \/ GrantBecomes(w, EnforcementState(worker[w].outcome))
    BY <1>5 DEF FinishEnforcement
  <2>2. EnforcementState(worker[w].outcome) \notin {"revoked", "expired"}
    BY DEF EnforcementState
  <2>3. QED
    BY <2>1, <2>2 DEF GrantBecomes, TypeOK
<1>6. ASSUME NEW w \in Workers, FinishRevoke(w)
      PROVE  /\ UNCHANGED access
             /\ worker[w] # NoTransaction
             /\ InPhase(w, "called", EndingJobs)
             /\ worker[w].job.req = r
             /\ worker[w].outcome = "verified"
  <2>1. UNCHANGED access /\ InPhase(w, "called", EndingJobs) /\ worker[w] # NoTransaction
    BY <1>6 DEF FinishRevoke, InPhase, EndingJobs, NoTransaction
  <2>2. worker[w].outcome \in {"verified", "unverified", "raised"}
    BY <2>1 DEF VerifiedEndingShuts, RevokeOutcomes
  <2>3. \/ UNCHANGED grant
        \/ GrantBecomes(w, "revocation_failed")
        \/ /\ worker[w].outcome \notin {"raised", "unverified"}
           /\ \E g \in {"revoked", "expired"} : GrantBecomes(w, g)
    BY <1>6 DEF FinishRevoke
  <2>4. QED
    BY <2>1, <2>2, <2>3 DEF GrantBecomes, TypeOK
<1>7. QED
  BY <1>1, <1>2, <1>3, <1>4, <1>5, <1>6 DEF Next, vars

(* A request becomes active, or is watched as active, only when its        *)
(* activation ends well.                                                   *)
LEMMA BecomesActive ==
  ASSUME TypeOK, [Next]_vars, NEW r \in Requests,
         state'[r] = "ACTIVE" \/ monitor'[r] # 0, state[r] # "ACTIVE", monitor[r] = 0
  PROVE  \E w \in Workers :
           /\ FinishEnforcement(w)
           /\ worker[w].job.req = r
           /\ outbox' = EnqueuedLater(Completed(outbox, worker[w].job), ExpiryJob(r))
<1>1. ASSUME NEW q \in Requests, Handlers(q) PROVE FALSE
  <2>1. UNCHANGED monitor
    BY <1>1 DEF Handlers, CreateRequest, AddEvidence, EvaluateRequest, RequestAIReview,
                RequestMoreContext, Deny, ApproveInPart, ApproveInFull, Revoke
  <2>2. \A x \in Requests : state'[x] = "ACTIVE" => state[x] = "ACTIVE"
    BY <1>1 DEF Handlers, CreateRequest, AddEvidence, EvaluateRequest, RequestAIReview,
                RequestMoreContext, Deny, ApproveInPart, ApproveInFull, Revoke, Transition, TypeOK
  <2>3. QED
    BY <2>1, <2>2
<1>2. ASSUME NEW q \in Requests, MonitorLoads(q) \/ MonitorRevokes(q) \/ MonitorDies(q)
      PROVE  FALSE
  BY <1>2 DEF MonitorLoads, MonitorRevokes, MonitorDies, row, TypeOK
<1>3. ASSUME NEW q \in Requests, TtlElapses(q) \/ \E risk \in Risk : RiskChanges(q, risk)
      PROVE  FALSE
  BY <1>3 DEF TtlElapses, RiskChanges, row
<1>4. ASSUME NEW w \in Workers, WorkerStep(w) \/ WorkerDies(w)
      PROVE  /\ FinishEnforcement(w)
             /\ worker[w].job.req = r
             /\ outbox' = EnqueuedLater(Completed(outbox, worker[w].job), ExpiryJob(r))
  <2>1. UNCHANGED monitor
    BY <1>4 DEF WorkerStep, ClaimJob, FinishReview, CallActivate, CallRevoke, CallProvider,
                FinishEnforcement, SkipRevoke, FinishRevoke, WorkerDies
  <2>2. CASE FinishReview(w) \/ FinishRevoke(w)
    <3>1. state' # state => \E s \in State \ {"ACTIVE"}, n \in Nat : Overwrite(w, s, n)
      BY <2>2 DEF FinishReview, FinishRevoke, JobRaised, State, ReviewState, TerminalState
    <3>2. QED
      BY <2>1, <3>1 DEF Overwrite, TypeOK
  <2>3. CASE FinishEnforcement(w)
    BY <2>1, <2>3 DEF FinishEnforcement, Overwrite, JobRaised, TypeOK
  <2>4. UNCHANGED state \/ FinishReview(w) \/ FinishRevoke(w) \/ FinishEnforcement(w)
    BY <1>4 DEF WorkerStep, ClaimJob, CallActivate, CallRevoke, CallProvider, SkipRevoke,
                WorkerDies, row
  <2>5. QED
    BY <2>1, <2>2, <2>3, <2>4
<1>5. QED
  BY <1>1, <1>2, <1>3, <1>4 DEF Next, vars, row

(* Revocation and expiry jobs exist only for requests that have been       *)
(* activated.                                                              *)
LEMMA EndingFollowsStep ==
  ASSUME TypeOK, AuthorityInvariant, ClaimedJobsAreLive, ActivationHasOneJob,
         EndingFollowsActivation, [Next]_vars
  PROVE  EndingFollowsActivation'
<1>1. ASSUME NEW w \in Workers, NEW r \in Requests, FinishEnforcement(w), worker[w].job.req = r,
             outbox' = EnqueuedLater(Completed(outbox, worker[w].job), ExpiryJob(r))
      PROVE  ActivationOver(r)'
  BY <1>1, ActivationEnds
<1>2. ASSUME NEW k \in DOMAIN outbox', k.type \in EndingJobs PROVE ActivationOver(k.req)'
  <2>1. OutboxTyped(outbox')
    BY TypeStep DEF TypeOK
  <2>2. k.req \in Requests
    BY <2>1 DEF OutboxTyped, JobKey
  <2>3. CASE k \in DOMAIN outbox
    BY <1>2, <2>2, <2>3, ActivationStaysOver DEF EndingFollowsActivation
  <2>4. CASE k \notin DOMAIN outbox
    <3>1. CASE Revoke(k.req) \/ MonitorRevokes(k.req)
      BY <2>2, <3>1, ActivationStaysOver DEF EndingFollowsActivation, Revoke, MonitorRevokes
    <3>2. ASSUME k = ExpiryJob(k.req), NEW w \in Workers, FinishEnforcement(w),
                 worker[w].job.req = k.req,
                 outbox' = EnqueuedLater(Completed(outbox, worker[w].job), k)
          PROVE  ActivationOver(k.req)'
      BY <2>2, <3>2, <1>1
    <3>3. QED
      BY <1>2, <2>4, <3>1, <3>2, NewJobStep DEF EndingJobs, AIReviewJob, EnforcementJob
  <2>5. QED
    BY <2>3, <2>4
<1>3. ASSUME NEW r \in Requests, state'[r] = "ACTIVE" \/ monitor'[r] # 0
      PROVE  ActivationOver(r)'
  <2>1. CASE state[r] = "ACTIVE" \/ monitor[r] # 0
    BY <2>1, ActivationStaysOver DEF EndingFollowsActivation
  <2>2. CASE state[r] # "ACTIVE" /\ monitor[r] = 0
    BY <1>1, <1>3, <2>2, BecomesActive
  <2>3. QED
    BY <2>1, <2>2
<1>4. QED
  BY <1>2, <1>3 DEF EndingFollowsActivation, EndingJobs, ActivationOver, EnforcementJob

(* Once the activation is over nothing opens the access any more.          *)
LEMMA ShutStaysShut ==
  ASSUME TypeOK, AuthorityInvariant, ClaimedJobsAreLive, ActivationHasOneJob, [Next]_vars,
         NEW r \in Requests, ActivationOver(r), ~access[r]
  PROVE  ~access'[r]
<1> SUFFICES ASSUME access'[r] PROVE FALSE
  OBVIOUS
<1>1. PICK w \in Workers : CallActivate(w) /\ worker[w].job.req = r
  BY AccessOpens
<1>2. worker[w] # NoTransaction /\ worker[w].job.type = "ENFORCEMENT"
  BY <1>1, CallKeepsJob
<1>3. Live(worker[w].job)
  BY <1>2 DEF ClaimedJobsAreLive
<1>4. worker[w].job = EnforcementJob(r)
  BY <1>1, <1>2, <1>3 DEF Live, ActivationHasOneJob
<1>5. QED
  BY <1>3, <1>4 DEF Live, ActivationOver

(* A call that ended an access is not undone before its job is finished.   *)
LEMMA VerifiedEndingStep ==
  ASSUME TypeOK, AuthorityInvariant, ClaimedJobsAreLive, ActivationHasOneJob,
         EndingFollowsActivation, VerifiedEndingShuts, [Next]_vars
  PROVE  VerifiedEndingShuts'
<1> SUFFICES ASSUME NEW v \in Workers, worker'[v].phase = "called",
                    worker'[v].job.type \in EndingJobs
             PROVE  /\ worker'[v].outcome \in RevokeOutcomes
                    /\ worker'[v].outcome = "verified" => ~access'[worker'[v].job.req]
  BY DEF VerifiedEndingShuts, InPhase, EndingJobs, RevokeOutcomes
<1> DEFINE r == worker'[v].job.req
<1>1. ASSUME worker'[v] = worker[v]
      PROVE  /\ worker'[v].outcome \in RevokeOutcomes
             /\ worker'[v].outcome = "verified" => ~access'[r]
  <2>1. worker[v] # NoTransaction /\ InPhase(v, "called", EndingJobs)
    BY <1>1 DEF InPhase, NoTransaction
  <2>2. worker[v].job \in DOMAIN outbox /\ r \in Requests
    BY <1>1, <2>1 DEF AuthorityInvariant, TransactionsHoldJobs, TypeOK, Transaction, JobKey
  <2>3. ActivationOver(r)
    BY <1>1, <2>1, <2>2 DEF EndingFollowsActivation, InPhase
  <2>4. QED
    BY <1>1, <2>1, <2>2, <2>3, ShutStaysShut DEF VerifiedEndingShuts
<1>2. ASSUME NEW w \in Workers, Dismissed(w) PROVE worker'[v] = worker[v]
  BY <1>2 DEF Dismissed, NoTransaction, TypeOK
<1>3. ASSUME NEW w \in Workers, NEW k \in DOMAIN outbox, ClaimJob(w, k)
      PROVE  worker'[v] = worker[v]
  BY <1>3 DEF ClaimJob, TypeOK
<1>4. ASSUME NEW w \in Workers, CallActivate(w) PROVE worker'[v] = worker[v]
  BY <1>4, CallKeepsJob DEF EndingJobs
<1>5. ASSUME NEW w \in Workers, CallRevoke(w), worker'[v] # worker[v]
      PROVE  /\ worker'[v].outcome \in RevokeOutcomes
             /\ worker'[v].outcome = "verified" => ~access'[r]
  <2>1. w = v /\ worker[v] # NoTransaction
    BY <1>5, CallKeepsJob
  <2>2. worker[v].job.type \in EndingJobs /\ worker'[v].job = worker[v].job
    BY <1>5, <2>1, CallKeepsJob
  <2>3. worker[v] \in Transaction /\ r \in Requests
    BY <2>1, <2>2 DEF TypeOK, Transaction, JobKey
  <2>4. PICK o \in RevokeOutcomes :
          /\ worker' = [worker EXCEPT ![v] = [worker[v] EXCEPT !.phase = "called", !.outcome = o]]
          /\ \E on \in AccessAfter(worker[v].job.type, o, access[worker[v].job.req]) :
               access' = [access EXCEPT ![worker[v].job.req] = on]
    BY <1>5, <2>1 DEF CallRevoke, CallProvider
  <2>5. worker'[v].outcome = o
    BY <2>3, <2>4 DEF TypeOK, Transaction
  <2>6. o = "verified" => AccessAfter(worker[v].job.type, o, access[worker[v].job.req]) = {FALSE}
    BY <2>2 DEF AccessAfter, EndingJobs
  <2>7. o = "verified" => access' = [access EXCEPT ![worker[v].job.req] = FALSE]
    BY <2>4, <2>6
  <2>8. r = worker[v].job.req
    BY <2>2
  <2> HIDE DEF r
  <2>9. o = "verified" => ~access'[r]
    BY <2>3, <2>7, <2>8 DEF TypeOK
  <2>10. QED
    BY <2>5, <2>9 DEF r
<1>6. QED
  BY <1>1, <1>2, <1>3, <1>4, <1>5, TransactionStep

(* The truth invariant is inductive.                                       *)
LEMMA TruthStep ==
  TypeOK /\ AuthorityInvariant /\ TruthInvariant /\ [Next]_vars => TruthInvariant'
<1> SUFFICES ASSUME TypeOK, AuthorityInvariant, TruthInvariant, [Next]_vars
             PROVE  TruthInvariant'
  OBVIOUS
<1> USE DEF TruthInvariant
<1>1. ClaimsAreExclusive'
  BY ExclusiveStep
<1>2. ClaimedJobsAreLive'
  BY ClaimedLiveStep
<1>3. ActivationHasOneJob'
  BY OneActivationStep
<1>4. EndingFollowsActivation'
  BY EndingFollowsStep
<1>5. VerifiedEndingShuts'
  BY VerifiedEndingStep
<1>6. EndedGrantsAreShut'
  <2> SUFFICES ASSUME NEW r \in Requests, grant'[r] \in {"revoked", "expired"}
               PROVE  ~access'[r] /\ ActivationOver(r)'
    BY DEF EndedGrantsAreShut
  <2>1. ~access[r] /\ ActivationOver(r)
    <3>1. CASE grant'[r] = grant[r]
      BY <3>1 DEF EndedGrantsAreShut
    <3>2. CASE grant'[r] # grant[r]
      <4>1. PICK w \in Workers : /\ worker[w] # NoTransaction
                                 /\ InPhase(w, "called", EndingJobs)
                                 /\ worker[w].job.req = r
                                 /\ worker[w].outcome = "verified"
        BY <3>2, GrantEnds
      <4>2. worker[w].job \in DOMAIN outbox /\ worker[w].job.type \in EndingJobs
        BY <4>1 DEF AuthorityInvariant, TransactionsHoldJobs, InPhase
      <4>3. QED
        BY <4>1, <4>2 DEF VerifiedEndingShuts, EndingFollowsActivation
    <3>3. QED
      BY <3>1, <3>2
  <2>2. QED
    BY <2>1, ShutStaysShut, ActivationStaysOver
<1>7. QED
  BY <1>1, <1>2, <1>3, <1>4, <1>5, <1>6

(* A request has one activation, which is over before anything can end its *)
(* grant, and no two workers hold one job (claim_jobs, enqueue_job, the    *)
(* worker's processing functions).                                         *)
THEOREM TruthIsInvariant == Spec => []TruthInvariant
<1>1. Init => TruthInvariant
  BY DEF Init, TruthInvariant, ClaimsAreExclusive, ClaimedJobsAreLive, ActivationHasOneJob,
         EndingFollowsActivation, VerifiedEndingShuts, EndedGrantsAreShut, InPhase,
         NoTransaction
<1>2. QED
  BY <1>1, TypeCorrect, AuthorityIsInvariant, TruthStep, PTL DEF Spec

(* A grant the database shows as revoked or expired lets nobody in: for    *)
(* any number of workers, with calls that fail or answer nothing, with     *)
(* transactions that die, and with writes PostgreSQL lets overlap.         *)
THEOREM EndedGrantsLetNobodyIn == Spec => []GrantStateTruthful
<1>1. TruthInvariant => GrantStateTruthful
  BY DEF TruthInvariant, EndedGrantsAreShut, GrantStateTruthful
<1>2. QED
  BY <1>1, TruthIsInvariant, PTL
-----------------------------------------------------------------------------
(* What a request handler does to the row: it touches one request, never   *)
(* lowers its version, raises it when the state or the decision changes,   *)
(* and moves it along the review, to a grant, or from active to revoking.  *)
LEMMA HandlerMoves ==
  ASSUME TypeOK, AbsentRowsHaveNoVersion, NEW r \in Requests, Handlers(r)
  PROVE  /\ \A q \in Requests \ {r} :
              state'[q] = state[q] /\ version'[q] = version[q] /\ decision'[q] = decision[q]
         /\ version'[r] >= version[r]
         /\ <<state[r], decision[r]>> # <<state'[r], decision'[r]>> => version'[r] > version[r]
         /\ version'[r] # version[r] /\ state'[r] = state[r] => 
              state[r] \in ReviewState \ {"AI_REVIEW_PENDING"}
         /\ \/ state'[r] = state[r]
            \/ state[r] = "NONE" /\ state'[r] = "PAUSED"
            \/ /\ state[r] \in ReviewState
               /\ state'[r] \in (ReviewState \ {"AI_REVIEW_PENDING"}) \cup {"DENIED", "APPROVED"}
            \/ state[r] \in ReviewState /\ state'[r] = "AI_REVIEW_PENDING" /\ RequestAIReview(r)
            \/ /\ state[r] \in ReviewState
               /\ state'[r] = "ENFORCING"
               /\ grant[r] = "none"
               /\ outbox' = EnqueuedNow(outbox, EnforcementJob(r))
            \/ state[r] = "ACTIVE" /\ state'[r] = "REVOKING" /\ Revoke(r)
<1> DEFINE Goal ==
         /\ \A q \in Requests \ {r} :
              state'[q] = state[q] /\ version'[q] = version[q] /\ decision'[q] = decision[q]
         /\ version'[r] >= version[r]
         /\ <<state[r], decision[r]>> # <<state'[r], decision'[r]>> => version'[r] > version[r]
         /\ version'[r] # version[r] /\ state'[r] = state[r] => 
              state[r] \in ReviewState \ {"AI_REVIEW_PENDING"}
         /\ \/ state'[r] = state[r]
            \/ state[r] = "NONE" /\ state'[r] = "PAUSED"
            \/ /\ state[r] \in ReviewState
               /\ state'[r] \in (ReviewState \ {"AI_REVIEW_PENDING"}) \cup {"DENIED", "APPROVED"}
            \/ state[r] \in ReviewState /\ state'[r] = "AI_REVIEW_PENDING" /\ RequestAIReview(r)
            \/ /\ state[r] \in ReviewState
               /\ state'[r] = "ENFORCING"
               /\ grant[r] = "none"
               /\ outbox' = EnqueuedNow(outbox, EnforcementJob(r))
            \/ state[r] = "ACTIVE" /\ state'[r] = "REVOKING" /\ Revoke(r)
<1> USE DEF TypeOK, ReviewState
<1>1. CASE CreateRequest(r)
  BY <1>1 DEF CreateRequest, AbsentRowsHaveNoVersion
<1>2. ASSUME NEW item \in EvidenceCatalog, AddEvidence(r, item) PROVE Goal
  BY <1>2 DEF AddEvidence, Transition
<1>3. ASSUME NEW isAdmin \in BOOLEAN, EvaluateRequest(r, isAdmin) PROVE Goal
  BY <1>3 DEF EvaluateRequest
<1>4. CASE RequestAIReview(r)
  BY <1>4 DEF RequestAIReview, Transition
<1>5. CASE RequestMoreContext(r)
  BY <1>5 DEF RequestMoreContext, Transition
<1>6. ASSUME NEW p \in Principals, Deny(p, r) PROVE Goal
  BY <1>6 DEF Deny, MayDecide, ApprovalStarts
<1>7. ASSUME NEW p \in Principals, ApproveInPart(p, r) PROVE Goal
  BY <1>7 DEF ApproveInPart, MayDecide, ApprovalStarts
<1>8. ASSUME NEW p \in Principals, ApproveInFull(p, r) PROVE Goal
  BY <1>8 DEF ApproveInFull, MayDecide, ApprovalStarts
<1>9. CASE Revoke(r)
  BY <1>9 DEF Revoke, Transition
<1>10. QED
  BY <1>1, <1>2, <1>3, <1>4, <1>5, <1>6, <1>7, <1>8, <1>9 DEF Handlers

(* Where no transactions overlap, a handler finds none open.               *)
LEMMA HandlersAreAlone ==
  ASSUME Isolation = "serial", NEW r \in Requests, Handlers(r)
  PROVE  /\ UNCHANGED <<worker, monitor, access>>
         /\ \A w \in Workers : worker[w] = NoTransaction
         /\ \A q \in Requests : monitor[q] = 0
<1>1. UNCHANGED <<worker, monitor, access>>
  BY DEF Handlers, CreateRequest, AddEvidence, EvaluateRequest, RequestAIReview,
         RequestMoreContext, Deny, ApproveInPart, ApproveInFull, Revoke
<1>2. Exclusive
  BY DEF Handlers, CreateRequest, AddEvidence, EvaluateRequest, RequestAIReview,
         RequestMoreContext, Deny, ApproveInPart, ApproveInFull, MayDecide, Revoke
<1>3. QED
  BY <1>1, <1>2 DEF Exclusive

(* A transaction that closes was open, and nothing but it changes.         *)
LEMMA FinishIsDismissal ==
  ASSUME NEW w \in Workers,
         FinishReview(w) \/ FinishEnforcement(w) \/ SkipRevoke(w) \/ FinishRevoke(w) \/ WorkerDies(w)
  PROVE  /\ worker[w] # NoTransaction
         /\ Dismissed(w)
         /\ UNCHANGED <<monitor, access, decision>>
BY DEF FinishReview, FinishEnforcement, SkipRevoke, FinishRevoke, WorkerDies, InPhase,
       NoTransaction, row

(* What an open transaction holds: a job of the outbox that can run, and a *)
(* snapshot that is the current row.                                       *)
LEMMA OpenTransaction ==
  ASSUME TypeOK, AuthorityInvariant, TruthInvariant, SerialInvariant,
         NEW w \in Workers, worker[w] # NoTransaction
  PROVE  /\ worker[w] \in Transaction
         /\ worker[w].job \in DOMAIN outbox
         /\ worker[w].job \in JobKey
         /\ worker[w].job.req \in Requests
         /\ Live(worker[w].job)
         /\ worker[w].state = state[worker[w].job.req]
         /\ worker[w].version = version[worker[w].job.req]
         /\ \A v \in Workers \ {w} : worker[v] = NoTransaction
         /\ \A r \in Requests : monitor[r] = 0
BY DEF TypeOK, Transaction, JobKey, TruthInvariant, ClaimedJobsAreLive, Live,
       SerialInvariant, SnapshotsAreCurrent, OneTransactionAtATime

(* A review moves a request that waits for it, and no other.               *)
LEMMA ReviewMoves ==
  ASSUME TypeOK, AuthorityInvariant, TruthInvariant, SerialInvariant,
         NEW w \in Workers, FinishReview(w), NEW r, r = worker[w].job.req
  PROVE  \/ UNCHANGED <<state, version>> /\ JobRaised(w)
              /\ (ReviewProvider = "disabled" => state[r] # "AI_REVIEW_PENDING")
         \/ /\ state[r] = "AI_REVIEW_PENDING"
            /\ JobDone(w)
            /\ version' = [version EXCEPT ![r] = version[r] + 2]
            /\ \E s \in {"MORE_CONTEXT_REQUIRED", "AWAITING_APPROVAL"} :
                 state' = [state EXCEPT ![r] = s]
<1>1. worker[w] # NoTransaction
  BY FinishIsDismissal
<1>2. state[r] \in State /\ worker[w].state = state[r] /\ worker[w].version = version[r]
  BY <1>1, OpenTransaction DEF TypeOK
<1>3. MayMove(w, "AI_REVIEWED") <=> state[r] = "AI_REVIEW_PENDING"
  BY <1>2 DEF MayMove, ALLOWED_TRANSITIONS, State, ReviewState, TerminalState
<1>4. QED
  BY <1>2, <1>3 DEF FinishReview, ReviewOutcomes, Overwrite, JobRaised

(* An activation finds its request enforcing, and makes it active only     *)
(* with the access open.                                                   *)
LEMMA EnforcementMoves ==
  ASSUME TypeOK, AuthorityInvariant, TruthInvariant, SerialInvariant,
         NEW w \in Workers, FinishEnforcement(w), NEW r, r = worker[w].job.req
  PROVE  /\ worker[w].job = EnforcementJob(r)
         /\ state[r] = "ENFORCING"
         /\ worker[w].outcome \in ActivateOutcomes
         /\ \/ /\ access[r]
               /\ state' = [state EXCEPT ![r] = "ACTIVE"]
               /\ version' = [version EXCEPT ![r] = version[r] + 1]
               /\ outbox' = EnqueuedLater(Completed(outbox, worker[w].job), ExpiryJob(r))
            \/ /\ worker[w].outcome # "verified"
               /\ state' = [state EXCEPT ![r] = "ENFORCEMENT_FAILED"]
               /\ version' = [version EXCEPT ![r] = version[r] + 1]
               /\ JobDone(w)
            \/ /\ worker[w].outcome # "verified"
               /\ UNCHANGED <<state, version>>
               /\ JobRaised(w)
<1>1. worker[w] # NoTransaction /\ worker[w].job.type = "ENFORCEMENT"
  BY FinishIsDismissal DEF FinishEnforcement, InPhase
<1>2. /\ Live(worker[w].job)
      /\ worker[w].job \in DOMAIN outbox
      /\ r \in Requests
      /\ worker[w].state = state[r]
      /\ worker[w].version = version[r]
  BY <1>1, OpenTransaction
<1>3. worker[w].job = EnforcementJob(r)
  BY <1>1, <1>2 DEF TruthInvariant, ActivationHasOneJob
<1>4. state[r] = "ENFORCING"
  BY <1>2, <1>3 DEF SerialInvariant, ActivationMatchesState
<1>5. MayMove(w, "ACTIVE") /\ MayMove(w, "ENFORCEMENT_FAILED")
  BY <1>2, <1>4 DEF MayMove, ALLOWED_TRANSITIONS
<1>6. /\ worker[w].outcome \in ActivateOutcomes
      /\ worker[w].outcome = "verified" => access[r]
  BY DEF FinishEnforcement, SerialInvariant, VerifiedActivationOpens
<1>7. QED
  BY <1>2, <1>3, <1>4, <1>5, <1>6 DEF FinishEnforcement, Overwrite, JobRaised

(* A revocation or expiry closes a request only with the access shut.      *)
LEMMA RevokeMoves ==
  ASSUME TypeOK, AuthorityInvariant, TruthInvariant, SerialInvariant,
         NEW w \in Workers, FinishRevoke(w), NEW r, r = worker[w].job.req
  PROVE  /\ worker[w].job.type \in EndingJobs
         /\ worker[w].outcome \in RevokeOutcomes
         /\ \/ /\ state[r] = "ACTIVE"
               /\ ~access[r]
               /\ state' = [state EXCEPT ![r] = "EXPIRED"]
               /\ version' = [version EXCEPT ![r] = version[r] + 1]
               /\ JobDone(w)
            \/ /\ state[r] = "REVOKING"
               /\ ~access[r]
               /\ state' = [state EXCEPT ![r] = "REVOKED"]
               /\ version' = [version EXCEPT ![r] = version[r] + 1]
               /\ JobDone(w)
            \/ /\ worker[w].outcome = "unverified"
               /\ state[r] \in {"ACTIVE", "REVOKING", "ENFORCEMENT_FAILED"}
               /\ state' = [state EXCEPT ![r] = "ENFORCEMENT_FAILED"]
               /\ \E n \in {1, 2} : version' = [version EXCEPT ![r] = version[r] + n]
               /\ JobDone(w)
            \/ /\ UNCHANGED <<state, version>>
               /\ JobRaised(w)
               /\ worker[w].outcome = "verified" =>
                    /\ worker[w].job.type = "EXPIRY" => state[r] # "ACTIVE"
                    /\ worker[w].job.type = "REVOCATION" => state[r] # "REVOKING"
<1>1. worker[w] # NoTransaction /\ InPhase(w, "called", EndingJobs)
  BY FinishIsDismissal DEF FinishRevoke, InPhase, EndingJobs
<1>2. /\ worker[w].job \in DOMAIN outbox
      /\ r \in Requests
      /\ worker[w].state = state[r]
      /\ worker[w].version = version[r]
  BY <1>1, OpenTransaction
<1>3. ActivationOver(r) /\ worker[w].job.type \in EndingJobs
  BY <1>1, <1>2 DEF TruthInvariant, EndingFollowsActivation, InPhase
<1>4. state[r] \in {"ACTIVE", "REVOKING", "ENFORCEMENT_FAILED", "REVOKED", "EXPIRED"}
  BY <1>2, <1>3 DEF SerialInvariant, ActivationMatchesState
<1>5. /\ worker[w].outcome \in {"verified", "unverified", "raised"}
      /\ worker[w].outcome \in RevokeOutcomes
      /\ worker[w].outcome = "verified" => ~access[r]
  BY <1>1 DEF TruthInvariant, VerifiedEndingShuts, RevokeOutcomes
<1>6. /\ MayMove(w, "EXPIRED") <=> state[r] = "ACTIVE"
      /\ MayMove(w, "REVOKED") <=> state[r] = "REVOKING"
      /\ MayMove(w, "REVOKING") <=> state[r] \in {"ACTIVE", "ENFORCEMENT_FAILED"}
  BY <1>2, <1>4 DEF MayMove, ALLOWED_TRANSITIONS
<1>7. CASE worker[w].outcome = "verified"
  BY <1>2, <1>3, <1>5, <1>6, <1>7 DEF FinishRevoke, Overwrite, JobRaised, EndingJobs
<1>8. CASE worker[w].outcome = "unverified"
  BY <1>2, <1>3, <1>4, <1>5, <1>6, <1>8 DEF FinishRevoke, Overwrite, JobRaised
<1>9. CASE worker[w].outcome = "raised"
  BY <1>3, <1>5, <1>9 DEF FinishRevoke, JobRaised
<1>10. QED
  BY <1>5, <1>7, <1>8, <1>9

(* The monitor revokes a request that is still active.                     *)
LEMMA MonitorMoves ==
  ASSUME TypeOK, SerialInvariant, NEW r \in Requests, MonitorRevokes(r)
  PROVE  /\ state[r] = "ACTIVE"
         /\ state' = [state EXCEPT ![r] = "REVOKING"]
         /\ version' = [version EXCEPT ![r] = version[r] + 1]
         /\ outbox' = EnqueuedNow(outbox, RevocationJob(r, version[r] + 1))
         /\ \A w \in Workers : worker[w] = NoTransaction
         /\ \A q \in Requests : monitor'[q] = 0
BY DEF MonitorRevokes, SerialInvariant, SnapshotsAreCurrent, OneTransactionAtATime, TypeOK

(* Transactions that exclude each other stay so, and their snapshots true. *)
LEMMA SnapshotStep ==
  ASSUME Isolation = "serial", TypeOK, AuthorityInvariant, TruthInvariant, SerialInvariant,
         [Next]_vars
  PROVE  OneTransactionAtATime' /\ SnapshotsAreCurrent'
<1> DEFINE Goal == OneTransactionAtATime' /\ SnapshotsAreCurrent'
           Idle == \A w \in Workers : worker'[w] = NoTransaction
           Unwatched == \A r \in Requests : monitor'[r] = 0
<1> USE DEF NoTransaction
<1>1. Idle /\ Unwatched => Goal
  BY DEF OneTransactionAtATime, SnapshotsAreCurrent
<1>2. UNCHANGED <<state, version, worker, monitor>> => Goal
  BY DEF SerialInvariant, OneTransactionAtATime, SnapshotsAreCurrent
<1>3. ASSUME NEW r \in Requests, Handlers(r) PROVE Goal
  <2>1. Idle /\ Unwatched
    BY <1>3, HandlersAreAlone
  <2>2. QED
    BY <1>1, <2>1
<1>4. ASSUME NEW r \in Requests, MonitorLoads(r) PROVE Goal
  <2>1. Idle
    BY <1>4 DEF MonitorLoads, Exclusive
  <2>2. \A q \in Requests : monitor[q] = 0
    BY <1>4 DEF MonitorLoads, Exclusive
  <2>3. /\ UNCHANGED <<state, version>>
        /\ monitor' = [monitor EXCEPT ![r] = version[r]]
        /\ state[r] = "ACTIVE"
    BY <1>4 DEF MonitorLoads, row
  <2>4. QED
    BY <2>1, <2>2, <2>3 DEF OneTransactionAtATime, SnapshotsAreCurrent, TypeOK
<1>5. ASSUME NEW r \in Requests, MonitorRevokes(r) \/ MonitorDies(r) PROVE Goal
  <2>1. UNCHANGED worker /\ monitor[r] # 0 /\ monitor' = [monitor EXCEPT ![r] = 0]
    BY <1>5 DEF MonitorRevokes, MonitorDies
  <2>2. Idle
    BY <2>1 DEF SerialInvariant, OneTransactionAtATime
  <2>3. Unwatched
    BY <2>1 DEF SerialInvariant, OneTransactionAtATime, TypeOK
  <2>4. QED
    BY <1>1, <2>2, <2>3
<1>6. ASSUME NEW r \in Requests, TtlElapses(r) \/ \E risk \in Risk : RiskChanges(r, risk)
      PROVE  Goal
  BY <1>2, <1>6 DEF TtlElapses, RiskChanges, row
<1>7. ASSUME NEW w \in Workers, NEW k \in DOMAIN outbox, ClaimJob(w, k) PROVE Goal
  <2>1. \A v \in Workers : worker[v] = NoTransaction
    BY <1>7 DEF ClaimJob, Exclusive
  <2>2. Unwatched
    BY <1>7 DEF ClaimJob, Exclusive
  <2>3. /\ \A v \in Workers \ {w} : worker'[v] = NoTransaction
        /\ worker'[w].job = k
        /\ worker'[w].state = state'[k.req]
        /\ worker'[w].version = version'[k.req]
    BY <1>7, <2>1 DEF ClaimJob, TypeOK, row
  <2>4. QED
    BY <2>2, <2>3 DEF OneTransactionAtATime, SnapshotsAreCurrent
<1>8. ASSUME NEW w \in Workers, CallActivate(w) \/ CallRevoke(w) PROVE Goal
  <2>1. PICK o : worker' = [worker EXCEPT ![w] =
                              [worker[w] EXCEPT !.phase = "called", !.outcome = o]]
    BY <1>8 DEF CallActivate, CallRevoke, CallProvider
  <2>2. UNCHANGED <<state, version, monitor>>
    BY <1>8 DEF CallActivate, CallRevoke, CallProvider, row
  <2>3. worker[w] # NoTransaction
    BY <1>8, CallKeepsJob
  <2>4. worker[w] \in Transaction
    BY <2>3 DEF TypeOK
  <2>5. /\ \A v \in Workers \ {w} : worker'[v] = worker[v]
        /\ worker'[w].job = worker[w].job
        /\ worker'[w].state = worker[w].state
        /\ worker'[w].version = worker[w].version
    BY <2>1, <2>4 DEF TypeOK, Transaction
  <2>6. QED
    BY <2>2, <2>3, <2>5 DEF SerialInvariant, OneTransactionAtATime, SnapshotsAreCurrent
<1>9. ASSUME NEW w \in Workers,
             FinishReview(w) \/ FinishEnforcement(w) \/ SkipRevoke(w) \/ FinishRevoke(w)
               \/ WorkerDies(w)
      PROVE  Goal
  <2>1. worker[w] # NoTransaction /\ Dismissed(w) /\ UNCHANGED monitor
    BY <1>9, FinishIsDismissal
  <2>2. /\ \A v \in Workers \ {w} : worker[v] = NoTransaction
        /\ \A r \in Requests : monitor[r] = 0
    BY <2>1, OpenTransaction
  <2>3. Idle /\ Unwatched
    BY <2>1, <2>2 DEF Dismissed, TypeOK
  <2>4. QED
    BY <1>1, <2>3
<1>10. ASSUME NEW w \in Workers, WorkerStep(w) \/ WorkerDies(w) PROVE Goal
  BY <1>7, <1>8, <1>9, <1>10 DEF WorkerStep
<1> HIDE DEF Goal
<1>11. Goal
  BY <1>2, <1>3, <1>4, <1>5, <1>6, <1>10 DEF Next, vars, row
<1>12. QED
  BY <1>11 DEF Goal

(* How the workflow state of a request can change, where transactions do   *)
(* not overlap.                                                            *)
LEMMA SerialMoves ==
  ASSUME Isolation = "serial", TypeOK, AuthorityInvariant, TruthInvariant, SerialInvariant,
         [Next]_vars, NEW r \in Requests, state'[r] # state[r]
  PROVE  \/ Handlers(r)
         \/ MonitorRevokes(r)
         \/ \E w \in Workers : /\ FinishReview(w) \/ FinishEnforcement(w) \/ FinishRevoke(w)
                               /\ worker[w].job.req = r
<1>1. ASSUME NEW q \in Requests, Handlers(q) PROVE q = r
  BY <1>1, HandlerMoves DEF SerialInvariant
<1>2. ASSUME NEW q \in Requests, MonitorRevokes(q) PROVE q = r
  BY <1>2 DEF MonitorRevokes, TypeOK
<1>3. ASSUME NEW q \in Requests,
             \/ MonitorLoads(q) \/ MonitorDies(q) \/ TtlElapses(q)
             \/ \E risk \in Risk : RiskChanges(q, risk)
      PROVE  FALSE
  BY <1>3 DEF MonitorLoads, MonitorDies, TtlElapses, RiskChanges, row
<1>4. ASSUME NEW w \in Workers, WorkerStep(w) \/ WorkerDies(w)
      PROVE  FinishReview(w) \/ FinishEnforcement(w) \/ FinishRevoke(w)
  BY <1>4 DEF WorkerStep, ClaimJob, CallActivate, CallRevoke, CallProvider, SkipRevoke,
              WorkerDies, row
<1>5. ASSUME NEW w \in Workers, FinishReview(w) \/ FinishEnforcement(w) \/ FinishRevoke(w)
      PROVE  worker[w].job.req = r
  BY <1>5 DEF FinishReview, FinishEnforcement, FinishRevoke, Overwrite, JobRaised, TypeOK
<1>6. QED
  BY <1>1, <1>2, <1>3, <1>4, <1>5 DEF Next, vars, row

(* A job that can run after a step could run before it, or is new; and one *)
(* that completes in a step was held by a worker that finished it.         *)
LEMMA LiveBefore ==
  ASSUME TypeOK, AuthorityInvariant, TruthInvariant, [Next]_vars, NEW k \in DOMAIN outbox,
         Live(k)'
  PROVE  Live(k)
<1>1. CASE outbox'[k].status = outbox[k].status
  BY <1>1 DEF Live
<1>2. ASSUME NEW w \in Workers, worker[w] # NoTransaction, worker[w].job = k PROVE Live(k)
  BY <1>2 DEF TruthInvariant, ClaimedJobsAreLive
<1>3. QED
  BY <1>1, <1>2, StatusStep

LEMMA DoneIsCompleted ==
  ASSUME TypeOK, AuthorityInvariant, NEW w \in Workers, worker[w] # NoTransaction, JobDone(w)
  PROVE  /\ worker[w].job \in DOMAIN outbox'
         /\ outbox'[worker[w].job].status = "completed"
<1>1. worker[w].job \in DOMAIN outbox
  BY DEF AuthorityInvariant, TransactionsHoldJobs
<1>2. QED
  BY <1>1, SettledRows DEF JobDone, TypeOK

LEMMA RaisedIsNotCompleted ==
  ASSUME TypeOK, AuthorityInvariant, NEW w \in Workers, worker[w] # NoTransaction, JobRaised(w)
  PROVE  outbox'[worker[w].job].status \in {"retry", "failed"}
<1>1. worker[w].job \in DOMAIN outbox
  BY DEF AuthorityInvariant, TransactionsHoldJobs
<1>2. QED
  BY <1>1 DEF JobRaised, Retried, Settled, TypeOK, OutboxTyped

(* A job that can run stays so unless its holder finishes it.              *)
LEMMA LiveUnlessFinished ==
  ASSUME Isolation = "serial", TypeOK, AuthorityInvariant, TruthInvariant, SerialInvariant,
         [Next]_vars, NEW k \in DOMAIN outbox, Live(k), ~Live(k)'
  PROVE  \E w \in Workers : /\ worker[w].job = k
                            /\ \/ FinishReview(w) \/ FinishEnforcement(w)
                               \/ SkipRevoke(w) \/ FinishRevoke(w)
<1>1. k \in DOMAIN outbox' /\ outbox'[k].status # outbox[k].status
  BY StatusStep DEF Live
<1>2. PICK w \in Workers : worker[w] # NoTransaction /\ worker[w].job = k /\ Dismissed(w)
  BY <1>1, StatusStep
<1>3. worker' # worker /\ outbox' # outbox
  BY <1>1, <1>2 DEF Dismissed, TypeOK
<1>4. ASSUME NEW q \in Requests, Handlers(q) PROVE FALSE
  BY <1>2, <1>4, HandlersAreAlone
<1>5. ASSUME NEW q \in Requests,
             \/ MonitorLoads(q) \/ MonitorRevokes(q) \/ MonitorDies(q) \/ TtlElapses(q)
             \/ \E risk \in Risk : RiskChanges(q, risk)
      PROVE  FALSE
  BY <1>3, <1>5 DEF MonitorLoads, MonitorRevokes, MonitorDies, TtlElapses, RiskChanges
<1>6. ASSUME NEW v \in Workers, WorkerStep(v) \/ WorkerDies(v)
      PROVE  FinishReview(v) \/ FinishEnforcement(v) \/ SkipRevoke(v) \/ FinishRevoke(v)
  BY <1>3, <1>6 DEF WorkerStep, ClaimJob, CallActivate, CallRevoke, CallProvider, WorkerDies
<1>7. PICK v \in Workers : FinishReview(v) \/ FinishEnforcement(v) \/ SkipRevoke(v) \/ FinishRevoke(v)
  BY <1>3, <1>4, <1>5, <1>6 DEF Next, vars
<1>8. v = w
  BY <1>2, <1>7, FinishIsDismissal, OpenTransaction
<1>9. QED
  BY <1>2, <1>7, <1>8

(* The activation job can run only while the request is being enforced,    *)
(* and once it is over the request is past that.                           *)
LEMMA ActivationStateStep ==
  ASSUME Isolation = "serial", TypeOK, AuthorityInvariant, TruthInvariant, SerialInvariant,
         [Next]_vars
  PROVE  ActivationMatchesState'
<1> SUFFICES ASSUME NEW r \in Requests
             PROVE  /\ Live(EnforcementJob(r))' => state'[r] = "ENFORCING"
                    /\ ActivationOver(r)' =>
                         state'[r] \in {"ACTIVE", "REVOKING", "ENFORCEMENT_FAILED",
                                        "REVOKED", "EXPIRED"}
  BY DEF ActivationMatchesState, ActivationOver
<1> DEFINE k == EnforcementJob(r)
           Past == {"ACTIVE", "REVOKING", "ENFORCEMENT_FAILED", "REVOKED", "EXPIRED"}
<1>k. k.type = "ENFORCEMENT" /\ k.req = r
  BY DEF EnforcementJob
<1>1. ASSUME NEW w \in Workers, FinishEnforcement(w), worker[w].job = k
      PROVE  \/ ActivationOver(r)' /\ state'[r] \in Past
             \/ UNCHANGED state /\ k \in DOMAIN outbox' /\ outbox'[k].status # "completed"
  <2>1. worker[w] # NoTransaction /\ worker[w].job.req = r /\ k \in DOMAIN outbox
    BY <1>1, <1>k, FinishIsDismissal DEF AuthorityInvariant, TransactionsHoldJobs
  <2>2. CASE outbox' = EnqueuedLater(Completed(outbox, worker[w].job), ExpiryJob(r))
    <3>1. ActivationOver(r)'
      BY <1>1, <2>1, <2>2, ActivationEnds DEF TruthInvariant
    <3>2. ~JobRaised(w)
      BY <2>1, <3>1, RaisedIsNotCompleted, <1>1 DEF ActivationOver, EnforcementJob
    <3>3. QED
      BY <1>1, <2>1, <3>1, <3>2, EnforcementMoves DEF TypeOK
  <2>3. CASE JobDone(w) /\ state' = [state EXCEPT ![r] = "ENFORCEMENT_FAILED"]
    BY <1>1, <2>1, <2>3, DoneIsCompleted DEF ActivationOver, EnforcementJob, TypeOK
  <2>4. CASE JobRaised(w) /\ UNCHANGED state
    BY <1>1, <2>1, <2>4, RaisedIsNotCompleted, StatusStep
  <2>5. QED
    BY <1>1, <2>1, <2>2, <2>3, <2>4, EnforcementMoves
<1>2. ASSUME Live(k)' PROVE state'[r] = "ENFORCING"
  <2>1. CASE k \in DOMAIN outbox
    <3>1. state[r] = "ENFORCING"
      BY <1>2, <2>1, LiveBefore DEF SerialInvariant, ActivationMatchesState
    <3>2. ~Handlers(r) \/ state'[r] = state[r]
      BY <3>1, HandlerMoves DEF SerialInvariant, ReviewState
    <3>3. ~MonitorRevokes(r)
      BY <3>1, MonitorMoves
    <3>4. ASSUME NEW w \in Workers, FinishReview(w), worker[w].job.req = r
          PROVE  state'[r] = state[r]
      BY <3>1, <3>4, ReviewMoves
    <3>5. ASSUME NEW w \in Workers, FinishRevoke(w), worker[w].job.req = r
          PROVE  state'[r] = state[r]
      BY <3>1, <3>5, RevokeMoves
    <3>6. ASSUME NEW w \in Workers, FinishEnforcement(w), worker[w].job.req = r
          PROVE  state'[r] = state[r]
      <4>1. worker[w].job = k
        BY <3>6, EnforcementMoves
      <4>2. ~ActivationOver(r)'
        BY <1>2 DEF Live, ActivationOver, EnforcementJob
      <4>3. QED
        BY <3>6, <4>1, <4>2, <1>1
    <3>7. QED
      BY <3>1, <3>2, <3>3, <3>4, <3>5, <3>6, SerialMoves
  <2>2. CASE k \notin DOMAIN outbox
    <3>1. k \in DOMAIN outbox'
      BY <1>2 DEF Live
    <3>2. PICK p \in Principals : ApproveInFull(p, r)
      BY <1>k, <2>2, <3>1, NewJobStep DEF AIReviewJob, RevocationJob, ExpiryJob
    <3>3. outbox' # outbox
      BY <2>2, <3>1
    <3>4. QED
      BY <3>2, <3>3 DEF ApproveInFull, TypeOK
  <2>3. QED
    BY <2>1, <2>2
<1>3. ASSUME ActivationOver(r)' PROVE state'[r] \in Past
  <2>1. k \in DOMAIN outbox' /\ outbox'[k].status = "completed"
    BY <1>3 DEF ActivationOver, EnforcementJob
  <2>2. k \in DOMAIN outbox
    BY <2>1, NewJobStep
  <2>3. CASE ActivationOver(r)
    <3>1. state[r] \in Past
      BY <2>3 DEF SerialInvariant, ActivationMatchesState
    <3>2. Handlers(r) => state'[r] \in Past
      BY <3>1, HandlerMoves DEF SerialInvariant, ReviewState
    <3>3. MonitorRevokes(r) => state'[r] \in Past
      BY MonitorMoves DEF TypeOK
    <3>4. ASSUME NEW w \in Workers, FinishReview(w), worker[w].job.req = r
          PROVE  state'[r] \in Past
      BY <3>1, <3>4, ReviewMoves
    <3>5. ASSUME NEW w \in Workers, FinishRevoke(w), worker[w].job.req = r
          PROVE  state'[r] \in Past
      BY <3>1, <3>5, RevokeMoves DEF TypeOK
    <3>6. ASSUME NEW w \in Workers, FinishEnforcement(w), worker[w].job.req = r
          PROVE  state'[r] \in Past
      BY <3>1, <3>6, EnforcementMoves
    <3>7. QED
      BY <3>1, <3>2, <3>3, <3>4, <3>5, <3>6, SerialMoves
  <2>4. CASE ~ActivationOver(r)
    <3>1. outbox[k].status # "completed"
      BY <2>2, <2>4 DEF ActivationOver
    <3>2. Live(k) /\ ~Live(k)'
      <4>1. PICK w \in Workers : worker[w] # NoTransaction /\ worker[w].job = k
        BY <2>1, <2>2, <3>1, StatusStep
      <4>2. QED
        BY <2>1, <4>1 DEF TruthInvariant, ClaimedJobsAreLive, Live, EnforcementJob
    <3>3. PICK w \in Workers : /\ worker[w].job = k
                              /\ \/ FinishReview(w) \/ FinishEnforcement(w)
                                 \/ SkipRevoke(w) \/ FinishRevoke(w)
      BY <2>2, <3>2, LiveUnlessFinished
    <3>4. FinishEnforcement(w)
      BY <1>k, <3>3 DEF FinishReview, SkipRevoke, FinishRevoke, InPhase
    <3>5. QED
      BY <1>1, <2>1, <3>3, <3>4
  <2>5. QED
    BY <2>3, <2>4
<1>4. QED
  BY <1>2, <1>3

(* An activation the provider verified has opened the access.              *)
LEMMA VerifiedActivationStep ==
  ASSUME Isolation = "serial", TypeOK, AuthorityInvariant, TruthInvariant, SerialInvariant,
         [Next]_vars
  PROVE  VerifiedActivationOpens'
<1> SUFFICES ASSUME NEW v \in Workers, worker'[v].phase = "called",
                    worker'[v].job.type = "ENFORCEMENT"
             PROVE  /\ worker'[v].outcome \in ActivateOutcomes
                    /\ worker'[v].outcome = "verified" => access'[worker'[v].job.req]
  BY DEF VerifiedActivationOpens, InPhase, ActivateOutcomes
<1> DEFINE r == worker[v].job.req
<1>0. worker'[v] # NoTransaction
  BY DEF NoTransaction
<1>1. ASSUME NEW w \in Workers, CallActivate(w)
      PROVE  /\ worker'[v].outcome \in ActivateOutcomes
             /\ worker'[v].outcome = "verified" => access'[worker'[v].job.req]
  <2>1. worker[w] # NoTransaction /\ worker[w].job.type = "ENFORCEMENT"
    BY <1>1, CallKeepsJob
  <2>2. w = v
    BY <1>0, <1>1, <2>1, CallKeepsJob, OpenTransaction
  <2>3. worker[v] \in Transaction /\ r \in Requests
    BY <2>1, <2>2, OpenTransaction
  <2>4. PICK o \in ActivateOutcomes :
          /\ worker' = [worker EXCEPT ![v] = [worker[v] EXCEPT !.phase = "called", !.outcome = o]]
          /\ \E on \in AccessAfter(worker[v].job.type, o, access[r]) :
               access' = [access EXCEPT ![r] = on]
    BY <1>1, <2>2 DEF CallActivate, CallProvider
  <2>5. worker'[v].outcome = o /\ worker'[v].job.req = r
    BY <2>3, <2>4 DEF TypeOK, Transaction
  <2>6. o = "verified" => AccessAfter(worker[v].job.type, o, access[r]) = {TRUE}
    BY <2>1, <2>2 DEF AccessAfter
  <2>7. o = "verified" => access' = [access EXCEPT ![r] = TRUE]
    BY <2>4, <2>6
  <2> HIDE DEF r
  <2>8. o = "verified" => access'[r]
    BY <2>3, <2>7 DEF TypeOK
  <2>9. QED
    BY <2>4, <2>5, <2>8
<1>2. ASSUME NEW w \in Workers, CallRevoke(w) PROVE FALSE
  <2>1. worker[w] # NoTransaction /\ worker'[w].job.type \in EndingJobs
    BY <1>2, CallKeepsJob
  <2>2. w = v
    BY <1>0, <1>2, <2>1, CallKeepsJob, OpenTransaction
  <2>3. QED
    BY <2>1, <2>2 DEF EndingJobs
<1>3. ASSUME worker'[v] = worker[v], UNCHANGED access
      PROVE  /\ worker'[v].outcome \in ActivateOutcomes
             /\ worker'[v].outcome = "verified" => access'[worker'[v].job.req]
  BY <1>3 DEF SerialInvariant, VerifiedActivationOpens, InPhase
<1>4. ASSUME NEW q \in Requests, Handlers(q) PROVE worker'[v] = worker[v] /\ UNCHANGED access
  BY <1>4, HandlersAreAlone
<1>5. ASSUME NEW q \in Requests,
             \/ MonitorLoads(q) \/ MonitorRevokes(q) \/ MonitorDies(q) \/ TtlElapses(q)
             \/ \E risk \in Risk : RiskChanges(q, risk)
      PROVE  worker'[v] = worker[v] /\ UNCHANGED access
  BY <1>5 DEF MonitorLoads, MonitorRevokes, MonitorDies, TtlElapses, RiskChanges
<1>6. ASSUME NEW w \in Workers, NEW k \in DOMAIN outbox, ClaimJob(w, k)
      PROVE  worker'[v] = worker[v] /\ UNCHANGED access
  BY <1>6 DEF ClaimJob, TypeOK
<1>7. ASSUME NEW w \in Workers,
             FinishReview(w) \/ FinishEnforcement(w) \/ SkipRevoke(w) \/ FinishRevoke(w)
               \/ WorkerDies(w)
      PROVE  worker'[v] = worker[v] /\ UNCHANGED access
  BY <1>0, <1>7, FinishIsDismissal DEF Dismissed, TypeOK
<1>8. QED
  BY <1>1, <1>2, <1>3, <1>4, <1>5, <1>6, <1>7 DEF Next, WorkerStep, vars

(* A row that is not there yet has never been versioned.                   *)
LEMMA AbsentRowStep ==
  ASSUME Isolation = "serial", TypeOK, AuthorityInvariant, TruthInvariant, SerialInvariant,
         [Next]_vars
  PROVE  AbsentRowsHaveNoVersion'
<1> SUFFICES ASSUME NEW r \in Requests, state'[r] = "NONE" PROVE version'[r] = 0
  BY DEF AbsentRowsHaveNoVersion
<1>1. ASSUME NEW q \in Requests, Handlers(q) PROVE version'[r] = 0
  BY <1>1, HandlerMoves DEF SerialInvariant, AbsentRowsHaveNoVersion, ReviewState, TypeOK
<1>2. ASSUME NEW q \in Requests, MonitorRevokes(q) PROVE version'[r] = 0
  BY <1>2, MonitorMoves DEF SerialInvariant, AbsentRowsHaveNoVersion, TypeOK
<1>3. ASSUME NEW w \in Workers, FinishReview(w) PROVE version'[r] = 0
  BY <1>3, ReviewMoves DEF SerialInvariant, AbsentRowsHaveNoVersion, TypeOK
<1>4. ASSUME NEW w \in Workers, FinishEnforcement(w) PROVE version'[r] = 0
  BY <1>4, EnforcementMoves DEF SerialInvariant, AbsentRowsHaveNoVersion, TypeOK
<1>5. ASSUME NEW w \in Workers, FinishRevoke(w) PROVE version'[r] = 0
  BY <1>5, RevokeMoves DEF SerialInvariant, AbsentRowsHaveNoVersion, TypeOK
<1>6. ASSUME UNCHANGED <<state, version>> PROVE version'[r] = 0
  BY <1>6 DEF SerialInvariant, AbsentRowsHaveNoVersion
<1>7. ASSUME NEW q \in Requests,
             \/ MonitorLoads(q) \/ MonitorDies(q) \/ TtlElapses(q)
             \/ \E risk \in Risk : RiskChanges(q, risk)
      PROVE  version'[r] = 0
  BY <1>6, <1>7 DEF MonitorLoads, MonitorDies, TtlElapses, RiskChanges, row
<1>8. ASSUME NEW w \in Workers, WorkerStep(w) \/ WorkerDies(w) PROVE version'[r] = 0
  BY <1>3, <1>4, <1>5, <1>6, <1>8
  DEF WorkerStep, ClaimJob, CallActivate, CallRevoke, CallProvider, SkipRevoke, WorkerDies, row
<1>9. QED
  BY <1>1, <1>2, <1>6, <1>7, <1>8 DEF Next, vars, row

(* The serial invariant is inductive where transactions do not overlap.    *)
LEMMA SerialStep ==
  ASSUME Isolation = "serial"
  PROVE  TypeOK /\ AuthorityInvariant /\ TruthInvariant /\ SerialInvariant /\ [Next]_vars
           => SerialInvariant'
BY AbsentRowStep, SnapshotStep, ActivationStateStep, VerifiedActivationStep DEF SerialInvariant

(* Without overlap a transaction's snapshot is the row it overwrites, and  *)
(* the workflow state says how far the grant's one activation has got.     *)
THEOREM SerialIsInvariant ==
  ASSUME Isolation = "serial"
  PROVE  Spec => []SerialInvariant
<1>1. Init => SerialInvariant
  BY DEF Init, SerialInvariant, AbsentRowsHaveNoVersion, OneTransactionAtATime,
         SnapshotsAreCurrent, ActivationMatchesState, VerifiedActivationOpens, Live,
         ActivationOver, InPhase, NoTransaction
<1>2. QED
  BY <1>1, TypeCorrect, AuthorityIsInvariant, TruthIsInvariant, SerialStep, PTL DEF Spec

-----------------------------------------------------------------------------
(* Where transactions do not overlap, the version a reviewer sends back    *)
(* identifies what the reviewer saw: state and decision of a request never *)
(* change without a larger version.                                        *)
THEOREM VersionsIdentifyRows ==
  ASSUME Isolation = "serial"
  PROVE  Spec => VersionIdentifiesRow
<1> DEFINE Inv  == TypeOK /\ AuthorityInvariant /\ TruthInvariant /\ SerialInvariant
           Grows == \A r \in Requests :
                      <<state[r], decision[r]>> # <<state'[r], decision'[r]>>
                        => version'[r] > version[r]
<1>1. Inv /\ [Next]_vars => Grows
  <2> SUFFICES ASSUME Inv, [Next]_vars PROVE Grows
    OBVIOUS
  <2>1. ASSUME NEW q \in Requests, Handlers(q) PROVE Grows
    BY <2>1, HandlerMoves DEF SerialInvariant
  <2>2. ASSUME NEW q \in Requests, MonitorRevokes(q) PROVE Grows
    <3>1. /\ state' = [state EXCEPT ![q] = "REVOKING"]
          /\ version' = [version EXCEPT ![q] = version[q] + 1]
          /\ UNCHANGED decision
      BY <2>2, MonitorMoves DEF MonitorRevokes
    <3>2. QED
      BY <3>1 DEF TypeOK
  <2>3. ASSUME NEW w \in Workers, FinishReview(w) PROVE Grows
    BY <2>3, ReviewMoves DEF FinishReview, TypeOK
  <2>4. ASSUME NEW w \in Workers, FinishEnforcement(w) PROVE Grows
    BY <2>4, EnforcementMoves DEF FinishEnforcement, TypeOK
  <2>5. ASSUME NEW w \in Workers, FinishRevoke(w) PROVE Grows
    BY <2>5, RevokeMoves DEF FinishRevoke, TypeOK
  <2>6. CASE UNCHANGED <<state, decision>>
    BY <2>6
  <2>7. ASSUME NEW q \in Requests,
               \/ MonitorLoads(q) \/ MonitorDies(q) \/ TtlElapses(q)
               \/ \E risk \in Risk : RiskChanges(q, risk)
        PROVE  Grows
    BY <2>6, <2>7 DEF MonitorLoads, MonitorDies, TtlElapses, RiskChanges, row
  <2>8. ASSUME NEW w \in Workers, WorkerStep(w) \/ WorkerDies(w) PROVE Grows
    BY <2>3, <2>4, <2>5, <2>6, <2>8
    DEF WorkerStep, ClaimJob, CallActivate, CallRevoke, CallProvider, SkipRevoke, WorkerDies, row
  <2> HIDE DEF Grows
  <2>9. QED
    BY <2>1, <2>2, <2>6, <2>7, <2>8 DEF Next, vars, row
<1>2. Inv /\ [Next]_vars => [Grows]_vars
  BY <1>1
<1> HIDE DEF Grows
<1>3. Spec => [][Grows]_vars
  BY <1>2, TypeCorrect, AuthorityIsInvariant, TruthIsInvariant, SerialIsInvariant, PTL DEF Spec
<1>4. QED
  BY <1>3 DEF VersionIdentifiesRow, Grows
-----------------------------------------------------------------------------
(* The phase of AccessLifecycle that each workflow state stands for.       *)
LEMMA PhaseValues ==
  /\ PhaseOf("NONE") = "absent"
  /\ \A s \in ReviewState : PhaseOf(s) = "review"
  /\ PhaseOf("APPROVED") = "granted" /\ PhaseOf("ENFORCING") = "granted"
  /\ PhaseOf("ACTIVE") = "live"
  /\ PhaseOf("REVOKING") = "closing"
  /\ PhaseOf("ENFORCEMENT_FAILED") = "faulted"
  /\ \A s \in TerminalState : PhaseOf(s) = "closed"
BY DEF PhaseOf, ReviewState, TerminalState

(* A move of one request is a move of its phase.                           *)
LEMMA PhaseMoves ==
  ASSUME TypeOK, NEW r \in Requests, NEW s,
         \A q \in Requests \ {r} : state'[q] = state[q], state'[r] = s
  PROVE  [q \in Requests |-> PhaseOf(state'[q])]
           = [[q \in Requests |-> PhaseOf(state[q])] EXCEPT ![r] = PhaseOf(s)]
OBVIOUS

(* Every step does what the lifecycle allows: the phases move as it says,  *)
(* the access opens only when granted and is shut before the close.        *)
LEMMA LifecycleStep ==
  ASSUME Isolation = "serial", TypeOK, AuthorityInvariant, TruthInvariant, SerialInvariant,
         [Next]_vars
  PROVE  [Lifecycle!Next]_(Lifecycle!vars)
<1> DEFINE phase == [q \in Requests |-> PhaseOf(state[q])]
           next  == [q \in Requests |-> PhaseOf(state'[q])]
           Goal  == \/ next = phase /\ access' = access
                    \/ Lifecycle!Next
<1>1. ASSUME UNCHANGED <<state, access>> PROVE Goal
  BY <1>1
<1>2. ASSUME NEW r \in Requests, NEW to, next = [phase EXCEPT ![r] = to], UNCHANGED access,
             \/ <<phase[r], to>> \in
                  {<<"absent", "review">>, <<"review", "closed">>, <<"review", "granted">>,
                   <<"live", "closing">>, <<"granted", "faulted">>, <<"live", "faulted">>,
                   <<"closing", "faulted">>}
             \/ phase[r] = "granted" /\ to = "live" /\ access[r]
             \/ phase[r] \in {"live", "closing"} /\ to = "closed" /\ ~access[r]
             \/ phase[r] = to
      PROVE  Goal
  <2>1. CASE phase[r] = to
    BY <1>2, <2>1
  <2>2. ASSUME NEW from, phase[r] \in from PROVE Lifecycle!MoveTo(r, from, to)
    BY <1>2, <2>2 DEF Lifecycle!MoveTo
  <2>3. CASE phase[r] # to
    <3>1. Lifecycle!Next
      BY <1>2, <2>2, <2>3
      DEF Lifecycle!Next, Lifecycle!Submit, Lifecycle!Refuse, Lifecycle!Grant,
          Lifecycle!Activate, Lifecycle!Withdraw, Lifecycle!Fail, Lifecycle!Close
    <3>2. QED
      BY <3>1
  <2>4. QED
    BY <2>1, <2>3
<1>3. ASSUME NEW r \in Requests, NEW s, state' = [state EXCEPT ![r] = s]
      PROVE  next = [phase EXCEPT ![r] = PhaseOf(s)]
  BY <1>3, PhaseMoves DEF TypeOK
<1>p. \A r \in Requests : phase[r] = PhaseOf(state[r])
  OBVIOUS
<1> USE PhaseValues
<1>4. ASSUME NEW r \in Requests, Handlers(r) PROVE Goal
  <2>1. UNCHANGED access
    BY <1>4, HandlersAreAlone
  <2>3. next = [phase EXCEPT ![r] = PhaseOf(state'[r])]
    BY <1>4, HandlerMoves, PhaseMoves DEF SerialInvariant
  <2> HIDE DEF Goal, phase, next
  <2>4. \/ phase[r] = PhaseOf(state'[r])
        \/ <<phase[r], PhaseOf(state'[r])>> \in
              {<<"absent", "review">>, <<"review", "closed">>, <<"review", "granted">>,
               <<"live", "closing">>}
    BY <1>4, <1>p, HandlerMoves DEF SerialInvariant, ReviewState, TerminalState
  <2>5. QED
    BY <1>2, <2>1, <2>3, <2>4
<1> HIDE DEF Goal, phase, next
<1>5. ASSUME NEW r \in Requests, MonitorRevokes(r) PROVE Goal
  <2>1. UNCHANGED access /\ state[r] = "ACTIVE" /\ state' = [state EXCEPT ![r] = "REVOKING"]
    BY <1>5, MonitorMoves DEF MonitorRevokes
  <2>2. next = [phase EXCEPT ![r] = PhaseOf("REVOKING")]
    BY <2>1, <1>3
  <2>3. QED
    BY <1>2, <1>p, <2>1, <2>2
<1>6. ASSUME NEW w \in Workers, FinishReview(w) PROVE Goal
  <2> DEFINE r == worker[w].job.req
  <2>1. UNCHANGED access /\ r \in Requests
    BY <1>6, FinishIsDismissal, OpenTransaction
  <2>2. CASE UNCHANGED state
    BY <1>1, <2>1, <2>2
  <2>3. ASSUME NEW s \in {"MORE_CONTEXT_REQUIRED", "AWAITING_APPROVAL"},
               state' = [state EXCEPT ![r] = s], state[r] = "AI_REVIEW_PENDING"
        PROVE  Goal
    <3>1. next = [phase EXCEPT ![r] = PhaseOf(s)]
      BY <2>1, <2>3, <1>3
    <3>2. phase[r] = "review" /\ PhaseOf(s) = "review"
      BY <2>1, <2>3, <1>p DEF ReviewState
    <3>3. QED
      BY <1>2, <2>1, <3>1, <3>2
  <2>4. QED
    BY <1>6, <2>2, <2>3, ReviewMoves
<1>7. ASSUME NEW w \in Workers, FinishEnforcement(w) PROVE Goal
  <2> DEFINE r == worker[w].job.req
  <2>1. UNCHANGED access /\ r \in Requests /\ state[r] = "ENFORCING"
    BY <1>7, FinishIsDismissal, OpenTransaction, EnforcementMoves
  <2>2. phase[r] = "granted"
    BY <1>p, <2>1
  <2>3. CASE UNCHANGED state
    BY <1>1, <2>1, <2>3
  <2>4. CASE access[r] /\ state' = [state EXCEPT ![r] = "ACTIVE"]
    <3>1. next = [phase EXCEPT ![r] = PhaseOf("ACTIVE")]
      BY <2>1, <2>4, <1>3
    <3>2. QED
      BY <1>2, <2>1, <2>2, <2>4, <3>1
  <2>5. CASE state' = [state EXCEPT ![r] = "ENFORCEMENT_FAILED"]
    <3>1. next = [phase EXCEPT ![r] = PhaseOf("ENFORCEMENT_FAILED")]
      BY <2>1, <2>5, <1>3
    <3>2. QED
      BY <1>2, <2>1, <2>2, <3>1
  <2>6. QED
    BY <1>7, <2>3, <2>4, <2>5, EnforcementMoves
<1>8. ASSUME NEW w \in Workers, FinishRevoke(w) PROVE Goal
  <2> DEFINE r == worker[w].job.req
  <2>1. UNCHANGED access /\ r \in Requests
    BY <1>8, FinishIsDismissal, OpenTransaction
  <2>2. CASE UNCHANGED state
    BY <1>1, <2>1, <2>2
  <2>3. ASSUME NEW s \in {"EXPIRED", "REVOKED"}, state' = [state EXCEPT ![r] = s],
               state[r] \in {"ACTIVE", "REVOKING"}, ~access[r]
        PROVE  Goal
    <3>1. next = [phase EXCEPT ![r] = PhaseOf(s)]
      BY <2>1, <2>3, <1>3
    <3>2. phase[r] \in {"live", "closing"} /\ PhaseOf(s) = "closed"
      BY <2>1, <2>3, <1>p DEF TerminalState
    <3>3. QED
      BY <1>2, <2>1, <2>3, <3>1, <3>2
  <2>4. CASE /\ state' = [state EXCEPT ![r] = "ENFORCEMENT_FAILED"]
             /\ state[r] \in {"ACTIVE", "REVOKING", "ENFORCEMENT_FAILED"}
    <3>1. next = [phase EXCEPT ![r] = PhaseOf("ENFORCEMENT_FAILED")]
      BY <2>1, <2>4, <1>3
    <3>2. phase[r] \in {"live", "closing", "faulted"}
      BY <2>1, <2>4, <1>p
    <3>3. QED
      BY <1>2, <2>1, <3>1, <3>2
  <2>5. QED
    BY <1>8, <2>2, <2>3, <2>4, RevokeMoves
<1>9. ASSUME NEW w \in Workers, CallActivate(w) PROVE Goal
  <2> DEFINE r == worker[w].job.req
  <2>1. worker[w] # NoTransaction /\ worker[w].job.type = "ENFORCEMENT"
    BY <1>9, CallKeepsJob
  <2>2. r \in Requests /\ Live(worker[w].job) /\ worker[w].job \in DOMAIN outbox
    BY <2>1, OpenTransaction
  <2>3. worker[w].job = EnforcementJob(r)
    BY <2>1, <2>2 DEF TruthInvariant, ActivationHasOneJob
  <2>4. state[r] = "ENFORCING"
    BY <2>2, <2>3 DEF SerialInvariant, ActivationMatchesState
  <2>5. phase[r] = "granted"
    BY <2>2, <2>4, <1>p
  <2>6. PICK o \in ActivateOutcomes :
          \E on \in AccessAfter(worker[w].job.type, o, access[r]) :
            access' = [access EXCEPT ![r] = on]
    BY <1>9 DEF CallActivate, CallProvider
  <2>7. \A on \in AccessAfter(worker[w].job.type, o, access[r]) : on \in {access[r], TRUE}
    BY <2>1 DEF AccessAfter
  <2>8. UNCHANGED state
    BY <1>9 DEF CallActivate, CallProvider, row
  <2> HIDE DEF r
  <2>9. access' = access \/ access' = [access EXCEPT ![r] = TRUE]
    BY <2>6, <2>7 DEF TypeOK
  <2>10. CASE access' = [access EXCEPT ![r] = TRUE]
    <3>1. Lifecycle!Open(r)
      BY <2>5, <2>8, <2>10 DEF Lifecycle!Open, phase, next
    <3>2. QED
      BY <2>2, <3>1 DEF Lifecycle!Next, Goal
  <2>11. QED
    BY <1>1, <2>8, <2>9, <2>10
<1>10. ASSUME NEW w \in Workers, CallRevoke(w) PROVE Goal
  <2> DEFINE r == worker[w].job.req
  <2>1. /\ worker[w] # NoTransaction
        /\ worker[w].job.type \in EndingJobs
        /\ worker[w].state \notin {"REVOKED", "EXPIRED"}
    BY <1>10, CallKeepsJob DEF CallRevoke
  <2>2. r \in Requests /\ worker[w].job \in DOMAIN outbox /\ worker[w].state = state[r]
    BY <2>1, OpenTransaction
  <2>3. ActivationOver(r)
    BY <2>1, <2>2 DEF TruthInvariant, EndingFollowsActivation
  <2>4. state[r] \in {"ACTIVE", "REVOKING", "ENFORCEMENT_FAILED"}
    BY <2>1, <2>2, <2>3 DEF SerialInvariant, ActivationMatchesState
  <2>5. phase[r] \in {"live", "closing", "faulted"}
    BY <2>2, <2>4, <1>p
  <2>6. PICK o \in RevokeOutcomes :
          \E on \in AccessAfter(worker[w].job.type, o, access[r]) :
            access' = [access EXCEPT ![r] = on]
    BY <1>10 DEF CallRevoke, CallProvider
  <2>7. \A on \in AccessAfter(worker[w].job.type, o, access[r]) : on \in {access[r], FALSE}
    BY <2>1 DEF AccessAfter, EndingJobs
  <2>8. UNCHANGED state
    BY <1>10 DEF CallRevoke, CallProvider, row
  <2> HIDE DEF r
  <2>9. access' = access \/ access' = [access EXCEPT ![r] = FALSE]
    BY <2>6, <2>7 DEF TypeOK
  <2>10. CASE access' = [access EXCEPT ![r] = FALSE]
    <3>1. Lifecycle!Shut(r)
      BY <2>5, <2>8, <2>10 DEF Lifecycle!Shut, phase, next
    <3>2. QED
      BY <2>2, <3>1 DEF Lifecycle!Next, Goal
  <2>11. QED
    BY <1>1, <2>8, <2>9, <2>10
<1>11. ASSUME NEW r \in Requests,
              \/ MonitorLoads(r) \/ MonitorDies(r) \/ TtlElapses(r)
              \/ \E risk \in Risk : RiskChanges(r, risk)
       PROVE  Goal
  BY <1>1, <1>11 DEF MonitorLoads, MonitorDies, TtlElapses, RiskChanges, row
<1>12. ASSUME NEW w \in Workers, WorkerStep(w) \/ WorkerDies(w) PROVE Goal
  BY <1>1, <1>6, <1>7, <1>8, <1>9, <1>10, <1>12
  DEF WorkerStep, ClaimJob, SkipRevoke, WorkerDies, row
<1>13. Goal
  BY <1>1, <1>4, <1>5, <1>11, <1>12 DEF Next, vars, row
<1>14. QED
  BY <1>13 DEF Goal, phase, next, Lifecycle!vars

(* Where transactions do not overlap, the workflow, the outbox, the worker *)
(* and the provider together do only what AccessLifecycle allows, so every *)
(* theorem about AccessLifecycle holds of them: whoever is let in has a    *)
(* grant that is not closed, and what is closed stays closed.              *)
THEOREM LifecycleIsImplemented ==
  ASSUME Isolation = "serial"
  PROVE  Spec => ImplementsLifecycle
<1>1. Init => Lifecycle!Init
  BY PhaseValues DEF Init, Lifecycle!Init
<1>2. QED
  BY <1>1, TypeCorrect, AuthorityIsInvariant, TruthIsInvariant, SerialIsInvariant,
     LifecycleStep, PTL
  DEF Spec, ImplementsLifecycle, Lifecycle!Spec

(* Where transactions do not overlap, a request that was denied, revoked   *)
(* or has expired stays so, as the contract says of terminal states.       *)
THEOREM TerminalIsFinalWhenSerial ==
  ASSUME Isolation = "serial"
  PROVE  Spec => TerminalStatesAreFinal
<1> DEFINE Inv   == TypeOK /\ AuthorityInvariant /\ TruthInvariant /\ SerialInvariant
           Stays == \A r \in Requests : state[r] \in TerminalState => state'[r] = state[r]
<1>1. Inv /\ [Next]_vars => Stays
  <2> SUFFICES ASSUME Inv, [Next]_vars, NEW r \in Requests, state[r] \in TerminalState,
                      state'[r] # state[r]
               PROVE  FALSE
    OBVIOUS
  <2>1. ~Handlers(r)
    BY HandlerMoves DEF SerialInvariant, ReviewState, TerminalState
  <2>2. ~MonitorRevokes(r)
    BY MonitorMoves DEF TerminalState
  <2>3. ASSUME NEW w \in Workers, FinishReview(w), worker[w].job.req = r PROVE FALSE
    BY <2>3, ReviewMoves DEF TerminalState
  <2>4. ASSUME NEW w \in Workers, FinishEnforcement(w), worker[w].job.req = r PROVE FALSE
    BY <2>4, EnforcementMoves DEF TerminalState
  <2>5. ASSUME NEW w \in Workers, FinishRevoke(w), worker[w].job.req = r PROVE FALSE
    BY <2>5, RevokeMoves DEF TerminalState
  <2>6. QED
    BY <2>1, <2>2, <2>3, <2>4, <2>5, SerialMoves
<1>2. Inv /\ [Next]_vars => [Stays]_vars
  BY <1>1
<1> HIDE DEF Stays
<1>3. Spec => [][Stays]_vars
  BY <1>2, TypeCorrect, AuthorityIsInvariant, TruthIsInvariant, SerialIsInvariant, PTL DEF Spec
<1>4. QED
  BY <1>3 DEF TerminalStatesAreFinal, Stays
-----------------------------------------------------------------------------
(* The version of a request never goes down where transactions do not      *)
(* overlap, and grows only with the state except during the review.        *)
LEMMA VersionStep ==
  ASSUME Isolation = "serial", TypeOK, AuthorityInvariant, TruthInvariant, SerialInvariant,
         [Next]_vars, NEW r \in Requests
  PROVE  /\ version'[r] >= version[r]
         /\ version'[r] # version[r] /\ state'[r] = state[r] =>
              state[r] \in (ReviewState \ {"AI_REVIEW_PENDING"}) \cup {"ENFORCEMENT_FAILED"}
<1> DEFINE Goal ==
         /\ version'[r] >= version[r]
         /\ version'[r] # version[r] /\ state'[r] = state[r] =>
              state[r] \in (ReviewState \ {"AI_REVIEW_PENDING"}) \cup {"ENFORCEMENT_FAILED"}
<1>1. ASSUME NEW q \in Requests, Handlers(q) PROVE Goal
  BY <1>1, HandlerMoves DEF SerialInvariant, TypeOK
<1>2. ASSUME NEW q \in Requests, MonitorRevokes(q) PROVE Goal
  BY <1>2, MonitorMoves DEF TypeOK
<1>3. ASSUME NEW w \in Workers, FinishReview(w) PROVE Goal
  BY <1>3, ReviewMoves DEF TypeOK
<1>4. ASSUME NEW w \in Workers, FinishEnforcement(w) PROVE Goal
  BY <1>4, EnforcementMoves DEF TypeOK
<1>5. ASSUME NEW w \in Workers, FinishRevoke(w) PROVE Goal
  BY <1>5, RevokeMoves DEF TypeOK
<1>6. ASSUME UNCHANGED version PROVE Goal
  BY <1>6 DEF TypeOK
<1>7. ASSUME NEW q \in Requests,
             \/ MonitorLoads(q) \/ MonitorDies(q) \/ TtlElapses(q)
             \/ \E risk \in Risk : RiskChanges(q, risk)
      PROVE  Goal
  BY <1>6, <1>7 DEF MonitorLoads, MonitorDies, TtlElapses, RiskChanges, row
<1>8. ASSUME NEW w \in Workers, WorkerStep(w) \/ WorkerDies(w) PROVE Goal
  BY <1>3, <1>4, <1>5, <1>6, <1>8
  DEF WorkerStep, ClaimJob, CallActivate, CallRevoke, CallProvider, SkipRevoke, WorkerDies, row
<1> HIDE DEF Goal
<1>9. Goal
  BY <1>1, <1>2, <1>6, <1>7, <1>8 DEF Next, vars, row
<1>10. QED
  BY <1>9 DEF Goal

(* The job keys of one round never come up again in a later one.           *)
LEMMA JobVersionStep ==
  ASSUME Isolation = "serial", TypeOK, AuthorityInvariant, TruthInvariant, SerialInvariant,
         JobVersionsAreOld, [Next]_vars
  PROVE  JobVersionsAreOld'
<1> SUFFICES ASSUME NEW k \in DOMAIN outbox', k.type \in {"AI_REVIEW", "REVOCATION"}
             PROVE  k.version <= version'[k.req]
  BY DEF JobVersionsAreOld
<1>1. k.req \in Requests /\ k.version \in Nat
  BY TypeStep DEF TypeOK, OutboxTyped, JobKey
<1>2. version[k.req] \in Nat /\ version'[k.req] \in Nat
  BY <1>1, TypeStep DEF TypeOK
<1>3. CASE k \in DOMAIN outbox
  BY <1>1, <1>2, <1>3, VersionStep DEF JobVersionsAreOld
<1>4. CASE k \notin DOMAIN outbox
  <2>1. CASE RequestAIReview(k.req) /\ k = AIReviewJob(k.req, version[k.req] + 1)
    BY <1>1, <1>2, <2>1 DEF RequestAIReview, Transition, AIReviewJob, TypeOK
  <2>2. CASE Revoke(k.req) /\ k = RevocationJob(k.req, version[k.req] + 1)
    BY <1>1, <1>2, <2>2 DEF Revoke, Transition, RevocationJob, TypeOK
  <2>3. CASE MonitorRevokes(k.req) /\ k = RevocationJob(k.req, monitor[k.req] + 1)
    BY <1>1, <1>2, <2>3 DEF MonitorRevokes, RevocationJob, TypeOK
  <2>4. QED
    BY <1>4, <2>1, <2>2, <2>3, NewJobStep DEF EnforcementJob, ExpiryJob
<1>5. QED
  BY <1>3, <1>4

(* The job a request waits for is new when the wait begins, and whoever    *)
(* finishes it ends the wait: with a provider that always answers and no   *)
(* reviewer configured, none is finished in vain.                          *)
LEMMA AwaitedJobStep ==
  ASSUME Isolation = "serial", Provider = "sandbox", ReviewProvider = "disabled",
         TypeOK, AuthorityInvariant, TruthInvariant, SerialInvariant, PendingInvariant,
         [Next]_vars
  PROVE  AwaitedJobIsLive'
<1> DEFINE LiveNext(k) == k \in DOMAIN outbox' /\ outbox'[k].status \in {"pending", "retry"}
           Goal(r) == /\ state'[r] = "AI_REVIEW_PENDING" => LiveNext(AIReviewJob(r, version'[r]))
                      /\ state'[r] = "ENFORCING" => LiveNext(EnforcementJob(r))
                      /\ state'[r] = "ACTIVE" => LiveNext(ExpiryJob(r))
                      /\ state'[r] = "REVOKING" => LiveNext(RevocationJob(r, version'[r]))
<1> SUFFICES ASSUME NEW r \in Requests PROVE Goal(r)
  BY DEF AwaitedJobIsLive, AIReviewJob, EnforcementJob, ExpiryJob, RevocationJob, Live
<1>v. version[r] \in Nat /\ version[r] + 1 \in Nat /\ version[r] + 1 > version[r]
  BY DEF TypeOK
<1>f. ASSUME NEW v \in Nat, v > version[r]
      PROVE  AIReviewJob(r, v) \notin DOMAIN outbox /\ RevocationJob(r, v) \notin DOMAIN outbox
  BY <1>f, <1>v DEF PendingInvariant, JobVersionsAreOld, AIReviewJob, RevocationJob
<1>n. ASSUME NEW k \in JobKey, outbox' = EnqueuedNow(outbox, k), k \notin DOMAIN outbox
      PROVE  LiveNext(k)
  <2>1. /\ DOMAIN outbox' = DOMAIN outbox \cup {k}
        /\ k \notin DOMAIN outbox => outbox'[k].status = "pending"
    BY <1>n, EnqueuedRows DEF TypeOK
  <2>2. QED
    BY <1>n, <2>1
<1>k. /\ AIReviewJob(r, version[r] + 1) \in JobKey
      /\ RevocationJob(r, version[r] + 1) \in JobKey
      /\ EnforcementJob(r) \in JobKey
      /\ ExpiryJob(r) \in JobKey
  BY <1>v, 0 \in Nat, JobKeyType
<1>1. CASE Handlers(r) /\ state'[r] # state[r]
  <2>1. ASSUME RequestAIReview(r) PROVE LiveNext(AIReviewJob(r, version'[r]))
    <3>1. /\ version'[r] = version[r] + 1
          /\ outbox' = EnqueuedNow(outbox, AIReviewJob(r, version[r] + 1))
      BY <2>1 DEF RequestAIReview, Transition, TypeOK
    <3> HIDE DEF LiveNext
    <3>2. QED
      BY <3>1, <1>v, <1>f, <1>k, <1>n
  <2>2. ASSUME Revoke(r) PROVE LiveNext(RevocationJob(r, version'[r]))
    <3>1. /\ version'[r] = version[r] + 1
          /\ outbox' = EnqueuedNow(outbox, RevocationJob(r, version[r] + 1))
      BY <2>2 DEF Revoke, Transition, TypeOK
    <3> HIDE DEF LiveNext
    <3>2. QED
      BY <3>1, <1>v, <1>f, <1>k, <1>n
  <2>3. ASSUME grant[r] = "none", outbox' = EnqueuedNow(outbox, EnforcementJob(r))
        PROVE  LiveNext(EnforcementJob(r))
    <3>1. EnforcementJob(r) \notin DOMAIN outbox
      BY <2>3 DEF AuthorityInvariant, GrantJobsHaveGrants, EnforcementJob
    <3> HIDE DEF LiveNext
    <3>2. QED
      BY <2>3, <3>1, <1>k, <1>n
  <2> HIDE DEF LiveNext
  <2>4. QED
    BY <1>1, <2>1, <2>2, <2>3, HandlerMoves DEF SerialInvariant, ReviewState
<1>2. CASE MonitorRevokes(r) /\ state'[r] # state[r]
  <2>1. /\ state'[r] = "REVOKING"
        /\ version'[r] = version[r] + 1
        /\ outbox' = EnqueuedNow(outbox, RevocationJob(r, version[r] + 1))
    BY <1>2, MonitorMoves DEF TypeOK
  <2> HIDE DEF LiveNext
  <2>2. LiveNext(RevocationJob(r, version'[r]))
    BY <2>1, <1>v, <1>f, <1>k, <1>n
  <2>3. QED
    BY <2>1, <2>2
<1>3. ASSUME NEW w \in Workers, FinishReview(w), worker[w].job.req = r, state'[r] # state[r]
      PROVE  Goal(r)
  <2>1. state'[r] \in {"MORE_CONTEXT_REQUIRED", "AWAITING_APPROVAL"}
    BY <1>3, ReviewMoves DEF TypeOK
  <2>2. QED
    BY <2>1
<1>4. ASSUME NEW w \in Workers, FinishEnforcement(w), worker[w].job.req = r,
             state'[r] # state[r]
      PROVE  Goal(r)
  <2> DEFINE done == Completed(outbox, worker[w].job)
  <2>1. state'[r] \in {"ACTIVE", "ENFORCEMENT_FAILED"}
    BY <1>4, EnforcementMoves DEF TypeOK
  <2>2. state'[r] = "ACTIVE" => outbox' = EnqueuedLater(done, ExpiryJob(r))
    BY <1>4, EnforcementMoves DEF TypeOK
  <2>3. worker[w] # NoTransaction /\ worker[w].job = EnforcementJob(r)
    BY <1>4, FinishIsDismissal, EnforcementMoves
  <2>4. worker[w].job \in DOMAIN outbox /\ worker[w].job \in JobKey /\ Live(worker[w].job)
    BY <2>3, OpenTransaction
  <2>5. ~ActivationOver(r)
    BY <2>3, <2>4 DEF Live, ActivationOver
  <2>6. ExpiryJob(r) \notin DOMAIN outbox
    BY <2>5 DEF TruthInvariant, EndingFollowsActivation, EndingJobs, ExpiryJob
  <2>7. DOMAIN done = DOMAIN outbox /\ OutboxTyped(done)
    BY <2>4, SettledType DEF TypeOK
  <2>8. /\ DOMAIN EnqueuedLater(done, ExpiryJob(r)) = DOMAIN done \cup {ExpiryJob(r)}
        /\ ExpiryJob(r) \notin DOMAIN done =>
             EnqueuedLater(done, ExpiryJob(r))[ExpiryJob(r)].status = "pending"
    BY <1>k, <2>7, EnqueuedRows
  <2>9. state'[r] = "ACTIVE" => LiveNext(ExpiryJob(r))
    BY <2>2, <2>6, <2>7, <2>8
  <2> HIDE DEF LiveNext
  <2>10. QED
    BY <2>1, <2>9
<1>5. ASSUME NEW w \in Workers, FinishRevoke(w), worker[w].job.req = r, state'[r] # state[r]
      PROVE  Goal(r)
  <2>1. state'[r] \in {"EXPIRED", "REVOKED", "ENFORCEMENT_FAILED"}
    BY <1>5, RevokeMoves DEF TypeOK
  <2>2. QED
    BY <2>1
<1>6. ASSUME state'[r] = state[r], NEW k \in DOMAIN outbox, Live(k), k.req = r,
             \/ state[r] = "AI_REVIEW_PENDING" /\ k.type = "AI_REVIEW"
             \/ state[r] = "ENFORCING" /\ k.type = "ENFORCEMENT"
             \/ state[r] = "ACTIVE" /\ k.type = "EXPIRY"
             \/ state[r] = "REVOKING" /\ k.type = "REVOCATION"
      PROVE  LiveNext(k)
  <2> SUFFICES ASSUME ~Live(k)' PROVE FALSE
    BY DEF Live
  <2>1. PICK w \in Workers : /\ worker[w].job = k
                             /\ \/ FinishReview(w) \/ FinishEnforcement(w)
                                \/ SkipRevoke(w) \/ FinishRevoke(w)
    BY <1>6, LiveUnlessFinished
  <2>2. worker[w] # NoTransaction /\ worker[w].state = state[r]
    BY <1>6, <2>1, FinishIsDismissal, OpenTransaction
  <2>3. CASE FinishReview(w)
    <3>1. state[r] = "AI_REVIEW_PENDING"
      BY <1>6, <2>1, <2>3 DEF FinishReview, InPhase
    <3>2. QED
      BY <1>6, <2>1, <2>3, <3>1, ReviewMoves DEF TypeOK
  <2>4. CASE FinishEnforcement(w)
    <3>1. worker[w].outcome = "verified" /\ state[r] = "ENFORCING"
      BY <1>6, <2>1, <2>4, EnforcementMoves DEF ActivateOutcomes
    <3>2. QED
      BY <1>6, <2>1, <2>4, <3>1, EnforcementMoves DEF TypeOK
  <2>5. CASE SkipRevoke(w)
    BY <1>6, <2>1, <2>2, <2>5 DEF SkipRevoke, InPhase
  <2>6. CASE FinishRevoke(w)
    <3>1. worker[w].outcome = "verified" /\ k.type \in EndingJobs
      BY <2>1, <2>6, RevokeMoves DEF RevokeOutcomes
    <3>2. QED
      BY <1>6, <2>1, <2>6, <3>1, RevokeMoves DEF TypeOK, EndingJobs
  <2>7. QED
    BY <2>1, <2>3, <2>4, <2>5, <2>6
<1>7. CASE state'[r] = state[r]
  <2>1. state[r] \in {"AI_REVIEW_PENDING", "ENFORCING", "ACTIVE", "REVOKING"}
          => version'[r] = version[r]
    BY <1>7, VersionStep DEF ReviewState
  <2>2. /\ state[r] = "AI_REVIEW_PENDING" => Live(AIReviewJob(r, version[r]))
        /\ state[r] = "ENFORCING" => Live(EnforcementJob(r))
        /\ state[r] = "ACTIVE" => Live(ExpiryJob(r))
        /\ state[r] = "REVOKING" => Live(RevocationJob(r, version[r]))
    BY DEF PendingInvariant, AwaitedJobIsLive
  <2>3. /\ AIReviewJob(r, version[r]).type = "AI_REVIEW" /\ AIReviewJob(r, version[r]).req = r
        /\ EnforcementJob(r).type = "ENFORCEMENT" /\ EnforcementJob(r).req = r
        /\ ExpiryJob(r).type = "EXPIRY" /\ ExpiryJob(r).req = r
        /\ RevocationJob(r, version[r]).type = "REVOCATION" /\ RevocationJob(r, version[r]).req = r
    BY DEF AIReviewJob, EnforcementJob, ExpiryJob, RevocationJob
  <2>4. \A k : Live(k) => k \in DOMAIN outbox
    BY DEF Live
  <2> HIDE DEF LiveNext
  <2>5. QED
    BY <1>6, <1>7, <2>1, <2>2, <2>3, <2>4
<1> HIDE DEF Goal
<1>8. QED
  BY <1>1, <1>2, <1>3, <1>4, <1>5, <1>7, SerialMoves

(* Where transactions do not overlap, the sandbox provider always answers  *)
(* and the advisory reviewer is disabled, a request that waits for the     *)
(* worker has a job the worker will take; a worker that dies gives its job *)
(* back.                                                                   *)
THEOREM WaitingRequestsHaveJobs ==
  ASSUME Isolation = "serial", Provider = "sandbox", ReviewProvider = "disabled"
  PROVE  Spec => []PendingWorkHasJob
<1>1. Init => PendingInvariant
  BY DEF Init, PendingInvariant, JobVersionsAreOld, AwaitedJobIsLive
<1>2. TypeOK /\ AuthorityInvariant /\ TruthInvariant /\ SerialInvariant /\ PendingInvariant
        /\ [Next]_vars => PendingInvariant'
  BY JobVersionStep, AwaitedJobStep DEF PendingInvariant
<1>3. PendingInvariant => PendingWorkHasJob
  <2> SUFFICES ASSUME PendingInvariant, NEW r \in Requests
               PROVE  /\ state[r] = "AI_REVIEW_PENDING" =>
                           \E k \in DOMAIN outbox : k.type = "AI_REVIEW" /\ k.req = r /\ Live(k)
                      /\ state[r] = "ENFORCING" => Live(EnforcementJob(r))
                      /\ state[r] = "ACTIVE" => Live(ExpiryJob(r))
                      /\ state[r] = "REVOKING" =>
                           \E k \in DOMAIN outbox : k.type = "REVOCATION" /\ k.req = r /\ Live(k)
    BY DEF PendingWorkHasJob
  <2>1. \A k : Live(k) => k \in DOMAIN outbox
    BY DEF Live
  <2>2. /\ AIReviewJob(r, version[r]).type = "AI_REVIEW" /\ AIReviewJob(r, version[r]).req = r
        /\ RevocationJob(r, version[r]).type = "REVOCATION" /\ RevocationJob(r, version[r]).req = r
    BY DEF AIReviewJob, RevocationJob
  <2>3. QED
    BY <2>1, <2>2 DEF PendingInvariant, AwaitedJobIsLive
<1>4. QED
  BY <1>1, <1>2, <1>3, TypeCorrect, AuthorityIsInvariant, TruthIsInvariant,
     SerialIsInvariant, PTL DEF Spec

-----------------------------------------------------------------------------
(* What AccessLifecycle guarantees, of the detailed state.                 *)
Promised == INSTANCE AccessLifecycleProofs
              WITH phase <- [r \in Requests |-> PhaseOf(state[r])], open <- access

(* Where transactions do not overlap, nobody is let in while their request *)
(* is reviewed, or once it was denied, revoked or has expired: the access  *)
(* is open only from the approval to the recorded end.                     *)
THEOREM OpenOnlyInGrantedStates ==
  ASSUME Isolation = "serial"
  PROVE  Spec => [](\A r \in Requests : access[r] =>
                      state[r] \in {"APPROVED", "ENFORCING", "ACTIVE", "REVOKING",
                                    "ENFORCEMENT_FAILED"})
<1> DEFINE OpenInGranted == \A r \in Requests : access[r] =>
             state[r] \in {"APPROVED", "ENFORCING", "ACTIVE", "REVOKING", "ENFORCEMENT_FAILED"}
<1>1. Promised!Spec => []Promised!OpenOnlyWhileGranted
  BY Promised!OpenOnlyUnderGrant
<1>2. Promised!Spec <=> Lifecycle!Spec
  <2>1. Promised!Init <=> Lifecycle!Init
    BY DEF Promised!Init, Lifecycle!Init
  <2>2. [Promised!Next]_(Promised!vars) <=> [Lifecycle!Next]_(Lifecycle!vars)
    BY DEF Promised!Next, Promised!Submit, Promised!Refuse, Promised!Grant, Promised!Open,
           Promised!Activate, Promised!Withdraw, Promised!Fail, Promised!Shut, Promised!Close,
           Promised!MoveTo, Promised!vars,
           Lifecycle!Next, Lifecycle!Submit, Lifecycle!Refuse, Lifecycle!Grant, Lifecycle!Open,
           Lifecycle!Activate, Lifecycle!Withdraw, Lifecycle!Fail, Lifecycle!Shut,
           Lifecycle!Close, Lifecycle!MoveTo, Lifecycle!vars
  <2>3. QED
    BY <2>1, <2>2, PTL DEF Promised!Spec, Lifecycle!Spec
<1>3. TypeOK /\ Promised!OpenOnlyWhileGranted => OpenInGranted
  <2>1. SUFFICES ASSUME TypeOK, Promised!OpenOnlyWhileGranted, NEW r \in Requests, access[r]
                 PROVE  state[r] \in {"APPROVED", "ENFORCING", "ACTIVE", "REVOKING",
                                     "ENFORCEMENT_FAILED"}
    OBVIOUS
  <2>2. PhaseOf(state[r]) \in {"granted", "live", "closing", "faulted"}
    BY <2>1 DEF Promised!OpenOnlyWhileGranted
  <2>3. state[r] \in State
    BY <2>1 DEF TypeOK
  <2>4. state[r] # "NONE" /\ state[r] \notin ReviewState /\ state[r] \notin TerminalState
    BY <2>2, PhaseValues
  <2>5. QED
    BY <2>3, <2>4 DEF State, ReviewState, TerminalState
<1>4. QED
  BY <1>1, <1>2, <1>3, TypeCorrect, LifecycleIsImplemented, PTL DEF ImplementsLifecycle
=============================================================================
