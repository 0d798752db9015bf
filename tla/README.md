# Verification of the access-governance backend

The repository is a FastAPI backend with two halves that meet in the database:

* **detection and response**: events of an actor are scored against baselines,
  grouped into cases, explained by context records, and answered by response
  actions in a sandbox;
* **just-in-time (JIT) access**: a person asks for a permission for a while,
  evidence is attached, a deterministic policy decides eligibility, reviewers
  approve, a worker makes a provider open the access and later shut it.

This directory holds TLA+ models of it, TLC runs on small instances, and
TLAPS proofs. The models are translated from the source; every definition's
lines are in `PROJECT.json`, "map".

## 1. Inventory

| component | state | operations | hard part | what makes it correct |
|---|---|---|---|---|
| access policy, `access_control/policy.py` | none (pure) | `evaluate_access_policy` | four levels and break-glass, each with conditions of its own | monotone in sensitivity; break-glass waives nothing; only verified, covering evidence counts |
| request workflow, `access_control/service.py`, `api/access_routes.py` | request, evidence, approvals, grant | create, evidence, evaluate, ai-review, request-context, approve, deny, revoke | two approver roles, several rounds, optimistic version | no access without the approvals; terminal states; version identifies the row |
| outbox, `access_control/outbox.py` | job rows | enqueue (deduplicated), claim, complete, retry | SKIP LOCKED, leases, five attempts, crash before commit | pending work always has a job; nothing runs twice at once |
| worker, `access_control/worker.py` | open transaction | the five job types | reads without a lock, long provider calls, writes back a snapshot; batch in one transaction | recorded grant state is true of the access; access ends |
| enforcement provider, `access_control/enforcement.py` | outside the database | activate, verify, revoke | lost answers, refusals, failed verification | - |
| monitor, `access_control/monitoring.py`, ingest route | - | revoke grants an event leaves the scope of | committed event, unlocked read, crash between | every violation ends in a revocation |
| AI review, `access_control/ai_review.py` | limiter, breaker | review | state in a provider object that is made anew each time | advisory only; unavailable means closed for critical |
| audit chain, `access_control/audit.py` | hash-linked rows | append, verify | order of concurrent appends, equal timestamps, lock order | the chain verifies; no fork |
| mutation idempotency, `api/access_routes.py` | key rows | replay, finish | racing inserts, unfinished key | one effect per key, and whoever is told "done" is told the truth |
| response actions, `engine/response_service.py`, `engine/sandbox_enforcement.py`, `main.py` | actions, sandbox controls | create, approve, reject, execute, rollback, expire | no row lock at all; a control taken over by a second action; expiry worker off in production | control authorised; in force iff its action is active; every hold ends |
| response policy, `engine/response_policy.py` | none (pure) | evaluate, recommend | thresholds, approval, duplicates and conflicts | high impact never automatic; no hold twice |
| cases and context, `engine/case_builder.py`, `engine/context.py` | cases, assessments, context records | detect, recompute, reopen, feedback, submit, revise and review context, rank | commits in the middle of an operation, append-only ledger | credit only from live context; reopened cases are recomputed; late context flagged |
| fusion, `engine/fusion.py` | none | event risk, residual, case risk, coverage, counterfactual | clamps and floors in one sum; signals computed anew as of each assessment | residual within raw risk, critical floor kept; context never adds risk |
| change-point, `engine/changepoint.py` | sums, latch | update | reset and threshold | one report per change |
| behaviour, baseline, models, `engine/behavior.py`, `engine/baseline.py`, `engine/ml_signals.py` | statistics | fit, score | floating point | left out |
| graph, narrative, seed data, bundle, configuration, migrations | - | rendering, fixtures | - | left out |

Interaction: handlers and the worker meet in the request row, in the outbox and
in the tenant's newest audit record; the ingest route calls case detection and
then the monitor; the monitor creates and executes a response action and a
revocation in one transaction; the response policy reads the case's current
assessment; the access policy reads the case and the active response actions
of the subject, so the two halves block each other there.

`PROJECT.json`, "hazards", lists what is hard to test, at its line, with the
property that covers it or the reason none does.

## 2. Modules

| module | what it is |
|---|---|
| `AccessPolicy` | the access policy as operators: `Missing`, `Blocking`, `Eligible`, `RequiredRoles`, `MaximumDuration`, `EvaluateAccessPolicy` |
| `AccessPolicyProperties` | the facts about one request as they change between evaluations, and what the policy promises then |
| `AccessControl` | workflow, outbox, worker, provider and monitor as one state machine, over `AccessPolicy` |
| `AccessControlProperties` | its invariants, action and liveness properties, and the refinement mapping to `AccessLifecycle` |
| `AccessLifecycle` | abstract: review, grant, open, shut, close |
| `AuditChain` | append and verification of a chain of records as operators |
| `RequestJournal` (`...Properties`) | the transactions of the same handlers seen from their locks: row, idempotency key, audit records; over `AuditChain` |
| `ResponsePolicy` | the response policy as operators: `Allowed`, `NeedsApproval`, `Duplicates`, `InConflict`, `Target` |
| `ResponseControl` (`...Properties`) | response actions, sandbox controls, expiry; over `ResponsePolicy` |
| `ControlHolds` | abstract: an action holds a control at most once, and no hold lasts for ever |
| `ContextLedger` | context compatibility and fusion as operators: `Score`, `Credit`, `Indeterminate`, `RawRisk`, `Residual`, `Complement`, coverage |
| `CaseLifecycle` (`...Properties`) | cases, context reviews and feedback; over `ContextLedger` |
| `ChangePoint` | the Page-Hinkley detector, sample by sample |
| `*Proofs` | the theorems about each (section 4) |
| `MC*` | instances for TLC |

### AccessControl

`state`, `version`, `decision` are columns of `access_requests`; `evidence` and
`approvals` its child rows; `grant` is `access_grants.enforcement_state`;
`outbox` maps a deduplication key to its row. `access` is not in the database:
it is whether the provider lets the subject in, which is what everything else
is about. `risks` is what `policy_inputs` would find in the case and among the
response actions. `worker[w]` is the open transaction of a worker: the job it
claimed, the state and version it read, the answer it got.

| action | code |
|---|---|
| `CreateRequest`, `AddEvidence`, `EvaluateRequest`, `RequestAIReview`, `RequestMoreContext`, `Revoke` | the functions of that name in `service.py` with their route: the row is locked by `_request_or_404(lock=True)` until the commit, so each is atomic |
| `Deny`, `ApproveInPart`, `ApproveInFull` | `record_approval`, split by decision and by whether the roles are complete; `ApproveInFull` includes `create_grant` and its early return. The two moves of one call (to AWAITING_APPROVAL, then on) are one step that adds both to the version |
| `MonitorLoads`, `MonitorRevokes`, `MonitorDies` | `monitor_event_against_active_grants` after the event's own commit |
| `ClaimJob` | `claim_jobs`; the job's row stays locked, and the read of the request that follows belongs to the step |
| `FinishReview` | `_process_ai` after the provider's answer, with both transitions and `complete_job`/`retry_job` |
| `CallActivate`, `CallRevoke` | the provider's calls: `access` changes here, outside any transaction |
| `FinishEnforcement`, `SkipRevoke`, `FinishRevoke` | the rest of `_process_enforcement` and `_process_revoke`, the exception path and the commit |
| `WorkerDies` | the process ends before the commit: everything but `access` rolls back |
| `TtlElapses`, `RiskChanges` | time reaches `available_at` of the expiry job; the case or the response actions change |

`Isolation` separates two questions. With `"postgresql"` other transactions run
between the steps of a worker or monitor transaction, and `Overwrite` writes
what was computed from the snapshot, as SQLAlchemy's `UPDATE ... SET version =
n` does. With `"serial"` transactions do not overlap, as in the single session
of the tests: it says what the logic gives when isolation is not the problem.
A property checked under `"serial"` only is not claimed for PostgreSQL; where
PostgreSQL breaks it a run shows that. `ResponseControl` uses `Isolation` in the
same sense.

Data is abstract: an evidence item is its type, status and whether its scopes
cover the request, and stands for all documents of that sort; notifications,
texts and the AI's advice are left out, since no operation of this component
reads them.

### RequestJournal

The same handlers once more, at another grain: what they decide is left open
(any may refuse), and what remains is which locks each takes in which order
under READ COMMITTED. `rows` counts the writes of a request's row; `stored` is
`mutation_idempotency`; `table` is `audit_records` in the order of their
timestamps, which are taken when the append starts, with uncommitted records
marked by their writer; `txn[p]` is the open transaction: phase, row as read, record
chosen, locks held. `executed` and `told` are the history the properties speak of.

| action | code |
|---|---|
| `Begin` | the route, up to its first statement: `_request_or_404(lock=True)` or, for create and acknowledge, the replay query |
| `LockRow`, `NotFound` | the row lock, or 404 |
| `Replay`, `FirstTime`, `InsertKey`, `Duplicate` | `_replay`: stored response or 409 for another body; a new row, inserted at the flush, which waits for an overlapping insert of the same key and then fails |
| `Refuse` | the handler raises; the session closes and rolls back |
| `Claim` | a worker's claim and unlocked read, or the monitor with its event |
| `Stamp`, `ChooseTail`, `LockTail`, `Flush` | `append_audit`: timestamp, choice of the newest visible record, wait for its lock, flush |
| `Commit`, `Complete` | the end of a handler (with `_finish`), of a job |
| `Victim`, `Crash` | PostgreSQL ends a deadlock by aborting one of it; a process dies |

A transaction may append several records, so it holds several locks.
`SELECT ... FOR UPDATE` waits for the row it chose at its start; records are
only inserted, so that row is returned even if it is no longer the newest. That
is how two appends come to share a predecessor (section 5).

### ResponseControl

`action` maps an idempotency key to its row of `response_actions`, with the
status the policy decided (`decided`), what was asked and who asked and approved;
`control` maps a target to its row of `sandbox_enforcement_state`; `facts` is the
current assessment of each case; `due` are the actions past `expires_at`;
`txn[p]` what a session loaded.

| action | code |
|---|---|
| `Request`, `Insert`, `InsertAndExecute`, `KeyClash` | `create_response_action` and, for the monitor's hold, its execution in the same transaction; the unique key |
| `LoadApprove`, `Approve`; `Load`, `Reject` | `approve_action` with its separation of duties, `reject_action` |
| `Touch`, `Execute`, `ControlClash` | `execute_action`: status "executing" is flushed, the connector reads the control, commit; the second of two inserts of one control is lost |
| `Rollback` | `rollback_action` and the connector's rollback |
| `LoadExpire`, `Expire` | `expire_due_actions` as called by the task of `main.py` |
| `Abort` | a transaction ends without a commit |
| `TtlElapses`, `Reassess` | time; a new assessment of the case |

Only the columns that differ from what was loaded are written, to the row as
it is then: `Applied` and `RolledBack` take both the row read and the row now.
The refinement mapping to `ControlHolds` makes an action the holder of a control
while the control's row is active and names it.

### CaseLifecycle

One actor. `ingested` are the committed events; `approval` and `base` the
context ledger (state of an entry, and the entry it revises); `case` the rows of
`cases` with their current assessment: raw risk and credit per event, unresolved
events, matched entries, late-context flag; `regime` the latch of the actor's
detector; `threshold` the role's; `now` the reviewers' clock; `txn[p]` what an
ingest still has to do.

| action | code |
|---|---|
| `Ingest`, `Reopen`, `RecomputeReopened` | the ingest route's first commit, `check_auto_reopen` with its commit, and `recompute_case` for each reopened case |
| `DetectNothing`, `Rearm`, `DetectByRisk`, `Latch`, `Build` | `detect_and_build_cases`: too little signal or the latch holds, return to baseline, high risk alone, a change-point (its latch committed first), the case or none, `create_or_update_case` |
| `Crash` | the process dies between two of those commits |
| `Propose`, `Reject`, `Approve` | the context routes: an entry or a revision, its review in one transaction with supersession and the reassessment of affected cases |
| `Feedback` | verdict, status and `apply_feedback` on the role's threshold |
| `TimePasses` | the clock that `approved_at` is read from |

`Ranked` is `rank_cases` with the daily budget. The detector's answer is a
choice here; what it computes is `ChangePoint`. Risks are exact integers: 1/256
for the raw risk of an event, 1/512 for what its context leaves of it.

An assessment is `compute_risk_for_events` on a set of events as of a time. What
it takes from histories (personal and cohort deviation, behaviour model, login
rules, sequence) is computed as of that time and enters the raw risk of all its
events; `SignalsSeen` are the answers there may be, and each assessment, the
probe before a detection's and every one of a review's included, has a choice of
its own (`BuildIfRisk`, `Reassessed`, `RecomputeReopened`, `Build`). So raw risk
and with it the coverage weights of the same evidence differ between two
assessments of a case, and its row keeps those of the last one. Two consequences
are worth knowing. The risk shown for a case may rise when context is approved;
what `ContextNeverRaisesRisk` says is that the context is not the reason: the same
assessment without the new credit would be no lower. And coverage may
rise by a quarter without any event being explained better; `RetroactiveIsFlagged`
asks for a flag where credit is gained after the fact.

After the fact is by the clock: `review_context` looks for late context among the
events dated before `approved_at`, and an event may be dated in the future
(`EventCreate` takes any timestamp). `LateContext` has that guard, so context for an
event still to come raises coverage without a flag.

### ChangePoint

`First`, `Observe`, `Report`, `FirstLatched`, `Hold`, `Rearm` are the branches of
one pass of `detect`'s loop: the forward sums, a report with the reset and the
latch, the reverse test under the latch, its end. Arithmetic is exact: a value is
scaled by `One`, and the forgetting factor is `1 - 1/Forget`.

## 3. Runs

| run | instance | shows |
|---|---|---|
| `access_postgres_webhook` | two workers, overlapping transactions, a webhook that loses and refuses answers, one crash; 1.8 million states | `TypeOK`, `AccessNeedsAuthority`, `GrantStateTruthful` |
| `access_serial_webhook` | a critical resource with two approver roles, AI review, linked case, failing webhook; 1.2 million | `AuthorityInvariant` (the proofs' inductive invariant), `ImplementsLifecycle` (refinement of `AccessLifecycle`), `VersionIdentifiesRow` |
| `access_serial_sandbox` | a provider that always answers, two crashes; 155,000 | `PendingWorkHasJob` and, under fairness, `AccessIsTemporary`, `RevocationTakesEffect` |
| `policy_cases` | all profiles, durations on both sides of the ceilings, four sorts of evidence, both risks; 166,000 | `SensitivityOnlyTightens`, `BreakGlassWaivesNoCheck`, `EvidenceOnlyCures` |
| `journal_postgres` | two sessions and a worker; five calls, two of them under one key with different bodies, one on an unknown request; 1.2 million | `HandlersNeverDeadlock`, `HandlerSeesCurrentRow`, `AtMostOnce`, `AnswersAreTrue`, `ChainVerifiesAlone`, `TypeOK` |
| `response_serial` | one session and the expiry task, two actions out of four asks (one with a misdirected scope), two people, failing connector, changing assessment; 119,000 | `ControlFollowsOwner`, `NoDuplicateHold`, `TerminalStaysTerminal`, `ImplementsHolds` (refinement of `ControlHolds`) and, under fairness, `HoldsEnd` |
| `response_postgres` | two overlapping sessions and the expiry task, two actions of different tiers; 1.3 million | `TypeOK`, `ControlIsAuthorised` |
| `cases` | three events, three context entries that may revise each other, two interleaved ingests, two cases, two answers of the histories at each assessment, a review before or after the last event's date, one verdict, one crash; 1.2 million | `CreditIsCurrent`, `MatchedIsCurrent`, `RiskWithinBounds`, `LinearRevisions`, `BudgetOnlyAdds`, `LatchHasCase`, `ContextNeverRaisesRisk`, `RetroactiveIsFlagged`, `TypeOK` |
| `finding_*` | the smallest instance in which it happens | four disagreements between the code and what the repository says of it, below |

**Bounds.** `MaxAttempts` is 5 in the code; 2 or 3 where exhaustion should
happen soon. `MaxVersion`: no review step from there on; in the serial runs an AI
review, a return to context and a second AI review fit below it, in the
PostgreSQL run an AI review overtaken by a return to context. `MaxCrashes`,
`MaxAborts`, `MaxFeedback` count what they name. One request suffices in
`AccessControl` because requests share no row, key or lock in it; what they do
share, the tenant's audit records, is in `RequestJournal`, which has two. Two
workers or sessions are the fewest that overlap, three processes the fewest that
deadlock in a ring with a worker in it. Two actions are the fewest of which one
takes over the other's control. Three context entries allow two rival revisions
of one, and the events are such that each entry explains another set of them.
`SignalsSeen` has a quiet and a strange history, far enough apart that they alone
raise the coverage of the same evidence by a quarter. `Instants` has one time
before the last event's date and one after it; `ChangePoints` one before
the two suspicious events and one at the first of them.
Ten samples of `ChangePoint` hold a baseline, a report, the end of the latch on
the plateau and the second report, with a lambda of three deltas.

Four principals take part in the access runs: the requester acting as a
reviewer, two reviewers, the owner. Workers (`access_postgres_webhook`),
sessions (`journal_postgres`, `cases`) and sessions and keys
(`response_postgres`) are interchangeable, and symmetry is used for exactly
those; no run with a liveness property uses symmetry. Runs disable deadlock checking where
everything bounded may be used up; `journal_postgres` and `policy_cases` do not.

**Fairness** of the access runs: `run_worker` loops for ever and is assumed to be
restarted when it dies, so a worker takes its next step when there is one; a
monitor transaction reaches its commit; time passes. Nothing is assumed of
requesters, reviewers, events or the provider's answers. Weak fairness of
`WorkerStep` as a whole lets a worker prefer any job; jobs run out, so this is
enough. The liveness run uses the sandbox, which always answers: with a webhook
that answers nothing five times both liveness properties fail, as the findings
show.

Fairness of `response_serial`: an open transaction goes on or ends (weak); time
reaches `expires_at` (weak); the expiry task, which loops with a sleep, gets its
turn between the handlers' transactions (strong for its start, since each of
them keeps it out for a while, weak for its continuation). `ExpiryRuns` is TRUE
there: `main.py:75` starts the task only outside production, and with FALSE
`HoldsEnd` does not hold.

**Findings.**
1. `finding_terminal_states`: a review that began before a denial writes
   AWAITING_APPROVAL over DENIED (`worker.py:78`, `service.py:51`), against
   "Terminal states". The same overwriting gives a row a version it had with
   another content, so under PostgreSQL an approval's `expected_version` may
   match what its reviewer never saw; `VersionIdentifiesRow` is therefore checked
   serially.
2. `finding_revocation_lost`: five calls without an answer end a revocation;
   the request stays REVOKING, which no operation leaves, and the access open
   until its expiry job, if that one is answered.
3. `finding_access_outlives`: revocation and expiry the provider does not verify
   complete their jobs; the access outlives its lifetime.
4. `finding_plateau`: the latch that should silence a plateau ends on the plateau,
   because the reverse test subtracts delta on every sample that is not below
   its mean, and the shift is reported again. With the values of `config.py`,
   thirty samples of 0.1 followed by 1.5 for ever are reported at samples 31,
   86, 144 and 208.

Each property of a passing run has a mutant in `PROJECT.json`: a change of one
definition, as a slip in that code would make it, under which TLC finds the
property violated. The mutants stand before the definitions they change.

## 4. Proofs

Every safety property of a passing run, invariant or action property, and both
refinements are theorems, for all values of the constants. Each rests on an
invariant that says how the property comes about. Unless a hypothesis is named,
a theorem uses the named assumption on the constants alone (`ConstantsAssumption`,
`CaseAssumption`, `ResponseAssumption`, `JournalAssumption`), which every run
satisfies. The hypotheses there are mirror the runs: `Isolation = "serial"` where
the code relies on transactions that do not overlap (the findings and section 5
show what happens otherwise), and the settings named below.

**AccessControlProofs**, for any requests, workers, approvers and evidence.

* `TypeCorrect`; `AuthorityIsInvariant` and from it `AccessIsAuthorised`, for both
  providers and isolations. `AccessNeedsAuthority` says nothing of how an approval
  reaches the provider, so it is not inductive. `AuthorityInvariant` follows that
  path: approvals never come from the requester (`NoSelfApproval`); an eligible
  decision names exactly the roles the request requires
  (`EligibleDecisionNamesRoles`), so complete approvals authorise; a grant is
  created only then and approvals are never removed (`GrantsAreAuthorised`); a
  job other than a review has a grant (`GrantJobsHaveGrants`); a transaction
  holds a job of the outbox (`TransactionsHoldJobs`), and an active request or
  one being monitored has a grant (`ActiveHasGrant`); so the call that opens
  the access is made for a grant (`OpenHasGrant`).
* `TruthIsInvariant` and from it `EndedGrantsLetNobodyIn` (`GrantStateTruthful`),
  for both providers and isolations. What could break the property is an
  activation that comes after a verified end. `TruthInvariant` excludes it: a
  claim is exclusive and a claimed job live (`ClaimsAreExclusive`,
  `ClaimedJobsAreLive`), a grant has one enforcement job (`ActivationHasOneJob`),
  a job that ends the grant exists only once that one is over
  (`EndingFollowsActivation`), so the access a verified call shut is still shut
  when the end is recorded (`VerifiedEndingShuts`) and ever after.
* `SerialIsInvariant` (serial): the snapshot a worker or monitor holds is the row
  (`SnapshotsAreCurrent`), because one transaction is open at a time, and the
  state tells whether the activation is still to come (`ActivationMatchesState`).
  From it `VersionsIdentifyRows`, `TerminalIsFinalWhenSerial` (the property that
  `finding_terminal_states` refutes under PostgreSQL), and
  `LifecycleIsImplemented`, the refinement of `AccessLifecycle` action by action:
  each step changes one request's phase as an action of the abstract
  specification does, or nothing of it.
* `WaitingRequestsHaveJobs` (serial, sandbox provider, disabled reviewer, the
  settings of `access_serial_sandbox`): in a waiting state the job enqueued at the
  request's present version is live (`PendingInvariant`); the version in the
  deduplication key makes the job of a later round a new one.

**AccessPolicyProofs**: `SensitivityTightens`, `BreakGlassIsNoBypass`,
`EvidenceCures`, for every profile, duration and evidence set.
**AccessLifecycleProofs**: in the abstract specification access is open only
between grant and close, and closed is final. Through the refinement
`OpenOnlyInGrantedStates` (in `AccessControlProofs`) carries the first over to the
states of the workflow.

**RequestJournalProofs**, for any calls, sessions, workers and monitors, under
READ COMMITTED.

* `EffectsAtMostOnce`, `ToldIsDone`, `RowIsCurrent`. `JournalInv` has two halves.
  `Transactions`: past its lock a handler holds the row and has read it as it is,
  two processes never hold one row or one key, and past the insertion its key is
  not stored. `Ledger`: what is stored was executed once, under that body, and what
  a client was told is stored. A commit by another process is what could break
  the first half; the locks are why it cannot.
* `Typed` rests on `TableInv`: records of open transactions are theirs, and no two
  records have one hash (`Named`). The second needs the first and more: the hash
  carries the call and the position, a call is committed at most once, and a job
  is enqueued by one call and taken by one worker (`Settled`, `Queue`).
* `HandlersAreFree` (`HandlersNeverDeadlock`): each waiting handler has a rank,
  0 for the row, 1 for the key, and the place in the chain of the record it wants
  after that (`Rank`); whoever waits ranks below whom it waits for
  (`WaitingGoesUp`), so the lowest of a ring would be waited for by one of the ring
  ranked lower still. For records this holds because a transaction locks only records it can see
  and the one it asks for next is at least as new as all it holds
  (`RecordLocks`), although a record may become visible late.
* `ChainHoldsAlone` (`ChainVerifiesAlone`): `ChainInv` says of the flushed records
  that they are a chain, that those of the one open transaction come last, and
  that the record waiting for its flush follows the predecessor that was chosen for
  it, which is still the newest. A rollback takes an end off the chain
  (`EndKeepsChain`). Where two transactions append at once none of this holds, and
  the property does not claim it.

**AuditChainProofs**, for chains of any length: `PartVerifiesIffClosed` (a part of a
valid chain, such as the records of one request, verifies alone exactly if with
each record it has the tenant's record before it) and `RemovalIsDetected` (a
record missing anywhere but at the end is noticed).

**ResponseControlProofs**, for any cases, people, keys and sessions.

* `ControlNeedsAuthority`, for both isolations: what the policy decided, who asked
  and for what are written once, and an approver is written only by somebody
  other than the requester, so they may be read from a stale row; a session that
  will execute holds a row that is authorised. `Typed`, for both isolations.
* `TerminalIfSerial` (serial): the row a session holds is the row in the table
  (`SerialInv`), so the transition table is consulted on the truth.
* `CurrentInv` (serial) adds what a handler concluded from its reads: the statuses
  it asked for, that no live automatic action of the case had its type and scope,
  and the control it read are all still so at its commit. From it
  `HoldsAreNotDoubled`; `HoldsAreImplemented`, the refinement of `ControlHolds`
  whatever faults the connector has: each commit is one of four effects
  (`Quiet`, `Fails`, `Applies`, `Releases`), and each of these is a step of
  `ControlHolds`; and `ControlsFollowOwners`, which in addition excludes the fault
  "verification" as `response_serial` does: an execution reported failed after its
  control was applied leaves a control whose owner is not active.

**CaseLifecycleProofs**, for any events, entries, cases and sessions, with crashes
between the commits of an ingest.

* `RevisionsAreLinear`: `LinearRevisions` is inductive once the ledger's types are
  added (`LedgerInv`), because an approval checks that the entry it supersedes is
  still in force. `Typed`; `LatchIsAccountedFor`.
* `CreditIsAlwaysCurrent`: `CreditInv` says of each case that its events are
  ingested and its credit is what the approved entries grant now, and of each
  session that the event it still works on is ingested, so that whatever it
  recomputes is recomputed from the ledger of that moment. The step that carries it
  is the approval: a case outside `AffectedBy` has no event that the new entry or
  its predecessor explains, so its credit is the same before and after.
  `MatchedIsAlwaysCurrent` goes the same way for the entries a case keeps.
* `FloorAddsNothing` and `MoreContextNeverHurts` are the facts about one event,
  whatever signals the assessment finds. `RiskIsBounded` lifts the bounds to cases:
  the noisy-or of a case is a product over its events, and a product does not grow
  where no factor does. A row remembers risks and not the signals they came
  from, so the invariant says what every assessment leaves in it
  (`RawPlausible`: the raw risk of a critical event is the highest).
* `ContextLowersRisk`: an approval that supersedes nothing only adds credit
  (`ApprovalOnlyCredits`) to the same evidence (`ApprovalKeepsEvidence`), and at the
  raw risks of any one assessment more credit is no more risk
  (`CreditLowersRisk`). The theorem holds the assessment fixed and varies the
  context, since two assessments may differ in their signals.
* `LateCreditIsSeen`: an event keeps its credit in every step but an approval, by
  `CreditInv`. If the approval of an entry gives an event that is past more credit, the
  entry explains that event, so `LateContext` holds whatever else is dated in
  the future; and the case that holds the event is among those reassessed, where a
  quarter more coverage sets the flag. Nothing is assumed of the weights on
  either side (`CoverageIsFlagged`).
* `LargerBudgetsHideNothing`: a case is within the budget if fewer cases are ahead
  of it than the budget allows; the order is strict, so as many are shown as are
  allowed.

**ChangePointProofs**: `OnlyRisesAreReported` and `ReverseTestIsReversed`, for
every series and every parameters that satisfy `Parameters` (the theorems'
hypothesis). Not inductive by themselves: that neither sum is left beyond Lambda
(`SumsInv`) is why the sample that crosses it must have pushed it. They say what the
detector does promise, next to the finding that says what it does not.

**Recursion and induction.** A library theorem of induction takes a predicate as
parameter and cannot be used here. Where an induction is needed (products and sums
over the events of a case, the records a rollback keeps, the ring of waiting
handlers), the counterexamples are collected in a set of numbers and the least
one is refuted (`WFMin`, `NatLessThanWellFounded`). What a rollback keeps is
written as the recursive function `Kept` and not with `SelectSeq`, which the
provers cannot expand.

**Assumptions worth a word.** `ResponseAssumption` has "nobody" neither a person
nor the key of an action; `CaseAssumption` has finitely many cases;
`JournalAssumption` has finitely many requests to begin with, and none of the
initial jobs is one that a call of `Calls` would leave, since jobs are named by
the call that left them.

**Only model-checked**: the liveness properties `AccessIsTemporary`,
`RevocationTakesEffect` and `HoldsEnd`, since TLAPS proves no liveness under
fairness and no ENABLED; and the disagreements of the `finding_*` runs, which are
shown by their counterexamples.

## 5. Known behaviour without a run of its own

The model reproduces these, and they explain the form of some properties.

* An evaluation made in MORE_CONTEXT_REQUIRED stays there although it is
  eligible, and `service.py:235` tells reviewers that the request awaits their
  approval; `record_approval` refuses it. Only an AI review leads out.
* Two overlapping appends choose the same predecessor, or commit in the order
  opposite to their timestamps; `verify_audit_chain` then reports a broken
  chain nobody tampered with. Hence `ChainVerifiesAlone` is conditional on no
  two transactions appending at once.
* The history route verifies the records of one request only. By
  `PartVerifiesIffClosed` that fails as soon as another request of the tenant
  wrote before one of them; `tests/test_jit_access.py:940` and `API_CONTRACT.md:299`
  have one request only.
* Of two creations that race with one key the loser gets the database's error
  (a 500), and not the stored response of `API_CONTRACT.md:254`. `AtMostOnce`
  holds all the same.
* Two workers, or a worker and a handler, can deadlock: they take the row and
  the audit record in opposite orders. PostgreSQL aborts one; if it is the worker,
  the exception leaves `run_worker`, which has no handler for it.
* No response route locks its row, so under PostgreSQL a terminal action is
  overwritten by a handler that loaded it earlier (`API_CONTRACT.md:191`).
  `TerminalStaysTerminal` is serial.
* When an action takes over a control, rolling it back turns the control off and
  does not restore the earlier action, though that one stays active without a
  control. `ControlFollowsOwner` speaks of the last owner for this reason.
* A review compares the coverage of two assessments (`routes.py:285`), whose weights
  may differ: the flag may come late by what the new weights took away, or be set
  for what they added. Context for an event dated in the future, approved
  before that date, never asks for the flag, although the event counts as soon as
  it is ingested.
* A detection overwrites the evidence of the newest live case by the events of
  its window; while the actor is latched an event joins no case. After a crash
  between latch and case there is a latch without a case (`LatchHasCase` names
  that exception).
* Leases are written in the claiming transaction and never committed alone;
  `tests/test_jit_access.py:755` commits one by hand to test its reclaim.

## 6. Not modelled

* A worker transaction takes one job, the code up to twenty: a batch only makes
  transactions longer, except that a failed flush spoils all of it (hazard at
  `worker.py:223`). Backoff and leases have no durations: a job in "retry" is
  due. Notifications and the Redis fan-out are left out.
* The AI review's cache, limiter and breaker: the worker makes a new provider for
  each review, so they never have a history.
* SQLite without row locks behaves between the two isolations.
* `CaseLifecycle` interleaves transactions and does not overlap them, and has one
  actor. Missing-classification events, texts and confidence labels are left
  out of fusion.
* The recomputation of a hash from stored columns succeeds for rows nobody altered.
* Statistics, trained models, rendering, fixtures, settings and migrations have
  no control flow worth exploring. `ChangePoint` leaves out floating-point
  rounding and the downward mode no caller asks for.

## 7. Plan

1. Proofs: a bound on how a chain can fork where transactions do overlap; which of
   the serial theorems survive under PostgreSQL in a weaker form.
2. `OutboxLease`: claim, lease, backoff and batches in discrete time.
3. `ReviewGuard`: limiter, breaker and cache of the AI review.
4. A composition of ingest, monitor, response control and access policy; case
   transactions that overlap.
