--------------------------- MODULE ResponseControl ---------------------------
(***************************************************************************)
(* Response actions: engine/response_service.py and its routes, the        *)
(* sandbox's controls (engine/sandbox_enforcement.py), the expiry task of  *)
(* main.py and the hold that the access monitor places.                    *)
(*                                                                         *)
(* No handler locks the action it loads.  Each is a transaction of two or  *)
(* three actions: it loads the row and decides on what it saw; an          *)
(* execution or a rollback then reads the control; the commit writes the   *)
(* columns that differ from what was loaded, whatever is in the row now.   *)
(* Isolation says whether other transactions run in between: "postgresql"  *)
(* or "serial", as in AccessControl.                                       *)
(*                                                                         *)
(* An action is named by its idempotency key, which is unique in the       *)
(* table.  Requests the handler refuses without effect are no steps.       *)
(* Time is the set of actions past their expires_at: what the policy       *)
(* allows always has one.  PostgreSQL may end a deadlock of an execution   *)
(* with a rollback by aborting one; Abort covers that.                     *)
(***************************************************************************)
EXTENDS ResponsePolicy

CONSTANTS
  Cases,        \* case ids
  EntityOf,     \* [Cases -> the actor's pseudonymous id]
  Facts,        \* what the assessments of a case may be
  Keys,         \* idempotency keys, one for each action that may be requested
  Asks,         \* the [case, type, scope] that may be requested
  People,       \* principals
  Sessions,     \* API sessions
  Expiry,       \* the expiry task's session
  ExpiryRuns,   \* is the task started: FALSE in production
  Faults,       \* how an execution may end: "none", "connector", "verification"
  Isolation,    \* "serial" or "postgresql"
  MaxAborts     \* bound: transactions that may end without a commit

Nobody == "nobody"

ASSUME ResponseAssumption ==
  /\ EntityOf \in [Cases -> STRING]
  /\ Facts \subseteq CaseFacts
  /\ \A a \in Asks : a.case \in Cases /\ a.type \in ActionType
  /\ Nobody \notin People \cup Keys
  /\ Expiry \notin Sessions
  /\ ExpiryRuns \in BOOLEAN
  /\ Faults \subseteq {"none", "connector", "verification"}
  /\ Isolation \in {"serial", "postgresql"}
  /\ MaxAborts \in Nat

VARIABLES
  facts,    \* the current assessment of each case
  action,   \* key -> row of response_actions, for the keys used
  control,  \* target -> row of sandbox_enforcement_state, for those applied
  due,      \* actions whose expires_at has passed
  txn,      \* the open transaction of each session
  aborts    \* transactions that ended without a commit

vars == <<facts, action, control, due, txn, aborts>>
-----------------------------------------------------------------------------
ALLOWED_TRANSITIONS ==
  [proposed          |-> {"auto_authorized", "awaiting_approval", "rejected"},
   auto_authorized   |-> {"executing", "expired", "rejected"},
   awaiting_approval |-> {"approved", "rejected"},
   approved          |-> {"executing", "expired"},
   executing         |-> {"active", "failed"},
   active            |-> {"expired", "rolled_back", "failed"},
   expired           |-> {},
   rolled_back       |-> {},
   failed            |-> {},
   rejected          |-> {}]

ActionRow == [ask : Asks, by : People, status : Status, decided : Status,
              approver : People \cup {Nobody}]

TargetOf(ask) == Target(ask.type, ask.scope, EntityOf[ask.case])
Executable(ask) == HasTarget(ask.type, ask.scope)
Controls == {TargetOf(ask) : ask \in {a \in Asks : Executable(a)}}

NoControl  == [active |-> FALSE, by |-> Nobody]
ControlRow == [active : BOOLEAN, by : Keys]

(* The row of a control, NoControl before its first execution.             *)
ControlOf(c) == IF c \in DOMAIN control THEN control[c] ELSE NoControl

Process == Sessions \cup {Expiry}
Idle    == [op |-> "idle"]
Open(p, op, phase) == txn[p].op = op /\ txn[p].phase = phase

Exclusive(p) == Isolation = "serial" => \A q \in Process \ {p} : txn[q] = Idle

Begins(p, t) == txn[p] = Idle /\ Exclusive(p) /\ txn' = [txn EXCEPT ![p] = t]
Ends(p)      == txn' = [txn EXCEPT ![p] = Idle]

(* An execution has flushed "executing" and keeps the row's lock.          *)
RowFree(p, k) ==
  \A q \in Process \ {p} : ~(Open(q, "execute", "touched") /\ k \in txn[q].keys)

Existing(c) ==
  {[type |-> action[k].ask.type, scope |-> action[k].ask.scope,
    status |-> action[k].status] :
     k \in {x \in DOMAIN action : action[x].ask.case = c}}

SetStatus(rows, K, status) ==
  [k \in DOMAIN rows |-> IF k \in K THEN [rows[k] EXCEPT !.status = status] ELSE rows[k]]
-----------------------------------------------------------------------------
(* Sandbox: what executing k leaves in the row of its control, given the   *)
(* row it read and the row as it is at the commit.  Only the columns that  *)
(* changed are written.                                                    *)
Applied(k, read, now) ==
  IF read = NoControl THEN [active |-> TRUE, by |-> k]
  ELSE [active |-> IF read.active THEN now.active ELSE TRUE,
        by     |-> IF read.by = k THEN now.by ELSE k]

(* Two executions that both found no row insert it; the second violates    *)
(* the unique constraint and its transaction is lost.                      *)
InsertClash(c, read) == read = NoControl /\ c \in DOMAIN control

(* Execute ask under key k with the control row that was read.             *)
Executed(k, ask, read, fault) ==
  IF fault = "connector" \/ ~Executable(ask) THEN control
  ELSE LET c == TargetOf(ask)
       IN  [x \in DOMAIN control \cup {c} |->
              IF x = c THEN Applied(k, read, ControlOf(c)) ELSE control[x]]

ExecutedStatus(ask, fault) ==
  IF fault = "none" /\ Executable(ask) THEN "active" ELSE "failed"

(* Mutant of RolledBack: the owner is cleared with the flag.               *)
RolledBackClearsOwner(K, read) ==
  [c \in DOMAIN control |->
     IF c \in DOMAIN read /\ read[c].by \in K THEN NoControl ELSE control[c]]

(* Mutant of RolledBack: the control's owner is not compared.              *)
RolledBackWhoever(K, read) ==
  [c \in DOMAIN control |->
     IF c \in DOMAIN read THEN [control[c] EXCEPT !.active = FALSE] ELSE control[c]]

(* Roll back the actions K: each turns its control off if the row read     *)
(* was its own.                                                            *)
RolledBack(K, read) ==
  [c \in DOMAIN control |->
     IF c \in DOMAIN read /\ read[c].by \in K
     THEN [control[c] EXCEPT !.active = FALSE] ELSE control[c]]
-----------------------------------------------------------------------------
(* create_action: replay of a used key has no effect; else the policy      *)
(* decides on the case and its actions as they are now.  The monitor's     *)
(* hold is executed in the same transaction.                               *)
Request(p, k, ask, who, op) ==
  /\ k \notin DOMAIN action
  /\ LET status == DecidedStatus(ask.type, ask.scope, facts[ask.case], Existing(ask.case))
     IN  Begins(p, [op |-> op, phase |-> "loaded", keys |-> {k},
                    row |-> [ask |-> ask, by |-> who, status |-> status,
                             decided |-> status, approver |-> Nobody],
                    read |-> IF Executable(ask) THEN ControlOf(TargetOf(ask)) ELSE NoControl])
  /\ UNCHANGED <<facts, action, control, due, aborts>>

(* The unique key: of two transactions with one key the later is lost.     *)
Insert(p) ==
  /\ Open(p, "create", "loaded")
  /\ \E k \in txn[p].keys :
       /\ k \notin DOMAIN action
       /\ action' = [x \in DOMAIN action \cup {k} |->
                       IF x = k THEN txn[p].row ELSE action[x]]
  /\ Ends(p)
  /\ UNCHANGED <<facts, control, due, aborts>>

InsertAndExecute(p) ==
  /\ Open(p, "contain", "loaded")
  /\ \E k \in txn[p].keys, fault \in Faults :
       LET row  == txn[p].row
           runs == row.status = "auto_authorized"
       IN  /\ k \notin DOMAIN action
           /\ runs /\ Executable(row.ask) => ~InsertClash(TargetOf(row.ask), txn[p].read)
           /\ action' = [x \in DOMAIN action \cup {k} |->
                IF x # k THEN action[x]
                ELSE IF runs THEN [row EXCEPT !.status = ExecutedStatus(row.ask, fault)]
                ELSE row]
           /\ control' = IF runs THEN Executed(k, row.ask, txn[p].read, fault) ELSE control
  /\ Ends(p)
  /\ UNCHANGED <<facts, due, aborts>>

KeyClash(p) ==
  /\ txn[p].op \in {"create", "contain"} /\ txn[p].keys \subseteq DOMAIN action
  /\ Ends(p)
  /\ UNCHANGED <<facts, action, control, due, aborts>>
-----------------------------------------------------------------------------
(* A handler loads action k; op and its guard are decided on what it sees. *)
Load(p, k, op, who) ==
  /\ k \in DOMAIN action
  /\ Begins(p, [op |-> op, phase |-> "loaded", keys |-> {k}, who |-> who])
  /\ UNCHANGED <<facts, action, control, due, aborts>>

(* Mutant of MayApprove: no separation of duties.                          *)
MayApproveOwn(row, who) == row.status = "awaiting_approval"

MayApprove(row, who) == row.status = "awaiting_approval" /\ row.by # who
(* Mutant of MayReject: whatever is not running may be rejected.           *)
MayRejectUnlessRunning(row) == row.status \notin {"executing", "active"}

MayReject(row)       == "rejected" \in ALLOWED_TRANSITIONS[row.status]

(* Mutant of MayExecute: the statuses out of which "executing" is reached. *)
MayExecuteAgain(row) == row.status \in {"auto_authorized", "approved", "executing", "expired"}

MayExecute(row)      == row.status \in {"auto_authorized", "approved", "executing"}
MayRollBack(row)     == row.status = "active"

LoadApprove(p, k, who) == MayApprove(action[k], who) /\ Load(p, k, "approve", who)
LoadReject(p, k, who)  == MayReject(action[k]) /\ Load(p, k, "reject", who)
LoadExecute(p, k)      == MayExecute(action[k]) /\ Load(p, k, "execute", Nobody)
LoadRollback(p, k)     == MayRollBack(action[k]) /\ Load(p, k, "rollback", Nobody)

Approve(p) ==
  /\ Open(p, "approve", "loaded")
  /\ \E k \in txn[p].keys :
       /\ RowFree(p, k)
       /\ action' = [action EXCEPT ![k].status = "approved", ![k].approver = txn[p].who]
  /\ Ends(p)
  /\ UNCHANGED <<facts, control, due, aborts>>

Reject(p) ==
  /\ Open(p, "reject", "loaded")
  /\ \A k \in txn[p].keys : RowFree(p, k)
  /\ action' = SetStatus(action, txn[p].keys, "rejected")
  /\ Ends(p)
  /\ UNCHANGED <<facts, control, due, aborts>>

(* The rows of the controls the transaction is about, as read now.         *)
ReadControls(K) ==
  LET found == {TargetOf(action[k].ask) : k \in {x \in K : Executable(action[x].ask)}}
  IN  [c \in found |-> ControlOf(c)]

(* The execution flushes "executing", which locks the row, and reads the   *)
(* control; a rollback reads the control first.                            *)
Touch(p) ==
  /\ txn[p].op \in {"execute", "rollback", "expire"} /\ txn[p].phase = "loaded"
  /\ txn[p].op = "execute" => \A k \in txn[p].keys : RowFree(p, k)
  /\ txn' = [txn EXCEPT ![p] = [op |-> txn[p].op, phase |-> "touched",
                                keys |-> txn[p].keys, read |-> ReadControls(txn[p].keys)]]
  /\ UNCHANGED <<facts, action, control, due, aborts>>

Execute(p) ==
  /\ Open(p, "execute", "touched")
  /\ \E k \in txn[p].keys, fault \in Faults :
       LET ask  == action[k].ask
           read == IF Executable(ask) THEN txn[p].read[TargetOf(ask)] ELSE NoControl
       IN  /\ Executable(ask) /\ fault # "connector" => ~InsertClash(TargetOf(ask), read)
           /\ control' = Executed(k, ask, read, fault)
           /\ action' = SetStatus(action, {k}, ExecutedStatus(ask, fault))
  /\ Ends(p)
  /\ UNCHANGED <<facts, due, aborts>>

Rollback(p) ==
  /\ Open(p, "rollback", "touched")
  /\ \A k \in txn[p].keys : RowFree(p, k)
  /\ control' = RolledBack(txn[p].keys, txn[p].read)
  /\ action' = SetStatus(action, txn[p].keys, "rolled_back")
  /\ Ends(p)
  /\ UNCHANGED <<facts, due, aborts>>
-----------------------------------------------------------------------------
(* Mutant of DueActions: only what a person approved is looked up.         *)
DueApproved ==
  {k \in DOMAIN action \cap due : action[k].status = "active" /\ action[k].approver # Nobody}

DueActions == {k \in DOMAIN action \cap due : action[k].status = "active"}

LoadExpire ==
  /\ ExpiryRuns /\ DueActions # {}
  /\ Begins(Expiry, [op |-> "expire", phase |-> "loaded", keys |-> DueActions])
  /\ UNCHANGED <<facts, action, control, due, aborts>>

Expire ==
  /\ Open(Expiry, "expire", "touched")
  /\ \A k \in txn[Expiry].keys : RowFree(Expiry, k)
  /\ control' = RolledBack(txn[Expiry].keys, txn[Expiry].read)
  /\ action' = SetStatus(action, txn[Expiry].keys, "expired")
  /\ Ends(Expiry)
  /\ UNCHANGED <<facts, due, aborts>>

(* A transaction ends without its commit: the process dies, a constraint   *)
(* or a deadlock.                                                          *)
Abort(p) ==
  /\ txn[p] # Idle /\ aborts < MaxAborts
  /\ Ends(p)
  /\ aborts' = aborts + 1
  /\ UNCHANGED <<facts, action, control, due>>

ControlClash(p) ==
  /\ \/ /\ Open(p, "execute", "touched")
        /\ \E c \in DOMAIN txn[p].read : InsertClash(c, txn[p].read[c])
     \/ /\ Open(p, "contain", "loaded") /\ txn[p].row.status = "auto_authorized"
        /\ Executable(txn[p].row.ask)
        /\ InsertClash(TargetOf(txn[p].row.ask), txn[p].read)
  /\ Ends(p)
  /\ UNCHANGED <<facts, action, control, due, aborts>>

TtlElapses(k) ==
  /\ k \in DOMAIN action \ due /\ action[k].decided # "rejected"
  /\ due' = due \cup {k}
  /\ UNCHANGED <<facts, action, control, txn, aborts>>

Reassess(c, f) ==
  /\ f # facts[c] /\ facts' = [facts EXCEPT ![c] = f]
  /\ UNCHANGED <<action, control, due, txn, aborts>>
-----------------------------------------------------------------------------
Init ==
  /\ facts \in [Cases -> Facts]
  /\ action = <<>>
  /\ control = <<>>
  /\ due = {}
  /\ txn = [p \in Process |-> Idle]
  /\ aborts = 0

Starts ==
  \E p \in Sessions, k \in Keys :
    \/ \E ask \in Asks, who \in People : Request(p, k, ask, who, "create")
    \/ \E ask \in Asks : ask.type \in Tier2
                         /\ \E who \in People : Request(p, k, ask, who, "contain")
    \/ k \in DOMAIN action /\ (\/ LoadExecute(p, k)
                               \/ LoadRollback(p, k)
                               \/ \E who \in People : LoadApprove(p, k, who) \/ LoadReject(p, k, who))

Continues(p) ==
  \/ Insert(p) \/ InsertAndExecute(p) \/ KeyClash(p) \/ ControlClash(p)
  \/ Approve(p) \/ Reject(p) \/ Touch(p) \/ Execute(p) \/ Rollback(p)

ExpiryStep == LoadExpire \/ Touch(Expiry) \/ Expire

Next ==
  \/ Starts
  \/ \E p \in Sessions : Continues(p)
  \/ ExpiryStep
  \/ \E p \in Process : Abort(p)
  \/ \E k \in Keys : TtlElapses(k)
  \/ \E c \in Cases, f \in Facts : Reassess(c, f)

Spec == Init /\ [][Next]_vars

(* A handler that was called reaches its commit; the expiry task runs      *)
(* every five seconds; time passes.                                        *)
Fairness ==
  /\ \A p \in Sessions : WF_vars(Continues(p))
  /\ SF_vars(LoadExpire)
  /\ WF_vars(Touch(Expiry) \/ Expire)
  /\ \A k \in Keys : WF_vars(TtlElapses(k))

FairSpec == Spec /\ Fairness
=============================================================================
