---------------------------- MODULE RequestJournal ----------------------------
(***************************************************************************)
(* The transactions around the access workflow, under PostgreSQL's READ    *)
(* COMMITTED: the idempotency records of the mutation routes               *)
(* (api/access_routes.py), the row lock their handlers take, the records   *)
(* append_audit chains (access_control/audit.py), and the worker and the   *)
(* monitor, which take the same locks in another order.                    *)
(*                                                                         *)
(* A handler that works on a request locks its row first and then, for     *)
(* each record it appends, the newest record of the tenant.  A worker      *)
(* reads the row without a lock; the session does not flush by itself, so  *)
(* it locks the newest record first and the row when it flushes.  Creating *)
(* a request and acknowledging a notification lock no row: the unique      *)
(* constraint of the idempotency table is all that keeps two of one key    *)
(* apart.                                                                  *)
(*                                                                         *)
(* SELECT ... FOR UPDATE chooses its row in the snapshot the statement     *)
(* starts with and then waits for that row; records are only inserted, so  *)
(* the row chosen is the row returned, however many were added meanwhile.  *)
(*                                                                         *)
(* What the workflow decides is left to AccessControl: any handler may     *)
(* refuse.  One tenant; a worker's transaction takes one job.  A monitor   *)
(* is a worker whose job is an event.  Timestamps are the order in which   *)
(* they were taken, so no two are equal.                                   *)
(***************************************************************************)
EXTENDS AuditChain, Sequences, SequencesExt

CONSTANTS
  Calls,      \* [op, request, key, body] that clients may send, at any time
  Existing,   \* the requests there are to begin with, one record of each
  Pending,    \* and the jobs for them
  Sessions,   \* API sessions
  Workers,    \* worker processes and monitors
  Nobody      \* the writer of a record that is committed

Operation == {"create", "evidence", "evaluate", "ai_review", "request_context",
              "approve", "deny", "revoke", "acknowledge"}

JobType == {"AI_REVIEW", "ENFORCEMENT", "REVOCATION", "EXPIRY"}

VARIABLES
  rows,      \* request -> how often its row was written, for those created
  stored,    \* [op, request, key] -> the body answered for: mutation_idempotency
  table,     \* audit_records by timestamp, those of open transactions included
  jobs,      \* jobs of the outbox that are not done
  txn,       \* the open transaction of each process
  executed,  \* call -> how often its effects were committed
  told,      \* the calls a client was told are done
  overlap    \* have two transactions ever been appending at once?

vars == <<rows, stored, table, jobs, txn, executed, told, overlap>>
-----------------------------------------------------------------------------
(* How many records a transaction appends, and the job its commit leaves.  *)
Appends ==
  [create |-> {1}, evidence |-> 0..2, evaluate |-> {0, 1}, ai_review |-> {1},
   request_context |-> {1}, approve |-> 1..4, deny |-> 2..3, revoke |-> {1},
   acknowledge |-> {0},
   AI_REVIEW |-> {2}, ENFORCEMENT |-> {1}, REVOCATION |-> 0..2, EXPIRY |-> 0..2]

JobOf ==
  [ai_review |-> "AI_REVIEW", approve |-> "ENFORCEMENT", revoke |-> "REVOCATION"]

JobLeft(c) ==
  IF c.op \in DOMAIN JobOf THEN {[c EXCEPT !.op = JobOf[c.op]]} ELSE {}

LocksRow(op) == op \notin {"create", "acknowledge"}

(* The unique key of the idempotency table: the operation carries the id   *)
(* of the request or notification, except for create.                      *)
KeyOf(c) == [op |-> c.op, request |-> IF c.op = "create" THEN "-" ELSE c.request, key |-> c.key]

(* A call is known by its key and its body: the request it creates is      *)
(* named by the key, and by no other.  A job is known by the call that     *)
(* left it: those there are to begin with were left by none of Calls.      *)
ASSUME JournalAssumption ==
  /\ \A c \in Calls : /\ DOMAIN c = {"op", "request", "key", "body"}
                      /\ c.op \in Operation
                      /\ c.op = "create" => c.request \notin Existing
  /\ \A c, d \in Calls :
       /\ KeyOf(c) = KeyOf(d) /\ c.body = d.body => c = d
       /\ c.op = "create" /\ d.op = "create" /\ c.request = d.request => c.key = d.key
  /\ \A j \in Pending : j.op \in JobType /\ j.request \in Existing
  /\ \A c \in Calls : JobLeft(c) \cap Pending = {}
  /\ IsFiniteSet(Existing)
  /\ Sessions \cap Workers = {}
  /\ Nobody \notin Sessions \cup Workers

Process == Sessions \cup Workers
Idle    == [phase |-> "idle"]

(* phase: what comes next.  read: the row as loaded.  part: records        *)
(* flushed so far.  previous: the record chosen last.  locked: hashes of   *)
(* the records locked.  holds: is the request's row locked?                *)
Opened(phase, c) ==
  [phase |-> phase, call |-> c, read |-> 0, part |-> 0, previous |-> Genesis,
   locked |-> {}, holds |-> FALSE]

At(p, phase) == txn[p].phase = phase
IsOpen(p)    == txn[p] # Idle
Call(p)      == txn[p].call

Hash(p) == [call |-> Call(p), part |-> txn[p].part]

HoldsRow(q, r) == IsOpen(q) /\ txn[q].holds /\ Call(q).request = r
HoldsKey(q, k) == q \in Sessions /\ IsOpen(q) /\ KeyOf(Call(q)) = k
                  /\ txn[q].phase \notin {"row", "select", "insert"}
HoldsRecord(q, h) == IsOpen(q) /\ h \in txn[q].locked

(* Whom a process waits for: the holder of the one lock it asks for.       *)
WaitsFor(p) ==
  {q \in Process \ {p} :
     \/ At(p, "row") /\ HoldsRow(q, Call(p).request)
     \/ At(p, "insert") /\ HoldsKey(q, KeyOf(Call(p)))
     \/ At(p, "tail") /\ HoldsRecord(q, txn[p].previous)
     \/ At(p, "flush") /\ LocksRow(Call(p).op) /\ ~txn[p].holds
        /\ HoldsRow(q, Call(p).request)}

Free(p) == WaitsFor(p) = {}

(* Everybody in S waits, and for each other.                               *)
Deadlocked(S) == S # {} /\ S = UNION {WaitsFor(p) : p \in S}

(* What a query of p sees: records committed and its own, once flushed.    *)
Visible(p) == {i \in DOMAIN table : \/ table[i].writer = Nobody
                                    \/ table[i].writer = p /\ table[i].flushed}

Committed == {i \in DOMAIN table : table[i].writer = Nobody}
-----------------------------------------------------------------------------
(* The records of t at the positions I, in their order.                    *)
Kept(t, I) ==
  LET upTo[i \in 0..Len(t)] == IF i = 0 THEN <<>>
                               ELSE IF i \in I THEN Append(upTo[i - 1], t[i]) ELSE upTo[i - 1]
  IN  upTo[Len(t)]

(* Mutant: a session that ends leaves what it flushed.                     *)
RolledBack_Flushed(p) ==
  Kept(table, {i \in DOMAIN table : table[i].writer # p \/ table[i].flushed})

(* get_db closes the session: whatever was not committed is rolled back.   *)
RolledBack(p) == Kept(table, {i \in DOMAIN table : table[i].writer # p})

Ends(p) == txn' = [txn EXCEPT ![p] = Idle] /\ table' = RolledBack(p)

Moves(p, phase) == txn' = [txn EXCEPT ![p].phase = phase]

(* A client sends a call, again and again until it is told that it is      *)
(* done.  An answer that is lost and asked for again is the second of two  *)
(* sessions that wait while the first commits.                             *)
Begin(s, c) ==
  /\ ~IsOpen(s) /\ c \notin told
  /\ txn' = [txn EXCEPT ![s] = Opened(IF LocksRow(c.op) THEN "row" ELSE "select", c)]
  /\ UNCHANGED <<rows, stored, table, jobs, executed, told, overlap>>

(* Mutant: the row is read without FOR UPDATE.                             *)
LockRow_NoForUpdate(s) ==
  /\ At(s, "row") /\ Call(s).request \in DOMAIN rows
  /\ txn' = [txn EXCEPT ![s].phase = "select", ![s].read = rows[Call(s).request]]
  /\ UNCHANGED <<rows, stored, table, jobs, executed, told, overlap>>

(* _request_or_404 with lock                                               *)
LockRow(s) ==
  /\ At(s, "row") /\ Free(s) /\ Call(s).request \in DOMAIN rows
  /\ txn' = [txn EXCEPT ![s].phase = "select", ![s].holds = TRUE,
                        ![s].read = rows[Call(s).request]]
  /\ UNCHANGED <<rows, stored, table, jobs, executed, told, overlap>>

NotFound(s) ==
  /\ At(s, "row") /\ Call(s).request \notin DOMAIN rows
  /\ Ends(s)
  /\ UNCHANGED <<rows, stored, jobs, executed, told, overlap>>

(* Mutant: the digest of the body is not compared.                         *)
Replay_AnyBody(s) ==
  /\ At(s, "select") /\ KeyOf(Call(s)) \in DOMAIN stored
  /\ told' = told \cup {Call(s)}
  /\ Ends(s)
  /\ UNCHANGED <<rows, stored, jobs, executed, overlap>>

(* _idempotency_replay: the stored answer for the same body, a conflict    *)
(* for another one, and a new row if there is none.                        *)
Replay(s) ==
  /\ At(s, "select") /\ KeyOf(Call(s)) \in DOMAIN stored
  /\ told' = IF stored[KeyOf(Call(s))] = Call(s).body THEN told \cup {Call(s)} ELSE told
  /\ Ends(s)
  /\ UNCHANGED <<rows, stored, jobs, executed, overlap>>

FirstTime(s) ==
  /\ At(s, "select") /\ KeyOf(Call(s)) \notin DOMAIN stored
  /\ Moves(s, "insert")
  /\ UNCHANGED <<rows, stored, table, jobs, executed, told, overlap>>

(* Mutant: the table has no unique constraint.                             *)
InsertKey_NotUnique(s) ==
  /\ At(s, "insert")
  /\ Moves(s, "work")
  /\ UNCHANGED <<rows, stored, table, jobs, executed, told, overlap>>

InsertKey(s) ==
  /\ At(s, "insert") /\ Free(s) /\ KeyOf(Call(s)) \notin DOMAIN stored
  /\ Moves(s, "work")
  /\ UNCHANGED <<rows, stored, table, jobs, executed, told, overlap>>

(* The other one committed first: an IntegrityError no handler catches.    *)
Duplicate(s) ==
  /\ At(s, "insert") /\ Free(s) /\ KeyOf(Call(s)) \in DOMAIN stored
  /\ Ends(s)
  /\ UNCHANGED <<rows, stored, jobs, executed, told, overlap>>

(* The operation raises before it has appended anything.                   *)
Refuse(s) ==
  /\ At(s, "work") /\ txn[s].part = 0
  /\ Ends(s)
  /\ UNCHANGED <<rows, stored, jobs, executed, told, overlap>>

(* claim_jobs, with SKIP LOCKED, and the unlocked read of the row          *)
Claim(w, j) ==
  /\ ~IsOpen(w) /\ j \in jobs
  /\ \A v \in Workers : IsOpen(v) => Call(v) # j
  /\ txn' = [txn EXCEPT ![w] = [Opened("work", j) EXCEPT !.read = rows[j.request]]]
  /\ UNCHANGED <<rows, stored, table, jobs, executed, told, overlap>>

(* append_audit: the timestamp is taken first ...                          *)
Stamp(p) ==
  /\ At(p, "work") /\ \E n \in Appends[Call(p).op] : txn[p].part < n
  /\ table' = Append(table, [hash |-> Hash(p), previous |-> Genesis, writer |-> p,
                             request |-> Call(p).request, flushed |-> FALSE])
  /\ overlap' = (overlap \/ \E i \in DOMAIN table : table[i].writer \notin {p, Nobody})
  /\ Moves(p, "stamped")
  /\ UNCHANGED <<rows, stored, jobs, executed, told>>

(* Mutant: the newest record of the same request is chosen.                *)
ChooseTail_OfRequest(p) ==
  LET I == {i \in Visible(p) : table[i].request = Call(p).request} IN
  /\ At(p, "stamped")
  /\ txn' = [txn EXCEPT ![p].previous = HashOfNewest(table, I),
                        ![p].phase = IF I = {} THEN "flush" ELSE "tail"]
  /\ UNCHANGED <<rows, stored, table, jobs, executed, told, overlap>>

(* ... then the newest record is chosen, ...                               *)
ChooseTail(p) ==
  /\ At(p, "stamped")
  /\ txn' = [txn EXCEPT ![p].previous = HashOfNewest(table, Visible(p)),
                        ![p].phase = IF Visible(p) = {} THEN "flush" ELSE "tail"]
  /\ UNCHANGED <<rows, stored, table, jobs, executed, told, overlap>>

(* ... locked, ...                                                         *)
LockTail(p) ==
  /\ At(p, "tail") /\ Free(p)
  /\ txn' = [txn EXCEPT ![p].locked = @ \cup {txn[p].previous}, ![p].phase = "flush"]
  /\ UNCHANGED <<rows, stored, table, jobs, executed, told, overlap>>

(* ... and the new record written, together with all that waits to be:     *)
(* here a worker updates the request's row and with that locks it.         *)
Flush(p) ==
  /\ At(p, "flush") /\ Free(p)
  /\ txn' = [txn EXCEPT ![p].phase = "work", ![p].part = @ + 1,
                        ![p].holds = LocksRow(Call(p).op)]
  /\ table' = [i \in DOMAIN table |->
                 IF table[i].writer = p /\ ~table[i].flushed
                   THEN [table[i] EXCEPT !.flushed = TRUE, !.previous = txn[p].previous]
                   ELSE table[i]]
  /\ UNCHANGED <<rows, stored, jobs, executed, told, overlap>>

(* The row as the transaction leaves it: a second upload of the same       *)
(* evidence, and one that is not verified, do not write it.                *)
RowsAfter(p) ==
  LET c == Call(p)
  IN  CASE c.op = "create" -> [r \in DOMAIN rows \cup {c.request} |->
                                 IF r = c.request THEN 1 ELSE rows[r]]
        [] c.op = "acknowledge" \/ (c.op = "evidence" /\ txn[p].part < 2) -> rows
        [] c.op \in {"REVOCATION", "EXPIRY"} /\ txn[p].part = 0 -> rows
        [] OTHER -> [rows EXCEPT ![c.request] = txn[p].read + 1]

TableAfter(p) == [i \in DOMAIN table |-> IF table[i].writer = p
                                           THEN [table[i] EXCEPT !.writer = Nobody]
                                           ELSE table[i]]

Finished(p) == At(p, "work") /\ txn[p].part \in Appends[Call(p).op]

(* _idempotency_finish and the commit of a handler                         *)
Commit(s) ==
  LET c == Call(s) IN
  /\ s \in Sessions /\ Finished(s)
  /\ rows' = RowsAfter(s)
  /\ stored' = [k \in DOMAIN stored \cup {KeyOf(c)} |->
                  IF k = KeyOf(c) THEN c.body ELSE stored[k]]
  /\ jobs' = jobs \cup JobLeft(c)
  /\ executed' = [executed EXCEPT ![c] = @ + 1]
  /\ told' = told \cup {c}
  /\ table' = TableAfter(s)
  /\ txn' = [txn EXCEPT ![s] = Idle]
  /\ UNCHANGED overlap

(* complete_job and the commit of a worker                                 *)
Complete(w) ==
  /\ w \in Workers /\ Finished(w)
  /\ rows' = RowsAfter(w)
  /\ jobs' = jobs \ {Call(w)}
  /\ table' = TableAfter(w)
  /\ txn' = [txn EXCEPT ![w] = Idle]
  /\ UNCHANGED <<stored, executed, told, overlap>>

(* PostgreSQL ends a deadlock by aborting one of those in it.  The handler *)
(* answers with an error; a worker's process ends and is started again.    *)
Victim(p) ==
  /\ IsOpen(p) /\ ~Free(p) /\ \E S \in SUBSET Process : p \in S /\ Deadlocked(S)
  /\ Ends(p)
  /\ UNCHANGED <<rows, stored, jobs, executed, told, overlap>>

(* The process or its connection is lost before the commit.                *)
Crash(p) ==
  /\ IsOpen(p)
  /\ Ends(p)
  /\ UNCHANGED <<rows, stored, jobs, executed, told, overlap>>
-----------------------------------------------------------------------------
FirstRecords ==
  LET order   == SetToSeq(Existing)
      hash(i) == [call |-> [op |-> "create", request |-> order[i], key |-> "-", body |-> "-"],
                  part |-> 0]
  IN  [i \in DOMAIN order |->
         [hash |-> hash(i), previous |-> IF i = 1 THEN Genesis ELSE hash(i - 1),
          writer |-> Nobody, request |-> order[i], flushed |-> TRUE]]

Init ==
  /\ rows = [r \in Existing |-> 1]
  /\ stored = <<>>
  /\ table = FirstRecords
  /\ jobs = Pending
  /\ txn = [p \in Process |-> Idle]
  /\ executed = [c \in Calls |-> 0]
  /\ told = {}
  /\ overlap = FALSE

Continues(p) ==
  \/ LockRow(p) \/ NotFound(p) \/ Replay(p) \/ FirstTime(p) \/ InsertKey(p) \/ Duplicate(p)
  \/ Refuse(p) \/ Stamp(p) \/ ChooseTail(p) \/ LockTail(p) \/ Flush(p)
  \/ Commit(p) \/ Complete(p)

Next ==
  \/ \E s \in Sessions, c \in Calls : Begin(s, c)
  \/ \E w \in Workers : \E j \in jobs : Claim(w, j)
  \/ \E p \in Process : Continues(p) \/ Victim(p) \/ Crash(p)

Spec == Init /\ [][Next]_vars
=============================================================================
