-------------------------- MODULE RequestJournalProofs --------------------------
(***************************************************************************)
(* For any calls, requests, sessions, workers and monitors: the types, a   *)
(* key takes effect once, an answer is true, a handler decides on the row  *)
(* as it is, handlers never wait in a circle, and the records are a chain  *)
(* as long as no two transactions append at once.                          *)
(*                                                                         *)
(* The properties are not inductive by themselves.  What carries them is   *)
(* JournalInv, what an open transaction relies on: the row it read is      *)
(* locked, its key is not stored, no other one has either, and what is     *)
(* stored is what was executed; TableInv, what is known of the records:    *)
(* no two have the same hash, and those of open transactions are theirs;   *)
(* RecordLocks, that a transaction only locks records it saw, the newest   *)
(* last; and ChainInv, how a chain grows at its end.                       *)
(***************************************************************************)
EXTENDS RequestJournalProperties, AuditChainProofs, FiniteSetTheorems, SequenceTheorems,
        NaturalsInduction, WellFoundedInduction, TLAPS

Field   == {"phase", "call", "read", "part", "previous", "locked", "holds"}
Working == {"work", "stamped", "tail", "flush"}

(* The state t of a process with an open transaction, whatever it is.      *)
WellFormed(t) ==
  /\ DOMAIN t = Field
  /\ t.part \in Nat
  /\ t.holds \in BOOLEAN
  /\ t.holds => LocksRow(t.call.op)

(* A session's: from the lock on it has the row as it is, and from the     *)
(* insertion on its key is not stored.                                     *)
Handling(t) ==
  /\ t.call \in Calls
  /\ t.phase \in {"row", "select", "insert"} \cup Working
  /\ t.phase = "row" => LocksRow(t.call.op) /\ ~t.holds
  /\ LocksRow(t.call.op) /\ t.phase # "row" =>
       t.holds /\ t.call.request \in DOMAIN rows /\ t.read = rows[t.call.request]
  /\ t.phase \in Working => KeyOf(t.call) \notin DOMAIN stored

(* A worker's: what it has flushed has locked the row.                     *)
Serving(t) ==
  /\ t.call.op \in JobType
  /\ t.phase \in Working
  /\ t.part > 0 => t.holds

Proper(p, t) ==
  t # Idle => /\ WellFormed(t)
              /\ p \in Sessions => Handling(t)
              /\ p \in Workers => Serving(t)

(* Nobody shares a lock: neither a row nor, among sessions, a key.         *)
ApartRows(t, u) ==
  t # Idle /\ u # Idle /\ t.holds /\ u.holds => t.call.request # u.call.request

ApartKeys(t, u) ==
  t # Idle /\ u # Idle /\ t.phase \in Working /\ u.phase \in Working
    => KeyOf(t.call) # KeyOf(u.call)

Apart(p, t, q, u) ==
  /\ ApartRows(t, u)
  /\ p \in Sessions /\ q \in Sessions => ApartKeys(t, u)

Transactions ==
  /\ DOMAIN txn = Process
  /\ \A p \in Process : Proper(p, txn[p])
  /\ \A p, q \in Process : p # q => Apart(p, txn[p], q, txn[q])

(* What is stored was executed, and what was executed is stored.           *)
Ledger ==
  /\ \A j \in jobs : j.op \in JobType
  /\ executed \in [Calls -> Nat]
  /\ told \subseteq Calls
  /\ \A c \in Calls : executed[c] > 0 => KeyOf(c) \in DOMAIN stored
  /\ \A k \in DOMAIN stored :
       \E c \in Calls : KeyOf(c) = k /\ stored[k] = c.body /\ executed[c] > 0
  /\ \A c \in Calls : c.op = "create" /\ c.request \in DOMAIN rows => KeyOf(c) \in DOMAIN stored
  /\ AtMostOnce
  /\ AnswersAreTrue

JournalInv == Transactions /\ Ledger
-----------------------------------------------------------------------------
LEMMA InvariantInitially == Init => JournalInv
<1> SUFFICES ASSUME Init PROVE JournalInv
  OBVIOUS
<1>1. Transactions
  BY DEF Init, Transactions, Proper, Apart, ApartRows, ApartKeys
<1>2. Ledger
  BY JournalAssumption DEF Init, Ledger, AtMostOnce, AnswersAreTrue
<1>3. QED
  BY <1>1, <1>2 DEF JournalInv

(* A step of one process that leaves rows and keys alone needs to be       *)
(* looked at for that process only.                                        *)
LEMMA Moved ==
  ASSUME Transactions, NEW p \in Process, NEW t,
         txn' = [txn EXCEPT ![p] = t],
         UNCHANGED <<rows, stored>>,
         Proper(p, t),
         \A q \in Process \ {p} : Apart(p, t, q, txn[q])
  PROVE  Transactions'
<1>1. DOMAIN txn' = Process /\ txn'[p] = t /\ \A q \in Process \ {p} : txn'[q] = txn[q]
  BY DEF Transactions
<1>2. ASSUME NEW q \in Process PROVE Proper(q, txn[q])'
  <2>1. Proper(q, txn'[q])
    BY <1>1 DEF Transactions
  <2>2. QED
    BY <2>1 DEF Proper, WellFormed, Handling, Serving
<1>3. ASSUME NEW q \in Process, NEW r \in Process, q # r
      PROVE  Apart(q, txn[q], r, txn[r])'
  <2>1. CASE q = p
    BY <1>1, <1>3, <2>1 DEF Apart
  <2>2. CASE r = p
    <3>1. Apart(p, t, q, txn[q])
      BY <1>3, <2>2
    <3>2. QED
      BY <1>1, <1>3, <2>2, <3>1 DEF Apart, ApartRows, ApartKeys
  <2>3. CASE q # p /\ r # p
    BY <1>1, <1>3, <2>3 DEF Apart, Transactions
  <2>4. QED
    BY <2>1, <2>2, <2>3
<1>4. QED
  BY <1>1, <1>2, <1>3 DEF Transactions

(* A transaction that goes on, with the locks it has, stays apart.         *)
LEMMA KeepsLocks ==
  ASSUME Transactions, NEW p \in Process, txn[p] # Idle, NEW t,
         txn' = [txn EXCEPT ![p] = t],
         UNCHANGED <<rows, stored>>,
         t # Idle, Proper(p, t),
         t.call = txn[p].call, t.holds = txn[p].holds,
         t.phase \in Working => txn[p].phase \in Working
  PROVE  Transactions'
<1>1. ASSUME NEW q \in Process \ {p} PROVE Apart(p, t, q, txn[q])
  <2>1. Apart(p, txn[p], q, txn[q])
    BY DEF Transactions
  <2>2. QED
    BY <2>1 DEF Apart, ApartRows, ApartKeys
<1>2. QED
  BY <1>1, Moved

LEMMA Ended ==
  ASSUME Transactions, NEW p \in Process, Ends(p), UNCHANGED <<rows, stored>>
  PROVE  Transactions'
<1>1. Proper(p, Idle) /\ \A q \in Process \ {p} : Apart(p, Idle, q, txn[q])
  BY DEF Proper, Apart, ApartRows, ApartKeys
<1>2. txn' = [txn EXCEPT ![p] = Idle]
  BY DEF Ends
<1>3. QED
  BY <1>1, <1>2, Moved

LEMMA LedgerKept ==
  ASSUME Ledger, UNCHANGED <<rows, stored, jobs, executed, told>> PROVE Ledger'
BY DEF Ledger, AtMostOnce, AnswersAreTrue
-----------------------------------------------------------------------------
(* The steps of a transaction before its commit, one lemma each for those  *)
(* that take a lock.                                                       *)
LEMMA BeginKeeps ==
  ASSUME Transactions, NEW s \in Sessions, NEW c \in Calls, Begin(s, c)
  PROVE  Transactions'
<1> DEFINE t == Opened(IF LocksRow(c.op) THEN "row" ELSE "select", c)
<1>1. /\ DOMAIN t = Field /\ t.part = 0 /\ t.holds \in BOOLEAN /\ ~t.holds /\ t.call = c
      /\ t.phase = IF LocksRow(c.op) THEN "row" ELSE "select"
  BY DEF Opened, Field
<1>2. s \notin Workers /\ s \in Process
  BY JournalAssumption DEF Process
<1> HIDE DEF t
<1>a. WellFormed(t)
  BY <1>1 DEF WellFormed
<1>b. Handling(t)
  <2>1. CASE LocksRow(c.op)
    BY <1>1, <2>1 DEF Handling, Working
  <2>2. CASE ~LocksRow(c.op)
    BY <1>1, <2>2 DEF Handling, Working
  <2>3. QED
    BY <2>1, <2>2
<1>3. Proper(s, t)
  BY <1>2, <1>a, <1>b DEF Proper
<1>4. \A q \in Process \ {s} : Apart(s, t, q, txn[q])
  BY <1>1 DEF Apart, ApartRows, ApartKeys, Working
<1>5. txn' = [txn EXCEPT ![s] = t] /\ UNCHANGED <<rows, stored>>
  BY DEF Begin, t
<1>6. QED
  BY <1>2, <1>3, <1>4, <1>5, Moved

LEMMA ClaimKeeps ==
  ASSUME JournalInv, NEW w \in Workers, NEW j \in jobs, Claim(w, j)
  PROVE  Transactions'
<1> DEFINE t == [Opened("work", j) EXCEPT !.read = rows[j.request]]
<1>1. /\ DOMAIN t = Field /\ t.part = 0 /\ t.holds \in BOOLEAN /\ ~t.holds /\ t.call = j
      /\ t.phase = "work"
  BY DEF Opened, Field
<1>2. w \notin Sessions /\ w \in Process /\ j.op \in JobType
  BY JournalAssumption DEF Process, JournalInv, Ledger
<1> HIDE DEF t
<1>3. Proper(w, t)
  BY <1>1, <1>2 DEF Proper, WellFormed, Serving, Working
<1>4. \A q \in Process \ {w} : Apart(w, t, q, txn[q])
  BY <1>1, <1>2 DEF Apart, ApartRows
<1>5. txn' = [txn EXCEPT ![w] = t] /\ UNCHANGED <<rows, stored>>
  BY DEF Claim, t
<1>6. QED
  BY <1>2, <1>3, <1>4, <1>5, Moved DEF JournalInv

(* An open transaction of p, as the invariant describes it.                *)
LEMMA WhileOpen ==
  ASSUME Transactions, NEW p \in Process, txn[p] # Idle
  PROVE  /\ WellFormed(txn[p])
         /\ p \in Sessions => Handling(txn[p])
         /\ p \in Workers => Serving(txn[p])
BY DEF Transactions, Proper

LEMMA NotIdle ==
  ASSUME NEW p, txn[p].phase # "idle" PROVE txn[p] # Idle
BY DEF Idle

LEMMA LockRowKeeps ==
  ASSUME Transactions, NEW p \in Process, LockRow(p)
  PROVE  Transactions'
<1> DEFINE u == txn[p]
           t == [u EXCEPT !.phase = "select", !.holds = TRUE, !.read = rows[u.call.request]]
<1>1. u # Idle /\ u.phase = "row"
  BY NotIdle DEF LockRow, At
<1>2. WellFormed(u) /\ ~(p \in Workers) /\ Handling(u)
  BY <1>1, WhileOpen DEF Process, Serving, Working
<1>3. /\ DOMAIN t = Field /\ t.part = u.part /\ t.holds = TRUE /\ t.call = u.call
      /\ t.phase = "select" /\ t.read = rows[u.call.request]
  BY <1>2 DEF WellFormed, Field
<1>4. LocksRow(u.call.op)
  BY <1>1, <1>2 DEF Handling
<1>5. Proper(p, t)
  BY <1>2, <1>3, <1>4 DEF Proper, WellFormed, Handling, Working, LockRow, Call
<1>6. ASSUME NEW q \in Process \ {p} PROVE Apart(p, t, q, txn[q])
  BY <1>3, <1>6 DEF Apart, ApartRows, ApartKeys, Working, LockRow, Free, WaitsFor, HoldsRow, IsOpen, At, Call
<1>7. txn' = [txn EXCEPT ![p] = t] /\ UNCHANGED <<rows, stored>>
  BY DEF LockRow, Call
<1>8. QED
  BY <1>5, <1>6, <1>7, Moved

LEMMA InsertKeyKeeps ==
  ASSUME Transactions, NEW p \in Process, InsertKey(p)
  PROVE  Transactions'
<1> DEFINE u == txn[p]
           t == [u EXCEPT !.phase = "work"]
<1>1. u # Idle /\ u.phase = "insert"
  BY NotIdle DEF InsertKey, At
<1>2. WellFormed(u) /\ ~(p \in Workers) /\ Handling(u) /\ p \in Sessions
  BY <1>1, WhileOpen DEF Process, Serving, Working
<1>3. /\ DOMAIN t = Field /\ t.part = u.part /\ t.holds = u.holds /\ t.call = u.call
      /\ t.phase = "work" /\ t.read = u.read
  BY <1>2 DEF WellFormed, Field
<1>4. KeyOf(u.call) \notin DOMAIN stored
  BY DEF InsertKey, Call
<1> HIDE DEF t
<1>5. Proper(p, t)
  BY <1>1, <1>2, <1>3, <1>4 DEF Proper, WellFormed, Handling, Working
<1>6. ASSUME NEW q \in Process \ {p} PROVE Apart(p, t, q, txn[q])
  <2>1. ApartRows(t, txn[q])
    BY <1>1, <1>3 DEF Transactions, Apart, ApartRows
  <2>2. q \notin WaitsFor(p)
    BY DEF InsertKey, Free
  <2>3. q \in Sessions /\ txn[q] # Idle /\ KeyOf(txn[q].call) = KeyOf(u.call)
          => txn[q].phase \in {"row", "select", "insert"}
    BY <1>1, <2>2 DEF WaitsFor, HoldsKey, IsOpen, At, Call
  <2>4. QED
    BY <1>3, <2>1, <2>3 DEF Apart, ApartKeys, Working
<1>7. txn' = [txn EXCEPT ![p] = t] /\ UNCHANGED <<rows, stored>>
  BY DEF InsertKey, Moves, t
<1>8. QED
  BY <1>5, <1>6, <1>7, Moved

LEMMA FlushKeeps ==
  ASSUME Transactions, NEW p \in Process, Flush(p)
  PROVE  Transactions'
<1> DEFINE u == txn[p]
           t == [u EXCEPT !.phase = "work", !.part = @ + 1, !.holds = LocksRow(u.call.op)]
<1>1. u # Idle /\ u.phase = "flush"
  BY NotIdle DEF Flush, At
<1>2. /\ WellFormed(u)
      /\ p \in Sessions => Handling(u)
      /\ p \in Workers => Serving(u)
  BY <1>1, WhileOpen
<1>3. /\ DOMAIN t = Field /\ t.part = u.part + 1 /\ t.call = u.call
      /\ t.phase = "work" /\ t.read = u.read
      /\ t.holds \in BOOLEAN /\ (t.holds <=> LocksRow(u.call.op))
  BY <1>2 DEF WellFormed, Field, LocksRow
<1>4. txn' = [txn EXCEPT ![p] = t] /\ UNCHANGED <<rows, stored>>
  BY DEF Flush, Call
<1> HIDE DEF t
<1>5. Proper(p, t)
  <2>1. WellFormed(t)
    BY <1>2, <1>3 DEF WellFormed
  <2>2. p \in Sessions => Handling(t)
    BY <1>1, <1>2, <1>3 DEF Handling, Working
  <2>3. p \in Workers => Serving(t)
    BY <1>1, <1>2, <1>3 DEF Serving, Working, LocksRow, JobType
  <2>4. QED
    BY <2>1, <2>2, <2>3 DEF Proper
<1>6. ASSUME NEW q \in Process \ {p} PROVE Apart(p, t, q, txn[q])
  <2>1. Apart(p, u, q, txn[q])
    BY DEF Transactions
  <2>2. ApartRows(t, txn[q])
    <3>1. CASE u.holds
      BY <1>1, <1>3, <2>1, <3>1 DEF Apart, ApartRows
    <3>2. CASE ~u.holds /\ LocksRow(u.call.op)
      <4>1. q \notin WaitsFor(p)
        BY DEF Flush, Free
      <4>2. ~HoldsRow(q, u.call.request)
        BY <1>1, <3>2, <4>1 DEF WaitsFor, At, Call
      <4>3. QED
        BY <1>3, <4>2 DEF ApartRows, HoldsRow, IsOpen, Call
    <3>3. CASE ~LocksRow(u.call.op)
      BY <1>3, <3>3 DEF ApartRows
    <3>4. QED
      BY <3>1, <3>2, <3>3
  <2>3. QED
    BY <1>1, <1>3, <2>1, <2>2 DEF Apart, ApartKeys, Working
<1>7. QED
  BY <1>4, <1>5, <1>6, Moved

(* The other steps keep the locks they find.                               *)
LEMMA GoesOn ==
  ASSUME Transactions, NEW p \in Process,
         FirstTime(p) \/ Stamp(p) \/ ChooseTail(p) \/ LockTail(p)
  PROVE  Transactions'
<1> DEFINE u == txn[p]
<1>1. UNCHANGED <<rows, stored>>
  BY DEF FirstTime, Stamp, ChooseTail, LockTail
<1>2. u.phase \in {"select", "work", "stamped", "tail"} /\ u # Idle
  BY NotIdle DEF FirstTime, Stamp, ChooseTail, LockTail, At
<1>3. /\ WellFormed(u)
      /\ p \in Sessions => Handling(u)
      /\ p \in Workers => Serving(u)
  BY <1>2, WhileOpen
<1>4. ASSUME NEW t,
             txn' = [txn EXCEPT ![p] = t],
             DOMAIN t = Field, t.call = u.call, t.holds = u.holds, t.part = u.part,
             t.read = u.read,
             \/ u.phase = "select" /\ t.phase = "insert"
             \/ u.phase # "select" /\ t.phase \in Working
      PROVE  Transactions'
  <2>1. u.phase # "select" => u.phase \in Working
    BY <1>2 DEF Working
  <2>2. t # Idle
    BY <1>4 DEF Idle, Field
  <2>3. WellFormed(t)
    BY <1>3, <1>4 DEF WellFormed
  <2>4. p \in Sessions => Handling(t)
    BY <1>2, <1>3, <1>4, <2>1 DEF Handling, Working
  <2>5. p \in Workers => Serving(t)
    BY <1>2, <1>3, <1>4, <2>1 DEF Serving, Working
  <2>6. Proper(p, t)
    BY <2>3, <2>4, <2>5 DEF Proper
  <2>7. t.phase \in Working => u.phase \in Working
    BY <1>4, <2>1 DEF Working
  <2>8. QED
    BY <1>1, <1>2, <1>4, <2>2, <2>6, <2>7, KeepsLocks
<1>5. CASE FirstTime(p)
  BY <1>3, <1>4, <1>5 DEF FirstTime, Moves, At, WellFormed, Field
<1>6. CASE Stamp(p)
  BY <1>3, <1>4, <1>6 DEF Stamp, Moves, At, WellFormed, Field, Working
<1>7. CASE ChooseTail(p)
  <2> DEFINE phase == IF Visible(p) = {} THEN "flush" ELSE "tail"
             t == [u EXCEPT !.previous = HashOfNewest(table, Visible(p)), !.phase = phase]
  <2>1. phase \in Working
    BY DEF Working
  <2>2. txn' = [txn EXCEPT ![p] = t] /\ u.phase = "stamped"
    BY <1>7 DEF ChooseTail, At
  <2> HIDE DEF phase
  <2>3. /\ DOMAIN t = Field /\ t.call = u.call /\ t.holds = u.holds /\ t.part = u.part
        /\ t.read = u.read /\ t.phase = phase
    BY <1>3 DEF WellFormed, Field
  <2> HIDE DEF t
  <2>4. QED
    BY <1>4, <2>1, <2>2, <2>3
<1>8. CASE LockTail(p)
  <2> DEFINE t == [u EXCEPT !.locked = @ \cup {u.previous}, !.phase = "flush"]
  <2>1. txn' = [txn EXCEPT ![p] = t] /\ u.phase = "tail"
    BY <1>8 DEF LockTail, At
  <2>2. /\ DOMAIN t = Field /\ t.call = u.call /\ t.holds = u.holds /\ t.part = u.part
        /\ t.read = u.read /\ t.phase = "flush"
    BY <1>3 DEF WellFormed, Field
  <2> HIDE DEF t
  <2>3. QED
    BY <1>4, <2>1, <2>2 DEF Working
<1>9. QED
  BY <1>5, <1>6, <1>7, <1>8
-----------------------------------------------------------------------------
(* A commit writes a row that is there only if it holds it.                *)
LEMMA RowsWritten ==
  ASSUME JournalInv, NEW p \in Process, Finished(p), rows' = RowsAfter(p)
  PROVE  /\ DOMAIN rows \subseteq DOMAIN rows'
         /\ \A r \in DOMAIN rows :
              r # Call(p).request \/ ~txn[p].holds => rows'[r] = rows[r]
         /\ \A r \in DOMAIN rows' \ DOMAIN rows :
              p \in Sessions /\ Call(p).op = "create" /\ r = Call(p).request
<1> DEFINE u == txn[p]
           c == Call(p)
<1>1. u # Idle /\ u.phase = "work" /\ u.call = c
  BY NotIdle DEF Finished, At, Call
<1>2. /\ WellFormed(u)
      /\ p \in Sessions => Handling(u)
      /\ p \in Workers => Serving(u)
  BY <1>1, WhileOpen DEF JournalInv
<1>3. p \in Sessions \/ p \in Workers
  BY DEF Process
<1>4. CASE c.op = "create"
  <2>1. p \in Sessions /\ c \in Calls /\ KeyOf(c) \notin DOMAIN stored
    BY <1>1, <1>2, <1>3, <1>4 DEF Serving, JobType, Handling, Working
  <2>2. c.request \notin DOMAIN rows
    BY <1>4, <2>1 DEF JournalInv, Ledger
  <2>3. rows' = [r \in DOMAIN rows \cup {c.request} |->
                   IF r = c.request THEN 1 ELSE rows[r]]
    BY <1>4 DEF RowsAfter
  <2>4. QED
    BY <1>4, <2>1, <2>2, <2>3
<1>5. CASE rows' = rows
  BY <1>5
<1>6. CASE u.holds /\ rows' = [rows EXCEPT ![c.request] = u.read + 1]
  BY <1>6
<1>7. CASE c.op # "create" /\ rows' # rows
  <2>1. c.op # "acknowledge" /\ ~(c.op \in {"REVOCATION", "EXPIRY"} /\ u.part = 0)
    BY <1>7 DEF RowsAfter
  <2>2. rows' = [rows EXCEPT ![c.request] = u.read + 1]
    BY <1>7 DEF RowsAfter
  <2>3. p \in Sessions => u.holds
    BY <1>1, <1>2, <1>7, <2>1 DEF Handling, LocksRow
  <2>4. p \in Workers => u.part > 0
    <3>1. c.op \in {"AI_REVIEW", "ENFORCEMENT"} => u.part # 0
      BY DEF Finished, Appends
    <3>2. QED
      BY <1>1, <1>2, <2>1, <3>1 DEF Serving, JobType, WellFormed
  <2>5. u.holds
    BY <1>2, <1>3, <2>3, <2>4 DEF Serving
  <2>6. QED
    BY <1>6, <2>2, <2>5
<1>8. QED
  BY <1>4, <1>5, <1>7

(* Nobody else relied on what a commit changes.                            *)
LEMMA OthersUndisturbed ==
  ASSUME JournalInv, NEW p \in Process, Finished(p), rows' = RowsAfter(p),
         txn' = [txn EXCEPT ![p] = Idle],
         \/ DOMAIN stored' = DOMAIN stored
         \/ p \in Sessions /\ DOMAIN stored' = DOMAIN stored \cup {KeyOf(Call(p))}
  PROVE  Transactions'
<1> DEFINE u == txn[p]
<1>1. u # Idle /\ u.phase = "work" /\ u.call = Call(p)
  BY NotIdle DEF Finished, At, Call
<1>2. DOMAIN txn' = Process /\ txn'[p] = Idle /\ \A q \in Process \ {p} : txn'[q] = txn[q]
  BY DEF Transactions, JournalInv
<1>3. ASSUME NEW q \in Process PROVE Proper(q, txn[q])'
  <2> DEFINE t == txn[q]
  <2> SUFFICES ASSUME q # p, t # Idle
               PROVE  /\ WellFormed(t)
                      /\ q \in Sessions => Handling(t)'
                      /\ q \in Workers => Serving(t)
    BY <1>2 DEF Proper, WellFormed, Handling, Serving
  <2>1. /\ WellFormed(t)
        /\ q \in Sessions => Handling(t)
        /\ q \in Workers => Serving(t)
    BY WhileOpen DEF JournalInv
  <2>2. Apart(p, u, q, t)
    BY DEF JournalInv, Transactions
  <2>3. ASSUME t.holds, t.call.request \in DOMAIN rows
        PROVE  t.call.request \in DOMAIN rows' /\ rows'[t.call.request] = rows[t.call.request]
    BY <1>1, <2>2, <2>3, RowsWritten DEF Apart, ApartRows
  <2>4. ASSUME q \in Sessions, t.phase \in Working PROVE KeyOf(t.call) \notin DOMAIN stored'
    BY <1>1, <2>1, <2>2, <2>4 DEF Apart, ApartKeys, Handling, Working
  <2>5. QED
    BY <1>2, <2>1, <2>3, <2>4 DEF Handling
<1>4. ASSUME NEW q \in Process, NEW r \in Process, q # r
      PROVE  Apart(q, txn[q], r, txn[r])'
  <2>1. CASE q = p \/ r = p
    BY <1>2, <2>1 DEF Apart, ApartRows, ApartKeys
  <2>2. CASE q # p /\ r # p
    BY <1>2, <1>4, <2>2 DEF Apart, Transactions, JournalInv
  <2>3. QED
    BY <2>1, <2>2
<1>5. QED
  BY <1>2, <1>3, <1>4 DEF Transactions
-----------------------------------------------------------------------------
LEMMA ReplayKeeps ==
  ASSUME JournalInv, NEW p \in Process, Replay(p)
  PROVE  JournalInv'
<1> DEFINE c == Call(p)
<1>1. Transactions'
  BY Ended DEF Replay, JournalInv
<1>2. txn[p] # Idle /\ txn[p].phase = "select"
  BY NotIdle DEF Replay, At
<1>3. c \in Calls
  BY <1>2, WhileOpen DEF JournalInv, Process, Serving, Working, Handling, Call
<1>4. ASSUME stored[KeyOf(c)] = c.body PROVE executed[c] > 0
  <2>1. PICK d \in Calls : KeyOf(d) = KeyOf(c) /\ stored[KeyOf(c)] = d.body /\ executed[d] > 0
    BY DEF Replay, JournalInv, Ledger
  <2>2. d = c
    BY <1>3, <1>4, <2>1, JournalAssumption
  <2>3. QED
    BY <2>1, <2>2
<1>5. Ledger'
  BY <1>3, <1>4 DEF Replay, JournalInv, Ledger, AtMostOnce, AnswersAreTrue
<1>6. QED
  BY <1>1, <1>5 DEF JournalInv

LEMMA CommitKeeps ==
  ASSUME JournalInv, NEW s \in Process, Commit(s)
  PROVE  JournalInv'
<1> DEFINE c == Call(s)
           k == KeyOf(c)
<1>1. /\ Finished(s) /\ rows' = RowsAfter(s) /\ txn' = [txn EXCEPT ![s] = Idle]
      /\ s \in Sessions
      /\ stored' = [i \in DOMAIN stored \cup {k} |-> IF i = k THEN c.body ELSE stored[i]]
      /\ executed' = [executed EXCEPT ![c] = @ + 1] /\ told' = told \cup {c}
  BY DEF Commit
<1>2. Transactions'
  BY <1>1, OthersUndisturbed
<1>3. txn[s] # Idle /\ txn[s].phase = "work"
  BY <1>1, NotIdle DEF Finished, At
<1>4. c \in Calls /\ k \notin DOMAIN stored
  BY <1>1, <1>3, WhileOpen DEF JournalInv, Handling, Call, Working
<1>5. \A d \in Calls : KeyOf(d) = k => executed[d] = 0
  BY <1>4 DEF JournalInv, Ledger
<1>6. /\ executed' \in [Calls -> Nat] /\ executed'[c] = 1
      /\ \A d \in Calls : d # c => executed'[d] = executed[d]
  BY <1>1, <1>4, <1>5 DEF JournalInv, Ledger
<1>7. \A j \in jobs' : j.op \in JobType
  <2>1. ASSUME NEW j \in JobLeft(c) PROVE j.op \in JobType
    <3>1. DOMAIN c = {"op", "request", "key", "body"}
      BY <1>4, JournalAssumption
    <3>2. c.op \in {"ai_review", "approve", "revoke"} /\ j = [c EXCEPT !.op = JobOf[c.op]]
      BY <2>1 DEF JobLeft, JobOf
    <3>3. j.op = JobOf[c.op]
      BY <3>1, <3>2
    <3>4. QED
      BY <3>2, <3>3 DEF JobOf, JobType
  <2>2. QED
    BY <2>1 DEF Commit, JournalInv, Ledger
<1>8. \A d \in Calls : executed'[d] > 0 => KeyOf(d) \in DOMAIN stored'
  BY <1>1, <1>6 DEF JournalInv, Ledger
<1>9. ASSUME NEW i \in DOMAIN stored'
      PROVE  \E d \in Calls : KeyOf(d) = i /\ stored'[i] = d.body /\ executed'[d] > 0
  <2>1. CASE i = k
    BY <1>1, <1>4, <1>6, <2>1
  <2>2. CASE i # k
    <3>1. i \in DOMAIN stored /\ stored'[i] = stored[i]
      BY <1>1, <2>2
    <3>2. PICK d \in Calls : KeyOf(d) = i /\ stored[i] = d.body /\ executed[d] > 0
      BY <3>1 DEF JournalInv, Ledger
    <3>3. executed'[d] > 0
      BY <1>6, <2>2, <3>2
    <3>4. QED
      BY <3>1, <3>2, <3>3
  <2>3. QED
    BY <2>1, <2>2
<1>10. ASSUME NEW d \in Calls, d.op = "create", d.request \in DOMAIN rows'
       PROVE  KeyOf(d) \in DOMAIN stored'
  <2>1. CASE d.request \in DOMAIN rows
    BY <1>1, <1>10, <2>1 DEF JournalInv, Ledger
  <2>2. CASE d.request \notin DOMAIN rows
    <3>1. c.op = "create" /\ d.request = c.request
      BY <1>1, <1>10, <2>2, RowsWritten
    <3>2. d.key = c.key
      BY <1>4, <1>10, <3>1, JournalAssumption
    <3>3. QED
      BY <1>1, <1>10, <3>1, <3>2 DEF KeyOf
  <2>3. QED
    BY <2>1, <2>2
<1>11. AtMostOnce'
  BY <1>5, <1>6 DEF JournalInv, Ledger, AtMostOnce
<1>12. told' \subseteq Calls /\ AnswersAreTrue'
  BY <1>1, <1>4, <1>6 DEF JournalInv, Ledger, AnswersAreTrue
<1>13. Ledger'
  BY <1>6, <1>7, <1>8, <1>9, <1>10, <1>11, <1>12 DEF Ledger
<1>14. QED
  BY <1>2, <1>13 DEF JournalInv

LEMMA CompleteKeeps ==
  ASSUME JournalInv, NEW w \in Process, Complete(w)
  PROVE  JournalInv'
<1>1. /\ Finished(w) /\ rows' = RowsAfter(w) /\ txn' = [txn EXCEPT ![w] = Idle]
      /\ w \notin Sessions /\ UNCHANGED <<stored, executed, told>>
      /\ jobs' \subseteq jobs
  BY JournalAssumption DEF Complete
<1>2. Transactions'
  BY <1>1, OthersUndisturbed
<1>3. DOMAIN rows' \subseteq DOMAIN rows
  BY <1>1, RowsWritten
<1>4. Ledger'
  BY <1>1, <1>3 DEF JournalInv, Ledger, AtMostOnce, AnswersAreTrue
<1>5. QED
  BY <1>2, <1>4 DEF JournalInv
-----------------------------------------------------------------------------
LEMMA JournalInvariant == Spec => []JournalInv
<1>1. JournalInv /\ [Next]_vars => JournalInv'
  <2> SUFFICES ASSUME JournalInv, [Next]_vars PROVE JournalInv'
    OBVIOUS
  <2>1. ASSUME NEW s \in Sessions, NEW c \in Calls, Begin(s, c) PROVE JournalInv'
    BY <2>1, BeginKeeps, LedgerKept DEF JournalInv, Begin
  <2>2. ASSUME NEW w \in Workers, NEW j \in jobs, Claim(w, j) PROVE JournalInv'
    BY <2>2, ClaimKeeps, LedgerKept DEF JournalInv, Claim
  <2>3. ASSUME NEW p \in Process, NotFound(p) \/ Duplicate(p) \/ Refuse(p) \/ Victim(p) \/ Crash(p)
        PROVE  JournalInv'
    BY <2>3, Ended, LedgerKept DEF JournalInv, NotFound, Duplicate, Refuse, Victim, Crash
  <2>4. ASSUME NEW p \in Process, FirstTime(p) \/ Stamp(p) \/ ChooseTail(p) \/ LockTail(p)
        PROVE  JournalInv'
    BY <2>4, GoesOn, LedgerKept DEF JournalInv, FirstTime, Stamp, ChooseTail, LockTail
  <2>5. ASSUME NEW p \in Process, LockRow(p) \/ InsertKey(p) \/ Flush(p) PROVE JournalInv'
    BY <2>5, LockRowKeeps, InsertKeyKeeps, FlushKeeps, LedgerKept
       DEF JournalInv, LockRow, InsertKey, Flush
  <2>6. ASSUME NEW p \in Process, Replay(p) \/ Commit(p) \/ Complete(p) PROVE JournalInv'
    BY <2>6, ReplayKeeps, CommitKeeps, CompleteKeeps
  <2>7. CASE UNCHANGED vars
    BY <2>7 DEF vars, JournalInv, Ledger, AtMostOnce, AnswersAreTrue, Transactions, Proper,
                WellFormed, Handling, Serving, Apart, ApartRows, ApartKeys
  <2>8. QED
    BY <2>1, <2>2, <2>3, <2>4, <2>5, <2>6, <2>7 DEF Next, Continues
<1>2. QED
  BY <1>1, InvariantInitially, PTL DEF Spec

(* The effects of a key are committed at most once, with any number of     *)
(* sessions, retries, crashes and bodies: the row of the idempotency table *)
(* is written in the transaction that has the effects.                     *)
THEOREM EffectsAtMostOnce == Spec => []AtMostOnce
<1>1. JournalInv => AtMostOnce
  BY DEF JournalInv, Ledger
<1>2. QED
  BY <1>1, JournalInvariant, PTL

(* A client that is told that its call is done, by the handler that did it *)
(* or by a stored answer, is told so after the effects are committed.      *)
THEOREM ToldIsDone == Spec => []AnswersAreTrue
<1>1. JournalInv => AnswersAreTrue
  BY DEF JournalInv, Ledger
<1>2. QED
  BY <1>1, JournalInvariant, PTL

(* The row a handler locked is the row as it is until the handler commits, *)
(* with any number of handlers, workers and monitors, though workers and   *)
(* monitors read the row without locking it.                               *)
THEOREM RowIsCurrent == Spec => []HandlerSeesCurrentRow
<1>1. JournalInv => HandlerSeesCurrentRow
  BY WhileOpen DEF JournalInv, HandlerSeesCurrentRow, Handling, IsOpen, Call, At, Process
<1>2. QED
  BY <1>1, JournalInvariant, PTL
-----------------------------------------------------------------------------
(* The table of the records.  A record that is not committed belongs to an *)
(* open transaction that is at work, and the parts it has flushed are      *)
(* those before the part it is at; a record that is committed is of a call *)
(* that is settled: nobody will work on it again.                          *)
EntryField == {"hash", "previous", "writer", "request", "flushed"}

EntriesOf(t) == {t[i] : i \in DOMAIN t}

Tabular(t) ==
  /\ t \in Seq(EntriesOf(t))
  /\ \A i \in DOMAIN t : DOMAIN t[i] = EntryField

Settled(c) ==
  /\ c \in Calls => KeyOf(c) \in DOMAIN stored
  /\ c \notin jobs
  /\ \A d \in Calls : c \in JobLeft(d) => executed[d] > 0

Written(e, t) ==
  /\ t # Idle /\ t.phase \in Working
  /\ e.hash.call = t.call
  /\ e.flushed => e.hash.part < t.part
  /\ ~e.flushed => e.hash.part = t.part /\ t.phase # "work"

Recorded(e) ==
  /\ e.hash = [call |-> e.hash.call, part |-> e.hash.part]
  /\ e.hash.part \in Nat
  /\ e.flushed \in BOOLEAN
  /\ e.writer = Nobody => e.flushed /\ Settled(e.hash.call)
  /\ e.writer # Nobody => e.writer \in Process /\ Written(e, txn[e.writer])

Records ==
  /\ Tabular(table)
  /\ \A i \in DOMAIN table : Recorded(table[i])

(* No two records have the same hash: it names them.                       *)
Named == \A i, j \in DOMAIN table : table[i].hash = table[j].hash => i = j

(* A job is taken by one worker, is of a request there is, and was left by *)
(* a call that was done.                                                   *)
Queue ==
  /\ \A j \in jobs : /\ j.request \in DOMAIN rows
                     /\ \A c \in Calls : j \in JobLeft(c) => executed[c] > 0
  /\ \A w \in Workers : IsOpen(w) => Call(w) \in jobs
  /\ \A v, w \in Workers : IsOpen(v) /\ IsOpen(w) /\ Call(v) = Call(w) => v = w

Ranges ==
  /\ DOMAIN rows \subseteq Existing \cup {c.request : c \in Calls}
  /\ DOMAIN stored \subseteq {KeyOf(c) : c \in Calls}
  /\ overlap \in BOOLEAN

TableInv == Records /\ Named /\ Queue /\ Ranges
-----------------------------------------------------------------------------
LEMMA AllNumbers ==
  ASSUME NEW N \in SUBSET Nat, 0 \in N, \A n \in N : n + 1 \in N
  PROVE  N = Nat
<1> DEFINE Rest == Nat \ N
<1>1. SUFFICES ASSUME Rest # {} PROVE FALSE
  OBVIOUS
<1>2. Rest \in SUBSET Nat
  OBVIOUS
<1>3. PICK m \in Rest : \A k \in Rest : ~(<<k, m>> \in OpToRel(<, Nat))
  BY <1>1, <1>2, WFMin, NatLessThanWellFounded, Zenon
<1>4. m \in Nat /\ m # 0
  OBVIOUS
<1>5. m - 1 \in Nat /\ m - 1 < m /\ (m - 1) + 1 = m
  BY <1>4
<1>6. m - 1 \in N
  BY <1>3, <1>4, <1>5 DEF OpToRel
<1>7. QED
  BY <1>5, <1>6

(* What Kept computes: s has the entries of t at the positions I, in the   *)
(* order they have there.                                                  *)
Embeds(s, t, I, f) ==
  /\ s \in Seq(EntriesOf(t))
  /\ f \in [DOMAIN s -> I]
  /\ \A k \in DOMAIN s : s[k] = t[f[k]]
  /\ \A k, l \in DOMAIN s : k < l => f[k] < f[l]
  /\ \A i \in I : \E k \in DOMAIN s : f[k] = i

LEMMA EmbedsMore ==
  ASSUME NEW t, t \in Seq(EntriesOf(t)), NEW n \in Nat, n + 1 \in DOMAIN t,
         NEW I \in SUBSET (1..n),
         NEW s, NEW f, Embeds(s, t, I, f)
  PROVE  \E g : Embeds(Append(s, t[n + 1]), t, I \cup {n + 1}, g)
<1> DEFINE e == t[n + 1]
           r == Append(s, e)
           m == Len(s) + 1
           g == [k \in 1..m |-> IF k = m THEN n + 1 ELSE f[k]]
<1>1. /\ s \in Seq(EntriesOf(t)) /\ e \in EntriesOf(t) /\ DOMAIN s = 1..Len(s) /\ Len(s) \in Nat
  BY DEF Embeds, EntriesOf
<1>2. /\ r \in Seq(EntriesOf(t)) /\ DOMAIN r = 1..m /\ r[m] = e
      /\ \A k \in DOMAIN s : r[k] = s[k]
  BY <1>1
<1>3. /\ DOMAIN r = DOMAIN s \cup {m} /\ m \notin DOMAIN s
      /\ \A k \in DOMAIN s : k < m
  BY <1>1, <1>2
<1>4. \A k \in DOMAIN s : f[k] \in I /\ f[k] < n + 1
  <2>1. \A k \in DOMAIN s : f[k] \in I
    BY DEF Embeds
  <2>2. \A i \in I : i < n + 1
    OBVIOUS
  <2>3. QED
    BY <2>1, <2>2
<1>5. g[m] = n + 1 /\ \A k \in DOMAIN s : g[k] = f[k]
  BY <1>1, <1>3
<1>6. g \in [DOMAIN r -> I \cup {n + 1}]
  BY <1>1, <1>2, <1>4
<1> HIDE DEF g, r, e, m
<1>7. \A k \in DOMAIN r : r[k] = t[g[k]]
  BY <1>2, <1>3, <1>5 DEF Embeds, e
<1>8. ASSUME NEW k \in DOMAIN r, NEW l \in DOMAIN r, k < l PROVE g[k] < g[l]
  <2>1. k \in DOMAIN s
    BY <1>1, <1>2, <1>3, <1>8 DEF m
  <2>2. CASE l = m
    BY <1>4, <1>5, <2>1, <2>2
  <2>3. CASE l \in DOMAIN s
    BY <1>5, <1>8, <2>1, <2>3 DEF Embeds
  <2>4. QED
    BY <1>3, <2>2, <2>3
<1>9. \A i \in I \cup {n + 1} : \E k \in DOMAIN r : g[k] = i
  BY <1>3, <1>5 DEF Embeds
<1>10. Embeds(r, t, I \cup {n + 1}, g)
  BY <1>2, <1>6, <1>7, <1>8, <1>9 DEF Embeds
<1>11. QED
  BY <1>10 DEF r, e

(* The function that Kept defines is there, ...                            *)
LEMMA KeptDefined ==
  ASSUME NEW t, t \in Seq(EntriesOf(t)), NEW I \in SUBSET DOMAIN t
  PROVE  \E u : /\ u[0] = <<>>
                /\ \A i \in DOMAIN t :
                     u[i] = IF i \in I THEN Append(u[i - 1], t[i]) ELSE u[i - 1]
                /\ Kept(t, I) = u[Len(t)]
<1> DEFINE D == 0..Len(t)
           Value(g, i) == IF i = 0 THEN <<>>
                          ELSE IF i \in I THEN Append(g[i - 1], t[i]) ELSE g[i - 1]
           Upto(g, n) == \A i \in D : i =< n => g[i] = Value(g, i)
           N == {n \in Nat : \E g : Upto(g, n)}
<1>0. Len(t) \in Nat /\ DOMAIN t = 1..Len(t)
  OBVIOUS
<1>1. 0 \in N
  <2> DEFINE g == [i \in D |-> <<>>]
  <2>1. Upto(g, 0)
    OBVIOUS
  <2>2. QED
    BY <2>1
<1>2. ASSUME NEW n \in N PROVE n + 1 \in N
  <2>1. PICK g : Upto(g, n)
    OBVIOUS
  <2> DEFINE h == [i \in D |-> Value(g, i)]
  <2>2. \A i \in D : i =< n => h[i] = g[i]
    BY <2>1
  <2>3. \A i \in D : h[i] = Value(g, i)
    OBVIOUS
  <2> HIDE DEF h
  <2>4. ASSUME NEW i \in D, i =< n + 1 PROVE h[i] = Value(h, i)
    <3>1. CASE i = 0
      BY <2>3, <3>1
    <3>2. CASE i # 0
      <4>1. i - 1 \in D /\ i - 1 =< n
        BY <1>0, <2>4, <3>2
      <4>2. h[i - 1] = g[i - 1]
        BY <2>2, <4>1
      <4>3. QED
        BY <2>3, <4>2
    <3>3. QED
      BY <3>1, <3>2
  <2>5. Upto(h, n + 1)
    BY <2>4
  <2> HIDE DEF Upto
  <2>6. QED
    BY <2>5
<1>3. N = Nat
  <2> HIDE DEF N
  <2>1. N \in SUBSET Nat
    BY DEF N
  <2>2. QED
    BY <1>1, <1>2, <2>1, AllNumbers
<1>4. PICK g : Upto(g, Len(t))
  BY <1>0, <1>3
<1> DEFINE Is(u) == u = [i \in D |-> IF i = 0 THEN <<>>
                                     ELSE IF i \in I THEN Append(u[i - 1], t[i]) ELSE u[i - 1]]
           h == [i \in D |-> Value(g, i)]
           u == CHOOSE v : Is(v)
<1>5. Is(h)
  <2>1. \A i \in D : h[i] = g[i]
    BY <1>0, <1>4
  <2>2. \A i \in D : i # 0 => i - 1 \in D
    BY <1>0
  <2>3. \A i \in D : h[i] = Value(h, i)
    <3> HIDE DEF h
    <3>1. SUFFICES ASSUME NEW i \in D PROVE h[i] = Value(h, i)
      OBVIOUS
    <3>2. i # 0 => h[i - 1] = g[i - 1]
      BY <2>1, <2>2
    <3>3. QED
      BY <3>2 DEF h
  <2>4. h = [i \in D |-> h[i]]
    OBVIOUS
  <2> HIDE DEF h, D
  <2>5. QED
    BY <2>3, <2>4
<1>6. Is(u)
  <2> HIDE DEF Is, h
  <2>1. QED
    BY <1>5
<1>7. Kept(t, I) = u[Len(t)]
  BY DEF Kept
<1> HIDE DEF u
<1>8. u[0] = <<>>
  BY <1>0, <1>6
<1>9. ASSUME NEW i \in DOMAIN t
      PROVE  u[i] = IF i \in I THEN Append(u[i - 1], t[i]) ELSE u[i - 1]
  <2>1. i \in D /\ i # 0
    BY <1>0
  <2> HIDE DEF D
  <2>2. u[i] = Value(u, i)
    BY <1>6, <2>1
  <2>3. QED
    BY <2>1, <2>2
<1>10. QED
  BY <1>7, <1>8, <1>9

(* ... and so Kept keeps the order of what it keeps.                       *)
LEMMA KeptEmbeds ==
  ASSUME NEW t, t \in Seq(EntriesOf(t)), NEW I \in SUBSET DOMAIN t
  PROVE  \E f : Embeds(Kept(t, I), t, I, f)
<1>1. PICK u : /\ u[0] = <<>>
               /\ \A i \in DOMAIN t :
                    u[i] = IF i \in I THEN Append(u[i - 1], t[i]) ELSE u[i - 1]
               /\ Kept(t, I) = u[Len(t)]
  BY KeptDefined
<1> DEFINE Upto(n) == I \cap (1..n)
           N == {n \in Nat : n =< Len(t) => \E f : Embeds(u[n], t, Upto(n), f)}
<1>2. Len(t) \in Nat /\ DOMAIN t = 1..Len(t)
  OBVIOUS
<1>3. 0 \in N
  <2>1. Embeds(<<>>, t, {}, <<>>)
    <3>1. <<>> \in Seq(EntriesOf(t)) /\ DOMAIN <<>> = {}
      OBVIOUS
    <3>2. <<>> \in [DOMAIN <<>> -> {}]
      BY <3>1
    <3>3. QED
      BY <3>1, <3>2 DEF Embeds
  <2>2. Upto(0) = {}
    OBVIOUS
  <2>3. QED
    BY <1>1, <2>1, <2>2
<1>4. ASSUME NEW n \in N PROVE n + 1 \in N
  <2>0. n \in Nat /\ n + 1 \in Nat
    OBVIOUS
  <2> SUFFICES ASSUME n + 1 =< Len(t)
               PROVE  \E f : Embeds(u[n + 1], t, Upto(n + 1), f)
    BY <2>0
  <2>1. n \in Nat /\ n + 1 \in DOMAIN t /\ (n + 1) - 1 = n /\ n =< Len(t)
    BY <1>2
  <2>2. PICK f : Embeds(u[n], t, Upto(n), f)
    BY <2>1
  <2>3. CASE n + 1 \in I
    <3>1. u[n + 1] = Append(u[n], t[n + 1])
      BY <1>1, <2>1, <2>3
    <3>2. Upto(n + 1) = Upto(n) \cup {n + 1}
      BY <2>1, <2>3
    <3>3. Upto(n) \in SUBSET (1..n)
      OBVIOUS
    <3> HIDE DEF Upto
    <3>4. \E g : Embeds(Append(u[n], t[n + 1]), t, Upto(n) \cup {n + 1}, g)
      BY <2>1, <2>2, <3>3, EmbedsMore
    <3>5. QED
      BY <3>1, <3>2, <3>4
  <2>4. CASE n + 1 \notin I
    <3>1. u[n + 1] = u[n]
      BY <1>1, <2>1, <2>4
    <3>2. Upto(n + 1) = Upto(n)
      BY <2>1, <2>4
    <3> HIDE DEF Upto
    <3>3. QED
      BY <2>2, <3>1, <3>2
  <2>5. QED
    BY <2>3, <2>4
<1>5. N = Nat
  <2> HIDE DEF N
  <2>1. N \in SUBSET Nat
    BY DEF N
  <2>2. QED
    BY <1>3, <1>4, <2>1, AllNumbers
<1>6. \E f : Embeds(u[Len(t)], t, Upto(Len(t)), f)
  <2>1. \A n \in N : n =< Len(t) => \E f : Embeds(u[n], t, Upto(n), f)
    OBVIOUS
  <2> HIDE DEF N, Upto
  <2>2. Len(t) \in N /\ Len(t) =< Len(t)
    BY <1>2, <1>5
  <2>3. QED
    BY <2>1, <2>2
<1>7. Upto(Len(t)) = I
  BY <1>2
<1>8. QED
  BY <1>1, <1>6, <1>7
-----------------------------------------------------------------------------
(* Tables that a step leaves.                                              *)
LEMMA TableAppended ==
  ASSUME NEW t, Tabular(t), NEW e, DOMAIN e = EntryField
  PROVE  /\ Tabular(Append(t, e))
         /\ DOMAIN Append(t, e) = DOMAIN t \cup {Len(t) + 1}
         /\ Len(t) + 1 \notin DOMAIN t
         /\ \A i \in DOMAIN t : i < Len(t) + 1
         /\ Append(t, e)[Len(t) + 1] = e
         /\ \A i \in DOMAIN t : Append(t, e)[i] = t[i]
<1> DEFINE r == Append(t, e)
           S == EntriesOf(t) \cup {e}
<1>1. t \in Seq(S) /\ e \in S
  BY DEF Tabular, EntriesOf
<1> HIDE DEF S
<1>2. /\ DOMAIN r = DOMAIN t \cup {Len(t) + 1} /\ Len(t) + 1 \notin DOMAIN t
      /\ \A i \in DOMAIN t : i < Len(t) + 1
      /\ r[Len(t) + 1] = e /\ \A i \in DOMAIN t : r[i] = t[i]
      /\ r \in Seq(S)
  BY <1>1
<1> HIDE DEF r
<1>3. S \subseteq EntriesOf(r)
  BY <1>2 DEF S, EntriesOf
<1>4. r \in Seq(EntriesOf(r))
  BY <1>2, <1>3
<1>5. \A i \in DOMAIN r : DOMAIN r[i] = EntryField
  BY <1>2 DEF Tabular
<1>6. QED
  BY <1>2, <1>4, <1>5 DEF Tabular, r

LEMMA TableMapped ==
  ASSUME NEW t, Tabular(t), NEW r, r = [i \in DOMAIN t |-> r[i]],
         \A i \in DOMAIN t : DOMAIN r[i] = EntryField
  PROVE  Tabular(r) /\ DOMAIN r = DOMAIN t
<1>1. DOMAIN t = 1..Len(t) /\ Len(t) \in Nat
  BY DEF Tabular
<1>2. DOMAIN r = DOMAIN t
  OBVIOUS
<1>3. \A i \in DOMAIN t : r[i] \in EntriesOf(r)
  BY <1>2 DEF EntriesOf
<1>4. r \in [1..Len(t) -> EntriesOf(r)]
  BY <1>1, <1>3
<1>5. r \in Seq(EntriesOf(r))
  BY <1>1, <1>4, SeqDef
<1>6. QED
  BY <1>2, <1>5 DEF Tabular

(* What is left when p ends without a commit.                              *)
LEMMA TableRolledBack ==
  ASSUME Tabular(table), NEW p
  PROVE  \E f : /\ Tabular(RolledBack(p))
                /\ f \in [DOMAIN RolledBack(p) -> DOMAIN table]
                /\ \A k \in DOMAIN RolledBack(p) : RolledBack(p)[k] = table[f[k]]
                /\ \A k, l \in DOMAIN RolledBack(p) : k < l <=> f[k] < f[l]
                /\ \A i \in DOMAIN table :
                     table[i].writer # p <=> \E k \in DOMAIN RolledBack(p) : f[k] = i
<1> DEFINE I == {i \in DOMAIN table : table[i].writer # p}
           s == RolledBack(p)
<1>1. PICK f : Embeds(s, table, I, f)
  BY KeptEmbeds DEF RolledBack, Tabular
<1> HIDE DEF s
<1>2. DOMAIN s = 1..Len(s) /\ Len(s) \in Nat
  BY <1>1 DEF Embeds
<1>3. f \in [DOMAIN s -> DOMAIN table]
  BY <1>1 DEF Embeds
<1>4. \A k, l \in DOMAIN s : k < l => f[k] < f[l]
  BY <1>1 DEF Embeds
<1>5. DOMAIN table \subseteq Nat
  BY DEF Tabular
<1>6. \A k, l \in DOMAIN s : f[k] < f[l] => k < l
  <2>1. SUFFICES ASSUME NEW k \in DOMAIN s, NEW l \in DOMAIN s, f[k] < f[l], ~(k < l) PROVE FALSE
    OBVIOUS
  <2>2. f[k] \in Nat /\ f[l] \in Nat
    BY <1>3, <1>5
  <2>3. k = l \/ l < k
    BY <1>2, <2>1
  <2>4. QED
    BY <1>4, <2>1, <2>2, <2>3
<1>7. \A k \in DOMAIN s : s[k] = table[f[k]]
  BY <1>1 DEF Embeds
<1>8. Tabular(s)
  <2>1. \A k \in DOMAIN s : DOMAIN s[k] = EntryField
    BY <1>3, <1>7 DEF Tabular
  <2>2. s \in [1..Len(s) -> EntriesOf(s)]
    <3>1. s = [k \in 1..Len(s) |-> s[k]]
      BY <1>1, <1>2 DEF Embeds
    <3>2. QED
      BY <1>2, <3>1 DEF EntriesOf
  <2>3. s \in Seq(EntriesOf(s))
    BY <1>2, <2>2, SeqDef
  <2>4. QED
    BY <2>1, <2>3 DEF Tabular
<1>9. \A i \in DOMAIN table : table[i].writer # p <=> \E k \in DOMAIN s : f[k] = i
  BY <1>1 DEF Embeds
<1>10. QED
  BY <1>3, <1>4, <1>6, <1>7, <1>8, <1>9 DEF s
-----------------------------------------------------------------------------
(* A record stays what it is if its transaction goes on, ...               *)
LEMMA RecordedStays ==
  ASSUME NEW e, Recorded(e), UNCHANGED <<stored, jobs, executed>>,
         e.writer # Nobody => Written(e, txn'[e.writer])
  PROVE  Recorded(e)'
BY DEF Recorded, Settled

(* ... and the steps that neither append nor end a transaction keep all of *)
(* them.                                                                   *)
GoesOnWith(u, t) ==
  /\ t # Idle /\ t.call = u.call
  /\ u.phase \in Working =>
       /\ t.part = u.part /\ t.phase \in Working
       /\ u.phase # "work" => t.phase # "work"

LEMMA RecordsKept ==
  ASSUME Records, DOMAIN txn = Process, NEW p \in Process, NEW t,
         txn' = [txn EXCEPT ![p] = t],
         UNCHANGED <<table, stored, jobs, executed>>,
         \/ txn[p] = Idle
         \/ GoesOnWith(txn[p], t)
  PROVE  Records'
<1>1. txn'[p] = t /\ \A q \in Process \ {p} : txn'[q] = txn[q]
  OBVIOUS
<1>2. ASSUME NEW i \in DOMAIN table PROVE Recorded(table[i])'
  <2>1. PICK e : e = table[i]
    OBVIOUS
  <2>2. Recorded(e)
    BY <2>1 DEF Records
  <2>3. ASSUME e.writer # Nobody PROVE Written(e, txn'[e.writer])
    <3>1. e.writer \in Process /\ Written(e, txn[e.writer]) /\ e.flushed \in BOOLEAN
      BY <2>2, <2>3 DEF Recorded
    <3>2. CASE e.writer # p
      BY <1>1, <3>1, <3>2
    <3>3. CASE e.writer = p
      <4>1. GoesOnWith(txn[p], t)
        BY <3>1, <3>3 DEF Written
      <4>2. QED
        BY <1>1, <3>1, <3>3, <4>1 DEF Written, GoesOnWith
    <3>4. QED
      BY <3>2, <3>3
  <2>4. Recorded(e)'
    BY <2>2, <2>3, RecordedStays
  <2>5. QED
    BY <2>1, <2>4
<1>3. QED
  BY <1>2 DEF Records

LEMMA QueueKept ==
  ASSUME Queue, UNCHANGED <<rows, jobs, executed>>,
         \A w \in Workers : IsOpen(w)' => IsOpen(w) /\ Call(w)' = Call(w)
  PROVE  Queue'
BY DEF Queue

(* Which steps they are.                                                   *)
LEMMA QuietKeepsTable ==
  ASSUME JournalInv, TableInv, NEW p \in Process,
         LockRow(p) \/ FirstTime(p) \/ InsertKey(p) \/ ChooseTail(p) \/ LockTail(p)
  PROVE  TableInv'
<1> DEFINE u == txn[p]
<1>1. UNCHANGED <<rows, stored, table, jobs, executed, told, overlap>>
  BY DEF LockRow, FirstTime, InsertKey, ChooseTail, LockTail
<1>2. u.phase \in {"row", "select", "insert", "stamped", "tail"} /\ u # Idle
  BY NotIdle DEF LockRow, FirstTime, InsertKey, ChooseTail, LockTail, At
<1>3. DOMAIN u = Field /\ DOMAIN txn = Process
  BY <1>2, WhileOpen DEF JournalInv, WellFormed, Transactions
<1>4. ASSUME NEW t, txn' = [txn EXCEPT ![p] = t], DOMAIN t = Field, t.call = u.call,
             t.part = u.part,
             u.phase \in {"stamped", "tail"} => t.phase \in {"tail", "flush"}
      PROVE  TableInv'
  <2>1. t # Idle
    BY <1>4 DEF Idle, Field
  <2>2. GoesOnWith(u, t)
    BY <1>2, <1>4, <2>1 DEF GoesOnWith, Working
  <2>3. Records'
    BY <1>1, <1>3, <1>4, <2>2, RecordsKept DEF TableInv
  <2>4. \A w \in Workers : IsOpen(w)' => IsOpen(w) /\ Call(w)' = Call(w)
    BY <1>2, <1>3, <1>4 DEF IsOpen, Call, Process
  <2>5. Queue'
    BY <1>1, <2>4, QueueKept DEF TableInv
  <2>6. QED
    BY <1>1, <2>3, <2>5 DEF TableInv, Named, Ranges
<1>5. CASE LockRow(p)
  <2> DEFINE t == [u EXCEPT !.phase = "select", !.holds = TRUE, !.read = rows[u.call.request]]
  <2>1. txn' = [txn EXCEPT ![p] = t] /\ u.phase = "row"
    BY <1>5 DEF LockRow, Call, At
  <2>2. DOMAIN t = Field /\ t.call = u.call /\ t.part = u.part
    BY <1>3 DEF Field
  <2> HIDE DEF t
  <2>3. QED
    BY <1>4, <2>1, <2>2
<1>6. CASE FirstTime(p) \/ InsertKey(p)
  <2> DEFINE phase == IF FirstTime(p) THEN "insert" ELSE "work"
             t == [u EXCEPT !.phase = phase]
  <2>1. txn' = [txn EXCEPT ![p] = t] /\ u.phase \in {"select", "insert"}
    BY <1>6 DEF FirstTime, InsertKey, Moves, At
  <2>2. DOMAIN t = Field /\ t.call = u.call /\ t.part = u.part
    BY <1>3 DEF Field
  <2> HIDE DEF t
  <2>3. QED
    BY <1>4, <2>1, <2>2
<1>7. CASE ChooseTail(p)
  <2> DEFINE phase == IF Visible(p) = {} THEN "flush" ELSE "tail"
             t == [u EXCEPT !.previous = HashOfNewest(table, Visible(p)), !.phase = phase]
  <2>1. txn' = [txn EXCEPT ![p] = t] /\ u.phase = "stamped" /\ phase \in {"tail", "flush"}
    BY <1>7 DEF ChooseTail, At
  <2> HIDE DEF phase
  <2>2. DOMAIN t = Field /\ t.call = u.call /\ t.part = u.part /\ t.phase = phase
    BY <1>3 DEF Field
  <2> HIDE DEF t
  <2>3. QED
    BY <1>4, <2>1, <2>2
<1>8. CASE LockTail(p)
  <2> DEFINE t == [u EXCEPT !.locked = @ \cup {u.previous}, !.phase = "flush"]
  <2>1. txn' = [txn EXCEPT ![p] = t] /\ u.phase = "tail"
    BY <1>8 DEF LockTail, At
  <2>2. DOMAIN t = Field /\ t.call = u.call /\ t.part = u.part /\ t.phase = "flush"
    BY <1>3 DEF Field
  <2> HIDE DEF t
  <2>3. QED
    BY <1>4, <2>1, <2>2
<1>9. QED
  BY <1>5, <1>6, <1>7, <1>8

LEMMA BeginKeepsTable ==
  ASSUME JournalInv, TableInv, NEW s \in Sessions, NEW c \in Calls, Begin(s, c)
  PROVE  TableInv'
<1> DEFINE t == Opened(IF LocksRow(c.op) THEN "row" ELSE "select", c)
<1>1. /\ txn[s] = Idle /\ txn' = [txn EXCEPT ![s] = t]
      /\ UNCHANGED <<rows, stored, table, jobs, executed, told, overlap>>
  BY DEF Begin, IsOpen
<1> HIDE DEF t
<1>2. s \in Process /\ s \notin Workers /\ DOMAIN txn = Process
  BY JournalAssumption DEF Process, JournalInv, Transactions
<1>3. Records'
  BY <1>1, <1>2, RecordsKept DEF TableInv
<1>4. Queue'
  BY <1>1, <1>2, QueueKept DEF TableInv, IsOpen, Call, Process
<1>5. QED
  BY <1>1, <1>3, <1>4 DEF TableInv, Named, Ranges

LEMMA ClaimKeepsTable ==
  ASSUME JournalInv, TableInv, NEW w \in Workers, NEW j \in jobs, Claim(w, j)
  PROVE  TableInv'
<1> DEFINE t == [Opened("work", j) EXCEPT !.read = rows[j.request]]
<1>1. /\ txn[w] = Idle /\ txn' = [txn EXCEPT ![w] = t]
      /\ UNCHANGED <<rows, stored, table, jobs, executed, told, overlap>>
      /\ \A v \in Workers : IsOpen(v) => Call(v) # j
  BY DEF Claim, IsOpen
<1>2. t.call = j
  BY DEF Opened
<1> HIDE DEF t
<1>3. w \in Process /\ DOMAIN txn = Process
  BY DEF Process, JournalInv, Transactions
<1>4. Records'
  BY <1>1, <1>3, RecordsKept DEF TableInv
<1>5. txn'[w] = t /\ \A v \in Workers \ {w} : txn'[v] = txn[v]
  BY <1>1, <1>3 DEF Process
<1>6. \A v \in Workers : IsOpen(v)' => Call(v)' \in jobs
  BY <1>2, <1>5 DEF TableInv, Queue, IsOpen, Call
<1>7. \A v \in Workers \ {w} : IsOpen(v)' => Call(v)' # Call(w)'
  BY <1>1, <1>2, <1>5 DEF IsOpen, Call
<1>8. \A v, x \in Workers : IsOpen(v)' /\ IsOpen(x)' /\ Call(v)' = Call(x)' => v = x
  BY <1>5, <1>7 DEF TableInv, Queue, IsOpen, Call
<1>9. Queue'
  BY <1>1, <1>6, <1>8 DEF TableInv, Queue
<1>10. QED
  BY <1>1, <1>4, <1>9 DEF TableInv, Named, Ranges

LEMMA EndKeepsTable ==
  ASSUME JournalInv, TableInv, NEW p \in Process, Ends(p),
         UNCHANGED <<rows, stored, jobs, executed, overlap>>
  PROVE  TableInv'
<1>1. /\ txn' = [txn EXCEPT ![p] = Idle] /\ table' = RolledBack(p)
      /\ DOMAIN txn = Process /\ Tabular(table)
  BY DEF Ends, JournalInv, Transactions, TableInv, Records
<1>2. PICK f : /\ Tabular(table')
               /\ f \in [DOMAIN table' -> DOMAIN table]
               /\ \A k \in DOMAIN table' : table'[k] = table[f[k]]
               /\ \A k, l \in DOMAIN table' : k < l <=> f[k] < f[l]
               /\ \A i \in DOMAIN table :
                    table[i].writer # p <=> \E k \in DOMAIN table' : f[k] = i
  BY <1>1, TableRolledBack
<1>3. ASSUME NEW k \in DOMAIN table' PROVE Recorded(table[k])'
  <2>1. PICK e : e = table'[k]
    OBVIOUS
  <2>2. e = table[f[k]] /\ f[k] \in DOMAIN table /\ e.writer # p
    BY <1>2, <2>1
  <2>3. Recorded(e)
    BY <2>2 DEF TableInv, Records
  <2>4. e.writer # Nobody => Written(e, txn'[e.writer])
    BY <1>1, <2>2, <2>3 DEF Recorded
  <2>5. Recorded(e)'
    BY <2>3, <2>4, RecordedStays
  <2>6. QED
    BY <2>1, <2>5
<1>4. Named'
  <2>1. SUFFICES ASSUME NEW k \in DOMAIN table', NEW l \in DOMAIN table',
                        table'[k].hash = table'[l].hash
                 PROVE  k = l
    BY DEF Named
  <2>2. f[k] = f[l]
    BY <1>2, <2>1 DEF TableInv, Named
  <2>3. k \in Nat /\ l \in Nat /\ f[k] \in Nat /\ f[l] \in Nat
    BY <1>1, <1>2 DEF Tabular
  <2>4. ~(k < l) /\ ~(l < k)
    BY <1>2, <2>2, <2>3
  <2>5. QED
    BY <2>3, <2>4
<1>5. Queue'
  BY <1>1, QueueKept DEF TableInv, IsOpen, Call, Process
<1>6. QED
  BY <1>2, <1>3, <1>4, <1>5 DEF TableInv, Records, Ranges

(* A call that is being worked on has left no committed record, and no     *)
(* record of another transaction.                                          *)
LEMMA NewHash ==
  ASSUME JournalInv, TableInv, NEW p \in Process, txn[p] # Idle, txn[p].phase \in Working,
         NEW i \in DOMAIN table, table[i].hash.call = Call(p)
  PROVE  table[i].writer = p
<1>1. PICK e : e = table[i]
  OBVIOUS
<1>2. Recorded(e)
  BY <1>1 DEF TableInv, Records
<1>3. /\ p \in Sessions => Call(p) \in Calls /\ KeyOf(Call(p)) \notin DOMAIN stored
      /\ p \in Workers => Call(p) \in jobs
  BY WhileOpen DEF JournalInv, Handling, Call, TableInv, Queue, IsOpen
<1>4. e.writer # Nobody
  BY <1>1, <1>2, <1>3 DEF Recorded, Settled, Process
<1>5. /\ e.writer \in Process /\ txn[e.writer] # Idle /\ txn[e.writer].phase \in Working
      /\ txn[e.writer].call = Call(p)
  BY <1>1, <1>2, <1>4 DEF Recorded, Written
<1>6. \A q \in Process : txn[q] # Idle =>
        /\ q \in Sessions => txn[q].call.op \in Operation
        /\ q \in Workers => txn[q].call.op \in JobType
  BY WhileOpen, JournalAssumption DEF JournalInv, Handling, Serving
<1>7. Operation \cap JobType = {}
  BY DEF Operation, JobType
<1>8. CASE p \in Sessions
  <2>1. e.writer \in Sessions
    BY <1>5, <1>6, <1>7, <1>8 DEF Process, Call
  <2>2. QED
    BY <1>1, <1>5, <1>8, <2>1 DEF JournalInv, Transactions, Apart, ApartKeys, Call
<1>9. CASE p \in Workers
  <2>1. e.writer \in Workers
    BY <1>5, <1>6, <1>7, <1>9 DEF Process, Call
  <2>2. QED
    BY <1>1, <1>5, <1>9, <2>1 DEF TableInv, Queue, IsOpen, Call
<1>10. QED
  BY <1>8, <1>9 DEF Process

LEMMA StampKeepsTable ==
  ASSUME JournalInv, TableInv, NEW p \in Process, Stamp(p)
  PROVE  TableInv'
<1> DEFINE u == txn[p]
           t == [u EXCEPT !.phase = "stamped"]
           e == [hash |-> Hash(p), previous |-> Genesis, writer |-> p,
                 request |-> Call(p).request, flushed |-> FALSE]
           n == Len(table) + 1
<1>1. /\ u.phase = "work" /\ u # Idle /\ txn' = [txn EXCEPT ![p] = t]
      /\ table' = Append(table, e) /\ overlap' \in BOOLEAN
      /\ UNCHANGED <<rows, stored, jobs, executed, told>>
  BY NotIdle DEF Stamp, At, Moves, TableInv, Ranges
<1>2. DOMAIN u = Field /\ u.part \in Nat /\ DOMAIN txn = Process
  BY <1>1, WhileOpen DEF JournalInv, WellFormed, Transactions
<1>3. t.phase = "stamped" /\ t.part = u.part /\ t.call = u.call /\ t # Idle
  BY <1>2 DEF Field, Idle
<1>4. txn'[p] = t /\ \A q \in Process \ {p} : txn'[q] = txn[q]
  BY <1>1, <1>2
<1>5. /\ DOMAIN e = EntryField /\ e.writer = p /\ e.flushed = FALSE
      /\ e.hash = [call |-> u.call, part |-> u.part]
      /\ e.hash.call = u.call /\ e.hash.part = u.part
  BY DEF EntryField, Hash, Call
<1> HIDE DEF t, e
<1>6. /\ Tabular(table') /\ DOMAIN table' = DOMAIN table \cup {n} /\ n \notin DOMAIN table
      /\ table'[n] = e /\ \A i \in DOMAIN table : table'[i] = table[i]
  BY <1>1, <1>5, TableAppended DEF TableInv, Records
<1> HIDE DEF n
<1>7. p # Nobody
  BY JournalAssumption DEF Process
<1>8. ASSUME NEW i \in DOMAIN table' PROVE Recorded(table[i])'
  <2>1. PICK d : d = table'[i]
    OBVIOUS
  <2>2. CASE i = n
    <3>1. Written(d, txn'[p])
      BY <1>1, <1>3, <1>4, <1>5, <1>6, <2>1, <2>2 DEF Written, Working
    <3>2. Recorded(d)'
      BY <1>2, <1>5, <1>6, <1>7, <2>1, <2>2, <3>1 DEF Recorded
    <3>3. QED
      BY <2>1, <3>2
  <2>3. CASE i \in DOMAIN table
    <3>1. d = table[i] /\ Recorded(d)
      BY <1>6, <2>1, <2>3 DEF TableInv, Records
    <3>2. d.writer # Nobody => Written(d, txn'[d.writer])
      BY <1>1, <1>3, <1>4, <3>1 DEF Recorded, Written, Working
    <3>3. Recorded(d)'
      BY <1>1, <3>1, <3>2, RecordedStays
    <3>4. QED
      BY <2>1, <3>3
  <2>4. QED
    BY <1>6, <2>2, <2>3
<1>9. ASSUME NEW i \in DOMAIN table, table[i].hash = e.hash PROVE FALSE
  <2>1. PICK d : d = table[i]
    OBVIOUS
  <2>2. Recorded(d)
    BY <2>1 DEF TableInv, Records
  <2>3. d.hash.call = u.call /\ d.hash.part = u.part
    BY <1>5, <1>9, <2>1
  <2>4. d.writer = p
    BY <1>1, <2>1, <2>3, NewHash DEF Call, Working
  <2>5. Written(d, u) /\ d.flushed \in BOOLEAN
    BY <1>7, <2>2, <2>4 DEF Recorded
  <2>6. QED
    BY <1>1, <1>2, <2>3, <2>5 DEF Written
<1>10. Named'
  BY <1>6, <1>9 DEF TableInv, Named
<1>11. Queue'
  BY <1>1, <1>3, <1>4, QueueKept DEF TableInv, IsOpen, Call, Process
<1>12. QED
  BY <1>1, <1>6, <1>8, <1>10, <1>11 DEF TableInv, Records, Ranges

LEMMA FlushKeepsTable ==
  ASSUME JournalInv, TableInv, NEW p \in Process, Flush(p)
  PROVE  /\ TableInv'
         /\ DOMAIN table' = DOMAIN table
         /\ \A i \in DOMAIN table :
              /\ table'[i].hash = table[i].hash /\ table'[i].writer = table[i].writer
              /\ table[i].writer # p \/ table[i].flushed => table'[i] = table[i]
              /\ table[i].writer = p => table'[i].flushed
              /\ table[i].writer = p /\ ~table[i].flushed
                   => table'[i].previous = txn[p].previous
<1> DEFINE u == txn[p]
           t == [u EXCEPT !.phase = "work", !.part = @ + 1, !.holds = LocksRow(Call(p).op)]
<1>1. /\ u.phase = "flush" /\ u # Idle /\ txn' = [txn EXCEPT ![p] = t]
      /\ table' = [i \in DOMAIN table |->
                     IF table[i].writer = p /\ ~table[i].flushed
                       THEN [table[i] EXCEPT !.flushed = TRUE, !.previous = u.previous]
                       ELSE table[i]]
      /\ UNCHANGED <<rows, stored, jobs, executed, told, overlap>>
  BY NotIdle DEF Flush, At
<1>2. DOMAIN u = Field /\ u.part \in Nat /\ DOMAIN txn = Process
  BY <1>1, WhileOpen DEF JournalInv, WellFormed, Transactions
<1>3. t.phase = "work" /\ t.part = u.part + 1 /\ t.call = u.call /\ t # Idle
  BY <1>2 DEF Field, Idle
<1>4. txn'[p] = t /\ \A q \in Process \ {p} : txn'[q] = txn[q]
  BY <1>1, <1>2
<1> HIDE DEF t
<1>5. ASSUME NEW i \in DOMAIN table
      PROVE  /\ DOMAIN table'[i] = EntryField
             /\ table'[i].hash = table[i].hash /\ table'[i].writer = table[i].writer
             /\ table[i].writer # p \/ table[i].flushed => table'[i] = table[i]
             /\ table[i].writer = p => table'[i].flushed /\ table'[i].flushed \in BOOLEAN
             /\ table[i].writer = p /\ ~table[i].flushed => table'[i].previous = u.previous
  <2>1. DOMAIN table[i] = EntryField /\ Recorded(table[i])
    BY DEF TableInv, Records, Tabular
  <2>2. CASE table[i].writer = p /\ ~table[i].flushed
    <3>1. table'[i] = [table[i] EXCEPT !.flushed = TRUE, !.previous = u.previous]
      BY <1>1, <2>2
    <3>2. QED
      BY <2>1, <2>2, <3>1 DEF EntryField
  <2>3. CASE ~(table[i].writer = p /\ ~table[i].flushed)
    BY <1>1, <2>1, <2>3 DEF Recorded
  <2>4. QED
    BY <2>2, <2>3
<1>6. Tabular(table') /\ DOMAIN table' = DOMAIN table
  <2>1. table' = [i \in DOMAIN table |-> table'[i]]
    BY <1>1
  <2>2. Tabular(table)
    BY DEF TableInv, Records
  <2>3. QED
    BY <1>5, <2>1, <2>2, TableMapped
<1>7. p # Nobody
  BY JournalAssumption DEF Process
<1>8. ASSUME NEW i \in DOMAIN table' PROVE Recorded(table[i])'
  <2>1. PICK d : d = table[i]
    OBVIOUS
  <2>2. PICK e : e = table'[i]
    OBVIOUS
  <2>3. Recorded(d) /\ i \in DOMAIN table
    BY <1>6, <2>1 DEF TableInv, Records
  <2>4. CASE d.writer = p
    <3>1. Written(d, u) /\ d.hash.part \in Nat /\ d.flushed \in BOOLEAN
      BY <1>7, <2>3, <2>4 DEF Recorded
    <3>2. e.writer = p /\ e.hash = d.hash /\ e.flushed /\ e.flushed \in BOOLEAN
      BY <1>5, <2>1, <2>2, <2>3, <2>4
    <3>3. e.hash.part < u.part + 1
      BY <1>2, <3>1, <3>2 DEF Written
    <3>4. Written(e, t)
      BY <1>3, <3>1, <3>2, <3>3 DEF Written, Working
    <3>5. Recorded(e)'
      BY <1>4, <1>7, <2>3, <3>2, <3>4 DEF Recorded
    <3>6. QED
      BY <2>2, <3>5
  <2>5. CASE d.writer # p
    <3>1. e = d
      BY <1>5, <2>1, <2>2, <2>3, <2>5
    <3>2. e.writer # Nobody => Written(e, txn'[e.writer])
      BY <1>4, <2>3, <2>5, <3>1 DEF Recorded
    <3>3. Recorded(e)'
      BY <1>1, <2>3, <3>1, <3>2, RecordedStays
    <3>4. QED
      BY <2>2, <3>3
  <2>6. QED
    BY <2>4, <2>5
<1>9. Named'
  BY <1>5, <1>6 DEF TableInv, Named
<1>10. Queue'
  BY <1>1, <1>3, <1>4, QueueKept DEF TableInv, IsOpen, Call, Process
<1>11. TableInv'
  BY <1>1, <1>6, <1>8, <1>9, <1>10 DEF TableInv, Records, Ranges
<1>12. QED
  BY <1>5, <1>6, <1>11

(* What is left of the records of p when it commits.                       *)
LEMMA TableCommitted ==
  ASSUME Records, NEW p \in Process
  PROVE  /\ Tabular(TableAfter(p)) /\ DOMAIN TableAfter(p) = DOMAIN table
         /\ \A i \in DOMAIN table :
              /\ table[i].writer # p => TableAfter(p)[i] = table[i]
              /\ TableAfter(p)[i].hash = table[i].hash
              /\ TableAfter(p)[i].previous = table[i].previous
              /\ TableAfter(p)[i].flushed = table[i].flushed
              /\ table[i].writer = p => TableAfter(p)[i].writer = Nobody
<1> DEFINE r == TableAfter(p)
<1>1. r = [i \in DOMAIN table |-> r[i]]
  BY DEF TableAfter
<1>2. ASSUME NEW i \in DOMAIN table
      PROVE  /\ DOMAIN r[i] = EntryField
             /\ table[i].writer # p => r[i] = table[i]
             /\ r[i].hash = table[i].hash
             /\ r[i].previous = table[i].previous
             /\ r[i].flushed = table[i].flushed
             /\ table[i].writer = p => r[i].writer = Nobody
  BY DEF Records, Tabular, EntryField, TableAfter
<1>3. Tabular(table)
  BY DEF Records
<1> HIDE DEF r
<1>4. Tabular(r) /\ DOMAIN r = DOMAIN table
  BY <1>1, <1>2, <1>3, TableMapped
<1>5. QED
  BY <1>2, <1>4 DEF r

(* The records of p are settled with its commit, those of others stay.     *)
LEMMA CommitKeepsRecords ==
  ASSUME JournalInv, TableInv, NEW p \in Process, Finished(p),
         table' = TableAfter(p), txn' = [txn EXCEPT ![p] = Idle],
         \A d : Settled(d) => Settled(d)', NEW c, c = Call(p), Settled(c)'
  PROVE  Records' /\ Named'
<1>1. /\ txn[p].phase = "work" /\ txn[p] # Idle
  BY NotIdle DEF Finished, At
<1>2. DOMAIN txn = Process /\ txn'[p] = Idle /\ \A q \in Process \ {p} : txn'[q] = txn[q]
  BY DEF JournalInv, Transactions
<1>3. /\ Tabular(table') /\ DOMAIN table' = DOMAIN table
      /\ \A i \in DOMAIN table :
           /\ table[i].writer # p => table'[i] = table[i]
           /\ table'[i].hash = table[i].hash
           /\ table'[i].flushed = table[i].flushed
           /\ table[i].writer = p => table'[i].writer = Nobody
  BY TableCommitted DEF TableInv
<1>4. p # Nobody
  BY JournalAssumption DEF Process
<1>5. ASSUME NEW i \in DOMAIN table' PROVE Recorded(table[i])'
  <2>1. PICK d : d = table[i]
    OBVIOUS
  <2>2. PICK e : e = table'[i]
    OBVIOUS
  <2>3. Recorded(d) /\ i \in DOMAIN table
    BY <1>3, <2>1 DEF TableInv, Records
  <2>4. CASE d.writer = p
    <3>1. Written(d, txn[p]) /\ d.flushed \in BOOLEAN
      BY <1>4, <2>3, <2>4 DEF Recorded
    <3>2. d.flushed /\ d.hash.call = c
      BY <1>1, <3>1 DEF Written, Call
    <3>3. e.writer = Nobody /\ e.hash = d.hash /\ e.flushed = d.flushed
      BY <1>3, <2>1, <2>2, <2>3, <2>4
    <3>4. Settled(e.hash.call)'
      BY <3>2, <3>3
    <3>5. Recorded(e)'
      BY <2>3, <3>2, <3>3, <3>4 DEF Recorded
    <3>6. QED
      BY <2>2, <3>5
  <2>5. CASE d.writer # p
    <3>1. e = d
      BY <1>3, <2>1, <2>2, <2>3, <2>5
    <3>2. Recorded(e)'
      BY <1>2, <2>3, <2>5, <3>1 DEF Recorded
    <3>3. QED
      BY <2>2, <3>2
  <2>6. QED
    BY <2>4, <2>5
<1>6. Named'
  BY <1>3 DEF TableInv, Named
<1>7. QED
  BY <1>3, <1>5, <1>6 DEF Records

LEMMA CommitKeepsTable ==
  ASSUME JournalInv, TableInv, NEW s \in Process, Commit(s)
  PROVE  TableInv'
<1>0. PICK c : c = Call(s)
  OBVIOUS
<1>1. /\ Finished(s) /\ rows' = RowsAfter(s) /\ txn' = [txn EXCEPT ![s] = Idle]
      /\ s \in Sessions /\ jobs' = jobs \cup JobLeft(c) /\ overlap' = overlap
      /\ DOMAIN stored' = DOMAIN stored \cup {KeyOf(c)}
      /\ executed' = [executed EXCEPT ![c] = @ + 1] /\ table' = TableAfter(s)
  BY <1>0 DEF Commit
<1>2. txn[s] # Idle /\ txn[s].phase = "work" /\ txn[s].call = c /\ s \notin Workers
  BY <1>0, <1>1, NotIdle, JournalAssumption DEF Finished, At, Call
<1>3. /\ c \in Calls /\ Handling(txn[s]) /\ DOMAIN txn = Process
      /\ KeyOf(c) \notin DOMAIN stored
  BY <1>1, <1>2, WhileOpen DEF JournalInv, Handling, Working, Transactions
<1>4. executed[c] = 0 /\ executed \in [Calls -> Nat]
  BY <1>3 DEF JournalInv, Ledger
<1>5. /\ executed'[c] = 1 /\ \A d \in Calls : executed[d] > 0 => executed'[d] > 0
  BY <1>1, <1>3, <1>4
<1>6. ASSUME NEW j \in JobLeft(c)
      PROVE  /\ j.op \in JobType /\ j.request = c.request /\ LocksRow(c.op)
             /\ \A d \in Calls : j \in JobLeft(d) => d = c
  <2>1. \A d \in Calls : DOMAIN d = {"op", "request", "key", "body"}
    BY JournalAssumption
  <2>2. ASSUME NEW d \in Calls, j \in JobLeft(d)
        PROVE  /\ d.op \in {"ai_review", "approve", "revoke"}
               /\ j.op = JobOf[d.op]
               /\ j.request = d.request /\ j.key = d.key /\ j.body = d.body
    <3>1. d.op \in {"ai_review", "approve", "revoke"} /\ j = [d EXCEPT !.op = JobOf[d.op]]
      BY <2>2 DEF JobLeft, JobOf
    <3>2. QED
      BY <2>1, <3>1
  <2>3. /\ c.op \in {"ai_review", "approve", "revoke"}
        /\ j.op = JobOf[c.op] /\ j.request = c.request /\ j.key = c.key /\ j.body = c.body
    BY <1>3, <2>2
  <2>4. JobOf["ai_review"] = "AI_REVIEW" /\ JobOf["approve"] = "ENFORCEMENT" /\ JobOf["revoke"] = "REVOCATION"
    BY DEF JobOf
  <2>5. ASSUME NEW d \in Calls, j \in JobLeft(d) PROVE d = c
    <3>1. d.op = c.op
      BY <2>2, <2>3, <2>4, <2>5
    <3>2. d.request = c.request /\ d.key = c.key /\ d.body = c.body
      BY <2>2, <2>3, <2>5
    <3>3. KeyOf(d) = KeyOf(c)
      BY <3>1, <3>2 DEF KeyOf
    <3>4. QED
      BY <1>3, <3>2, <3>3, JournalAssumption
  <2>6. j.op \in JobType /\ LocksRow(c.op)
    BY <2>3, <2>4 DEF JobType, LocksRow
  <2>7. QED
    BY <2>3, <2>5, <2>6
<1>7. c.op \notin JobType
  BY <1>3, JournalAssumption DEF Operation, JobType
<1>8. ASSUME NEW d, Settled(d) PROVE Settled(d)'
  <2>1. d \in Calls => KeyOf(d) \in DOMAIN stored'
    BY <1>1, <1>8 DEF Settled
  <2>2. d \notin JobLeft(c)
    BY <1>3, <1>4, <1>8 DEF Settled
  <2>3. \A b \in Calls : d \in JobLeft(b) => executed'[b] > 0
    BY <1>5, <1>8 DEF Settled
  <2>4. QED
    BY <1>1, <1>8, <2>1, <2>2, <2>3 DEF Settled
<1>9. Settled(c)'
  <2>1. c \notin jobs
    BY <1>7 DEF JournalInv, Ledger
  <2>2. c \notin JobLeft(c)
    BY <1>6, <1>7
  <2>3. ASSUME NEW b \in Calls, c \in JobLeft(b) PROVE FALSE
    <3>1. DOMAIN b = {"op", "request", "key", "body"} /\ b.op \in DOMAIN JobOf /\ c = [b EXCEPT !.op = JobOf[b.op]]
      BY <2>3, JournalAssumption DEF JobLeft
    <3>2. c.op = JobOf[b.op] /\ b.op \in {"ai_review", "approve", "revoke"}
      BY <3>1 DEF JobOf
    <3>3. QED
      BY <1>7, <3>2 DEF JobOf, JobType
  <2>4. QED
    BY <1>1, <2>1, <2>2, <2>3 DEF Settled
<1>10. Records' /\ Named'
  BY <1>0, <1>1, <1>8, <1>9, CommitKeepsRecords
<1>11. DOMAIN rows \subseteq DOMAIN rows' /\ DOMAIN rows' \subseteq DOMAIN rows \cup {c.request}
  BY <1>0, <1>1, RowsWritten
<1>12. Queue'
  <2>1. ASSUME NEW j \in jobs'
        PROVE  /\ j.request \in DOMAIN rows'
               /\ \A d \in Calls : j \in JobLeft(d) => executed'[d] > 0
    <3>1. CASE j \in jobs
      BY <1>5, <1>11, <3>1 DEF TableInv, Queue
    <3>2. CASE j \in JobLeft(c)
      <4>1. j.request = c.request /\ LocksRow(c.op) /\ \A d \in Calls : j \in JobLeft(d) => d = c
        BY <1>6, <3>2
      <4>2. c.request \in DOMAIN rows
        BY <1>2, <1>3, <4>1 DEF Handling
      <4>3. QED
        BY <1>5, <1>11, <4>1, <4>2
    <3>3. QED
      BY <1>1, <3>1, <3>2
  <2>2. \A w \in Workers : w \in Process /\ txn'[w] = txn[w]
    BY <1>1, <1>2, <1>3 DEF Process
  <2>3. \A w \in Workers : IsOpen(w)' => IsOpen(w) /\ Call(w)' = Call(w)
    BY <2>2 DEF IsOpen, Call
  <2>4. QED
    BY <1>1, <2>1, <2>3 DEF TableInv, Queue
<1>13. Ranges'
  BY <1>1, <1>3, <1>11 DEF TableInv, Ranges
<1>14. QED
  BY <1>10, <1>12, <1>13 DEF TableInv

LEMMA CompleteKeepsTable ==
  ASSUME JournalInv, TableInv, NEW w \in Process, Complete(w)
  PROVE  TableInv'
<1>0. PICK j : j = Call(w)
  OBVIOUS
<1>1. /\ Finished(w) /\ rows' = RowsAfter(w) /\ txn' = [txn EXCEPT ![w] = Idle]
      /\ w \in Workers /\ w \notin Sessions /\ jobs' = jobs \ {j}
      /\ UNCHANGED <<stored, executed, told, overlap>> /\ table' = TableAfter(w)
  BY <1>0, JournalAssumption DEF Complete
<1>2. txn[w] # Idle /\ txn[w].phase = "work" /\ txn[w].call = j /\ DOMAIN txn = Process
  BY <1>0, <1>1, NotIdle DEF Finished, At, Call, JournalInv, Transactions
<1>3. j \in jobs /\ j.op \in JobType
  BY <1>0, <1>1, <1>2 DEF TableInv, Queue, IsOpen, JournalInv, Ledger
<1>4. ASSUME NEW d, Settled(d) PROVE Settled(d)'
  BY <1>1, <1>4 DEF Settled
<1>5. Settled(j)'
  <2>1. j \notin Calls
    BY <1>3, JournalAssumption DEF Operation, JobType
  <2>2. QED
    BY <1>1, <1>3, <2>1 DEF Settled, TableInv, Queue
<1>6. Records' /\ Named'
  BY <1>0, <1>1, <1>4, <1>5, CommitKeepsRecords
<1>7. DOMAIN rows' = DOMAIN rows
  BY <1>1, RowsWritten
<1>8. Queue'
  <2>1. \A v \in Workers \ {w} : IsOpen(v)' => IsOpen(v) /\ Call(v)' = Call(v)
    BY <1>1, <1>2 DEF IsOpen, Call, Process
  <2>2. ~IsOpen(w)'
    BY <1>1, <1>2 DEF IsOpen, Process
  <2>3. \A v \in Workers \ {w} : IsOpen(v) => Call(v) # j
    BY <1>0, <1>1, <1>2 DEF TableInv, Queue, IsOpen
  <2>4. \A v \in Workers : IsOpen(v)' => Call(v)' \in jobs'
    BY <1>1, <2>1, <2>2, <2>3 DEF TableInv, Queue
  <2>5. \A v, x \in Workers : IsOpen(v)' /\ IsOpen(x)' /\ Call(v)' = Call(x)' => v = x
    BY <2>1, <2>2 DEF TableInv, Queue
  <2>6. QED
    BY <1>1, <1>7, <2>4, <2>5 DEF TableInv, Queue
<1>9. QED
  BY <1>1, <1>6, <1>7, <1>8 DEF TableInv, Ranges

(* The records there are to begin with.                                    *)
LEMMA FirstTable ==
  ASSUME Init
  PROVE  /\ Tabular(table)
         /\ \A i \in DOMAIN table :
              /\ table[i].writer = Nobody /\ table[i].flushed = TRUE
              /\ table[i].hash.part = 0
              /\ table[i].hash = [call |-> table[i].hash.call, part |-> table[i].hash.part]
              /\ table[i].hash.call.op = "create" /\ table[i].hash.call.request \in Existing
              /\ table[i].previous = IF i = 1 THEN Genesis ELSE table[i - 1].hash
         /\ Named
<1> DEFINE order == SetToSeq(Existing)
           n == Cardinality(Existing)
           hash == [i \in 1..n |->
                      [call |-> [op |-> "create", request |-> order[i], key |-> "-", body |-> "-"],
                       part |-> 0]]
<1>1. n \in Nat /\ \E f \in [1..n -> Existing] : IsInjective(f)
  <2>1. n \in Nat /\ ExistsBijection(1..n, Existing)
    BY JournalAssumption, FS_CardinalityType
  <2>2. PICK f : f \in Bijection(1..n, Existing)
    BY <2>1 DEF ExistsBijection
  <2>3. f \in [1..n -> Existing] /\ IsInjective(f)
    BY <2>2 DEF Bijection, Injection, IsInjective
  <2>4. QED
    BY <2>1, <2>3
<1>2. order \in [1..n -> Existing] /\ IsInjective(order)
  BY <1>1 DEF SetToSeq
<1> HIDE DEF order, n
<1>3. \A i \in 1..n : /\ hash[i].call.op = "create" /\ hash[i].call.request = order[i]
                      /\ hash[i].part = 0
                      /\ hash[i] = [call |-> hash[i].call, part |-> hash[i].part]
  OBVIOUS
<1>4. table = [i \in 1..n |->
                 [hash |-> hash[i], previous |-> IF i = 1 THEN Genesis ELSE hash[i - 1],
                  writer |-> Nobody, request |-> order[i], flushed |-> TRUE]]
  <2>1. DOMAIN order = 1..n
    BY <1>2
  <2>2. \A i \in 1..n : i # 1 => i - 1 \in 1..n
    BY <1>1
  <2>3. \A i \in 1..n : i # 1 => hash[i - 1] =
          [call |-> [op |-> "create", request |-> order[i - 1], key |-> "-", body |-> "-"],
           part |-> 0]
    BY <2>2
  <2>4. QED
    BY <2>1, <2>3 DEF Init, FirstRecords, order
<1> HIDE DEF hash
<1>5. \A i \in 1..n :
        /\ DOMAIN table[i] = EntryField
        /\ table[i].hash = hash[i] /\ table[i].writer = Nobody /\ table[i].flushed = TRUE
        /\ table[i].previous = IF i = 1 THEN Genesis ELSE hash[i - 1]
  BY <1>4 DEF EntryField
<1>6. DOMAIN table = 1..n
  BY <1>4
<1>7. Tabular(table)
  <2>1. table \in [1..n -> EntriesOf(table)]
    <3>1. table = [i \in 1..n |-> table[i]]
      BY <1>4
    <3>2. QED
      BY <1>6, <3>1 DEF EntriesOf
  <2>2. table \in Seq(EntriesOf(table))
    BY <1>1, <2>1, SeqDef
  <2>3. QED
    BY <1>5, <1>6, <2>2 DEF Tabular
<1>8. \A i \in 1..n : table[i].previous = IF i = 1 THEN Genesis ELSE table[i - 1].hash
  <2>1. \A i \in 1..n : i # 1 => i - 1 \in 1..n
    BY <1>1
  <2>2. QED
    BY <1>5, <2>1
<1>9. Named
  <2>1. SUFFICES ASSUME NEW i \in 1..n, NEW j \in 1..n, hash[i] = hash[j] PROVE i = j
    BY <1>5, <1>6 DEF Named
  <2>2. order[i] = order[j]
    BY <1>3, <2>1
  <2>3. QED
    BY <1>2, <2>2 DEF IsInjective
<1>10. \A i \in 1..n : order[i] \in Existing
  BY <1>2
<1>11. QED
  BY <1>3, <1>5, <1>6, <1>7, <1>8, <1>9, <1>10

LEMMA TableInitially == Init => TableInv
<1> SUFFICES ASSUME Init PROVE TableInv
  OBVIOUS
<1>1. /\ rows = [r \in Existing |-> 1] /\ stored = <<>> /\ jobs = Pending
      /\ txn = [p \in Process |-> Idle] /\ executed = [c \in Calls |-> 0] /\ overlap = FALSE
  BY DEF Init
<1>2. ASSUME NEW c, c.op = "create", c.request \in Existing PROVE Settled(c)
  <2>1. c \notin Calls
    BY <1>2, JournalAssumption
  <2>2. c \notin jobs
    BY <1>1, <1>2, JournalAssumption DEF JobType
  <2>3. ASSUME NEW d \in Calls, c \in JobLeft(d) PROVE FALSE
    <3>1. DOMAIN d = {"op", "request", "key", "body"} /\ d.op \in DOMAIN JobOf /\ c = [d EXCEPT !.op = JobOf[d.op]]
      BY <2>3, JournalAssumption DEF JobLeft
    <3>2. c.op = JobOf[d.op] /\ d.op \in {"ai_review", "approve", "revoke"}
      BY <3>1 DEF JobOf
    <3>3. QED
      BY <1>2, <3>2 DEF JobOf
  <2>4. QED
    BY <2>1, <2>2, <2>3 DEF Settled
<1>3. Records
  <2>1. Tabular(table)
    BY FirstTable
  <2>2. ASSUME NEW i \in DOMAIN table PROVE Recorded(table[i])
    <3>1. PICK e : e = table[i]
      OBVIOUS
    <3>2. /\ e.writer = Nobody /\ e.flushed = TRUE /\ e.hash.part = 0
          /\ e.hash = [call |-> e.hash.call, part |-> e.hash.part]
          /\ e.hash.call.op = "create" /\ e.hash.call.request \in Existing
      BY <3>1, FirstTable
    <3>3. Settled(e.hash.call)
      BY <1>2, <3>2
    <3>4. Recorded(e)
      <4>1. e.flushed \in BOOLEAN /\ e.flushed
        BY <3>2, Zenon
      <4>2. e.hash.part \in Nat
        BY <3>2
      <4>3. QED
        BY <3>2, <3>3, <4>1, <4>2, Zenon DEF Recorded
    <3>5. QED
      BY <3>1, <3>4
  <2>3. QED
    BY <2>1, <2>2 DEF Records
<1>4. Named
  BY FirstTable
<1>5. Queue
  BY <1>1, JournalAssumption DEF Queue, IsOpen, Process
<1>6. Ranges
  <2>1. DOMAIN stored = {} /\ DOMAIN rows = Existing
    BY <1>1
  <2>2. QED
    BY <1>1, <2>1 DEF Ranges
<1>7. QED
  BY <1>3, <1>4, <1>5, <1>6 DEF TableInv

LEMMA TableInvariant == Spec => []TableInv
<1>1. JournalInv /\ TableInv /\ [Next]_vars => TableInv'
  <2> SUFFICES ASSUME JournalInv, TableInv, [Next]_vars PROVE TableInv'
    OBVIOUS
  <2>1. ASSUME NEW s \in Sessions, NEW c \in Calls, Begin(s, c) PROVE TableInv'
    BY <2>1, BeginKeepsTable
  <2>2. ASSUME NEW w \in Workers, NEW j \in jobs, Claim(w, j) PROVE TableInv'
    BY <2>2, ClaimKeepsTable
  <2>3. ASSUME NEW p \in Process,
               NotFound(p) \/ Replay(p) \/ Duplicate(p) \/ Refuse(p) \/ Victim(p) \/ Crash(p)
        PROVE  TableInv'
    BY <2>3, EndKeepsTable DEF NotFound, Replay, Duplicate, Refuse, Victim, Crash
  <2>4. ASSUME NEW p \in Process,
               LockRow(p) \/ FirstTime(p) \/ InsertKey(p) \/ ChooseTail(p) \/ LockTail(p)
        PROVE  TableInv'
    BY <2>4, QuietKeepsTable
  <2>5. ASSUME NEW p \in Process, Stamp(p) \/ Flush(p) \/ Commit(p) \/ Complete(p) PROVE TableInv'
    BY <2>5, StampKeepsTable, FlushKeepsTable, CommitKeepsTable, CompleteKeepsTable
  <2>6. CASE UNCHANGED vars
    BY <2>6 DEF vars, TableInv, Records, Recorded, Settled, Named, Queue, Ranges, IsOpen, Call
  <2>7. QED
    BY <2>1, <2>2, <2>3, <2>4, <2>5, <2>6 DEF Next, Continues
<1>2. QED
  BY <1>1, TableInitially, JournalInvariant, PTL DEF Spec

(* A record that is not committed belongs to an open transaction, and a    *)
(* job to a request there is, with any crashes, deadlocks and rollbacks.   *)
THEOREM Typed == Spec => []TypeOK
<1>1. JournalInv /\ TableInv => TypeOK
  BY DEF JournalInv, Transactions, Ledger, TableInv, Records, Recorded, Written, Queue, Ranges,
         TypeOK, IsOpen
<1>2. QED
  BY <1>1, JournalInvariant, TableInvariant, PTL
-----------------------------------------------------------------------------
(* What a transaction has locked of the records it sees, and what it asks  *)
(* for next is not older than any of them.  A handler that has not         *)
(* inserted its key has locked none.                                       *)
Sees(p, h) == \E i \in Visible(p) : table[i].hash = h

NoneNewer(p, i) == \A j \in DOMAIN table : table[j].hash \in txn[p].locked => j =< i

Chosen(p) ==
  \E i \in Visible(p) : table[i].hash = txn[p].previous /\ NoneNewer(p, i)

LocksOf(p) ==
  IsOpen(p) => /\ \A h \in txn[p].locked : Sees(p, h)
               /\ At(p, "tail") => Chosen(p)
               /\ p \in Sessions /\ txn[p].phase \notin Working => txn[p].locked = {}

ApartRecords(t, u) == t # Idle /\ u # Idle => t.locked \cap u.locked = {}

RecordLocks ==
  /\ \A p \in Process : LocksOf(p)
  /\ \A p, q \in Process : p # q => ApartRecords(txn[p], txn[q])

(* Where the records stay and p sees what it saw, it has what it had.      *)
LEMMA LocksStay ==
  ASSUME Named', NEW p \in Process, LocksOf(p),
         DOMAIN table \subseteq DOMAIN table',
         \A i \in DOMAIN table : table'[i].hash = table[i].hash,
         Visible(p) \subseteq Visible(p)',
         txn[p] # Idle, txn'[p].locked = txn[p].locked,
         txn'[p].phase = "tail" => txn[p].phase = "tail" /\ txn'[p].previous = txn[p].previous,
         txn'[p].phase \in Working \/ txn[p].phase \notin Working
  PROVE  LocksOf(p)'
<1>1. \A i \in Visible(p) : i \in DOMAIN table /\ i \in DOMAIN table' /\ i \in Visible(p)'
  BY DEF Visible
<1>2. \A h \in txn[p].locked : \E i \in Visible(p) : table[i].hash = h
  BY DEF LocksOf, Sees, IsOpen
<1>3. \A h \in txn'[p].locked : Sees(p, h)'
  BY <1>1, <1>2 DEF Sees
<1>4. ASSUME txn'[p].phase = "tail" PROVE Chosen(p)'
  <2>1. PICK i \in Visible(p) : table[i].hash = txn[p].previous /\ NoneNewer(p, i)
    BY <1>4 DEF LocksOf, Chosen, IsOpen, At
  <2>2. i \in Visible(p)' /\ i \in DOMAIN table' /\ table'[i].hash = txn'[p].previous
    BY <1>1, <1>4, <2>1
  <2>3. ASSUME NEW j \in DOMAIN table', table'[j].hash \in txn'[p].locked PROVE j =< i
    <3>1. PICK k \in Visible(p) : table[k].hash = table'[j].hash
      BY <1>2, <2>3
    <3>2. k \in DOMAIN table /\ k \in DOMAIN table' /\ table'[k].hash = table'[j].hash
      BY <1>1, <3>1
    <3>3. k = j
      BY <3>2 DEF Named
    <3>4. QED
      BY <2>1, <2>3, <3>1, <3>2, <3>3 DEF NoneNewer
  <2>4. \E k \in Visible(p)' : /\ table'[k].hash = txn'[p].previous
                               /\ \A j \in DOMAIN table' : table'[j].hash \in txn'[p].locked => j =< k
    BY <2>2, <2>3
  <2>5. QED
    BY <2>4 DEF Chosen, NoneNewer
<1>5. p \in Sessions /\ txn'[p].phase \notin Working => txn'[p].locked = {}
  BY DEF LocksOf, IsOpen, Working
<1>6. QED
  BY <1>3, <1>4, <1>5 DEF LocksOf, At

(* A step of p that locks no record leaves the other transactions theirs.  *)
LEMMA LocksMoved ==
  ASSUME RecordLocks, Named', NEW p \in Process, NEW t, DOMAIN txn = Process,
         txn' = [txn EXCEPT ![p] = t],
         DOMAIN table \subseteq DOMAIN table',
         \A i \in DOMAIN table : table'[i].hash = table[i].hash,
         \A q \in Process : Visible(q) \subseteq Visible(q)',
         LocksOf(p)',
         \A q \in Process \ {p} : ApartRecords(t, txn[q])
  PROVE  RecordLocks'
<1>1. txn'[p] = t /\ \A q \in Process \ {p} : txn'[q] = txn[q]
  OBVIOUS
<1>2. ASSUME NEW q \in Process PROVE LocksOf(q)'
  <2>1. CASE q = p
    BY <2>1
  <2>2. CASE q # p /\ txn[q] = Idle
    BY <1>1, <2>2 DEF LocksOf, IsOpen
  <2>3. CASE q # p /\ txn[q] # Idle
    <3>1. LocksOf(q) /\ txn'[q] = txn[q]
      BY <1>1, <2>3 DEF RecordLocks
    <3>2. QED
      BY <2>3, <3>1, LocksStay
  <2>4. QED
    BY <2>1, <2>2, <2>3
<1>3. ASSUME NEW q \in Process, NEW r \in Process, q # r
      PROVE  ApartRecords(txn'[q], txn'[r])
  <2>1. CASE q = p
    BY <1>1, <1>3, <2>1
  <2>2. CASE r = p
    <3>1. ApartRecords(t, txn[q])
      BY <1>3, <2>2
    <3>2. QED
      BY <1>1, <1>3, <2>2, <3>1 DEF ApartRecords
  <2>3. CASE q # p /\ r # p
    BY <1>1, <1>3, <2>3 DEF RecordLocks
  <2>4. QED
    BY <2>1, <2>2, <2>3
<1>4. QED
  BY <1>2, <1>3 DEF RecordLocks

(* Steps of a transaction that goes on without locking a record.           *)
LEMMA LocksCarried ==
  ASSUME RecordLocks, Named', NEW p \in Process, NEW t, DOMAIN txn = Process,
         txn' = [txn EXCEPT ![p] = t],
         DOMAIN table \subseteq DOMAIN table',
         \A i \in DOMAIN table : table'[i].hash = table[i].hash,
         \A q \in Process : Visible(q) \subseteq Visible(q)',
         txn[p] # Idle, t.locked = txn[p].locked,
         t.phase # "tail", t.phase \in Working \/ txn[p].phase \notin Working
  PROVE  RecordLocks'
<1>1. txn'[p] = t
  OBVIOUS
<1>2. LocksOf(p)'
  BY <1>1, LocksStay DEF RecordLocks
<1>3. \A q \in Process \ {p} : ApartRecords(t, txn[q])
  BY DEF RecordLocks, ApartRecords
<1>4. QED
  BY <1>2, <1>3, LocksMoved

(* A transaction begins without locks, and ends with its commit.           *)
LEMMA LocksFresh ==
  ASSUME RecordLocks, Named', NEW p \in Process, NEW t, DOMAIN txn = Process,
         txn' = [txn EXCEPT ![p] = t],
         DOMAIN table \subseteq DOMAIN table',
         \A i \in DOMAIN table : table'[i].hash = table[i].hash,
         \A q \in Process : Visible(q) \subseteq Visible(q)',
         t = Idle \/ (t.locked = {} /\ t.phase # "tail")
  PROVE  RecordLocks'
<1>1. txn'[p] = t
  OBVIOUS
<1>2. LocksOf(p)'
  BY <1>1 DEF LocksOf, IsOpen, At
<1>3. \A q \in Process \ {p} : ApartRecords(t, txn[q])
  BY DEF ApartRecords
<1>4. QED
  BY <1>2, <1>3, LocksMoved

(* What p sees does not depend on what the others do with their own.       *)
LEMMA SeenAlike ==
  ASSUME table' = table PROVE \A q \in Process : Visible(q) \subseteq Visible(q)'
BY DEF Visible

LEMMA BeginKeepsLocks ==
  ASSUME JournalInv, TableInv, RecordLocks, Named',
         \/ \E s \in Sessions, c \in Calls : Begin(s, c)
         \/ \E w \in Workers : \E j \in jobs : Claim(w, j)
  PROVE  RecordLocks'
<1>0. DOMAIN txn = Process
  BY DEF JournalInv, Transactions
<1>1. ASSUME NEW s \in Sessions, NEW c \in Calls, Begin(s, c) PROVE RecordLocks'
  <2> DEFINE t == Opened(IF LocksRow(c.op) THEN "row" ELSE "select", c)
  <2>1. txn' = [txn EXCEPT ![s] = t] /\ table' = table /\ s \in Process
    BY <1>1 DEF Begin, Process
  <2>2. t.locked = {} /\ t.phase # "tail"
    BY DEF Opened
  <2> HIDE DEF t
  <2>3. QED
    BY <1>0, <2>1, <2>2, SeenAlike, LocksFresh
<1>2. ASSUME NEW w \in Workers, NEW j \in jobs, Claim(w, j) PROVE RecordLocks'
  <2> DEFINE t == [Opened("work", j) EXCEPT !.read = rows[j.request]]
  <2>1. txn' = [txn EXCEPT ![w] = t] /\ table' = table /\ w \in Process
    BY <1>2 DEF Claim, Process
  <2>2. t.locked = {} /\ t.phase # "tail"
    BY DEF Opened
  <2> HIDE DEF t
  <2>3. QED
    BY <1>0, <2>1, <2>2, SeenAlike, LocksFresh
<1>3. QED
  BY <1>1, <1>2

LEMMA GoingOnKeepsLocks ==
  ASSUME JournalInv, TableInv, RecordLocks, Named', NEW p \in Process,
         LockRow(p) \/ FirstTime(p) \/ InsertKey(p) \/ Stamp(p) \/ Flush(p)
  PROVE  RecordLocks'
<1> DEFINE u == txn[p]
<1>1. u.phase \in {"row", "select", "insert", "work", "flush"} /\ u # Idle
  BY NotIdle DEF LockRow, FirstTime, InsertKey, Stamp, Flush, At
<1>2. DOMAIN u = Field /\ DOMAIN txn = Process
  BY <1>1, WhileOpen DEF JournalInv, WellFormed, Transactions
<1>3. CASE LockRow(p)
  <2> DEFINE t == [u EXCEPT !.phase = "select", !.holds = TRUE, !.read = rows[u.call.request]]
  <2>1. txn' = [txn EXCEPT ![p] = t] /\ u.phase = "row" /\ table' = table
    BY <1>3 DEF LockRow, Call, At
  <2>2. t.locked = u.locked /\ t.phase = "select"
    BY <1>2 DEF Field
  <2> HIDE DEF t
  <2>3. QED
    BY <1>1, <1>2, <2>1, <2>2, SeenAlike, LocksCarried DEF Working
<1>4. CASE FirstTime(p) \/ InsertKey(p)
  <2> DEFINE phase == IF FirstTime(p) THEN "insert" ELSE "work"
             t == [u EXCEPT !.phase = phase]
  <2>1. txn' = [txn EXCEPT ![p] = t] /\ u.phase \in {"select", "insert"} /\ table' = table
    BY <1>4 DEF FirstTime, InsertKey, Moves, At
  <2>2. t.locked = u.locked /\ t.phase \in {"insert", "work"}
    BY <1>2 DEF Field
  <2> HIDE DEF t
  <2>3. QED
    BY <1>1, <1>2, <2>1, <2>2, SeenAlike, LocksCarried DEF Working
<1>5. CASE Stamp(p)
  <2> DEFINE t == [u EXCEPT !.phase = "stamped"]
             e == [hash |-> Hash(p), previous |-> Genesis, writer |-> p,
                   request |-> Call(p).request, flushed |-> FALSE]
  <2>1. txn' = [txn EXCEPT ![p] = t] /\ table' = Append(table, e)
    BY <1>5 DEF Stamp, Moves
  <2>2. t.locked = u.locked /\ t.phase = "stamped"
    BY <1>2 DEF Field
  <2>3. DOMAIN e = EntryField
    BY DEF EntryField
  <2> HIDE DEF e, t
  <2>4. DOMAIN table \subseteq DOMAIN table' /\ \A i \in DOMAIN table : table'[i] = table[i]
    BY <2>1, <2>3, TableAppended DEF TableInv, Records
  <2>5. \A q \in Process : Visible(q) \subseteq Visible(q)'
    BY <2>4 DEF Visible
  <2>6. \A i \in DOMAIN table : table'[i].hash = table[i].hash
    BY <2>4
  <2>7. QED
    BY <1>1, <1>2, <2>1, <2>2, <2>4, <2>5, <2>6, LocksCarried DEF Working
<1>6. CASE Flush(p)
  <2> DEFINE t == [u EXCEPT !.phase = "work", !.part = @ + 1, !.holds = LocksRow(Call(p).op)]
  <2>1. txn' = [txn EXCEPT ![p] = t]
    BY <1>6 DEF Flush
  <2>2. t.locked = u.locked /\ t.phase = "work"
    BY <1>2 DEF Field
  <2> HIDE DEF t
  <2>3. /\ DOMAIN table' = DOMAIN table
        /\ \A i \in DOMAIN table :
             /\ table'[i].hash = table[i].hash /\ table'[i].writer = table[i].writer
             /\ table[i].writer # p => table'[i] = table[i]
             /\ table[i].writer = p => table'[i].flushed
    BY <1>6, FlushKeepsTable
  <2>4. \A q \in Process : Visible(q) \subseteq Visible(q)'
    BY <2>3 DEF Visible
  <2>5. QED
    BY <1>1, <1>2, <2>1, <2>2, <2>3, <2>4, LocksCarried DEF Working
<1>7. QED
  BY <1>3, <1>4, <1>5, <1>6

LEMMA ChooseTailKeepsLocks ==
  ASSUME JournalInv, TableInv, RecordLocks, Named', NEW p \in Process, ChooseTail(p)
  PROVE  RecordLocks'
<1> DEFINE u == txn[p]
           phase == IF Visible(p) = {} THEN "flush" ELSE "tail"
           h == HashOfNewest(table, Visible(p))
           t == [u EXCEPT !.previous = h, !.phase = phase]
           n == Newest(Visible(p))
<1>1. txn' = [txn EXCEPT ![p] = t] /\ u.phase = "stamped" /\ table' = table /\ u # Idle
  BY NotIdle DEF ChooseTail, At
<1>2. DOMAIN u = Field /\ DOMAIN txn = Process
  BY <1>1, WhileOpen DEF JournalInv, WellFormed, Transactions
<1>3. t.locked = u.locked /\ t.previous = h /\ t.phase = phase /\ phase \in {"tail", "flush"}
  BY <1>2 DEF Field
<1>4. \A i \in Visible(p) : n \in Visible(p) /\ i =< n
  <2>1. Visible(p) \in SUBSET (1..Len(table)) /\ Len(table) \in Nat
    BY DEF Visible, TableInv, Records, Tabular
  <2>2. QED
    BY <2>1, NewestIsThere
<1> HIDE DEF t, n
<1>5. txn'[p] = t
  BY <1>1, <1>2
<1>6. Visible(p)' = Visible(p)
  BY <1>1 DEF Visible
<1>7. \A g \in u.locked : \E i \in Visible(p) : table[i].hash = g
  BY <1>1 DEF RecordLocks, LocksOf, Sees, IsOpen
<1>8. ASSUME t.phase = "tail" PROVE Chosen(p)'
  <2>1. Visible(p) # {} /\ n \in Visible(p) /\ table[n].hash = h
    BY <1>3, <1>4, <1>8 DEF HashOfNewest, n
  <2>2. ASSUME NEW j \in DOMAIN table, table[j].hash \in u.locked PROVE j =< n
    <3>1. PICK i \in Visible(p) : table[i].hash = table[j].hash
      BY <1>7, <2>2
    <3>2. i = j
      BY <3>1 DEF TableInv, Named, Visible
    <3>3. QED
      BY <1>4, <3>1, <3>2
  <2>3. QED
    BY <1>1, <1>3, <1>5, <1>6, <2>1, <2>2 DEF Chosen, NoneNewer
<1>9. LocksOf(p)'
  <2>1. \A g \in t.locked : Sees(p, g)'
    BY <1>1, <1>3, <1>6, <1>7 DEF Sees
  <2>2. t.phase \in Working
    BY <1>3 DEF Working
  <2>3. QED
    BY <1>5, <1>8, <2>1, <2>2 DEF LocksOf, At
<1>10. \A q \in Process \ {p} : ApartRecords(t, txn[q])
  BY <1>1, <1>3 DEF RecordLocks, ApartRecords
<1>11. QED
  BY <1>1, <1>2, <1>9, <1>10, SeenAlike, LocksMoved

LEMMA LockTailKeepsLocks ==
  ASSUME JournalInv, TableInv, RecordLocks, Named', NEW p \in Process, LockTail(p)
  PROVE  RecordLocks'
<1> DEFINE u == txn[p]
           t == [u EXCEPT !.locked = @ \cup {u.previous}, !.phase = "flush"]
<1>1. txn' = [txn EXCEPT ![p] = t] /\ u.phase = "tail" /\ table' = table /\ u # Idle
  BY NotIdle DEF LockTail, At
<1>2. DOMAIN u = Field /\ DOMAIN txn = Process
  BY <1>1, WhileOpen DEF JournalInv, WellFormed, Transactions
<1>3. t.locked = u.locked \cup {u.previous} /\ t.phase = "flush"
  BY <1>2 DEF Field
<1> HIDE DEF t
<1>4. txn'[p] = t
  BY <1>1, <1>2
<1>5. Visible(p)' = Visible(p)
  BY <1>1 DEF Visible
<1>6. \A h \in t.locked : \E i \in Visible(p) : table[i].hash = h
  BY <1>1, <1>3 DEF RecordLocks, LocksOf, Sees, IsOpen, At, Chosen
<1>7. LocksOf(p)'
  <2>1. \A h \in t.locked : Sees(p, h)'
    BY <1>1, <1>5, <1>6 DEF Sees
  <2>2. QED
    BY <1>3, <1>4, <2>1 DEF LocksOf, At, Working
<1>8. ASSUME NEW q \in Process \ {p} PROVE ApartRecords(t, txn[q])
  <2>1. ApartRecords(u, txn[q])
    BY DEF RecordLocks
  <2>2. q \notin WaitsFor(p)
    BY DEF LockTail, Free
  <2>3. txn[q] # Idle => u.previous \notin txn[q].locked
    BY <1>1, <2>2 DEF WaitsFor, HoldsRecord, IsOpen, At
  <2>4. QED
    BY <1>1, <1>3, <2>1, <2>3 DEF ApartRecords
<1>9. QED
  BY <1>1, <1>2, <1>7, <1>8, SeenAlike, LocksMoved

LEMMA CommitKeepsLocks ==
  ASSUME JournalInv, TableInv, RecordLocks, Named', NEW p \in Process,
         Commit(p) \/ Complete(p)
  PROVE  RecordLocks'
<1>1. txn' = [txn EXCEPT ![p] = Idle] /\ table' = TableAfter(p) /\ DOMAIN txn = Process
  BY DEF Commit, Complete, JournalInv, Transactions
<1>2. /\ DOMAIN table' = DOMAIN table
      /\ \A i \in DOMAIN table :
           /\ table[i].writer # p => table'[i] = table[i]
           /\ table'[i].hash = table[i].hash
           /\ table[i].writer = p => table'[i].writer = Nobody
  BY <1>1, TableCommitted DEF TableInv
<1>3. \A q \in Process : Visible(q) \subseteq Visible(q)'
  BY <1>2 DEF Visible
<1>4. QED
  BY <1>1, <1>2, <1>3, LocksFresh

LEMMA EndKeepsLocks ==
  ASSUME JournalInv, TableInv, RecordLocks, NEW p \in Process, Ends(p)
  PROVE  RecordLocks'
<1>1. /\ txn' = [txn EXCEPT ![p] = Idle] /\ table' = RolledBack(p)
      /\ DOMAIN txn = Process /\ Tabular(table)
  BY DEF Ends, JournalInv, Transactions, TableInv, Records
<1>2. txn'[p] = Idle /\ \A q \in Process \ {p} : txn'[q] = txn[q]
  BY <1>1
<1>3. PICK f : /\ Tabular(table')
               /\ f \in [DOMAIN table' -> DOMAIN table]
               /\ \A k \in DOMAIN table' : table'[k] = table[f[k]]
               /\ \A k, l \in DOMAIN table' : k < l <=> f[k] < f[l]
               /\ \A i \in DOMAIN table :
                    table[i].writer # p <=> \E k \in DOMAIN table' : f[k] = i
  BY <1>1, TableRolledBack
<1>4. p # Nobody
  BY JournalAssumption DEF Process
<1>5. ASSUME NEW q \in Process \ {p}, NEW i \in Visible(q)
      PROVE  \E k \in Visible(q)' : f[k] = i /\ k \in DOMAIN table' /\ table'[k] = table[i]
  <2>1. i \in DOMAIN table /\ table[i].writer # p
    BY <1>4, <1>5 DEF Visible
  <2>2. PICK k \in DOMAIN table' : f[k] = i
    BY <1>3, <2>1
  <2>3. table'[k] = table[i]
    BY <1>3, <2>2
  <2>4. k \in Visible(q)'
    BY <1>5, <2>3 DEF Visible
  <2>5. QED
    BY <2>2, <2>3, <2>4
<1>6. ASSUME NEW q \in Process \ {p}, txn[q] # Idle PROVE LocksOf(q)'
  <2>1. txn'[q] = txn[q] /\ LocksOf(q)
    BY <1>2 DEF RecordLocks
  <2>2. \A h \in txn[q].locked : Sees(q, h)'
    BY <1>5, <1>6, <2>1 DEF LocksOf, Sees, IsOpen
  <2>3. ASSUME txn[q].phase = "tail" PROVE Chosen(q)'
    <3>1. PICK i \in Visible(q) : table[i].hash = txn[q].previous /\ NoneNewer(q, i)
      BY <1>6, <2>1, <2>3 DEF LocksOf, Chosen, IsOpen, At
    <3>2. PICK k \in Visible(q)' : f[k] = i /\ k \in DOMAIN table' /\ table'[k] = table[i]
      BY <1>5
    <3>3. ASSUME NEW j \in DOMAIN table', table'[j].hash \in txn[q].locked PROVE j =< k
      <4>1. f[j] \in DOMAIN table /\ table[f[j]].hash \in txn[q].locked
        BY <1>3, <3>3
      <4>2. f[j] =< i
        BY <3>1, <4>1 DEF NoneNewer
      <4>3. f[j] \in Nat /\ i \in Nat /\ j \in Nat /\ k \in Nat
        BY <1>1, <1>3, <3>2, <4>1 DEF Tabular
      <4>4. ~(f[k] < f[j])
        BY <3>2, <4>2, <4>3
      <4>5. ~(k < j)
        BY <1>3, <3>2, <4>4
      <4>6. QED
        BY <4>3, <4>5
    <3>4. \E l \in Visible(q)' : /\ table'[l].hash = txn[q].previous
                                 /\ \A j \in DOMAIN table' : table'[j].hash \in txn[q].locked => j =< l
      BY <3>1, <3>2, <3>3
    <3>5. QED
      BY <2>1, <3>4 DEF Chosen, NoneNewer
  <2>4. QED
    BY <1>6, <2>1, <2>2, <2>3 DEF LocksOf, IsOpen, At
<1>7. \A q \in Process : LocksOf(q)'
  <2>1. ASSUME NEW q \in Process, txn'[q] = Idle PROVE LocksOf(q)'
    BY <2>1 DEF LocksOf, IsOpen
  <2>2. QED
    BY <1>2, <1>6, <2>1
<1>8. \A q, r \in Process : q # r => ApartRecords(txn'[q], txn'[r])
  BY <1>2 DEF RecordLocks, ApartRecords
<1>9. QED
  BY <1>7, <1>8 DEF RecordLocks

LEMMA LocksInvariant == Spec => []RecordLocks
<1>1. Init => RecordLocks
  BY DEF Init, RecordLocks, LocksOf, ApartRecords, IsOpen
<1>2. JournalInv /\ TableInv /\ TableInv' /\ RecordLocks /\ [Next]_vars => RecordLocks'
  <2> SUFFICES ASSUME JournalInv, TableInv, TableInv', RecordLocks, [Next]_vars
               PROVE  RecordLocks'
    OBVIOUS
  <2>0. Named'
    BY DEF TableInv
  <2>1. CASE \/ \E s \in Sessions, c \in Calls : Begin(s, c)
             \/ \E w \in Workers : \E j \in jobs : Claim(w, j)
    BY <2>0, <2>1, BeginKeepsLocks
  <2>2. ASSUME NEW p \in Process,
               NotFound(p) \/ Replay(p) \/ Duplicate(p) \/ Refuse(p) \/ Victim(p) \/ Crash(p)
        PROVE  RecordLocks'
    BY <2>2, EndKeepsLocks DEF NotFound, Replay, Duplicate, Refuse, Victim, Crash
  <2>3. ASSUME NEW p \in Process,
               LockRow(p) \/ FirstTime(p) \/ InsertKey(p) \/ Stamp(p) \/ Flush(p)
        PROVE  RecordLocks'
    BY <2>0, <2>3, GoingOnKeepsLocks
  <2>4. ASSUME NEW p \in Process, ChooseTail(p) \/ LockTail(p) PROVE RecordLocks'
    BY <2>0, <2>4, ChooseTailKeepsLocks, LockTailKeepsLocks
  <2>5. ASSUME NEW p \in Process, Commit(p) \/ Complete(p) PROVE RecordLocks'
    BY <2>0, <2>5, CommitKeepsLocks
  <2>6. CASE UNCHANGED vars
    BY <2>6 DEF vars, RecordLocks, LocksOf, Sees, Chosen, NoneNewer, Visible, IsOpen, At
  <2>7. QED
    BY <2>1, <2>2, <2>3, <2>4, <2>5, <2>6 DEF Next, Continues
<1>3. QED
  BY <1>1, <1>2, JournalInvariant, TableInvariant, PTL DEF Spec

(* The order in which handlers wait: for the row, for the key, and then    *)
(* for ever newer records.  Whoever waits comes before whom it waits for.  *)
Place(p) == CHOOSE i \in Visible(p) : table[i].hash = txn[p].previous

Rank(p) ==
  CASE txn[p] = Idle \/ txn[p].phase = "row" -> 0
    [] txn[p] # Idle /\ txn[p].phase \in {"select", "insert"} -> 1
    [] txn[p] # Idle /\ txn[p].phase = "tail" /\ txn[p].previous \notin txn[p].locked
         -> 2 + Place(p)
    [] OTHER -> 3 + Len(table)

LEMMA PlaceOf ==
  ASSUME TableInv, RecordLocks, NEW p \in Process, txn[p] # Idle, txn[p].phase = "tail"
  PROVE  /\ Place(p) \in Visible(p) /\ Place(p) \in Nat /\ Place(p) =< Len(table)
         /\ table[Place(p)].hash = txn[p].previous
         /\ NoneNewer(p, Place(p))
<1>1. PICK i \in Visible(p) : table[i].hash = txn[p].previous /\ NoneNewer(p, i)
  BY DEF RecordLocks, LocksOf, Chosen, IsOpen, At
<1>2. Place(p) \in Visible(p) /\ table[Place(p)].hash = txn[p].previous
  BY <1>1 DEF Place
<1>3. Place(p) = i
  BY <1>1, <1>2 DEF TableInv, Named, Visible
<1>4. Place(p) \in 1..Len(table) /\ Len(table) \in Nat
  BY <1>2 DEF Visible, TableInv, Records, Tabular
<1>5. QED
  BY <1>1, <1>2, <1>3, <1>4

LEMMA RankOf ==
  ASSUME TableInv, RecordLocks, NEW p \in Process
  PROVE  /\ Rank(p) \in Nat
         /\ txn[p] # Idle /\ txn[p].phase # "row" => Rank(p) > 0
         /\ txn[p] # Idle /\ txn[p].phase \in Working => Rank(p) > 1
<1>1. Len(table) \in Nat
  BY DEF TableInv, Records, Tabular
<1>2. CASE txn[p] # Idle /\ txn[p].phase = "tail" /\ txn[p].previous \notin txn[p].locked
  <2>1. Rank(p) = 2 + Place(p)
    BY <1>2 DEF Rank
  <2>2. Place(p) \in Nat
    BY <1>2, PlaceOf
  <2>3. QED
    BY <2>1, <2>2
<1>3. CASE ~(txn[p] # Idle /\ txn[p].phase = "tail" /\ txn[p].previous \notin txn[p].locked)
  BY <1>1, <1>3 DEF Rank, Working
<1>4. QED
  BY <1>2, <1>3

LEMMA WaitingGoesUp ==
  ASSUME JournalInv, TableInv, RecordLocks,
         NEW p \in Sessions, NEW q \in Sessions, q \in WaitsFor(p)
  PROVE  Rank(p) < Rank(q)
<1>1. p \in Process /\ q \in Process /\ p # q
  BY DEF WaitsFor, Process
<1>2. Rank(p) \in Nat /\ Rank(q) \in Nat /\ Len(table) \in Nat
  BY <1>1, RankOf DEF TableInv, Records, Tabular
<1>3. txn[p] # Idle
  BY NotIdle DEF WaitsFor, At
<1>4. txn[q] # Idle
  BY DEF WaitsFor, HoldsRow, HoldsKey, HoldsRecord, IsOpen
<1>5. Handling(txn[p]) /\ Handling(txn[q])
  BY <1>1, <1>3, <1>4, WhileOpen DEF JournalInv
<1>6. CASE txn[p].phase = "row"
  <2>1. txn[q].holds
    BY <1>6 DEF WaitsFor, At, HoldsRow
  <2>2. txn[q].phase # "row"
    BY <1>5, <2>1 DEF Handling
  <2>3. Rank(p) = 0
    BY <1>6 DEF Rank
  <2>4. Rank(q) > 0
    BY <1>1, <1>4, <2>2, RankOf
  <2>5. QED
    BY <1>2, <2>3, <2>4
<1>7. CASE txn[p].phase = "insert"
  <2>1. txn[q].phase \notin {"row", "select", "insert"}
    BY <1>7 DEF WaitsFor, At, HoldsKey
  <2>2. txn[q].phase \in Working
    BY <1>5, <2>1 DEF Handling
  <2>3. Rank(p) = 1
    BY <1>3, <1>7 DEF Rank
  <2>4. Rank(q) > 1
    BY <1>1, <1>4, <2>2, RankOf
  <2>5. QED
    BY <1>2, <2>3, <2>4
<1>8. CASE txn[p].phase = "tail"
  <2>1. txn[p].previous \in txn[q].locked
    BY <1>8 DEF WaitsFor, At, HoldsRecord
  <2>2. txn[p].previous \notin txn[p].locked
    BY <1>1, <1>3, <1>4, <2>1 DEF RecordLocks, ApartRecords
  <2>3. txn[q].phase \in Working
    BY <1>1, <1>4, <2>1 DEF RecordLocks, LocksOf, IsOpen
  <2>4. Rank(p) = 2 + Place(p)
    BY <1>3, <1>8, <2>2 DEF Rank
  <2>5. /\ Place(p) \in DOMAIN table /\ Place(p) \in Nat /\ Place(p) =< Len(table)
        /\ table[Place(p)].hash = txn[p].previous
    BY <1>1, <1>3, <1>8, PlaceOf DEF Visible
  <2>6. CASE txn[q].phase = "tail" /\ txn[q].previous \notin txn[q].locked
    <3>1. Rank(q) = 2 + Place(q)
      BY <1>4, <2>6 DEF Rank
    <3>2. Place(q) \in Nat /\ table[Place(q)].hash = txn[q].previous /\ NoneNewer(q, Place(q))
      BY <1>1, <1>4, <2>6, PlaceOf
    <3>3. Place(p) =< Place(q)
      BY <2>1, <2>5, <3>2 DEF NoneNewer
    <3>4. Place(p) # Place(q)
      BY <2>1, <2>5, <2>6, <3>2
    <3>5. Place(p) < Place(q)
      BY <2>5, <3>2, <3>3, <3>4
    <3>6. QED
      BY <2>4, <2>5, <3>1, <3>2, <3>5
  <2>7. CASE ~(txn[q].phase = "tail" /\ txn[q].previous \notin txn[q].locked)
    <3>1. Rank(q) = 3 + Len(table)
      BY <1>4, <2>3, <2>7 DEF Rank, Working
    <3>2. QED
      BY <1>2, <2>4, <2>5, <3>1
  <2>8. QED
    BY <2>6, <2>7
<1>9. CASE txn[p].phase = "flush"
  <2>1. LocksRow(txn[p].call.op) /\ ~txn[p].holds
    BY <1>9 DEF WaitsFor, At, Call
  <2>2. QED
    BY <1>5, <1>9, <2>1 DEF Handling
<1>10. QED
  BY <1>6, <1>7, <1>8, <1>9 DEF WaitsFor, At

(* No handlers wait for each other in a circle, over rows, keys and        *)
(* records, with any number of them and of records that each appends.      *)
THEOREM HandlersAreFree == Spec => []HandlersNeverDeadlock
<1>1. JournalInv /\ TableInv /\ RecordLocks => HandlersNeverDeadlock
  <2> SUFFICES ASSUME JournalInv, TableInv, RecordLocks,
                      NEW S \in SUBSET Sessions, Deadlocked(S)
               PROVE  FALSE
    BY DEF HandlersNeverDeadlock
  <2> DEFINE Ranks == {Rank(p) : p \in S}
  <2>1. \A p \in S : p \in Process /\ Rank(p) \in Nat
    BY RankOf DEF Process
  <2>2. Ranks \in SUBSET Nat /\ Ranks # {}
    BY <2>1 DEF Deadlocked
  <2>3. PICK m \in Ranks : \A k \in Ranks : ~(<<k, m>> \in OpToRel(<, Nat))
    BY <2>2, WFMin, NatLessThanWellFounded, Zenon
  <2>4. \A k \in Ranks : ~(k < m)
    BY <2>2, <2>3 DEF OpToRel
  <2>5. PICK q \in S : m = Rank(q)
    OBVIOUS
  <2>6. PICK p \in S : q \in WaitsFor(p)
    BY <2>5 DEF Deadlocked
  <2>7. Rank(p) < Rank(q)
    BY <2>5, <2>6, WaitingGoesUp
  <2>8. QED
    BY <2>4, <2>5, <2>6, <2>7
<1>2. QED
  BY <1>1, JournalInvariant, TableInvariant, LocksInvariant, PTL
-----------------------------------------------------------------------------
(* While only one transaction at a time appends, the records flushed are a *)
(* chain, those of the open transaction are its end, and the last of them  *)
(* may wait to be flushed after the one that was chosen.                   *)
Flushed == {i \in DOMAIN table : table[i].flushed}

OneWriter ==
  \A i, j \in DOMAIN table :
    /\ table[i].writer # Nobody /\ table[j].writer # Nobody => table[i].writer = table[j].writer
    /\ table[i].writer = Nobody /\ table[j].writer # Nobody => i < j
    /\ ~table[i].flushed => j =< i

FollowsChosen(i, t) ==
  ~table[i].flushed /\ t.phase \in {"tail", "flush"} => t.previous = HashOfNewest(table, Flushed)

Chained ==
  /\ VerifyAuditChain(table, Flushed)
  /\ OneWriter
  /\ \A i \in DOMAIN table : FollowsChosen(i, txn[table[i].writer])

ChainInv == ~overlap => Chained

(* The newest record is the same where the hashes are, ...                 *)
Carries(f, t, A, r, B) ==
  /\ \E m, n \in Nat : A \in SUBSET (1..m) /\ B \in SUBSET (1..n)
  /\ f \in [A -> B]
  /\ \A k, l \in A : k < l <=> f[k] < f[l]
  /\ \A i \in B : \E k \in A : f[k] = i
  /\ \A k \in A : t[k].hash = r[f[k]].hash

LEMMA NewestMoves ==
  ASSUME NEW f, NEW t, NEW A, NEW r, NEW B, Carries(f, t, A, r, B)
  PROVE  HashOfNewest(t, A) = HashOfNewest(r, B)
<1> USE DEF Carries
<1>0. PICK m \in Nat, n \in Nat : A \in SUBSET (1..m) /\ B \in SUBSET (1..n)
  OBVIOUS
<1>1. CASE A = {}
  <2>1. B = {}
    BY <1>1
  <2>2. QED
    BY <1>1, <2>1 DEF HashOfNewest
<1>2. CASE A # {}
  <2>1. Newest(A) \in A /\ \A k \in A : k =< Newest(A)
    BY <1>0, <1>2, NewestIsThere
  <2>2. B # {} /\ f[Newest(A)] \in B
    BY <1>2, <2>1
  <2>3. Newest(B) \in B /\ \A i \in B : i =< Newest(B)
    BY <1>0, <2>2, NewestIsThere
  <2>4. PICK k \in A : f[k] = Newest(B)
    BY <2>3
  <2>5. \A i \in A : i \in Nat
    BY <1>0
  <2>6. \A i \in B : i \in Nat
    BY <1>0
  <2>7. k = Newest(A)
    <3>1. k =< Newest(A) /\ k \in Nat /\ Newest(A) \in Nat
      BY <2>1, <2>4, <2>5
    <3>2. f[Newest(A)] =< f[k] /\ f[k] \in Nat /\ f[Newest(A)] \in Nat
      BY <2>2, <2>3, <2>4, <2>6
    <3>3. ~(f[k] < f[Newest(A)])
      BY <3>2
    <3>4. ~(k < Newest(A))
      BY <2>1, <2>4, <3>3
    <3>5. QED
      BY <3>1, <3>4
  <2>8. QED
    BY <1>2, <2>1, <2>2, <2>4, <2>7 DEF HashOfNewest
<1>3. QED
  BY <1>1, <1>2

LEMMA NewestAlike ==
  ASSUME NEW t, NEW r, NEW n \in Nat, NEW I \in SUBSET (1..n),
         \A i \in I : t[i].hash = r[i].hash
  PROVE  HashOfNewest(t, I) = HashOfNewest(r, I)
<1>1. I # {} => Newest(I) \in I
  BY NewestIsThere
<1>2. QED
  BY <1>1 DEF HashOfNewest

(* ... and so a chain stays one.                                           *)
Alike(t, r, I) == \A i \in I : r[i].hash = t[i].hash /\ r[i].previous = t[i].previous

LEMMA ChainAlike ==
  ASSUME NEW t, NEW r, NEW n \in Nat, NEW I \in SUBSET (1..n), VerifyAuditChain(t, I),
         Alike(t, r, I)
  PROVE  VerifyAuditChain(r, I)
<1>1. SUFFICES ASSUME NEW i \in I PROVE r[i].previous = HashOfNewest(r, Before(I, i))
  BY DEF VerifyAuditChain
<1>2. Before(I, i) \in SUBSET (1..n) /\ \A j \in Before(I, i) : t[j].hash = r[j].hash
  BY DEF Before, Alike
<1>3. HashOfNewest(t, Before(I, i)) = HashOfNewest(r, Before(I, i))
  BY <1>2, NewestAlike
<1>4. QED
  BY <1>3 DEF VerifyAuditChain, Alike

(* The last record of all may join.                                        *)
LEMMA ChainGrows ==
  ASSUME NEW t, NEW I, VerifyAuditChain(t, I), NEW m \in Nat,
         \A i \in I : i \in Nat /\ i < m, t[m].previous = HashOfNewest(t, I)
  PROVE  VerifyAuditChain(t, I \cup {m})
<1>1. Before(I \cup {m}, m) = I
  <2>1. ~(m < m)
    OBVIOUS
  <2>2. QED
    BY <2>1 DEF Before
<1>2. ASSUME NEW i \in I PROVE Before(I \cup {m}, i) = Before(I, i)
  <2>1. i < m /\ i \in Nat
    OBVIOUS
  <2>2. QED
    BY <2>1 DEF Before
<1>3. QED
  BY <1>1, <1>2 DEF VerifyAuditChain

(* Steps that leave the records alone.                                     *)
LEMMA ChainKept ==
  ASSUME Chained, table' = table,
         \A i \in DOMAIN table : FollowsChosen(i, txn'[table[i].writer])
  PROVE  Chained'
<1>1. Flushed' = Flushed
  BY DEF Flushed
<1>2. VerifyAuditChain(table, Flushed)' /\ OneWriter'
  BY <1>1 DEF Chained, OneWriter, VerifyAuditChain, HashOfNewest
<1>3. \A i \in DOMAIN table : FollowsChosen(i, txn[table[i].writer])'
  BY <1>1 DEF FollowsChosen, HashOfNewest
<1>4. QED
  BY <1>2, <1>3 DEF Chained

(* Whose records there are.                                                *)
LEMMA WriterOf ==
  ASSUME TableInv, NEW i \in DOMAIN table
  PROVE  /\ i \in 1..Len(table) /\ Len(table) \in Nat
         /\ table[i].flushed \in BOOLEAN
         /\ table[i].writer = Nobody => table[i].flushed
         /\ table[i].writer # Nobody =>
              /\ table[i].writer \in Process /\ txn[table[i].writer] # Idle
              /\ txn[table[i].writer].phase \in Working
              /\ ~table[i].flushed => txn[table[i].writer].phase # "work"
<1>1. PICK e : e = table[i]
  OBVIOUS
<1>2. Recorded(e) /\ i \in 1..Len(table) /\ Len(table) \in Nat
  BY <1>1 DEF TableInv, Records, Tabular
<1>3. QED
  BY <1>1, <1>2 DEF Recorded, Written

LEMMA QuietKeepsChain ==
  ASSUME JournalInv, TableInv, Chained,
         \/ \E s \in Sessions, c \in Calls : Begin(s, c)
         \/ \E w \in Workers : \E j \in jobs : Claim(w, j)
         \/ \E p \in Process : LockRow(p) \/ FirstTime(p) \/ InsertKey(p)
  PROVE  Chained'
<1>1. PICK p \in Process :
        /\ table' = table /\ \A q \in Process \ {p} : txn'[q] = txn[q]
        /\ txn[p] = Idle \/ txn[p].phase \notin Working
  <2>0. DOMAIN txn = Process
    BY DEF JournalInv, Transactions
  <2>1. ASSUME NEW s \in Sessions, NEW c \in Calls, Begin(s, c)
        PROVE  /\ s \in Process /\ table' = table /\ txn[s] = Idle
               /\ \A q \in Process \ {s} : txn'[q] = txn[q]
    BY <2>0, <2>1 DEF Begin, IsOpen, Process
  <2>2. ASSUME NEW w \in Workers, NEW j \in jobs, Claim(w, j)
        PROVE  /\ w \in Process /\ table' = table /\ txn[w] = Idle
               /\ \A q \in Process \ {w} : txn'[q] = txn[q]
    BY <2>0, <2>2 DEF Claim, IsOpen, Process
  <2>3. ASSUME NEW p \in Process, LockRow(p) \/ FirstTime(p) \/ InsertKey(p)
        PROVE  /\ table' = table /\ txn[p].phase \notin Working
               /\ \A q \in Process \ {p} : txn'[q] = txn[q]
    BY <2>0, <2>3 DEF LockRow, FirstTime, InsertKey, Moves, At, Working
  <2>4. QED
    BY <2>1, <2>2, <2>3
<1>2. ASSUME NEW i \in DOMAIN table PROVE FollowsChosen(i, txn'[table[i].writer])
  <2>1. CASE table[i].flushed
    BY <2>1 DEF FollowsChosen
  <2>2. CASE ~table[i].flushed
    <3>1. table[i].writer \in Process \ {p}
      BY <1>1, <2>2, WriterOf
    <3>2. QED
      BY <1>1, <3>1 DEF Chained
  <2>3. QED
    BY <2>1, <2>2
<1>3. QED
  BY <1>1, <1>2, ChainKept

LEMMA StampKeepsChain ==
  ASSUME JournalInv, TableInv, Chained, NEW p \in Process, Stamp(p), ~overlap'
  PROVE  Chained'
<1> DEFINE u == txn[p]
           t == [u EXCEPT !.phase = "stamped"]
           e == [hash |-> Hash(p), previous |-> Genesis, writer |-> p,
                 request |-> Call(p).request, flushed |-> FALSE]
           n == Len(table) + 1
<1>1. /\ u.phase = "work" /\ u # Idle /\ txn' = [txn EXCEPT ![p] = t]
      /\ table' = Append(table, e)
      /\ \A i \in DOMAIN table : table[i].writer \in {p, Nobody}
  BY NotIdle DEF Stamp, At, Moves
<1>2. DOMAIN u = Field /\ DOMAIN txn = Process
  BY <1>1, WhileOpen DEF JournalInv, WellFormed, Transactions
<1>3. txn'[p] = t /\ t.phase = "stamped"
  BY <1>1, <1>2 DEF Field
<1>4. DOMAIN e = EntryField /\ e.writer = p /\ e.flushed = FALSE
  BY DEF EntryField
<1> HIDE DEF t, e
<1>5. /\ DOMAIN table' = DOMAIN table \cup {n} /\ n \notin DOMAIN table
      /\ \A i \in DOMAIN table : i < n
      /\ table'[n] = e /\ \A i \in DOMAIN table : table'[i] = table[i]
  BY <1>1, <1>4, TableAppended DEF TableInv, Records
<1>6. n \in Nat /\ DOMAIN table \in SUBSET (1..Len(table)) /\ Len(table) \in Nat
  BY DEF TableInv, Records, Tabular
<1> HIDE DEF n
<1>7. p # Nobody
  BY JournalAssumption DEF Process
<1>8. \A i \in DOMAIN table : table[i].flushed
  BY <1>1, <1>7, WriterOf
<1>9. Flushed = DOMAIN table /\ Flushed' = DOMAIN table
  BY <1>4, <1>5, <1>8 DEF Flushed
<1>10. VerifyAuditChain(table', DOMAIN table)
  <2>1. VerifyAuditChain(table, DOMAIN table)
    BY <1>9 DEF Chained
  <2>2. Alike(table, table', DOMAIN table)
    BY <1>5 DEF Alike
  <2>3. QED
    BY <1>6, <2>1, <2>2, ChainAlike
<1>11. OneWriter'
  <2>1. ASSUME NEW i \in DOMAIN table', NEW j \in DOMAIN table'
        PROVE  /\ table'[i].writer # Nobody /\ table'[j].writer # Nobody
                    => table'[i].writer = table'[j].writer
               /\ table'[i].writer = Nobody /\ table'[j].writer # Nobody => i < j
               /\ ~table'[i].flushed => j =< i
    <3>1. CASE i \in DOMAIN table /\ j \in DOMAIN table
      BY <1>5, <1>8, <3>1 DEF Chained, OneWriter
    <3>2. CASE i \in DOMAIN table /\ j = n
      BY <1>1, <1>4, <1>5, <1>8, <3>2
    <3>3. CASE i = n
      <4>1. table'[i].writer = p
        BY <1>4, <1>5, <3>3
      <4>2. j \in DOMAIN table => table'[j].writer \in {p, Nobody} /\ j < n /\ j \in Nat
        BY <1>1, <1>5, <1>6
      <4>3. j =< n
        BY <1>5, <1>6, <4>2
      <4>4. QED
        BY <1>4, <1>5, <1>7, <3>3, <4>1, <4>2, <4>3
    <3>4. QED
      BY <1>5, <3>1, <3>2, <3>3
  <2>2. QED
    BY <2>1 DEF OneWriter
<1>12. \A i \in DOMAIN table' : FollowsChosen(i, txn[table[i].writer])'
  <2>1. \A i \in DOMAIN table : table'[i].flushed
    BY <1>5, <1>8
  <2>2. txn'[table'[n].writer].phase = "stamped"
    BY <1>3, <1>4, <1>5
  <2>3. QED
    BY <1>5, <2>1, <2>2 DEF FollowsChosen
<1>13. QED
  BY <1>9, <1>10, <1>11, <1>12 DEF Chained

LEMMA ChooseTailKeepsChain ==
  ASSUME JournalInv, TableInv, Chained, NEW p \in Process, ChooseTail(p) \/ LockTail(p)
  PROVE  Chained'
<1> DEFINE u == txn[p]
<1>1. /\ table' = table /\ u.phase \in {"stamped", "tail"} /\ u # Idle
      /\ \A q \in Process \ {p} : txn'[q] = txn[q]
      /\ DOMAIN u = Field /\ DOMAIN txn = Process
  <2>1. table' = table /\ u.phase \in {"stamped", "tail"} /\ u # Idle
    BY NotIdle DEF ChooseTail, LockTail, At
  <2>2. DOMAIN u = Field /\ DOMAIN txn = Process
    BY <2>1, WhileOpen DEF JournalInv, WellFormed, Transactions
  <2>3. QED
    BY <2>1, <2>2 DEF ChooseTail, LockTail
<1>2. ASSUME NEW i \in DOMAIN table, table[i].writer = p, ~table[i].flushed
      PROVE  Visible(p) = Flushed
  <2>1. p # Nobody
    BY JournalAssumption DEF Process
  <2>2. ASSUME NEW j \in DOMAIN table, table[j].writer # Nobody PROVE table[j].writer = p
    BY <1>2, <2>1, <2>2 DEF Chained, OneWriter
  <2>3. QED
    BY <2>2, WriterOf DEF Visible, Flushed
<1>3. ASSUME NEW i \in DOMAIN table, table[i].writer = p, ~table[i].flushed
      PROVE  txn'[p].previous = HashOfNewest(table, Flushed)
  <2>1. CASE ChooseTail(p)
    <3>1. txn'[p].previous = HashOfNewest(table, Visible(p))
      BY <1>1, <2>1 DEF ChooseTail, Field
    <3>2. QED
      BY <1>2, <1>3, <3>1
  <2>2. CASE LockTail(p)
    <3>1. txn'[p].previous = u.previous /\ u.phase = "tail"
      BY <1>1, <2>2 DEF LockTail, Field, At
    <3>2. FollowsChosen(i, u)
      BY <1>3 DEF Chained
    <3>3. QED
      BY <1>3, <3>1, <3>2 DEF FollowsChosen
  <2>3. QED
    BY <2>1, <2>2
<1>4. ASSUME NEW i \in DOMAIN table PROVE FollowsChosen(i, txn'[table[i].writer])
  <2>1. CASE table[i].flushed
    BY <2>1 DEF FollowsChosen
  <2>2. CASE ~table[i].flushed /\ table[i].writer = p
    BY <1>3, <2>2 DEF FollowsChosen
  <2>3. CASE ~table[i].flushed /\ table[i].writer # p
    <3>1. table[i].writer \in Process \ {p}
      BY <2>3, WriterOf
    <3>2. QED
      BY <1>1, <3>1 DEF Chained
  <2>4. QED
    BY <2>1, <2>2, <2>3
<1>5. QED
  BY <1>1, <1>4, ChainKept

LEMMA FlushKeepsChain ==
  ASSUME JournalInv, TableInv, Chained, NEW p \in Process, Flush(p)
  PROVE  Chained'
<1> DEFINE u == txn[p]
<1>1. /\ u.phase = "flush" /\ u # Idle /\ DOMAIN txn = Process
      /\ \A q \in Process \ {p} : txn'[q] = txn[q]
  <2>1. u.phase = "flush" /\ u # Idle /\ DOMAIN txn = Process
    BY NotIdle DEF Flush, At, JournalInv, Transactions
  <2>2. QED
    BY <2>1 DEF Flush
<1>2. /\ DOMAIN table' = DOMAIN table
      /\ \A i \in DOMAIN table :
           /\ table'[i].hash = table[i].hash /\ table'[i].writer = table[i].writer
           /\ table[i].writer # p \/ table[i].flushed => table'[i] = table[i]
           /\ table[i].writer = p => table'[i].flushed
           /\ table[i].writer = p /\ ~table[i].flushed => table'[i].previous = u.previous
  BY FlushKeepsTable
<1>3. DOMAIN table \subseteq 1..Len(table) /\ Len(table) \in Nat
  BY DEF TableInv, Records, Tabular
<1>4. OneWriter'
  <2>1. ASSUME NEW i \in DOMAIN table, NEW j \in DOMAIN table
        PROVE  /\ table'[i].writer # Nobody /\ table'[j].writer # Nobody
                    => table'[i].writer = table'[j].writer
               /\ table'[i].writer = Nobody /\ table'[j].writer # Nobody => i < j
               /\ ~table'[i].flushed => j =< i
    <3>1. ~table'[i].flushed => ~table[i].flushed
      BY <1>2
    <3>2. table'[i].writer = table[i].writer /\ table'[j].writer = table[j].writer
      BY <1>2
    <3>3. QED
      BY <3>1, <3>2 DEF Chained, OneWriter
  <2>2. QED
    BY <1>2, <2>1 DEF OneWriter
<1>5. CASE \E m \in DOMAIN table : table[m].writer = p /\ ~table[m].flushed
  <2>1. PICK m \in DOMAIN table : table[m].writer = p /\ ~table[m].flushed
    BY <1>5
  <2>2. \A i \in DOMAIN table : i =< m /\ i \in Nat /\ (~table[i].flushed => m =< i)
    BY <1>3, <2>1 DEF Chained, OneWriter
  <2>3. \A i \in DOMAIN table \ {m} : table[i].flushed /\ i < m
    <3>1. ASSUME NEW i \in DOMAIN table \ {m} PROVE table[i].flushed /\ i < m
      <4>1. i =< m /\ i \in Nat /\ m \in Nat /\ i # m
        BY <2>1, <2>2
      <4>2. i < m /\ ~(m =< i)
        BY <4>1
      <4>3. QED
        BY <2>2, <4>2
    <3>2. QED
      BY <3>1
  <2>4. Flushed = DOMAIN table \ {m} /\ Flushed' = Flushed \cup {m}
    <3>1. Flushed = DOMAIN table \ {m}
      BY <2>1, <2>3 DEF Flushed
    <3>2. \A i \in DOMAIN table : table'[i].flushed
      BY <1>2, <2>1, <2>3
    <3>3. Flushed' = DOMAIN table
      BY <1>2, <3>2 DEF Flushed
    <3>4. QED
      BY <2>1, <3>1, <3>3
  <2>5. u.previous = HashOfNewest(table, Flushed)
    <3>1. FollowsChosen(m, u)
      BY <2>1 DEF Chained
    <3>2. QED
      BY <1>1, <2>1, <3>1 DEF FollowsChosen
  <2>6. Flushed \in SUBSET (1..Len(table)) /\ Flushed \subseteq DOMAIN table
    BY <1>3 DEF Flushed
  <2>7. \A i \in Flushed : table'[i].hash = table[i].hash /\ table'[i].previous = table[i].previous
    BY <1>2 DEF Flushed
  <2>8. VerifyAuditChain(table', Flushed)
    <3>1. Alike(table, table', Flushed)
      BY <2>7 DEF Alike
    <3>2. QED
      BY <1>3, <2>6, <3>1, ChainAlike DEF Chained
  <2>9. table'[m].previous = HashOfNewest(table', Flushed)
    <3>1. HashOfNewest(table', Flushed) = HashOfNewest(table, Flushed)
      BY <1>3, <2>6, <2>7, NewestAlike
    <3>2. QED
      BY <1>2, <2>1, <2>5, <3>1
  <2>10. m \in Nat /\ \A i \in Flushed : i \in Nat /\ i < m
    BY <2>1, <2>2, <2>3, <2>4
  <2> HIDE DEF Flushed
  <2>11. VerifyAuditChain(table', Flushed \cup {m})
    BY <2>8, <2>9, <2>10, ChainGrows
  <2>12. \A i \in DOMAIN table' : table'[i].flushed
    BY <1>2, <2>1, <2>3
  <2>13. \A i \in DOMAIN table' : FollowsChosen(i, txn[table[i].writer])'
    BY <2>12 DEF FollowsChosen
  <2>14. QED
    BY <1>4, <2>4, <2>11, <2>13 DEF Chained
<1>6. CASE \A m \in DOMAIN table : table[m].writer = p => table[m].flushed
  <2>1. \A i \in DOMAIN table : table'[i] = table[i]
    BY <1>2, <1>6
  <2>2. Flushed' = Flushed /\ Flushed \in SUBSET (1..Len(table))
    BY <1>2, <1>3, <2>1 DEF Flushed
  <2>3. \A i \in Flushed : table'[i] = table[i]
    BY <2>1 DEF Flushed
  <2> HIDE DEF Flushed
  <2>4. VerifyAuditChain(table', Flushed)
    <3>1. Alike(table, table', Flushed)
      BY <2>3 DEF Alike
    <3>2. QED
      BY <1>3, <2>2, <3>1, ChainAlike DEF Chained
  <2>5. HashOfNewest(table', Flushed) = HashOfNewest(table, Flushed)
    BY <1>3, <2>2, <2>3, NewestAlike
  <2>6. ASSUME NEW i \in DOMAIN table' PROVE FollowsChosen(i, txn[table[i].writer])'
    <3>1. i \in DOMAIN table /\ table'[i] = table[i]
      BY <1>2, <2>1
    <3>2. CASE table[i].flushed
      BY <3>1, <3>2 DEF FollowsChosen
    <3>3. CASE ~table[i].flushed
      <4>1. table[i].writer \in Process \ {p}
        BY <1>6, <3>1, <3>3, WriterOf
      <4>2. FollowsChosen(i, txn[table[i].writer])
        BY <3>1 DEF Chained
      <4>3. txn'[table'[i].writer] = txn[table[i].writer]
        BY <1>1, <3>1, <4>1
      <4>4. QED
        BY <2>2, <2>5, <3>1, <4>2, <4>3 DEF FollowsChosen
    <3>4. QED
      BY <3>2, <3>3
  <2>7. QED
    BY <1>4, <2>2, <2>4, <2>6 DEF Chained
<1>7. QED
  BY <1>5, <1>6

LEMMA CommitKeepsChain ==
  ASSUME JournalInv, TableInv, Chained, NEW p \in Process, Commit(p) \/ Complete(p)
  PROVE  Chained'
<1>1. /\ Finished(p) /\ table' = TableAfter(p) /\ txn[p].phase = "work" /\ txn[p] # Idle
      /\ \A q \in Process \ {p} : txn'[q] = txn[q]
  <2>1. Finished(p) /\ table' = TableAfter(p) /\ txn' = [txn EXCEPT ![p] = Idle]
    BY DEF Commit, Complete
  <2>2. DOMAIN txn = Process /\ txn[p].phase = "work" /\ txn[p] # Idle
    BY <2>1, NotIdle DEF Finished, At, JournalInv, Transactions
  <2>3. QED
    BY <2>1, <2>2
<1>2. /\ DOMAIN table' = DOMAIN table
      /\ \A i \in DOMAIN table :
           /\ table[i].writer # p => table'[i] = table[i]
           /\ table'[i].hash = table[i].hash
           /\ table'[i].previous = table[i].previous
           /\ table'[i].flushed = table[i].flushed
           /\ table[i].writer = p => table'[i].writer = Nobody
  BY <1>1, TableCommitted DEF TableInv
<1>3. p # Nobody
  BY JournalAssumption DEF Process
<1>4. Flushed' = Flushed /\ Flushed \in SUBSET (1..Len(table)) /\ Len(table) \in Nat
      /\ Flushed \subseteq DOMAIN table
  <2>1. Len(table) \in Nat /\ DOMAIN table \in SUBSET (1..Len(table))
    BY DEF TableInv, Records, Tabular
  <2>2. Flushed' = Flushed /\ Flushed \subseteq DOMAIN table
    BY <1>2 DEF Flushed
  <2>3. QED
    BY <2>1, <2>2
<1> HIDE DEF Flushed
<1>5. VerifyAuditChain(table', Flushed)
  <2>1. Alike(table, table', Flushed)
    BY <1>2, <1>4 DEF Alike
  <2>2. QED
    BY <1>4, <2>1, ChainAlike DEF Chained
<1>6. HashOfNewest(table', Flushed) = HashOfNewest(table, Flushed)
  <2>1. \A i \in Flushed : table'[i].hash = table[i].hash
    BY <1>2, <1>4
  <2>2. QED
    BY <1>4, <2>1, NewestAlike
<1>7. OneWriter'
  <2>1. ASSUME NEW i \in DOMAIN table, NEW j \in DOMAIN table
        PROVE  /\ table'[i].writer # Nobody /\ table'[j].writer # Nobody
                    => table'[i].writer = table'[j].writer
               /\ table'[i].writer = Nobody /\ table'[j].writer # Nobody => i < j
               /\ ~table'[i].flushed => j =< i
    <3>1. /\ table'[i].writer # Nobody => table[i].writer # p /\ table'[i].writer = table[i].writer
          /\ table'[j].writer # Nobody => table[j].writer # p /\ table'[j].writer = table[j].writer
      BY <1>2
    <3>2. table'[i].writer = Nobody => table[i].writer \in {p, Nobody}
      BY <1>2
    <3>3. table'[i].flushed = table[i].flushed
      BY <1>2
    <3>4. /\ table[i].writer # Nobody /\ table[j].writer # Nobody => table[i].writer = table[j].writer
          /\ table[i].writer = Nobody /\ table[j].writer # Nobody => i < j
          /\ ~table[i].flushed => j =< i
      BY DEF Chained, OneWriter
    <3>5. QED
      BY <1>3, <3>1, <3>2, <3>3, <3>4
  <2>2. QED
    BY <1>2, <2>1 DEF OneWriter
<1>8. ASSUME NEW i \in DOMAIN table' PROVE FollowsChosen(i, txn[table[i].writer])'
  <2>1. i \in DOMAIN table /\ table'[i].flushed = table[i].flushed
    BY <1>2
  <2>2. CASE table[i].flushed
    BY <2>1, <2>2 DEF FollowsChosen
  <2>3. CASE ~table[i].flushed
    <3>1. table[i].writer \in Process \ {p}
      BY <1>1, <2>1, <2>3, WriterOf
    <3>2. table'[i] = table[i] /\ txn'[table[i].writer] = txn[table[i].writer]
      BY <1>1, <1>2, <2>1, <3>1
    <3>3. FollowsChosen(i, txn[table[i].writer])
      BY <2>1 DEF Chained
    <3>4. QED
      BY <1>4, <1>6, <3>2, <3>3 DEF FollowsChosen
  <2>4. QED
    BY <2>2, <2>3
<1>9. QED
  BY <1>4, <1>5, <1>7, <1>8 DEF Chained

(* A rollback takes the end of the chain, or nothing.                      *)
LEMMA EndKeepsChain ==
  ASSUME JournalInv, TableInv, Chained, NEW p \in Process, Ends(p)
  PROVE  Chained'
<1>1. /\ table' = RolledBack(p) /\ Tabular(table)
      /\ \A q \in Process \ {p} : txn'[q] = txn[q]
  <2>1. DOMAIN txn = Process
    BY DEF JournalInv, Transactions
  <2>2. QED
    BY <2>1 DEF Ends, TableInv, Records
<1>2. PICK f : /\ Tabular(table')
               /\ f \in [DOMAIN table' -> DOMAIN table]
               /\ \A k \in DOMAIN table' : table'[k] = table[f[k]]
               /\ \A k, l \in DOMAIN table' : k < l <=> f[k] < f[l]
               /\ \A i \in DOMAIN table :
                    table[i].writer # p <=> \E k \in DOMAIN table' : f[k] = i
  BY <1>1, TableRolledBack
<1>3. p # Nobody
  BY JournalAssumption DEF Process
<1>4. /\ Len(table) \in Nat /\ DOMAIN table = 1..Len(table)
      /\ Len(table') \in Nat /\ DOMAIN table' = 1..Len(table')
  BY <1>1, <1>2 DEF Tabular
<1>5. \A k \in DOMAIN table' : f[k] \in DOMAIN table /\ table[f[k]].writer # p
  BY <1>2
<1>6. Flushed' = {k \in DOMAIN table' : f[k] \in Flushed}
  BY <1>2 DEF Flushed
<1>7. ASSUME NEW A \in SUBSET DOMAIN table', NEW B \in SUBSET DOMAIN table,
             \A k \in A : f[k] \in B, \A i \in B : \E k \in A : f[k] = i
      PROVE  HashOfNewest(table', A) = HashOfNewest(table, B)
  <2> DEFINE g == [k \in A |-> f[k]]
  <2>1. g \in [A -> B] /\ \A k \in A : g[k] = f[k]
    BY <1>7
  <2> HIDE DEF g
  <2>2. \A k, l \in A : k < l <=> g[k] < g[l]
    BY <1>2, <2>1
  <2>3. \A i \in B : \E k \in A : g[k] = i
    BY <1>7, <2>1
  <2>4. \A k \in A : table'[k].hash = table[g[k]].hash
    BY <1>2, <2>1
  <2>5. A \in SUBSET (1..Len(table')) /\ B \in SUBSET (1..Len(table))
    BY <1>4
  <2>6. Carries(g, table', A, table, B)
    BY <1>4, <2>1, <2>2, <2>3, <2>4, <2>5 DEF Carries
  <2>7. QED
    BY <2>6, NewestMoves
<1>8. ASSUME NEW i \in DOMAIN table, NEW k \in DOMAIN table', i < f[k]
      PROVE  table[i].writer # p
  <2>1. i \in Nat /\ f[k] \in Nat /\ f[k] \in DOMAIN table /\ table[f[k]].writer # p
    BY <1>4, <1>5
  <2>2. ASSUME table[i].writer = p PROVE FALSE
    <3>1. table[f[k]].writer = Nobody
      BY <1>3, <2>1, <2>2 DEF Chained, OneWriter
    <3>2. f[k] < i
      BY <1>3, <2>1, <2>2, <3>1 DEF Chained, OneWriter
    <3>3. QED
      BY <1>8, <2>1, <3>2
  <2>3. QED
    BY <2>2
<1>9. VerifyAuditChain(table', Flushed')
  <2>1. SUFFICES ASSUME NEW k \in Flushed'
                 PROVE  table'[k].previous = HashOfNewest(table', Before(Flushed', k))
    BY DEF VerifyAuditChain
  <2>2. k \in DOMAIN table' /\ f[k] \in Flushed /\ f[k] \in DOMAIN table
    BY <1>2, <1>6
  <2>3. table'[k].previous = HashOfNewest(table, Before(Flushed, f[k]))
    BY <1>2, <2>2 DEF Chained, VerifyAuditChain
  <2> DEFINE A == Before(Flushed', k)
             B == Before(Flushed, f[k])
  <2>4. A \in SUBSET DOMAIN table' /\ B \in SUBSET DOMAIN table
    BY <1>6 DEF Before, Flushed
  <2>5. \A l \in A : f[l] \in B
    BY <1>2, <1>6, <2>2 DEF Before
  <2>6. ASSUME NEW i \in B PROVE \E l \in A : f[l] = i
    <3>1. i \in Flushed /\ i \in DOMAIN table /\ i < f[k]
      BY <2>4 DEF Before
    <3>2. PICK l \in DOMAIN table' : f[l] = i
      BY <1>2, <1>8, <2>2, <3>1
    <3>3. l < k
      BY <1>2, <2>2, <3>1, <3>2
    <3>4. l \in Flushed'
      BY <1>6, <3>1, <3>2
    <3>5. QED
      BY <3>2, <3>3, <3>4 DEF Before
  <2> HIDE DEF A, B
  <2>7. HashOfNewest(table', A) = HashOfNewest(table, B)
    BY <1>7, <2>4, <2>5, <2>6
  <2>8. QED
    BY <2>3, <2>7 DEF A, B
<1>10. OneWriter'
  <2>1. ASSUME NEW k \in DOMAIN table', NEW l \in DOMAIN table'
        PROVE  /\ table'[k].writer # Nobody /\ table'[l].writer # Nobody
                    => table'[k].writer = table'[l].writer
               /\ table'[k].writer = Nobody /\ table'[l].writer # Nobody => k < l
               /\ ~table'[k].flushed => l =< k
    <3>1. /\ f[k] \in DOMAIN table /\ f[l] \in DOMAIN table
          /\ table'[k] = table[f[k]] /\ table'[l] = table[f[l]]
      BY <1>2
    <3>2. /\ k < l <=> f[k] < f[l]
          /\ k < l <=> ~(l =< k)
          /\ f[k] < f[l] <=> ~(f[l] =< f[k])
      <4>1. k \in Nat /\ l \in Nat /\ f[k] \in Nat /\ f[l] \in Nat
        BY <1>4, <3>1
      <4>2. k < l <=> f[k] < f[l]
        BY <1>2
      <4>3. QED
        BY <4>1, <4>2
    <3>3. /\ table[f[k]].writer # Nobody /\ table[f[l]].writer # Nobody
               => table[f[k]].writer = table[f[l]].writer
          /\ table[f[k]].writer = Nobody /\ table[f[l]].writer # Nobody => f[k] < f[l]
          /\ ~table[f[k]].flushed => f[l] =< f[k]
      BY <3>1 DEF Chained, OneWriter
    <3>4. QED
      BY <3>1, <3>2, <3>3
  <2>2. QED
    BY <2>1 DEF OneWriter
<1>11. ASSUME NEW k \in DOMAIN table' PROVE FollowsChosen(k, txn[table[k].writer])'
  <2>1. f[k] \in DOMAIN table /\ table'[k] = table[f[k]] /\ table[f[k]].writer # p
    BY <1>2, <1>5
  <2>2. CASE table[f[k]].flushed
    BY <2>1, <2>2 DEF FollowsChosen
  <2>3. CASE ~table[f[k]].flushed
    <3>1. table[f[k]].writer \in Process \ {p} /\ table[f[k]].writer # Nobody
      BY <2>1, <2>3, WriterOf
    <3>2. \A i \in DOMAIN table : table[i].writer # p
      BY <1>3, <2>1, <3>1 DEF Chained, OneWriter
    <3>3. \A i \in Flushed : \E l \in Flushed' : f[l] = i
      BY <1>2, <1>6, <3>2 DEF Flushed
    <3>4. \A l \in Flushed' : f[l] \in Flushed
      BY <1>6
    <3>5. Flushed' \in SUBSET DOMAIN table' /\ Flushed \in SUBSET DOMAIN table
      BY <1>6 DEF Flushed
    <3> HIDE DEF Flushed
    <3>6. HashOfNewest(table', Flushed') = HashOfNewest(table, Flushed)
      BY <1>7, <3>3, <3>4, <3>5
    <3>7. FollowsChosen(f[k], txn[table[f[k]].writer])
      BY <2>1 DEF Chained
    <3>8. txn'[table'[k].writer] = txn[table[f[k]].writer]
      BY <1>1, <2>1, <3>1
    <3>9. QED
      BY <2>1, <3>6, <3>7, <3>8 DEF FollowsChosen
  <2>4. QED
    BY <2>2, <2>3
<1>12. QED
  BY <1>9, <1>10, <1>11 DEF Chained

LEMMA ChainInitially == Init => ChainInv
<1> SUFFICES ASSUME Init PROVE Chained
  BY DEF ChainInv
<1>1. DOMAIN table = 1..Len(table) /\ Len(table) \in Nat
  BY FirstTable DEF Tabular
<1>2. \A i \in DOMAIN table :
        /\ table[i].writer = Nobody /\ table[i].flushed
        /\ table[i].previous = IF i = 1 THEN Genesis ELSE table[i - 1].hash
  <2>1. \A i \in DOMAIN table : table[i].flushed = TRUE
    BY FirstTable
  <2>2. QED
    BY <2>1, FirstTable
<1>3. Flushed = 1..Len(table)
  BY <1>1, <1>2 DEF Flushed
<1>4. VerifyAuditChain(table, Flushed)
  <2>1. SUFFICES ASSUME NEW i \in 1..Len(table)
                 PROVE  table[i].previous = HashOfNewest(table, Before(1..Len(table), i))
    BY <1>3 DEF VerifyAuditChain
  <2>2. Before(1..Len(table), i) = 1..(i - 1)
    BY <1>1 DEF Before
  <2>3. CASE i = 1
    BY <1>1, <1>2, <2>2, <2>3 DEF HashOfNewest
  <2>4. CASE i # 1
    <3>1. i - 1 \in Nat /\ i - 1 \in 1..(i - 1)
      BY <1>1, <2>4
    <3>2. 1..(i - 1) # {} /\ 1..(i - 1) \in SUBSET (1..(i - 1))
      BY <3>1
    <3>3. /\ Newest(1..(i - 1)) \in 1..(i - 1)
          /\ \A j \in 1..(i - 1) : j =< Newest(1..(i - 1))
      BY <3>1, <3>2, NewestIsThere
    <3>4. Newest(1..(i - 1)) = i - 1
      BY <3>1, <3>3
    <3>5. QED
      BY <1>1, <1>2, <2>2, <2>4, <3>2, <3>4 DEF HashOfNewest
  <2>5. QED
    BY <2>3, <2>4
<1>5. OneWriter
  BY <1>2 DEF OneWriter
<1>6. QED
  BY <1>2, <1>4, <1>5 DEF Chained, FollowsChosen

LEMMA ChainInvariant == Spec => []ChainInv
<1>1. JournalInv /\ TableInv /\ ChainInv /\ [Next]_vars => ChainInv'
  <2> SUFFICES ASSUME JournalInv, TableInv, ChainInv, [Next]_vars, ~overlap' PROVE Chained'
    BY DEF ChainInv
  <2>0. CASE UNCHANGED vars
    <3>1. UNCHANGED <<table, txn, overlap>>
      BY <2>0 DEF vars
    <3>2. Chained
      BY <3>1 DEF ChainInv
    <3>3. QED
      BY <3>1, <3>2, ChainKept DEF Chained
  <2>1. CASE Next
    <3>1. ~overlap
      BY <2>1 DEF Next, Continues, Begin, Claim, LockRow, NotFound, Replay, FirstTime, InsertKey,
                  Duplicate, Refuse, Stamp, ChooseTail, LockTail, Flush, Commit, Complete,
                  Victim, Crash
    <3>2. Chained
      BY <3>1 DEF ChainInv
    <3>3. CASE \/ \E s \in Sessions, c \in Calls : Begin(s, c)
               \/ \E w \in Workers : \E j \in jobs : Claim(w, j)
               \/ \E p \in Process : LockRow(p) \/ FirstTime(p) \/ InsertKey(p)
      BY <3>2, <3>3, QuietKeepsChain
    <3>4. ASSUME NEW p \in Process,
                 NotFound(p) \/ Replay(p) \/ Duplicate(p) \/ Refuse(p) \/ Victim(p) \/ Crash(p)
          PROVE  Chained'
      BY <3>2, <3>4, EndKeepsChain DEF NotFound, Replay, Duplicate, Refuse, Victim, Crash
    <3>5. ASSUME NEW p \in Process, Stamp(p) PROVE Chained'
      BY <3>2, <3>5, StampKeepsChain
    <3>6. ASSUME NEW p \in Process, ChooseTail(p) \/ LockTail(p) PROVE Chained'
      BY <3>2, <3>6, ChooseTailKeepsChain
    <3>7. ASSUME NEW p \in Process, Flush(p) PROVE Chained'
      BY <3>2, <3>7, FlushKeepsChain
    <3>8. ASSUME NEW p \in Process, Commit(p) \/ Complete(p) PROVE Chained'
      BY <3>2, <3>8, CommitKeepsChain
    <3>9. QED
      BY <2>1, <3>3, <3>4, <3>5, <3>6, <3>7, <3>8 DEF Next, Continues
  <2>2. QED
    BY <2>0, <2>1
<1>2. QED
  BY <1>1, ChainInitially, JournalInvariant, TableInvariant, PTL DEF Spec

(* As long as no two transactions were appending at once, the records      *)
(* committed are one chain, whatever rolls back, is aborted or crashes.    *)
THEOREM ChainHoldsAlone == Spec => []ChainVerifiesAlone
<1>1. TableInv /\ ChainInv => ChainVerifiesAlone
  <2> SUFFICES ASSUME TableInv, ChainInv, ~overlap, NEW i \in Committed
               PROVE  table[i].previous = HashOfNewest(table, Before(Committed, i))
    BY DEF ChainVerifiesAlone, VerifyAuditChain
  <2>1. Chained /\ i \in DOMAIN table /\ table[i].writer = Nobody
    BY DEF ChainInv, Committed
  <2>2. Committed \subseteq Flushed
    BY WriterOf DEF Committed, Flushed
  <2>3. ASSUME NEW j \in Flushed, j < i PROVE j \in Committed
    <3>1. j \in DOMAIN table /\ j \in Nat /\ i \in Nat
      BY <2>1, WriterOf DEF Flushed
    <3>2. table[j].writer # Nobody => i < j
      BY <2>1, <3>1 DEF Chained, OneWriter
    <3>3. QED
      BY <2>3, <3>1, <3>2 DEF Committed
  <2>4. Before(Committed, i) = Before(Flushed, i)
    BY <2>2, <2>3 DEF Before
  <2>5. QED
    BY <2>1, <2>2, <2>4 DEF Chained, VerifyAuditChain
<1>2. QED
  BY <1>1, TableInvariant, ChainInvariant, PTL
=============================================================================
