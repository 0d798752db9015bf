-------------------------- MODULE ResponseControlProofs --------------------------
(***************************************************************************)
(* For any cases, actions, people and sessions.  Without locks no row is   *)
(* as it was when its handler loaded it, and a terminal action may be      *)
(* overwritten; that no control is applied without authority holds all the *)
(* same, because what makes an action authorised is written once.  If      *)
(* transactions do not overlap, terminal actions stay terminal too.        *)
(***************************************************************************)
EXTENDS ResponseControlProperties, TLAPS

RowField == {"ask", "by", "status", "decided", "approver"}

(* What a row that may be executed rests on.                               *)
RowSound(row) ==
  /\ DOMAIN row = RowField
  /\ MayExecute(row) => Authorised(row)
  /\ row.status = "awaiting_approval" => row.decided = "awaiting_approval"

(* What an open transaction t relies on, whatever happened since it began. *)
NewRow(t) ==
  t.op \in {"create", "contain"} =>
    /\ RowSound(t.row)
    /\ t.row.status = t.row.decided
    /\ t.row.decided \in {"rejected", "awaiting_approval", "auto_authorized"}
    /\ t.read # NoControl /\ Executable(t.row.ask) => TargetOf(t.row.ask) \in DOMAIN control

Approving(t) ==
  t.op = "approve" =>
    \A k \in t.keys : /\ k \in DOMAIN action
                      /\ action[k].decided = "awaiting_approval"
                      /\ t.who \notin {Nobody, action[k].by}

Executing(t) ==
  t.op = "execute" =>
    \A k \in t.keys :
      /\ k \in DOMAIN action /\ Authorised(action[k])
      /\ LET c == TargetOf(action[k].ask)
         IN  t.phase = "touched" /\ Executable(action[k].ask) /\ t.read[c] # NoControl
               => c \in DOMAIN control

TxnSound(t) == NewRow(t) /\ Approving(t) /\ Executing(t)

ControlSound(c) ==
  DOMAIN control[c] = {"active", "by"}
  /\ control[c].by \in DOMAIN action /\ Authorised(action[control[c].by])

AuthorityInv ==
  /\ DOMAIN txn = Process
  /\ \A k \in DOMAIN action : RowSound(action[k])
  /\ \A p \in Process : TxnSound(txn[p])
  /\ \A c \in DOMAIN control : ControlSound(c)

(* What no step does to an action that is there: take its authority away,  *)
(* or change what it asks for.                                             *)
RowKept(k) ==
  /\ k \in DOMAIN action'
  /\ action'[k].ask = action[k].ask
  /\ action'[k].by = action[k].by
  /\ action'[k].decided = action[k].decided
  /\ Authorised(action[k]) => Authorised(action'[k])
  /\ RowSound(action'[k])

RowsKept == \A k \in DOMAIN action : RowKept(k)
-----------------------------------------------------------------------------
LEMMA UnchangedRowsKept ==
  ASSUME AuthorityInv, UNCHANGED action PROVE RowsKept
BY DEF AuthorityInv, RowsKept, RowKept

LEMMA StatusRowsKept ==
  ASSUME AuthorityInv, NEW K, NEW status \in {"rejected", "active", "failed", "expired", "rolled_back"},
         action' = SetStatus(action, K, status)
  PROVE  RowsKept /\ DOMAIN action' = DOMAIN action
<1>1. DOMAIN action' = DOMAIN action
  BY DEF SetStatus
<1>2. ASSUME NEW k \in DOMAIN action PROVE RowKept(k)
  <2>1. CASE k \in K
    <3> DEFINE r == [action[k] EXCEPT !.status = status]
    <3>1. action'[k] = r
      BY <2>1 DEF SetStatus
    <3>2. RowSound(action[k])
      BY DEF AuthorityInv
    <3>3. /\ DOMAIN r = RowField /\ r.ask = action[k].ask /\ r.by = action[k].by
          /\ r.decided = action[k].decided /\ r.approver = action[k].approver
          /\ r.status = status
      BY <3>2 DEF RowSound, RowField
    <3> HIDE DEF r
    <3>4. QED
      BY <1>1, <3>1, <3>3 DEF RowKept, RowSound, Authorised, MayExecute
  <2>2. CASE k \notin K
    BY <1>1, <2>2 DEF SetStatus, AuthorityInv, RowKept
  <2>3. QED
    BY <2>1, <2>2
<1>3. QED
  BY <1>1, <1>2 DEF RowsKept

(* If rows are kept and controls do not go, open transactions are sound    *)
(* for as long as they are open.                                           *)
LEMMA TxnStaysSound ==
  ASSUME AuthorityInv, RowsKept, DOMAIN control \subseteq DOMAIN control',
         NEW p \in Process, txn'[p] = txn[p]
  PROVE  TxnSound(txn[p])'
<1> DEFINE t == txn[p]
<1>1. NewRow(t) /\ Approving(t) /\ Executing(t)
  BY DEF AuthorityInv, TxnSound
<1>2. NewRow(txn[p])'
  BY <1>1 DEF NewRow
<1>3. Approving(txn[p])'
  BY <1>1 DEF Approving, RowsKept, RowKept
<1>4. Executing(txn[p])'
  BY <1>1 DEF Executing, RowsKept, RowKept
<1>5. QED
  BY <1>2, <1>3, <1>4 DEF TxnSound

LEMMA ControlsStaySound ==
  ASSUME AuthorityInv, RowsKept,
         DOMAIN control' = DOMAIN control,
         \A c \in DOMAIN control : /\ DOMAIN control'[c] = {"active", "by"}
                                   /\ control'[c].by = control[c].by
  PROVE  \A c \in DOMAIN control' : ControlSound(c)'
BY DEF AuthorityInv, ControlSound, RowsKept, RowKept

(* A step of p needs to be looked at for p, the rows and the controls.     *)
LEMMA StepKeeps ==
  ASSUME AuthorityInv, NEW p \in Process,
         \/ txn' = txn
         \/ /\ DOMAIN txn' = Process /\ \A q \in Process \ {p} : txn'[q] = txn[q]
            /\ TxnSound(txn[p])',
         RowsKept, \A k \in DOMAIN action' \ DOMAIN action : RowSound(action'[k]),
         DOMAIN control \subseteq DOMAIN control',
         \A c \in DOMAIN control' : ControlSound(c)'
  PROVE  AuthorityInv'
<1>1. DOMAIN txn' = Process
  BY DEF AuthorityInv
<1>2. \A k \in DOMAIN action' : RowSound(action'[k])
  BY DEF RowsKept, RowKept
<1>3. \A q \in Process : TxnSound(txn[q])'
  BY TxnStaysSound
<1>4. QED
  BY <1>1, <1>2, <1>3 DEF AuthorityInv, RowSound, MayExecute, Authorised

(* A transaction that ends without a write, or with it.                    *)
LEMMA IdleSound ==
  ASSUME AuthorityInv, NEW p \in Process, Ends(p)
  PROVE  /\ DOMAIN txn' = Process /\ \A q \in Process \ {p} : txn'[q] = txn[q]
         /\ TxnSound(txn[p])'
<1>1. /\ DOMAIN txn' = Process /\ \A q \in Process \ {p} : txn'[q] = txn[q]
      /\ txn'[p] = Idle
  BY DEF AuthorityInv, Ends
<1>2. txn'[p].op = "idle"
  BY <1>1 DEF Idle
<1>3. QED
  BY <1>1, <1>2 DEF TxnSound, NewRow, Approving, Executing

LEMMA BeginsUpdate ==
  ASSUME AuthorityInv, NEW p \in Process, NEW t, Begins(p, t)
  PROVE  DOMAIN txn' = Process /\ txn'[p] = t /\ \A q \in Process \ {p} : txn'[q] = txn[q]
BY DEF AuthorityInv, Begins
-----------------------------------------------------------------------------
LEMMA InertSteps ==
  ASSUME AuthorityInv, NEW p \in Process, UNCHANGED <<action, control>>,
         txn' = txn \/ Ends(p)
  PROVE  AuthorityInv'
<1>1. RowsKept
  BY UnchangedRowsKept
<1>2. \A c \in DOMAIN control' : ControlSound(c)'
  BY <1>1, ControlsStaySound DEF AuthorityInv, ControlSound
<1>3. QED
  BY <1>1, <1>2, IdleSound, StepKeeps

LEMMA RequestKeeps ==
  ASSUME AuthorityInv, NEW p \in Process, NEW k, NEW ask, NEW who, NEW op \in {"create", "contain"},
         Request(p, k, ask, who, op)
  PROVE  AuthorityInv'
<1> DEFINE status == DecidedStatus(ask.type, ask.scope, facts[ask.case], Existing(ask.case))
           row == [ask |-> ask, by |-> who, status |-> status,
                   decided |-> status, approver |-> Nobody]
           read == IF Executable(ask) THEN ControlOf(TargetOf(ask)) ELSE NoControl
           t == [op |-> op, phase |-> "loaded", keys |-> {k}, row |-> row, read |-> read]
<1>1. Begins(p, t) /\ UNCHANGED <<action, control>>
  BY DEF Request
<1>2. txn'[p] = t /\ DOMAIN txn' = Process /\ \A q \in Process \ {p} : txn'[q] = txn[q]
  BY <1>1, BeginsUpdate
<1>3. status \in {"rejected", "awaiting_approval", "auto_authorized"}
  BY DEF DecidedStatus
<1>4. status = "auto_authorized" => ask.type \notin Tier3
  BY DEF DecidedStatus, NeedsApproval
<1>5. read # NoControl /\ Executable(ask) => TargetOf(ask) \in DOMAIN control
  BY DEF ControlOf
<1> HIDE DEF status, read
<1>6. /\ DOMAIN row = RowField /\ row.status = status /\ row.decided = status /\ row.ask = ask
  BY DEF RowField
<1>7. txn'[p].op = op /\ txn'[p].row = row /\ txn'[p].read = read
  BY <1>2
<1> HIDE DEF row, t
<1>8. RowSound(row)
  BY <1>3, <1>4, <1>6 DEF RowSound, MayExecute, Authorised
<1>9. NewRow(txn[p])'
  BY <1>1, <1>3, <1>5, <1>6, <1>7, <1>8 DEF NewRow, RowSound, MayExecute, Authorised
<1>10. TxnSound(txn[p])'
  BY <1>7, <1>9 DEF TxnSound, Approving, Executing
<1>11. RowsKept
  BY <1>1, UnchangedRowsKept
<1>12. \A c \in DOMAIN control' : ControlSound(c)'
  BY <1>1, <1>11, ControlsStaySound DEF AuthorityInv, ControlSound
<1>13. QED
  BY <1>1, <1>2, <1>10, <1>11, <1>12, StepKeeps

LEMMA LoadKeeps ==
  ASSUME AuthorityInv, NEW p \in Process, NEW k, NEW op, NEW who, Load(p, k, op, who),
         \/ op \in {"reject", "rollback"}
         \/ op = "approve" /\ MayApprove(action[k], who) /\ who \in People
         \/ op = "execute" /\ MayExecute(action[k])
  PROVE  AuthorityInv'
<1> DEFINE t == [op |-> op, phase |-> "loaded", keys |-> {k}, who |-> who]
<1>1. Begins(p, t) /\ k \in DOMAIN action /\ UNCHANGED <<action, control>>
  BY DEF Load
<1>2. txn'[p] = t /\ DOMAIN txn' = Process /\ \A q \in Process \ {p} : txn'[q] = txn[q]
  BY <1>1, BeginsUpdate
<1>3. /\ txn'[p].op = op /\ txn'[p].keys = {k} /\ txn'[p].who = who
      /\ txn'[p].phase = "loaded"
  BY <1>2
<1>4. RowSound(action[k])
  BY <1>1 DEF AuthorityInv
<1>5. op = "approve" => action[k].decided = "awaiting_approval" /\ who \notin {Nobody, action[k].by}
  BY <1>4, ResponseAssumption DEF RowSound, MayApprove
<1>6. op = "execute" => Authorised(action[k])
  BY <1>4 DEF RowSound
<1>7. TxnSound(txn[p])'
  <2>1. NewRow(txn[p])'
    BY <1>3 DEF NewRow
  <2>2. Approving(txn[p])'
    BY <1>1, <1>3, <1>5 DEF Approving
  <2>3. Executing(txn[p])'
    BY <1>1, <1>3, <1>6 DEF Executing, Authorised
  <2>4. QED
    BY <2>1, <2>2, <2>3 DEF TxnSound
<1>8. RowsKept
  BY <1>1, UnchangedRowsKept
<1>9. \A c \in DOMAIN control' : ControlSound(c)'
  BY <1>1, <1>8, ControlsStaySound DEF AuthorityInv, ControlSound
<1>10. QED
  BY <1>1, <1>2, <1>7, <1>8, <1>9, StepKeeps

LEMMA LoadExpireKeeps ==
  ASSUME AuthorityInv, LoadExpire
  PROVE  AuthorityInv'
<1> DEFINE t == [op |-> "expire", phase |-> "loaded", keys |-> DueActions]
<1>1. Begins(Expiry, t) /\ Expiry \in Process /\ UNCHANGED <<action, control>>
  BY DEF LoadExpire, Process
<1>2. txn'[Expiry] = t /\ DOMAIN txn' = Process
      /\ \A q \in Process \ {Expiry} : txn'[q] = txn[q]
  BY <1>1, BeginsUpdate
<1>3. txn'[Expiry].op = "expire"
  BY <1>2
<1>4. TxnSound(txn[Expiry])'
  BY <1>3 DEF TxnSound, NewRow, Approving, Executing
<1>5. RowsKept
  BY <1>1, UnchangedRowsKept
<1>6. \A c \in DOMAIN control' : ControlSound(c)'
  BY <1>1, <1>5, ControlsStaySound DEF AuthorityInv, ControlSound
<1>7. QED
  BY <1>1, <1>2, <1>4, <1>5, <1>6, StepKeeps

LEMMA TouchKeeps ==
  ASSUME AuthorityInv, NEW p \in Process, Touch(p)
  PROVE  AuthorityInv'
<1> DEFINE u == txn[p]
           t == [op |-> u.op, phase |-> "touched", keys |-> u.keys, read |-> ReadControls(u.keys)]
<1>1. txn' = [txn EXCEPT ![p] = t] /\ UNCHANGED <<action, control>>
      /\ u.op \in {"execute", "rollback", "expire"}
  BY DEF Touch
<1>2. txn'[p] = t /\ DOMAIN txn' = Process /\ \A q \in Process \ {p} : txn'[q] = txn[q]
  BY <1>1 DEF AuthorityInv
<1>3. txn'[p].op = u.op /\ txn'[p].keys = u.keys /\ txn'[p].read = ReadControls(u.keys)
  BY <1>2
<1>4. Executing(u)
  BY DEF AuthorityInv, TxnSound
<1>5. ASSUME u.op = "execute", NEW k \in u.keys, Executable(action[k].ask),
             ReadControls(u.keys)[TargetOf(action[k].ask)] # NoControl
      PROVE  TargetOf(action[k].ask) \in DOMAIN control
  <2>1. ReadControls(u.keys)[TargetOf(action[k].ask)] = ControlOf(TargetOf(action[k].ask))
    BY <1>5 DEF ReadControls
  <2>2. QED
    BY <1>5, <2>1 DEF ControlOf
<1>6. Executing(txn[p])'
  BY <1>1, <1>3, <1>4, <1>5 DEF Executing, Authorised, Executable
<1>7. TxnSound(txn[p])'
  BY <1>1, <1>3, <1>6 DEF TxnSound, NewRow, Approving
<1>8. RowsKept
  BY <1>1, UnchangedRowsKept
<1>9. \A c \in DOMAIN control' : ControlSound(c)'
  BY <1>1, <1>8, ControlsStaySound DEF AuthorityInv, ControlSound
<1>10. QED
  BY <1>1, <1>2, <1>7, <1>8, <1>9, StepKeeps

(* An execution puts the control under an action that is authorised.       *)
LEMMA ExecutedSound ==
  ASSUME AuthorityInv, RowsKept, NEW k, NEW ask, NEW read, NEW fault,
         k \in DOMAIN action', Authorised(action'[k]),
         control' = Executed(k, ask, read, fault),
         read # NoControl /\ Executable(ask) => TargetOf(ask) \in DOMAIN control
  PROVE  /\ DOMAIN control \subseteq DOMAIN control'
         /\ \A c \in DOMAIN control' : ControlSound(c)'
<1>1. CASE control' = control
  BY <1>1, ControlsStaySound DEF AuthorityInv, ControlSound
<1>2. CASE control' # control
  <2> DEFINE target == TargetOf(ask)
             row == Applied(k, read, ControlOf(target))
  <2>1. Executable(ask) /\ control' = [x \in DOMAIN control \cup {target} |->
                              IF x = target THEN row ELSE control[x]]
    BY <1>2 DEF Executed
  <2>2. DOMAIN row = {"active", "by"}
    BY DEF Applied
  <2>3. row.by = k \/ (target \in DOMAIN control /\ row.by = control[target].by)
    BY <2>1 DEF Applied, ControlOf
  <2> HIDE DEF row
  <2>4. ASSUME NEW c \in DOMAIN control' PROVE ControlSound(c)'
    <3>1. CASE control'[c].by = k /\ DOMAIN control'[c] = {"active", "by"}
      BY <3>1 DEF ControlSound, Authorised
    <3>2. CASE /\ c \in DOMAIN control
               /\ control'[c].by = control[c].by /\ DOMAIN control'[c] = {"active", "by"}
      <4>1. control[c].by \in DOMAIN action /\ Authorised(action[control[c].by])
        BY <3>2 DEF AuthorityInv, ControlSound
      <4>2. QED
        BY <3>2, <4>1 DEF ControlSound, RowsKept, RowKept, Authorised
    <3>3. CASE c = target
      BY <2>1, <2>2, <2>3, <3>1, <3>2, <3>3
    <3>4. CASE c # target
      <4>1. c \in DOMAIN control /\ control'[c] = control[c]
        BY <2>1, <3>4
      <4>2. QED
        BY <3>2, <4>1 DEF AuthorityInv, ControlSound
    <3>5. QED
      BY <3>3, <3>4
  <2>5. QED
    BY <2>1, <2>4
<1>3. QED
  BY <1>1, <1>2

LEMMA InsertKeeps ==
  ASSUME AuthorityInv, NEW p \in Process, Insert(p) \/ InsertAndExecute(p)
  PROVE  AuthorityInv'
<1> DEFINE row == txn[p].row
<1>1. NewRow(txn[p]) /\ txn[p].op \in {"create", "contain"} /\ Ends(p)
  BY DEF AuthorityInv, TxnSound, Insert, InsertAndExecute, Open
<1>2. RowSound(row) /\ (row.status = "auto_authorized" => Authorised(row))
  BY <1>1 DEF NewRow, RowSound, MayExecute
<1>3. ASSUME NEW k, k \notin DOMAIN action, NEW r, RowSound(r),
             action' = [x \in DOMAIN action \cup {k} |-> IF x = k THEN r ELSE action[x]]
      PROVE  RowsKept /\ \A x \in DOMAIN action' \ DOMAIN action : RowSound(action'[x])
  BY <1>3 DEF AuthorityInv, RowsKept, RowKept
<1>4. CASE Insert(p)
  <2>1. PICK k \in txn[p].keys :
          k \notin DOMAIN action
          /\ action' = [x \in DOMAIN action \cup {k} |-> IF x = k THEN row ELSE action[x]]
    BY <1>4 DEF Insert
  <2>2. RowsKept /\ \A x \in DOMAIN action' \ DOMAIN action : RowSound(action'[x])
    BY <1>2, <1>3, <2>1
  <2>3. \A c \in DOMAIN control' : ControlSound(c)'
    BY <1>4, <2>2, ControlsStaySound DEF Insert, AuthorityInv, ControlSound
  <2>4. QED
    BY <1>1, <1>4, <2>2, <2>3, IdleSound, StepKeeps DEF Insert
<1>5. CASE InsertAndExecute(p)
  <2> DEFINE runs == row.status = "auto_authorized"
  <2>1. PICK k \in txn[p].keys, fault \in Faults :
          /\ k \notin DOMAIN action
          /\ action' = [x \in DOMAIN action \cup {k} |->
               IF x # k THEN action[x]
               ELSE IF runs THEN [row EXCEPT !.status = ExecutedStatus(row.ask, fault)] ELSE row]
          /\ control' = IF runs THEN Executed(k, row.ask, txn[p].read, fault) ELSE control
    BY <1>5 DEF InsertAndExecute
  <2> DEFINE ran == [row EXCEPT !.status = ExecutedStatus(row.ask, fault)]
             r == IF runs THEN ran ELSE row
  <2>2. /\ DOMAIN ran = RowField /\ ran.ask = row.ask /\ ran.by = row.by
        /\ ran.decided = row.decided /\ ran.approver = row.approver
        /\ ran.status \in {"active", "failed"}
    BY <1>2 DEF RowSound, RowField, ExecutedStatus
  <2>3. action' = [x \in DOMAIN action \cup {k} |-> IF x = k THEN r ELSE action[x]]
    BY <2>1
  <2>4. RowSound(ran) /\ (Authorised(row) => Authorised(ran))
    <3> HIDE DEF ran
    <3>1. QED
      BY <1>2, <2>2 DEF RowSound, MayExecute, Authorised
  <2>5. RowSound(r) /\ (runs => Authorised(r))
    BY <1>2, <2>4
  <2> HIDE DEF r, ran
  <2>6. RowsKept /\ \A x \in DOMAIN action' \ DOMAIN action : RowSound(action'[x])
    BY <1>3, <2>1, <2>3, <2>5
  <2>7. k \in DOMAIN action' /\ action'[k] = r
    BY <2>3
  <2>8. CASE runs
    <3>1. control' = Executed(k, row.ask, txn[p].read, fault)
      BY <2>1, <2>8
    <3>2. Authorised(action'[k])
      BY <2>5, <2>7, <2>8
    <3>3. txn[p].read # NoControl /\ Executable(row.ask) => TargetOf(row.ask) \in DOMAIN control
      BY <1>1 DEF NewRow
    <3>4. /\ DOMAIN control \subseteq DOMAIN control'
          /\ \A c \in DOMAIN control' : ControlSound(c)'
      BY <2>6, <2>7, <3>1, <3>2, <3>3, ExecutedSound
    <3>5. QED
      BY <1>1, <2>6, <3>4, IdleSound, StepKeeps
  <2>9. CASE ~runs
    <3>1. control' = control
      BY <2>1, <2>9
    <3>2. \A c \in DOMAIN control' : ControlSound(c)'
      BY <2>6, <3>1, ControlsStaySound DEF AuthorityInv, ControlSound
    <3>3. QED
      BY <1>1, <2>6, <3>1, <3>2, IdleSound, StepKeeps
  <2>10. QED
    BY <2>8, <2>9
<1>6. QED
  BY <1>4, <1>5

LEMMA ApproveKeeps ==
  ASSUME AuthorityInv, NEW p \in Process, Approve(p)
  PROVE  AuthorityInv'
<1> DEFINE who == txn[p].who
<1>1. PICK k \in txn[p].keys :
        action' = [action EXCEPT ![k].status = "approved", ![k].approver = who]
  BY DEF Approve
<1>2. k \in DOMAIN action /\ action[k].decided = "awaiting_approval" /\ who \notin {Nobody, action[k].by}
  BY DEF AuthorityInv, TxnSound, Approving, Approve, Open
<1> DEFINE r == [action[k] EXCEPT !.status = "approved", !.approver = who]
<1>3. action' = [action EXCEPT ![k] = r]
  BY <1>1
<1>4. RowSound(action[k])
  BY <1>2 DEF AuthorityInv
<1>5. /\ DOMAIN r = RowField /\ r.ask = action[k].ask /\ r.by = action[k].by
      /\ r.decided = action[k].decided /\ r.approver = who /\ r.status = "approved"
  BY <1>4 DEF RowSound, RowField
<1> HIDE DEF r
<1>6. Authorised(r) /\ RowSound(r)
  BY <1>2, <1>5 DEF Authorised, RowSound
<1>7. RowsKept /\ DOMAIN action' = DOMAIN action
  BY <1>2, <1>3, <1>5, <1>6 DEF AuthorityInv, RowsKept, RowKept
<1>8. \A c \in DOMAIN control' : ControlSound(c)'
  BY <1>7, ControlsStaySound DEF Approve, AuthorityInv, ControlSound
<1>9. QED
  BY <1>7, <1>8, IdleSound, StepKeeps DEF Approve

LEMMA ExecuteKeeps ==
  ASSUME AuthorityInv, NEW p \in Process, Execute(p)
  PROVE  AuthorityInv'
<1>1. PICK k \in txn[p].keys, fault \in Faults :
        LET ask  == action[k].ask
            read == IF Executable(ask) THEN txn[p].read[TargetOf(ask)] ELSE NoControl
        IN  /\ control' = Executed(k, ask, read, fault)
            /\ action' = SetStatus(action, {k}, ExecutedStatus(ask, fault))
  BY DEF Execute
<1> DEFINE ask  == action[k].ask
           read == IF Executable(ask) THEN txn[p].read[TargetOf(ask)] ELSE NoControl
<1>2. Executing(txn[p]) /\ txn[p].op = "execute" /\ txn[p].phase = "touched" /\ Ends(p)
  BY DEF AuthorityInv, TxnSound, Execute, Open
<1>3. k \in DOMAIN action /\ Authorised(action[k])
  BY <1>2 DEF Executing
<1>4. read # NoControl /\ Executable(ask) => TargetOf(ask) \in DOMAIN control
  BY <1>2 DEF Executing
<1>5. RowsKept /\ DOMAIN action' = DOMAIN action
  BY <1>1, StatusRowsKept DEF ExecutedStatus
<1>6. Authorised(action'[k])
  BY <1>3, <1>5 DEF RowsKept, RowKept
<1>7. /\ DOMAIN control \subseteq DOMAIN control'
      /\ \A c \in DOMAIN control' : ControlSound(c)'
  BY <1>1, <1>3, <1>4, <1>5, <1>6, ExecutedSound
<1>8. QED
  BY <1>2, <1>5, <1>7, IdleSound, StepKeeps

LEMMA EndingKeeps ==
  ASSUME AuthorityInv, NEW p \in Process, Reject(p) \/ Rollback(p) \/ (p = Expiry /\ Expire)
  PROVE  AuthorityInv'
<1>1. Ends(p) /\ \E status \in {"rejected", "expired", "rolled_back"} :
        action' = SetStatus(action, txn[p].keys, status)
  BY DEF Reject, Rollback, Expire
<1>2. RowsKept /\ DOMAIN action' = DOMAIN action
  BY <1>1, StatusRowsKept
<1>3. control' = control \/ control' = RolledBack(txn[p].keys, txn[p].read)
  BY DEF Reject, Rollback, Expire
<1>4. ASSUME NEW c \in DOMAIN control, control' = RolledBack(txn[p].keys, txn[p].read)
      PROVE  DOMAIN control'[c] = {"active", "by"} /\ control'[c].by = control[c].by
  BY <1>4 DEF RolledBack, AuthorityInv, ControlSound
<1>5. DOMAIN control' = DOMAIN control
  BY <1>3 DEF RolledBack
<1>6. \A c \in DOMAIN control : /\ DOMAIN control'[c] = {"active", "by"}
                                /\ control'[c].by = control[c].by
  BY <1>3, <1>4 DEF AuthorityInv, ControlSound
<1>7. \A c \in DOMAIN control' : ControlSound(c)'
  BY <1>2, <1>5, <1>6, ControlsStaySound
<1>8. QED
  BY <1>1, <1>2, <1>5, <1>7, IdleSound, StepKeeps

LEMMA AuthorityNext == AuthorityInv /\ [Next]_vars => AuthorityInv'
<1> SUFFICES ASSUME AuthorityInv, [Next]_vars PROVE AuthorityInv'
  OBVIOUS
<1>1. ASSUME NEW p \in Sessions, NEW k \in Keys, NEW ask \in Asks, NEW who \in People,
             Request(p, k, ask, who, "create") \/ Request(p, k, ask, who, "contain")
      PROVE  AuthorityInv'
  BY <1>1, RequestKeeps DEF Process
<1>2. ASSUME NEW p \in Sessions, NEW k \in Keys, NEW who \in People,
             LoadApprove(p, k, who) \/ LoadReject(p, k, who)
      PROVE  AuthorityInv'
  BY <1>2, LoadKeeps DEF Process, LoadApprove, LoadReject
<1>3. ASSUME NEW p \in Sessions, NEW k \in Keys, LoadExecute(p, k) \/ LoadRollback(p, k)
      PROVE  AuthorityInv'
  BY <1>3, LoadKeeps DEF Process, LoadExecute, LoadRollback
<1>4. ASSUME NEW p \in Process, KeyClash(p) \/ ControlClash(p) \/ Abort(p) PROVE AuthorityInv'
  BY <1>4, InertSteps DEF KeyClash, ControlClash, Abort
<1>5. ASSUME NEW p \in Process,
             Insert(p) \/ InsertAndExecute(p) \/ Approve(p) \/ Reject(p) \/ Touch(p)
             \/ Execute(p) \/ Rollback(p)
      PROVE  AuthorityInv'
  BY <1>5, InsertKeeps, ApproveKeeps, TouchKeeps, ExecuteKeeps, EndingKeeps
<1>6. ASSUME ExpiryStep PROVE AuthorityInv'
  BY <1>6, LoadExpireKeeps, TouchKeeps, EndingKeeps DEF ExpiryStep, Process
<1>7. CASE \/ \E k \in Keys : TtlElapses(k)
           \/ \E c \in Cases, f \in Facts : Reassess(c, f)
           \/ UNCHANGED vars
  <2>1. Expiry \in Process /\ UNCHANGED <<action, control, txn>>
    BY <1>7 DEF TtlElapses, Reassess, vars, Process
  <2>2. QED
    BY <2>1, InertSteps
<1>8. QED
  BY <1>1, <1>2, <1>3, <1>4, <1>5, <1>6, <1>7 DEF Next, Starts, Continues, Process

LEMMA AuthorityInit == Init => AuthorityInv
<1> SUFFICES ASSUME Init PROVE AuthorityInv
  OBVIOUS
<1>1. \A p \in Process : txn[p].op = "idle"
  BY DEF Init, Idle
<1>2. \A p \in Process : TxnSound(txn[p])
  BY <1>1 DEF TxnSound, NewRow, Approving, Executing
<1>3. QED
  BY <1>2 DEF Init, AuthorityInv

(* No control is ever applied, though handlers lock nothing and work on    *)
(* rows loaded before others wrote them, for an action that the policy did *)
(* not allow by itself or that nobody but its requester approved.          *)
THEOREM ControlNeedsAuthority == Spec => []ControlIsAuthorised
<1>1. Init => AuthorityInv
  BY AuthorityInit
<1>2. AuthorityInv => ControlIsAuthorised
  BY DEF AuthorityInv, ControlSound, ControlIsAuthorised
<1>3. QED
  BY <1>1, <1>2, AuthorityNext, PTL DEF Spec
-----------------------------------------------------------------------------
(* One transaction at a time: what it loaded is what there is.             *)
Pending(t) ==
  t.op \in {"approve", "reject", "execute", "rollback", "expire"} =>
    \A k \in t.keys : k \in DOMAIN action /\ action[k].status \notin TERMINAL_STATUSES

SerialInv ==
  /\ DOMAIN txn = Process
  /\ \A p, q \in Process : txn[p] # Idle /\ txn[q] # Idle => p = q
  /\ \A p \in Process : Pending(txn[p])

LEMMA SerialBegins ==
  ASSUME Isolation = "serial", SerialInv, UNCHANGED action,
         NEW p \in Process, NEW t, Begins(p, t), Pending(t)
  PROVE  SerialInv'
<1>1. txn[p] = Idle /\ \A q \in Process \ {p} : txn[q] = Idle
  BY DEF Begins, Exclusive
<1>2. DOMAIN txn' = Process /\ txn'[p] = t /\ \A q \in Process \ {p} : txn'[q] = Idle
  BY <1>1 DEF Begins, SerialInv
<1>3. Idle.op = "idle"
  BY DEF Idle
<1>4. ASSUME NEW q \in Process PROVE Pending(txn[q])'
  BY <1>2, <1>3 DEF Pending
<1>5. QED
  BY <1>2, <1>4 DEF SerialInv

LEMMA SerialEnds ==
  ASSUME SerialInv, NEW p \in Process, txn[p] # Idle, Ends(p)
  PROVE  SerialInv'
<1>1. DOMAIN txn' = Process /\ \A q \in Process : txn'[q] = Idle
  BY DEF Ends, SerialInv
<1>2. Idle.op = "idle"
  BY DEF Idle
<1>3. QED
  BY <1>1, <1>2 DEF SerialInv, Pending

LEMMA OpenNotIdle == ASSUME NEW p, txn[p].op # "idle" PROVE txn[p] # Idle
BY DEF Idle

LEMMA SerialLoad ==
  ASSUME Isolation = "serial", SerialInv, NEW p \in Process, NEW k, NEW op, NEW who,
         Load(p, k, op, who), action[k].status \notin TERMINAL_STATUSES
  PROVE  SerialInv'
<1> DEFINE t == [op |-> op, phase |-> "loaded", keys |-> {k}, who |-> who]
<1>1. Begins(p, t) /\ k \in DOMAIN action /\ UNCHANGED action
  BY DEF Load
<1>2. t.keys = {k}
  OBVIOUS
<1> HIDE DEF t
<1>3. Pending(t)
  BY <1>1, <1>2 DEF Pending
<1>4. QED
  BY <1>1, <1>3, SerialBegins

(* The statuses a handler accepts are not terminal.                        *)
LEMMA NotTerminal ==
  ASSUME NEW row, NEW who,
         MayApprove(row, who) \/ MayReject(row) \/ MayExecute(row) \/ MayRollBack(row)
  PROVE  row.status \notin TERMINAL_STATUSES
<1>1. ASSUME row.status \in TERMINAL_STATUSES PROVE ALLOWED_TRANSITIONS[row.status] = {}
  BY <1>1 DEF ALLOWED_TRANSITIONS, TERMINAL_STATUSES
<1>2. QED
  BY <1>1 DEF MayApprove, MayReject, MayExecute, MayRollBack, TERMINAL_STATUSES

(* What a transaction writes to the table of actions.                      *)
LEMMA Writes ==
  ASSUME NEW p \in Process,
         \/ Insert(p) \/ InsertAndExecute(p) \/ Approve(p) \/ Reject(p) \/ Execute(p)
         \/ Rollback(p) \/ (p = Expiry /\ Expire)
  PROVE  /\ txn[p].op # "idle" /\ Ends(p)
         /\ \/ txn[p].op \in {"create", "contain"}
            \/ txn[p].op \in {"approve", "reject", "execute", "rollback", "expire"}
         /\ \A k \in DOMAIN action :
              \/ action'[k] = action[k]
              \/ k \in txn[p].keys /\ txn[p].op \notin {"create", "contain"}
<1>1. CASE Insert(p) \/ InsertAndExecute(p)
  BY <1>1 DEF Insert, InsertAndExecute, Open
<1>2. CASE Approve(p)
  BY <1>2 DEF Approve, Open
<1>3. CASE Reject(p) \/ Rollback(p) \/ (p = Expiry /\ Expire)
  BY <1>3 DEF Reject, Rollback, Expire, Open, SetStatus
<1>4. CASE Execute(p)
  BY <1>4 DEF Execute, Open, SetStatus
<1>5. QED
  BY <1>1, <1>2, <1>3, <1>4

LEMMA SerialNext ==
  ASSUME Isolation = "serial", SerialInv, [Next]_vars
  PROVE  /\ SerialInv'
         /\ \A k \in DOMAIN action :
              action[k].status \in TERMINAL_STATUSES => action'[k].status = action[k].status
<1> DEFINE Kept == \A k \in DOMAIN action :
              action[k].status \in TERMINAL_STATUSES => action'[k].status = action[k].status
           Goal == SerialInv' /\ Kept
<1>1. ASSUME NEW p \in Process, NEW k, NEW ask, NEW who,
             Request(p, k, ask, who, "create") \/ Request(p, k, ask, who, "contain")
      PROVE  Goal
  <2>1. ASSUME NEW op \in {"create", "contain"}, Request(p, k, ask, who, op) PROVE Goal
    <3> DEFINE status == DecidedStatus(ask.type, ask.scope, facts[ask.case], Existing(ask.case))
               t == [op |-> op, phase |-> "loaded", keys |-> {k},
                     row |-> [ask |-> ask, by |-> who, status |-> status,
                              decided |-> status, approver |-> Nobody],
                     read |-> IF Executable(ask) THEN ControlOf(TargetOf(ask)) ELSE NoControl]
    <3>1. Begins(p, t) /\ UNCHANGED action
      BY <2>1 DEF Request
    <3>2. t.op = op
      OBVIOUS
    <3> HIDE DEF t
    <3>3. Pending(t)
      BY <3>2 DEF Pending
    <3>4. QED
      BY <3>1, <3>3, SerialBegins
  <2>2. QED
    BY <1>1, <2>1
<1>2. ASSUME NEW p \in Sessions, NEW k \in Keys, NEW who,
             \/ LoadApprove(p, k, who) \/ LoadReject(p, k, who)
             \/ LoadExecute(p, k) \/ LoadRollback(p, k)
      PROVE  Goal
  <2>1. p \in Process
    BY DEF Process
  <2>2. action[k].status \notin TERMINAL_STATUSES
    BY <1>2, NotTerminal DEF LoadApprove, LoadReject, LoadExecute, LoadRollback
  <2>3. UNCHANGED action
    BY <1>2 DEF LoadApprove, LoadReject, LoadExecute, LoadRollback, Load
  <2>4. SerialInv'
    BY <1>2, <2>1, <2>2, SerialLoad DEF LoadApprove, LoadReject, LoadExecute, LoadRollback
  <2>5. QED
    BY <2>3, <2>4
<1>3. ASSUME LoadExpire PROVE Goal
  <2> DEFINE t == [op |-> "expire", phase |-> "loaded", keys |-> DueActions]
  <2>1. Begins(Expiry, t) /\ Expiry \in Process /\ UNCHANGED action
    BY <1>3 DEF LoadExpire, Process
  <2>2. t.keys = DueActions
    OBVIOUS
  <2> HIDE DEF t
  <2>3. Pending(t)
    BY <2>2 DEF Pending, DueActions, TERMINAL_STATUSES
  <2>4. QED
    BY <2>1, <2>3, SerialBegins
<1>4. ASSUME NEW p \in Process, Touch(p) PROVE Goal
  <2> DEFINE u == txn[p]
             t == [op |-> u.op, phase |-> "touched", keys |-> u.keys, read |-> ReadControls(u.keys)]
  <2>1. txn' = [txn EXCEPT ![p] = t] /\ UNCHANGED action /\ u # Idle
    BY <1>4, OpenNotIdle DEF Touch
  <2>2. t.op = u.op /\ t.keys = u.keys
    OBVIOUS
  <2> HIDE DEF t
  <2>3. DOMAIN txn' = Process /\ txn'[p] = t /\ \A q \in Process \ {p} : txn'[q] = txn[q]
    BY <2>1 DEF SerialInv
  <2>4. \A q \in Process \ {p} : txn'[q] = Idle
    BY <2>1, <2>3 DEF SerialInv
  <2>5. ASSUME NEW q \in Process PROVE Pending(txn[q])'
    BY <2>1, <2>2, <2>3 DEF SerialInv, Pending
  <2>6. QED
    BY <2>1, <2>3, <2>4, <2>5 DEF SerialInv
<1>5. ASSUME NEW p \in Process,
             \/ Insert(p) \/ InsertAndExecute(p) \/ Approve(p) \/ Reject(p) \/ Execute(p)
             \/ Rollback(p) \/ (p = Expiry /\ Expire)
      PROVE  Goal
  <2>1. SerialInv'
    BY <1>5, Writes, OpenNotIdle, SerialEnds
  <2>2. Kept
    BY <1>5, Writes DEF SerialInv, Pending
  <2>3. QED
    BY <2>1, <2>2
<1>6. ASSUME NEW p \in Process, KeyClash(p) \/ ControlClash(p) \/ Abort(p) PROVE Goal
  <2>1. txn[p] # Idle /\ Ends(p) /\ UNCHANGED action
    BY <1>6, OpenNotIdle DEF KeyClash, ControlClash, Abort, Open
  <2>2. QED
    BY <2>1, SerialEnds
<1>7. CASE \/ \E k \in Keys : TtlElapses(k)
           \/ \E c \in Cases, f \in Facts : Reassess(c, f)
           \/ UNCHANGED vars
  <2>1. UNCHANGED <<action, txn>>
    BY <1>7 DEF TtlElapses, Reassess, vars
  <2>2. QED
    BY <2>1 DEF SerialInv, Pending
<1>8. CASE Starts
  <2>1. PICK p \in Sessions, k \in Keys :
          \/ \E ask \in Asks, who \in People :
               Request(p, k, ask, who, "create") \/ Request(p, k, ask, who, "contain")
          \/ LoadExecute(p, k) \/ LoadRollback(p, k)
          \/ \E who \in People : LoadApprove(p, k, who) \/ LoadReject(p, k, who)
    BY <1>8 DEF Starts
  <2>2. p \in Process
    BY DEF Process
  <2>3. QED
    BY <1>1, <1>2, <2>1, <2>2
<1>9. CASE \E p \in Sessions : Continues(p)
  <2>1. PICK p \in Process : Continues(p)
    BY <1>9 DEF Process
  <2>2. QED
    BY <1>4, <1>5, <1>6, <2>1 DEF Continues
<1>10. CASE ExpiryStep
  BY <1>3, <1>4, <1>5, <1>10 DEF ExpiryStep, Process
<1>11. Goal
  BY <1>6, <1>7, <1>8, <1>9, <1>10 DEF Next
<1>12. QED
  BY <1>11

(* If the database runs one transaction after the other, as SQLite does,   *)
(* a terminal action never leaves its status, whichever handlers are       *)
(* called in which order and whichever transactions are lost.              *)
THEOREM TerminalIfSerial ==
  ASSUME Isolation = "serial" PROVE Spec => TerminalStaysTerminal
<1>1. Init => SerialInv
  <2>1. Idle.op = "idle"
    BY DEF Idle
  <2>2. QED
    BY <2>1 DEF Init, SerialInv, Pending
<1>2. SerialInv /\ [Next]_vars => SerialInv'
  BY SerialNext
<1>3. SerialInv /\ [Next]_vars =>
        [\A k \in DOMAIN action :
           action[k].status \in TERMINAL_STATUSES => action'[k].status = action[k].status]_vars
  BY SerialNext
<1>4. QED
  BY <1>1, <1>2, <1>3, PTL DEF Spec, TerminalStaysTerminal
-----------------------------------------------------------------------------
(* Types.  A transaction's row and approver have been those of a call.     *)
TxnTyped(t) ==
  /\ t.op # "idle" => t.keys \subseteq Keys
  /\ t.op \in {"create", "contain"} => t.row \in ActionRow
  /\ t.op = "approve" => t.who \in People

RowsTyped == DOMAIN action \subseteq Keys /\ \A k \in DOMAIN action : action[k] \in ActionRow
ControlsTyped ==
  DOMAIN control \subseteq Controls /\ \A c \in DOMAIN control : control[c] \in ControlRow
TxnsTyped == DOMAIN txn = Process /\ \A p \in Process : TxnTyped(txn[p])

LEMMA IdleTyped ==
  ASSUME TxnsTyped, NEW p \in Process, Ends(p) PROVE TxnsTyped'
<1>1. Idle.op = "idle"
  BY DEF Idle
<1>2. TxnTyped(Idle)
  BY <1>1 DEF TxnTyped
<1>3. DOMAIN txn' = Process /\ \A q \in Process : txn'[q] = IF q = p THEN Idle ELSE txn[q]
  BY DEF Ends, TxnsTyped
<1>4. QED
  BY <1>2, <1>3 DEF TxnsTyped, TxnTyped

LEMMA OpenTyped ==
  ASSUME TxnsTyped, NEW p \in Process, NEW t, TxnTyped(t), txn' = [txn EXCEPT ![p] = t]
  PROVE  TxnsTyped'
<1>1. DOMAIN txn' = Process /\ \A q \in Process : txn'[q] = IF q = p THEN t ELSE txn[q]
  BY DEF TxnsTyped
<1>2. QED
  BY <1>1 DEF TxnsTyped, TxnTyped

LEMMA DecidedIsStatus ==
  ASSUME NEW type, NEW scope, NEW case, NEW existing
  PROVE  DecidedStatus(type, scope, case, existing)
           \in {"rejected", "awaiting_approval", "auto_authorized"}
BY DEF DecidedStatus

LEMMA TypedStarts ==
  ASSUME TxnsTyped, RowsTyped, Starts \/ LoadExpire PROVE TxnsTyped'
<1>1. ASSUME NEW p \in Process, NEW k \in Keys, NEW ask \in Asks, NEW who \in People,
             NEW op \in {"create", "contain"}, Request(p, k, ask, who, op)
      PROVE  TxnsTyped'
  <2> DEFINE status == DecidedStatus(ask.type, ask.scope, facts[ask.case], Existing(ask.case))
             row == [ask |-> ask, by |-> who, status |-> status,
                     decided |-> status, approver |-> Nobody]
             read == IF Executable(ask) THEN ControlOf(TargetOf(ask)) ELSE NoControl
             t == [op |-> op, phase |-> "loaded", keys |-> {k}, row |-> row, read |-> read]
  <2>1. txn' = [txn EXCEPT ![p] = t]
    BY <1>1 DEF Request, Begins
  <2>2. status \in Status
    BY DecidedIsStatus DEF Status
  <2> HIDE DEF status, read
  <2>3. row \in ActionRow
    BY <2>2 DEF ActionRow
  <2>4. t.op = op /\ t.keys = {k} /\ t.row = row
    OBVIOUS
  <2> HIDE DEF row, t
  <2>5. TxnTyped(t)
    BY <2>3, <2>4 DEF TxnTyped
  <2>6. QED
    BY <2>1, <2>5, OpenTyped
<1>2. ASSUME NEW p \in Process, NEW k \in Keys, NEW op, NEW who, Load(p, k, op, who),
             op \in {"reject", "execute", "rollback"} \/ (op = "approve" /\ who \in People)
      PROVE  TxnsTyped'
  <2> DEFINE t == [op |-> op, phase |-> "loaded", keys |-> {k}, who |-> who]
  <2>1. txn' = [txn EXCEPT ![p] = t]
    BY <1>2 DEF Load, Begins
  <2>2. t.op = op /\ t.keys = {k} /\ t.who = who
    OBVIOUS
  <2> HIDE DEF t
  <2>3. TxnTyped(t)
    BY <1>2, <2>2 DEF TxnTyped
  <2>4. QED
    BY <2>1, <2>3, OpenTyped
<1>3. ASSUME LoadExpire PROVE TxnsTyped'
  <2> DEFINE t == [op |-> "expire", phase |-> "loaded", keys |-> DueActions]
  <2>1. txn' = [txn EXCEPT ![Expiry] = t] /\ Expiry \in Process
    BY <1>3 DEF LoadExpire, Begins, Process
  <2>2. t.op = "expire" /\ t.keys \subseteq Keys
    BY DEF DueActions, RowsTyped
  <2> HIDE DEF t
  <2>3. TxnTyped(t)
    BY <2>2 DEF TxnTyped
  <2>4. QED
    BY <2>1, <2>3, OpenTyped
<1>4. ASSUME Starts PROVE TxnsTyped'
  <2>1. PICK p \in Sessions, k \in Keys :
          \/ \E ask \in Asks, who \in People :
               Request(p, k, ask, who, "create") \/ Request(p, k, ask, who, "contain")
          \/ LoadExecute(p, k) \/ LoadRollback(p, k)
          \/ \E who \in People : LoadApprove(p, k, who) \/ LoadReject(p, k, who)
    BY <1>4 DEF Starts
  <2>2. p \in Process
    BY DEF Process
  <2>3. QED
    BY <1>1, <1>2, <2>1, <2>2 DEF LoadExecute, LoadRollback, LoadApprove, LoadReject
<1>5. QED
  BY <1>3, <1>4

LEMMA TouchTyped ==
  ASSUME TxnsTyped, NEW p \in Process, Touch(p) PROVE TxnsTyped'
<1> DEFINE u == txn[p]
           t == [op |-> u.op, phase |-> "touched", keys |-> u.keys, read |-> ReadControls(u.keys)]
<1>1. txn' = [txn EXCEPT ![p] = t] /\ u.op \in {"execute", "rollback", "expire"}
  BY DEF Touch
<1>2. t.op = u.op /\ t.keys = u.keys
  OBVIOUS
<1> HIDE DEF t
<1>3. TxnTyped(t)
  BY <1>1, <1>2 DEF TxnTyped, TxnsTyped
<1>4. QED
  BY <1>1, <1>3, OpenTyped

(* What the transactions write are rows.                                   *)
LEMMA WrittenRowsTyped ==
  ASSUME RowsTyped, TxnsTyped, NEW p \in Process,
         \/ Insert(p) \/ InsertAndExecute(p) \/ Approve(p) \/ Reject(p) \/ Execute(p)
         \/ Rollback(p) \/ (p = Expiry /\ Expire)
  PROVE  RowsTyped' /\ DOMAIN action \subseteq DOMAIN action'
<1>1. TxnTyped(txn[p])
  BY DEF TxnsTyped
<1>2. ASSUME NEW row \in ActionRow, NEW status \in Status
      PROVE  [row EXCEPT !.status = status] \in ActionRow
  BY DEF ActionRow
<1>3. CASE Insert(p) \/ InsertAndExecute(p)
  <2> DEFINE row == txn[p].row
  <2>1. row \in ActionRow /\ txn[p].keys \subseteq Keys
    BY <1>1, <1>3 DEF TxnTyped, Insert, InsertAndExecute, Open
  <2>2. ASSUME NEW ask, NEW fault PROVE ExecutedStatus(ask, fault) \in Status
    BY DEF ExecutedStatus, Status
  <2>3. ASSUME NEW fault PROVE [row EXCEPT !.status = ExecutedStatus(row.ask, fault)] \in ActionRow
    BY <1>2, <2>1, <2>2
  <2>4. PICK k \in Keys, r \in ActionRow :
          action' = [x \in DOMAIN action \cup {k} |-> IF x = k THEN r ELSE action[x]]
    <3>1. CASE Insert(p)
      BY <2>1, <3>1 DEF Insert
    <3>2. CASE InsertAndExecute(p)
      <4>1. PICK k \in txn[p].keys, fault \in Faults :
              action' = [x \in DOMAIN action \cup {k} |->
                 IF x # k THEN action[x]
                 ELSE IF row.status = "auto_authorized"
                      THEN [row EXCEPT !.status = ExecutedStatus(row.ask, fault)]
                      ELSE row]
        BY <3>2 DEF InsertAndExecute
      <4> DEFINE r == IF row.status = "auto_authorized"
                      THEN [row EXCEPT !.status = ExecutedStatus(row.ask, fault)] ELSE row
      <4>2. r \in ActionRow
        BY <2>1, <2>3
      <4>3. action' = [x \in DOMAIN action \cup {k} |-> IF x = k THEN r ELSE action[x]]
        BY <4>1
      <4> HIDE DEF r
      <4>4. QED
        BY <2>1, <4>2, <4>3
    <3>3. QED
      BY <1>3, <3>1, <3>2
  <2>5. QED
    BY <2>4 DEF RowsTyped
<1>4. CASE Approve(p)
  <2>1. PICK k \in txn[p].keys :
          action' = [action EXCEPT ![k].status = "approved", ![k].approver = txn[p].who]
    BY <1>4 DEF Approve
  <2>2. txn[p].who \in People
    BY <1>1, <1>4 DEF TxnTyped, Approve, Open
  <2>3. ASSUME NEW row \in ActionRow
        PROVE  [row EXCEPT !.status = "approved", !.approver = txn[p].who] \in ActionRow
    BY <2>2 DEF ActionRow, Status
  <2>4. action' = [action EXCEPT ![k] =
                     [action[k] EXCEPT !.status = "approved", !.approver = txn[p].who]]
    BY <2>1
  <2> DEFINE r == [action[k] EXCEPT !.status = "approved", !.approver = txn[p].who]
  <2>5. k \in DOMAIN action => r \in ActionRow
    BY <2>3 DEF RowsTyped
  <2> HIDE DEF r
  <2>6. DOMAIN action' = DOMAIN action
        /\ \A x \in DOMAIN action : action'[x] = IF x = k THEN r ELSE action[x]
    BY <2>4 DEF r
  <2>7. QED
    BY <2>5, <2>6 DEF RowsTyped
<1>5. CASE Reject(p) \/ Execute(p) \/ Rollback(p) \/ (p = Expiry /\ Expire)
  <2>1. PICK K \in SUBSET Keys, status \in Status : action' = SetStatus(action, K, status)
    <3>1. CASE Execute(p)
      <4>1. PICK k \in txn[p].keys, fault \in Faults :
              action' = SetStatus(action, {k}, ExecutedStatus(action[k].ask, fault))
        BY <3>1 DEF Execute
      <4>2. ExecutedStatus(action[k].ask, fault) \in Status
        BY DEF ExecutedStatus, Status
      <4>3. {k} \in SUBSET Keys
        BY <1>1, <3>1 DEF TxnTyped, Execute, Open
      <4>4. QED
        BY <4>1, <4>2, <4>3
    <3>2. CASE Reject(p) \/ Rollback(p) \/ (p = Expiry /\ Expire)
      <4>1. {"rejected", "rolled_back", "expired"} \subseteq Status
        BY DEF Status
      <4>2. txn[p].keys \in SUBSET Keys
        BY <1>1, <3>2 DEF TxnTyped, Reject, Rollback, Expire, Open
      <4>3. \/ action' = SetStatus(action, txn[p].keys, "rejected")
            \/ action' = SetStatus(action, txn[p].keys, "rolled_back")
            \/ action' = SetStatus(action, txn[p].keys, "expired")
        BY <3>2 DEF Reject, Rollback, Expire
      <4>4. QED
        BY <4>1, <4>2, <4>3
    <3>3. QED
      BY <1>5, <3>1, <3>2
  <2>2. DOMAIN action' = DOMAIN action
    BY <2>1 DEF SetStatus
  <2>3. ASSUME NEW k \in DOMAIN action PROVE action'[k] \in ActionRow
    <3>1. action'[k] = IF k \in K THEN [action[k] EXCEPT !.status = status] ELSE action[k]
      BY <2>1 DEF SetStatus
    <3>2. action[k] \in ActionRow
      BY DEF RowsTyped
    <3>3. [action[k] EXCEPT !.status = status] \in ActionRow
      BY <1>2, <3>2
    <3>4. QED
      BY <3>1, <3>2, <3>3
  <2>4. QED
    BY <2>2, <2>3 DEF RowsTyped
<1>6. QED
  BY <1>3, <1>4, <1>5

(* An execution writes a row of a control: the columns it leaves alone are *)
(* those of a row that is there.                                           *)
LEMMA ExecutedTyped ==
  ASSUME ControlsTyped, NEW k \in Keys, NEW ask \in Asks, NEW read, NEW fault,
         read # NoControl /\ Executable(ask) => TargetOf(ask) \in DOMAIN control
  PROVE  LET new == Executed(k, ask, read, fault)
         IN  DOMAIN new \subseteq Controls /\ \A c \in DOMAIN new : new[c] \in ControlRow
<1> DEFINE new == Executed(k, ask, read, fault)
           target == TargetOf(ask)
           row == Applied(k, read, ControlOf(target))
<1>1. CASE new = control
  BY <1>1 DEF ControlsTyped
<1>2. CASE new # control
  <2>1. Executable(ask) /\ new = [x \in DOMAIN control \cup {target} |->
                              IF x = target THEN row ELSE control[x]]
    BY <1>2 DEF Executed
  <2>2. target \in Controls
    BY <2>1 DEF Controls
  <2>3. row \in ControlRow
    <3>1. CASE read = NoControl
      BY <3>1 DEF Applied, ControlRow
    <3>2. CASE read # NoControl
      <4>1. ControlOf(target) \in ControlRow
        BY <2>1, <3>2 DEF ControlOf, ControlsTyped
      <4>2. QED
        BY <3>2, <4>1 DEF Applied, ControlRow
    <3>3. QED
      BY <3>1, <3>2
  <2> HIDE DEF row, target
  <2>4. QED
    BY <2>1, <2>2, <2>3 DEF ControlsTyped
<1>3. QED
  BY <1>1, <1>2

LEMMA WrittenControlsTyped ==
  ASSUME AuthorityInv, RowsTyped, TxnsTyped, ControlsTyped, NEW p \in Process,
         InsertAndExecute(p) \/ Execute(p) \/ Rollback(p) \/ (p = Expiry /\ Expire)
  PROVE  ControlsTyped'
<1>1. TxnTyped(txn[p]) /\ TxnSound(txn[p])
  BY DEF TxnsTyped, AuthorityInv
<1>2. CASE InsertAndExecute(p)
  <2> DEFINE row == txn[p].row
  <2>1. PICK k \in txn[p].keys, fault \in Faults :
          control' = IF row.status = "auto_authorized"
                     THEN Executed(k, row.ask, txn[p].read, fault) ELSE control
    BY <1>2 DEF InsertAndExecute
  <2>2. k \in Keys /\ row.ask \in Asks
    BY <1>1, <1>2 DEF TxnTyped, InsertAndExecute, Open, ActionRow
  <2>3. txn[p].read # NoControl /\ Executable(row.ask) => TargetOf(row.ask) \in DOMAIN control
    BY <1>1, <1>2 DEF TxnSound, NewRow, InsertAndExecute, Open
  <2>4. control' = Executed(k, row.ask, txn[p].read, fault) \/ control' = control
    BY <2>1
  <2>5. QED
    BY <2>2, <2>3, <2>4, ExecutedTyped DEF ControlsTyped
<1>3. CASE Execute(p)
  <2>1. PICK k \in txn[p].keys, fault \in Faults :
          control' = Executed(k, action[k].ask,
                       IF Executable(action[k].ask) THEN txn[p].read[TargetOf(action[k].ask)]
                       ELSE NoControl, fault)
    BY <1>3 DEF Execute
  <2> DEFINE ask  == action[k].ask
             read == IF Executable(ask) THEN txn[p].read[TargetOf(ask)] ELSE NoControl
  <2>2. Executing(txn[p]) /\ txn[p].op = "execute" /\ txn[p].phase = "touched"
    BY <1>1, <1>3 DEF TxnSound, Execute, Open
  <2>3. k \in DOMAIN action
    BY <2>2 DEF Executing
  <2>4. k \in Keys /\ ask \in Asks
    BY <2>3 DEF RowsTyped, ActionRow
  <2>5. read # NoControl /\ Executable(ask) => TargetOf(ask) \in DOMAIN control
    BY <2>2 DEF Executing
  <2>6. QED
    BY <2>1, <2>4, <2>5, ExecutedTyped DEF ControlsTyped
<1>4. CASE Rollback(p) \/ (p = Expiry /\ Expire)
  <2>1. control' = RolledBack(txn[p].keys, txn[p].read)
    BY <1>4 DEF Rollback, Expire
  <2>2. ASSUME NEW row \in ControlRow PROVE [row EXCEPT !.active = FALSE] \in ControlRow
    BY DEF ControlRow
  <2>3. DOMAIN control' = DOMAIN control
        /\ \A c \in DOMAIN control : control'[c] \in {control[c], [control[c] EXCEPT !.active = FALSE]}
    BY <2>1 DEF RolledBack
  <2>4. QED
    BY <2>2, <2>3 DEF ControlsTyped
<1>5. QED
  BY <1>2, <1>3, <1>4

TypeInv == TypeOK /\ TxnsTyped /\ AuthorityInv

LEMMA TypeNext == TypeInv /\ [Next]_vars => TypeInv'
<1> SUFFICES ASSUME TypeInv, [Next]_vars PROVE TypeInv'
  OBVIOUS
<1> USE DEF TypeInv
<1>1. RowsTyped /\ ControlsTyped /\ TxnsTyped /\ AuthorityInv
  BY DEF TypeOK, RowsTyped, ControlsTyped
<1>2. AuthorityInv'
  BY AuthorityNext
<1>3. /\ facts \in [Cases -> Facts] /\ due \subseteq DOMAIN action /\ aborts \in 0..MaxAborts
  BY DEF TypeOK
<1>4. ASSUME RowsTyped', ControlsTyped', TxnsTyped', DOMAIN action \subseteq DOMAIN action',
             UNCHANGED <<facts, due, aborts>>
      PROVE  TypeInv'
  BY <1>2, <1>3, <1>4 DEF TypeOK, RowsTyped, ControlsTyped, TxnsTyped
<1>5. CASE Starts \/ LoadExpire
  <2>1. UNCHANGED <<facts, action, control, due, aborts>>
    BY <1>5 DEF Starts, LoadExpire, Request, LoadApprove, LoadReject, LoadExecute,
                LoadRollback, Load
  <2>2. QED
    BY <1>1, <1>4, <1>5, <2>1, TypedStarts DEF RowsTyped, ControlsTyped
<1>6. ASSUME NEW p \in Process, Touch(p) PROVE TypeInv'
  <2>1. UNCHANGED <<facts, action, control, due, aborts>>
    BY <1>6 DEF Touch
  <2>2. QED
    BY <1>1, <1>4, <1>6, <2>1, TouchTyped DEF RowsTyped, ControlsTyped
<1>7. ASSUME NEW p \in Process,
             \/ Insert(p) \/ InsertAndExecute(p) \/ Approve(p) \/ Reject(p) \/ Execute(p)
             \/ Rollback(p) \/ (p = Expiry /\ Expire)
      PROVE  TypeInv'
  <2>1. Ends(p) /\ UNCHANGED <<facts, due, aborts>>
    BY <1>7 DEF Insert, InsertAndExecute, Approve, Reject, Execute, Rollback, Expire
  <2>2. RowsTyped' /\ DOMAIN action \subseteq DOMAIN action'
    BY <1>1, <1>7, WrittenRowsTyped
  <2>3. ControlsTyped'
    <3>1. CASE InsertAndExecute(p) \/ Execute(p) \/ Rollback(p) \/ (p = Expiry /\ Expire)
      BY <1>1, <3>1, WrittenControlsTyped
    <3>2. CASE Insert(p) \/ Approve(p) \/ Reject(p)
      BY <1>1, <3>2 DEF Insert, Approve, Reject, ControlsTyped
    <3>3. QED
      BY <1>7, <3>1, <3>2
  <2>4. TxnsTyped'
    BY <1>1, <2>1, IdleTyped
  <2>5. QED
    BY <1>4, <2>1, <2>2, <2>3, <2>4
<1>8. ASSUME NEW p \in Process, KeyClash(p) \/ ControlClash(p) \/ Abort(p) PROVE TypeInv'
  <2>1. Ends(p) /\ UNCHANGED <<facts, action, control, due>>
    BY <1>8 DEF KeyClash, ControlClash, Abort
  <2>2. aborts' \in 0..MaxAborts
    <3>1. MaxAborts \in Nat
      BY ResponseAssumption
    <3>2. aborts' = aborts \/ (aborts < MaxAborts /\ aborts' = aborts + 1)
      BY <1>8 DEF KeyClash, ControlClash, Abort
    <3>3. QED
      BY <1>3, <3>1, <3>2
  <2>3. TxnsTyped'
    BY <1>1, <2>1, IdleTyped
  <2>4. QED
    BY <1>1, <1>2, <1>3, <2>1, <2>2, <2>3 DEF TypeOK, RowsTyped, ControlsTyped, TxnsTyped
<1>9. CASE \/ \E k \in Keys : TtlElapses(k)
           \/ \E c \in Cases, f \in Facts : Reassess(c, f)
           \/ UNCHANGED vars
  <2>1. UNCHANGED <<action, control, txn, aborts>>
    BY <1>9 DEF TtlElapses, Reassess, vars
  <2>2. facts' \in [Cases -> Facts] /\ due' \subseteq DOMAIN action
    BY <1>3, <1>9 DEF TtlElapses, Reassess, vars
  <2>3. QED
    BY <1>1, <1>2, <1>3, <2>1, <2>2 DEF TypeOK, RowsTyped, ControlsTyped, TxnsTyped
<1>10. CASE \E p \in Sessions : Continues(p)
  <2>1. PICK p \in Process : Continues(p)
    BY <1>10 DEF Process
  <2>2. QED
    BY <1>6, <1>7, <1>8, <2>1 DEF Continues
<1>11. CASE ExpiryStep
  BY <1>5, <1>6, <1>7, <1>11 DEF ExpiryStep, Process
<1>12. QED
  BY <1>5, <1>8, <1>9, <1>10, <1>11 DEF Next

LEMMA TypeInit == Init => TypeInv
<1> SUFFICES ASSUME Init PROVE TypeInv
  OBVIOUS
<1>1. \A p \in Process : txn[p].op = "idle"
  BY DEF Init, Idle
<1>2. TxnsTyped
  BY <1>1 DEF TxnsTyped, TxnTyped, Init
<1>3. TypeOK
  BY ResponseAssumption DEF Init, TypeOK
<1>4. QED
  BY <1>2, <1>3, AuthorityInit DEF TypeInv

(* Type correctness, whatever overlaps: no execution leaves a row of a     *)
(* control without its owner, though it writes only the columns that       *)
(* differ from those it read (sandbox_enforcement.py).                     *)
THEOREM Typed == Spec => []TypeOK
<1>1. Init => TypeInv
  BY TypeInit
<1>2. TypeInv => TypeOK
  BY DEF TypeInv
<1>3. QED
  BY <1>1, <1>2, TypeNext, PTL DEF Spec
-----------------------------------------------------------------------------
(* What an open transaction saw is still so, if transactions do not        *)
(* overlap: the statuses its handler asked for, and the control it read.   *)
AsSeen(t) ==
  /\ t.op = "approve" => \A k \in t.keys : action[k].status = "awaiting_approval"
  /\ t.op = "reject" => \A k \in t.keys : MayReject(action[k])
  /\ t.op = "execute" => \A k \in t.keys : MayExecute(action[k])
  /\ t.op \in {"rollback", "expire"} => \A k \in t.keys : action[k].status = "active"

(* What was decided on the actions of the case, and the control it read.   *)
AsDecided(t) ==
  t.op \in {"create", "contain"} =>
    LET ask == t.row.ask
    IN  /\ t.read = IF Executable(ask) THEN ControlOf(TargetOf(ask)) ELSE NoControl
        /\ t.row.decided = "auto_authorized" =>
             ~Duplicates(ask.type, ask.scope, Existing(ask.case))

AsRead(t) ==
  t.op \in {"execute", "rollback", "expire"} /\ t.phase = "touched" =>
    t.read = ReadControls(t.keys)

Current(t) == AsSeen(t) /\ AsDecided(t) /\ AsRead(t)

(* A control is that of the action which applied it last.                  *)
OwnTarget(c) ==
  LET ask == action[control[c].by].ask IN Executable(ask) /\ c = TargetOf(ask)

CurrentInv ==
  /\ \A p \in Process : Current(txn[p])
  /\ \A c \in DOMAIN control : OwnTarget(c)

LEMMA StaysCurrent ==
  ASSUME UNCHANGED <<action, control>>, NEW q, NEW t, txn'[q] = t, Current(t)
  PROVE  Current(txn[q])'
<1>1. \A c : Existing(c)' = Existing(c) /\ ControlOf(c)' = ControlOf(c)
  BY DEF Existing, ControlOf
<1>2. AsDecided(txn[q])'
  BY <1>1 DEF Current, AsDecided
<1>3. AsSeen(txn[q])'
  BY DEF Current, AsSeen
<1>4. AsRead(txn[q])'
  BY DEF Current, AsRead, ReadControls, ControlOf
<1>5. QED
  BY <1>2, <1>3, <1>4 DEF Current

LEMMA IdleIsCurrent ==
  ASSUME NEW q, txn'[q] = Idle PROVE Current(txn[q])'
<1>1. txn'[q].op = "idle"
  BY DEF Idle
<1>2. QED
  BY <1>1 DEF Current, AsSeen, AsDecided, AsRead

LEMMA CurrentBegins ==
  ASSUME Isolation = "serial", SerialInv, CurrentInv, UNCHANGED <<action, control>>,
         NEW p \in Process, NEW t, Begins(p, t), Current(t)
  PROVE  CurrentInv'
<1>1. txn'[p] = t /\ \A q \in Process \ {p} : txn'[q] = Idle
  BY DEF Begins, Exclusive, SerialInv
<1>2. Current(txn[p])'
  BY <1>1, StaysCurrent
<1>3. \A q \in Process \ {p} : Current(txn[q])'
  BY <1>1, IdleIsCurrent
<1>4. QED
  BY <1>2, <1>3 DEF CurrentInv, OwnTarget

LEMMA CurrentEnds ==
  ASSUME SerialInv, NEW p \in Process, txn[p] # Idle, Ends(p),
         \A c \in DOMAIN control' : OwnTarget(c)'
  PROVE  CurrentInv'
<1>1. \A q \in Process : txn'[q] = Idle
  BY DEF Ends, SerialInv
<1>2. \A q \in Process : Current(txn[q])'
  BY <1>1, IdleIsCurrent
<1>3. QED
  BY <1>2 DEF CurrentInv

LEMMA CurrentRequest ==
  ASSUME Isolation = "serial", SerialInv, CurrentInv, NEW p \in Process, NEW k, NEW ask, NEW who,
         NEW op \in {"create", "contain"}, Request(p, k, ask, who, op)
  PROVE  CurrentInv'
<1> DEFINE status == DecidedStatus(ask.type, ask.scope, facts[ask.case], Existing(ask.case))
           row == [ask |-> ask, by |-> who, status |-> status,
                   decided |-> status, approver |-> Nobody]
           read == IF Executable(ask) THEN ControlOf(TargetOf(ask)) ELSE NoControl
           t == [op |-> op, phase |-> "loaded", keys |-> {k}, row |-> row, read |-> read]
<1>1. Begins(p, t) /\ UNCHANGED <<action, control>>
  BY DEF Request
<1>2. status = "auto_authorized" => ~Duplicates(ask.type, ask.scope, Existing(ask.case))
  BY DEF DecidedStatus, Allowed
<1>3. read = IF Executable(ask) THEN ControlOf(TargetOf(ask)) ELSE NoControl
  OBVIOUS
<1> HIDE DEF status, read
<1>4. /\ t.op = op /\ t.phase = "loaded" /\ t.read = read
      /\ t.row.ask = ask /\ t.row.decided = status
  OBVIOUS
<1> HIDE DEF row, t
<1>5. Current(t)
  BY <1>2, <1>3, <1>4 DEF Current, AsSeen, AsDecided, AsRead
<1>6. QED
  BY <1>1, <1>5, CurrentBegins

LEMMA CurrentLoad ==
  ASSUME Isolation = "serial", SerialInv, CurrentInv, NEW p \in Process, NEW k,
         \/ LoadExecute(p, k) \/ LoadRollback(p, k)
         \/ \E who \in People : LoadApprove(p, k, who) \/ LoadReject(p, k, who)
  PROVE  CurrentInv'
<1>1. ASSUME NEW op, NEW w, Load(p, k, op, w),
             \/ op = "approve" /\ MayApprove(action[k], w)
             \/ op = "reject" /\ MayReject(action[k])
             \/ op = "execute" /\ MayExecute(action[k])
             \/ op = "rollback" /\ MayRollBack(action[k])
      PROVE  CurrentInv'
  <2> DEFINE t == [op |-> op, phase |-> "loaded", keys |-> {k}, who |-> w]
  <2>1. Begins(p, t) /\ UNCHANGED <<action, control>>
    BY <1>1 DEF Load
  <2>2. t.op = op /\ t.keys = {k} /\ t.phase = "loaded"
    OBVIOUS
  <2> HIDE DEF t
  <2>3. Current(t)
    BY <1>1, <2>2 DEF Current, AsSeen, AsDecided, AsRead, MayApprove, MayRollBack
  <2>4. QED
    BY <2>1, <2>3, CurrentBegins
<1>2. QED
  BY <1>1 DEF LoadApprove, LoadReject, LoadExecute, LoadRollback

LEMMA CurrentLoadExpire ==
  ASSUME Isolation = "serial", SerialInv, CurrentInv, LoadExpire
  PROVE  CurrentInv'
<1> DEFINE t == [op |-> "expire", phase |-> "loaded", keys |-> DueActions]
<1>1. Begins(Expiry, t) /\ Expiry \in Process /\ UNCHANGED <<action, control>>
  BY DEF LoadExpire, Process
<1>2. t.op = "expire" /\ t.keys = DueActions /\ t.phase = "loaded"
  OBVIOUS
<1> HIDE DEF t
<1>3. Current(t)
  BY <1>2 DEF Current, AsSeen, AsDecided, AsRead, DueActions
<1>4. QED
  BY <1>1, <1>3, CurrentBegins

LEMMA CurrentTouch ==
  ASSUME SerialInv, CurrentInv, NEW p \in Process, Touch(p)
  PROVE  CurrentInv'
<1> DEFINE u == txn[p]
           t == [op |-> u.op, phase |-> "touched", keys |-> u.keys, read |-> ReadControls(u.keys)]
<1>1. /\ txn' = [txn EXCEPT ![p] = t] /\ UNCHANGED <<action, control>>
      /\ u.op \in {"execute", "rollback", "expire"}
  BY DEF Touch
<1>2. t.op = u.op /\ t.keys = u.keys /\ t.read = ReadControls(u.keys)
  OBVIOUS
<1>3. txn'[p] = t /\ \A q \in Process \ {p} : txn'[q] = txn[q]
  BY <1>1 DEF SerialInv
<1> HIDE DEF t
<1>4. Current(t)
  BY <1>1, <1>2 DEF CurrentInv, Current, AsSeen, AsDecided, AsRead
<1>5. \A q \in Process : Current(txn[q])'
  BY <1>1, <1>3, <1>4, StaysCurrent DEF CurrentInv
<1>6. QED
  BY <1>1, <1>5 DEF CurrentInv, OwnTarget
-----------------------------------------------------------------------------
(* What a commit does, when nothing happened since its handler read.       *)
SpentStatus == {"active", "expired", "rolled_back", "failed"}

WritesOf(p) ==
  \/ Insert(p) \/ InsertAndExecute(p) \/ Approve(p) \/ Reject(p) \/ Execute(p)
  \/ Rollback(p) \/ (p = Expiry /\ Expire)

(* The rows of K may change in status, no others and in nothing else.      *)
Only(K) ==
  /\ DOMAIN action \subseteq DOMAIN action' /\ DOMAIN action' \subseteq DOMAIN action \cup K
  /\ K \subseteq DOMAIN action'
  /\ \A k \in DOMAIN action : action'[k].ask = action[k].ask
                              /\ action'[k].decided = action[k].decided
  /\ \A k \in DOMAIN action \ K : action'[k].status = action[k].status

NotYetSpent(k) == k \in DOMAIN action => action[k].status \notin SpentStatus

(* An insertion, approval or rejection.                                    *)
Quiet ==
  \E K \in SUBSET Keys :
    /\ Only(K) /\ control' = control
    /\ \A k \in K : NotYetSpent(k) /\ action'[k].status \notin SpentStatus

(* An execution that does not reach the control.                           *)
Fails ==
  \E k \in Keys :
    /\ Only({k}) /\ control' = control
    /\ NotYetSpent(k) /\ action'[k].status = "failed"

(* An execution that applies the control.                                  *)
Applies ==
  \E k \in Keys :
    LET c == TargetOf(action'[k].ask)
    IN  /\ Only({k}) /\ NotYetSpent(k)
        /\ action'[k].status \in {"active", "failed"}
        /\ action'[k].status = "failed" => "verification" \in Faults
        /\ Executable(action'[k].ask) /\ c \in Controls
        /\ DOMAIN control' = DOMAIN control \cup {c}
        /\ control'[c] = [active |-> TRUE, by |-> k]
        /\ \A x \in DOMAIN control \ {c} : control'[x] = control[x]

(* A rollback or expiry.                                                   *)
Releases ==
  \E K \in SUBSET Keys :
    /\ Only(K) /\ K \subseteq DOMAIN action
    /\ \A k \in K : action[k].status = "active" /\ action'[k].status \in {"rolled_back", "expired"}
    /\ DOMAIN control' = DOMAIN control
    /\ \A c \in DOMAIN control :
         control'[c] = IF control[c].by \in K THEN [control[c] EXCEPT !.active = FALSE]
                       ELSE control[c]

Effects == Quiet \/ Fails \/ Applies \/ Releases

LEMMA StatusOnly ==
  ASSUME RowsTyped, NEW K, K \subseteq DOMAIN action, NEW status,
         action' = SetStatus(action, K, status)
  PROVE  Only(K) /\ \A k \in K : action'[k].status = status
<1>1. DOMAIN action' = DOMAIN action
  BY DEF SetStatus
<1>2. ASSUME NEW k \in DOMAIN action
      PROVE  /\ action'[k].ask = action[k].ask /\ action'[k].decided = action[k].decided
             /\ action'[k].status = IF k \in K THEN status ELSE action[k].status
  <2>1. action[k] \in ActionRow
    BY DEF RowsTyped
  <2>2. action'[k] = IF k \in K THEN [action[k] EXCEPT !.status = status] ELSE action[k]
    BY DEF SetStatus
  <2>3. QED
    BY <2>1, <2>2 DEF ActionRow
<1>3. QED
  BY <1>1, <1>2 DEF Only

(* The execution of k with the control as it is.                           *)
LEMMA ExecutionEffect ==
  ASSUME NEW k \in Keys, NEW ask \in Asks, NEW fault \in Faults, NEW read,
         read = IF Executable(ask) THEN ControlOf(TargetOf(ask)) ELSE NoControl,
         control' = Executed(k, ask, read, fault),
         Only({k}), NotYetSpent(k), action'[k].ask = ask,
         action'[k].status = ExecutedStatus(ask, fault),
         k \in DOMAIN action', \A c \in DOMAIN control : control[c] \in ControlRow
  PROVE  Fails \/ Applies
<1>1. fault \in {"none", "connector", "verification"}
  BY ResponseAssumption
<1>2. CASE fault = "connector" \/ ~Executable(ask)
  BY <1>2 DEF Executed, ExecutedStatus, Fails
<1>3. CASE fault # "connector" /\ Executable(ask)
  <2> DEFINE c == TargetOf(ask)
             row == Applied(k, read, ControlOf(c))
  <2>1. control' = [x \in DOMAIN control \cup {c} |-> IF x = c THEN row ELSE control[x]]
    BY <1>3 DEF Executed
  <2>2. read = ControlOf(c)
    BY <1>3
  <2>3. row = [active |-> TRUE, by |-> k]
    <3>1. CASE read = NoControl
      BY <3>1 DEF Applied
    <3>2. CASE read # NoControl
      <4>1. read \in ControlRow
        BY <2>2, <3>2 DEF ControlOf
      <4>2. QED
        BY <2>2, <3>2, <4>1 DEF Applied, ControlRow
    <3>3. QED
      BY <3>1, <3>2
  <2>4. c \in Controls
    BY <1>3 DEF Controls
  <2> HIDE DEF row
  <2>5. /\ DOMAIN control' = DOMAIN control \cup {c}
        /\ control'[c] = [active |-> TRUE, by |-> k]
        /\ \A x \in DOMAIN control \ {c} : control'[x] = control[x]
    BY <2>1, <2>3
  <2>6. /\ action'[k].status \in {"active", "failed"}
        /\ action'[k].status = "failed" => "verification" \in Faults
    BY <1>1, <1>3 DEF ExecutedStatus
  <2>7. QED
    BY <1>3, <2>4, <2>5, <2>6 DEF Applies
<1>4. QED
  BY <1>2, <1>3

LEMMA EffectOfInsert ==
  ASSUME TypeInv, CurrentInv, NEW p \in Process, Insert(p) \/ InsertAndExecute(p)
  PROVE  Quiet \/ Fails \/ Applies
<1> DEFINE row == txn[p].row
<1>1. /\ txn[p].keys \subseteq Keys /\ row \in ActionRow /\ row.status = row.decided
      /\ \A c \in DOMAIN control : control[c] \in ControlRow
      /\ DOMAIN action \subseteq Keys
  BY DEF TypeInv, TypeOK, TxnsTyped, TxnTyped, AuthorityInv, TxnSound, NewRow,
         Insert, InsertAndExecute, Open
<1>2. RowSound(row) /\ txn[p].op \in {"create", "contain"}
  BY DEF TypeInv, AuthorityInv, TxnSound, NewRow, Insert, InsertAndExecute, Open
<1>3. ASSUME NEW k, k \notin DOMAIN action, NEW r, r.status = row.status,
             k \in Keys, action' = [x \in DOMAIN action \cup {k} |-> IF x = k THEN r ELSE action[x]],
             control' = control, r.status \notin SpentStatus
      PROVE  Quiet
  <2>1. Only({k}) /\ action'[k] = r /\ NotYetSpent(k)
    BY <1>3 DEF Only, NotYetSpent
  <2>2. QED
    BY <1>3, <2>1 DEF Quiet
<1>4. row.status \notin SpentStatus
  BY <1>1, <1>2 DEF NewRow, TypeInv, AuthorityInv, TxnSound, SpentStatus
<1>5. CASE Insert(p)
  <2>1. PICK k \in txn[p].keys :
          k \notin DOMAIN action
          /\ action' = [x \in DOMAIN action \cup {k} |-> IF x = k THEN row ELSE action[x]]
    BY <1>5 DEF Insert
  <2>2. QED
    BY <1>1, <1>3, <1>4, <1>5, <2>1 DEF Insert
<1>6. CASE InsertAndExecute(p)
  <2> DEFINE runs == row.status = "auto_authorized"
  <2>1. PICK k \in txn[p].keys, fault \in Faults :
          /\ k \notin DOMAIN action
          /\ action' = [x \in DOMAIN action \cup {k} |->
               IF x # k THEN action[x]
               ELSE IF runs THEN [row EXCEPT !.status = ExecutedStatus(row.ask, fault)] ELSE row]
          /\ control' = IF runs THEN Executed(k, row.ask, txn[p].read, fault) ELSE control
    BY <1>6 DEF InsertAndExecute
  <2>2. CASE ~runs
    <3>1. action' = [x \in DOMAIN action \cup {k} |-> IF x = k THEN row ELSE action[x]]
          /\ control' = control
      BY <2>1, <2>2
    <3>2. QED
      BY <1>1, <1>3, <1>4, <2>1, <3>1
  <2>3. CASE runs
    <3> DEFINE r == [row EXCEPT !.status = ExecutedStatus(row.ask, fault)]
    <3>1. /\ action' = [x \in DOMAIN action \cup {k} |-> IF x = k THEN r ELSE action[x]]
          /\ control' = Executed(k, row.ask, txn[p].read, fault)
      BY <2>1, <2>3
    <3>2. r.ask = row.ask /\ r.status = ExecutedStatus(row.ask, fault)
      BY <1>1 DEF ActionRow
    <3>3. txn[p].read = IF Executable(row.ask) THEN ControlOf(TargetOf(row.ask)) ELSE NoControl
      BY <1>2 DEF CurrentInv, Current, AsDecided
    <3>4. row.ask \in Asks
      BY <1>1 DEF ActionRow
    <3> HIDE DEF r
    <3>5. Only({k}) /\ action'[k] = r /\ NotYetSpent(k) /\ k \in DOMAIN action'
      BY <2>1, <3>1 DEF Only, NotYetSpent
    <3>6. QED
      BY <1>1, <3>1, <3>2, <3>3, <3>4, <3>5, ExecutionEffect
  <2>4. QED
    BY <2>2, <2>3
<1>7. QED
  BY <1>5, <1>6

LEMMA EffectOfWrite ==
  ASSUME TypeInv, SerialInv, CurrentInv, NEW p \in Process, WritesOf(p)
  PROVE  Effects
<1>1. /\ RowsTyped /\ \A c \in DOMAIN control : control[c] \in ControlRow
      /\ txn[p].op # "idle" => txn[p].keys \subseteq Keys
  BY DEF TypeInv, TypeOK, RowsTyped, TxnsTyped, TxnTyped
<1>2. Pending(txn[p]) /\ Current(txn[p])
  BY DEF SerialInv, CurrentInv
<1>3. CASE Insert(p) \/ InsertAndExecute(p)
  BY <1>3, EffectOfInsert DEF Effects
<1>4. CASE Approve(p)
  <2>1. PICK k \in txn[p].keys :
          action' = [action EXCEPT ![k].status = "approved", ![k].approver = txn[p].who]
    BY <1>4 DEF Approve
  <2>2. k \in Keys /\ k \in DOMAIN action /\ action[k].status = "awaiting_approval"
    BY <1>1, <1>2, <1>4 DEF Approve, Open, Pending, Current, AsSeen
  <2> DEFINE r == [action[k] EXCEPT !.status = "approved", !.approver = txn[p].who]
  <2>3. action' = [action EXCEPT ![k] = r]
    BY <2>1
  <2>4. r.ask = action[k].ask /\ r.decided = action[k].decided /\ r.status = "approved"
    BY <1>1, <2>2 DEF RowsTyped, ActionRow
  <2> HIDE DEF r
  <2>5. Only({k}) /\ action'[k].status = "approved"
    BY <2>2, <2>3, <2>4 DEF Only
  <2>6. control' = control
    BY <1>4 DEF Approve
  <2>7. Quiet
    BY <2>2, <2>5, <2>6 DEF Quiet, NotYetSpent, SpentStatus
  <2>8. QED
    BY <2>7 DEF Effects
<1>5. CASE Reject(p)
  <2> DEFINE K == txn[p].keys
  <2>1. /\ K \subseteq DOMAIN action /\ K \in SUBSET Keys
        /\ \A k \in K : MayReject(action[k])
    BY <1>1, <1>2, <1>5 DEF Reject, Open, Pending, Current, AsSeen
  <2>2. Only(K) /\ (\A k \in K : action'[k].status = "rejected") /\ control' = control
    BY <1>1, <1>5, <2>1, StatusOnly DEF Reject
  <2>3. ASSUME NEW k \in K PROVE NotYetSpent(k)
    <3>1. "rejected" \in ALLOWED_TRANSITIONS[action[k].status]
      BY <2>1 DEF MayReject
    <3>2. ASSUME action[k].status \in SpentStatus PROVE FALSE
      BY <3>1, <3>2 DEF ALLOWED_TRANSITIONS, SpentStatus
    <3>3. QED
      BY <3>2 DEF NotYetSpent
  <2>4. Quiet
    BY <2>1, <2>2, <2>3 DEF Quiet, SpentStatus
  <2>5. QED
    BY <2>4 DEF Effects
<1>6. CASE Execute(p)
  <2>1. PICK k \in txn[p].keys, fault \in Faults :
          LET ask  == action[k].ask
              read == IF Executable(ask) THEN txn[p].read[TargetOf(ask)] ELSE NoControl
          IN  /\ control' = Executed(k, ask, read, fault)
              /\ action' = SetStatus(action, {k}, ExecutedStatus(ask, fault))
    BY <1>6 DEF Execute
  <2> DEFINE ask  == action[k].ask
             read == IF Executable(ask) THEN txn[p].read[TargetOf(ask)] ELSE NoControl
  <2>2. /\ k \in Keys /\ k \in DOMAIN action /\ MayExecute(action[k])
        /\ txn[p].read = ReadControls(txn[p].keys)
    BY <1>1, <1>2, <1>6 DEF Execute, Open, Pending, Current, AsSeen, AsRead
  <2>3. read = IF Executable(ask) THEN ControlOf(TargetOf(ask)) ELSE NoControl
    BY <2>2 DEF ReadControls
  <2>4. Only({k}) /\ action'[k].status = ExecutedStatus(ask, fault)
    BY <1>1, <2>1, <2>2, StatusOnly
  <2>5. NotYetSpent(k)
    BY <2>2 DEF NotYetSpent, MayExecute, SpentStatus
  <2>6. action'[k].ask = ask /\ ask \in Asks /\ k \in DOMAIN action'
    BY <1>1, <2>2, <2>4 DEF Only, RowsTyped, ActionRow
  <2>7. control' = Executed(k, ask, read, fault)
    BY <2>1
  <2> HIDE DEF read
  <2>8. QED
    BY <1>1, <2>2, <2>3, <2>4, <2>5, <2>6, <2>7, ExecutionEffect DEF Effects
<1>7. CASE Rollback(p) \/ (p = Expiry /\ Expire)
  <2> DEFINE K == txn[p].keys
  <2>1. /\ K \subseteq DOMAIN action /\ K \in SUBSET Keys
        /\ \A k \in K : action[k].status = "active"
        /\ txn[p].read = ReadControls(K)
    BY <1>1, <1>2, <1>7 DEF Rollback, Expire, Open, Pending, Current, AsSeen, AsRead
  <2>2. Only(K) /\ \A k \in K : action'[k].status \in {"rolled_back", "expired"}
    <3>1. PICK status \in {"rolled_back", "expired"} : action' = SetStatus(action, K, status)
      BY <1>7 DEF Rollback, Expire
    <3>2. QED
      BY <1>1, <2>1, <3>1, StatusOnly
  <2>3. control' = RolledBack(K, ReadControls(K))
    BY <1>7, <2>1 DEF Rollback, Expire
  <2>4. DOMAIN control' = DOMAIN control
    BY <2>3 DEF RolledBack
  <2>5. ASSUME NEW c \in DOMAIN control
        PROVE  control'[c] = IF control[c].by \in K THEN [control[c] EXCEPT !.active = FALSE]
                             ELSE control[c]
    <3>1. control'[c] = IF c \in DOMAIN ReadControls(K) /\ ReadControls(K)[c].by \in K
                        THEN [control[c] EXCEPT !.active = FALSE] ELSE control[c]
      BY <2>3 DEF RolledBack
    <3>2. c \in DOMAIN ReadControls(K) => ReadControls(K)[c] = control[c]
      BY DEF ReadControls, ControlOf
    <3>3. control[c].by \in K => c \in DOMAIN ReadControls(K)
      BY DEF CurrentInv, OwnTarget, ReadControls
    <3>4. QED
      BY <3>1, <3>2, <3>3
  <2>6. Releases
    BY <2>1, <2>2, <2>4, <2>5 DEF Releases
  <2>7. QED
    BY <2>6 DEF Effects
<1>8. QED
  BY <1>3, <1>4, <1>5, <1>6, <1>7 DEF WritesOf
-----------------------------------------------------------------------------
LEMMA OwnTargetsKept ==
  ASSUME TypeInv, CurrentInv, Effects
  PROVE  \A c \in DOMAIN control' : OwnTarget(c)'
<1>1. \A c \in DOMAIN control : control[c] \in ControlRow /\ control[c].by \in DOMAIN action
                                /\ OwnTarget(c)
  BY DEF TypeInv, TypeOK, AuthorityInv, ControlSound, CurrentInv
<1>2. ASSUME NEW K, Only(K), NEW c \in DOMAIN control,
             c \in DOMAIN control', control'[c].by = control[c].by
      PROVE  OwnTarget(c)'
  BY <1>1, <1>2 DEF Only, OwnTarget, Executable, TargetOf
<1>3. CASE Quiet \/ Fails
  BY <1>2, <1>3 DEF Quiet, Fails
<1>4. CASE Releases
  <2>1. PICK K \in SUBSET Keys :
          /\ Only(K) /\ DOMAIN control' = DOMAIN control
          /\ \A c \in DOMAIN control :
               control'[c] = IF control[c].by \in K THEN [control[c] EXCEPT !.active = FALSE]
                             ELSE control[c]
    BY <1>4 DEF Releases
  <2>2. ASSUME NEW c \in DOMAIN control PROVE control'[c].by = control[c].by
    BY <1>1, <2>1 DEF ControlRow
  <2>3. QED
    BY <1>2, <2>1, <2>2
<1>5. CASE Applies
  <2>1. PICK k \in Keys :
          LET c == TargetOf(action'[k].ask)
          IN  /\ Only({k}) /\ Executable(action'[k].ask)
              /\ DOMAIN control' = DOMAIN control \cup {c}
              /\ control'[c] = [active |-> TRUE, by |-> k]
              /\ \A x \in DOMAIN control \ {c} : control'[x] = control[x]
    BY <1>5 DEF Applies
  <2> DEFINE c == TargetOf(action'[k].ask)
  <2>2. ASSUME NEW x \in DOMAIN control', x = c PROVE OwnTarget(x)'
    <3>1. control'[x] = [active |-> TRUE, by |-> k]
      BY <2>1, <2>2
    <3>2. control'[x].by = k /\ Executable(action'[k].ask) /\ x = TargetOf(action'[k].ask)
      BY <2>1, <2>2, <3>1
    <3>3. QED
      BY <3>2 DEF OwnTarget
  <2>3. ASSUME NEW x \in DOMAIN control', x # c PROVE OwnTarget(x)'
    BY <1>2, <2>1, <2>3
  <2>4. QED
    BY <2>2, <2>3
<1>6. QED
  BY <1>3, <1>4, <1>5 DEF Effects

SeenInv == TypeInv /\ SerialInv /\ CurrentInv

(* A step changes nothing, or what a commit changes.                       *)
LEMMA SeenNext ==
  ASSUME Isolation = "serial", SeenInv, [Next]_vars
  PROVE  /\ SeenInv'
         /\ \/ UNCHANGED <<action, control>>
            \/ \E p \in Process : WritesOf(p) /\ Effects
<1> USE DEF SeenInv
<1> DEFINE Goal == /\ CurrentInv'
                   /\ \/ UNCHANGED <<action, control>>
                      \/ \E p \in Process : WritesOf(p) /\ Effects
<1>1. TypeInv' /\ SerialInv'
  BY TypeNext, SerialNext
<1>2. ASSUME Starts PROVE Goal
  <2>1. PICK p \in Sessions, k \in Keys :
          \/ \E ask \in Asks, who \in People :
               Request(p, k, ask, who, "create") \/ Request(p, k, ask, who, "contain")
          \/ LoadExecute(p, k) \/ LoadRollback(p, k)
          \/ \E who \in People : LoadApprove(p, k, who) \/ LoadReject(p, k, who)
    BY <1>2 DEF Starts
  <2>2. p \in Process
    BY DEF Process
  <2>3. UNCHANGED <<action, control>>
    BY <2>1 DEF Request, LoadApprove, LoadReject, LoadExecute, LoadRollback, Load
  <2>4. CurrentInv'
    <3>1. ASSUME \E ask \in Asks, who \in People :
                 Request(p, k, ask, who, "create") \/ Request(p, k, ask, who, "contain")
          PROVE  CurrentInv'
      BY <2>2, <3>1, CurrentRequest
    <3>2. ASSUME \/ LoadExecute(p, k) \/ LoadRollback(p, k)
                 \/ \E who \in People : LoadApprove(p, k, who) \/ LoadReject(p, k, who)
          PROVE  CurrentInv'
      BY <2>2, <3>2, CurrentLoad
    <3>3. QED
      BY <2>1, <3>1, <3>2
  <2>5. QED
    BY <2>3, <2>4
<1>3. ASSUME LoadExpire PROVE Goal
  BY <1>3, CurrentLoadExpire DEF LoadExpire
<1>4. ASSUME NEW p \in Process, Touch(p) PROVE Goal
  BY <1>4, CurrentTouch DEF Touch
<1>5. ASSUME NEW p \in Process, WritesOf(p) PROVE Goal
  <2>1. Effects
    BY <1>5, EffectOfWrite
  <2>2. Ends(p) /\ txn[p] # Idle
    BY <1>5, Writes, OpenNotIdle DEF WritesOf
  <2>3. CurrentInv'
    BY <2>1, <2>2, OwnTargetsKept, CurrentEnds
  <2>4. QED
    BY <1>5, <2>1, <2>3
<1>6. ASSUME NEW p \in Process, KeyClash(p) \/ ControlClash(p) \/ Abort(p) PROVE Goal
  <2>1. txn[p] # Idle /\ Ends(p) /\ UNCHANGED <<action, control>>
    BY <1>6, OpenNotIdle DEF KeyClash, ControlClash, Abort, Open
  <2>2. \A c \in DOMAIN control' : OwnTarget(c)'
    BY <2>1 DEF CurrentInv, OwnTarget
  <2>3. QED
    BY <2>1, <2>2, CurrentEnds
<1>7. ASSUME \/ \E k \in Keys : TtlElapses(k)
             \/ \E c \in Cases, f \in Facts : Reassess(c, f)
             \/ UNCHANGED vars
      PROVE  Goal
  <2>1. UNCHANGED <<action, control, txn>>
    BY <1>7 DEF TtlElapses, Reassess, vars
  <2>2. \A q \in Process : Current(txn[q])'
    BY <2>1, StaysCurrent DEF CurrentInv
  <2>3. CurrentInv'
    BY <2>1, <2>2 DEF CurrentInv, OwnTarget
  <2>4. QED
    BY <2>1, <2>3
<1> HIDE DEF Goal
<1>8. ASSUME \E p \in Sessions : Continues(p) PROVE Goal
  <2>1. PICK p \in Process : Continues(p)
    BY <1>8 DEF Process
  <2>2. QED
    BY <1>4, <1>5, <1>6, <2>1 DEF Continues, WritesOf
<1>9. ASSUME ExpiryStep PROVE Goal
  BY <1>3, <1>4, <1>5, <1>9 DEF ExpiryStep, Process, WritesOf
<1>10. Goal
  BY <1>2, <1>6, <1>7, <1>8, <1>9 DEF Next
<1>11. QED
  BY <1>1, <1>10 DEF Goal

LEMMA SeenInit == Init => SeenInv
<1> SUFFICES ASSUME Init PROVE SeenInv
  OBVIOUS
<1>1. \A p \in Process : txn[p] = Idle /\ txn[p].op = "idle"
  BY DEF Init, Idle
<1>2. SerialInv
  BY <1>1 DEF Init, SerialInv, Pending
<1>3. CurrentInv
  BY <1>1 DEF Init, CurrentInv, Current, AsSeen, AsDecided, AsRead
<1>4. TypeInv
  BY TypeInit
<1>5. QED
  BY <1>2, <1>3, <1>4 DEF SeenInv
-----------------------------------------------------------------------------
LEMMA FollowsNext ==
  ASSUME "verification" \notin Faults, SeenInv, Effects, ControlFollowsOwner
  PROVE  ControlFollowsOwner'
<1>1. \A c \in DOMAIN control :
        /\ control[c] \in ControlRow /\ control[c].by \in DOMAIN action /\ OwnTarget(c)
        /\ control[c].active <=> action[control[c].by].status = "active"
  BY DEF SeenInv, TypeInv, TypeOK, AuthorityInv, ControlSound, CurrentInv, ControlFollowsOwner
<1>2. CASE Quiet
  <2>1. PICK K \in SUBSET Keys :
          /\ Only(K) /\ control' = control
          /\ \A k \in K : NotYetSpent(k) /\ action'[k].status \notin SpentStatus
    BY <1>2 DEF Quiet
  <2>2. ASSUME NEW k \in DOMAIN action
        PROVE  action'[k].status = "active" <=> action[k].status = "active"
    BY <2>1 DEF Only, NotYetSpent, SpentStatus
  <2>3. QED
    BY <1>1, <2>1, <2>2 DEF ControlFollowsOwner
<1>3. CASE Fails
  <2>1. PICK k \in Keys :
          /\ Only({k}) /\ control' = control
          /\ NotYetSpent(k) /\ action'[k].status = "failed"
    BY <1>3 DEF Fails
  <2>2. ASSUME NEW l \in DOMAIN action
        PROVE  action'[l].status = "active" <=> action[l].status = "active"
    BY <2>1 DEF Only, NotYetSpent, SpentStatus
  <2>3. QED
    BY <1>1, <2>1, <2>2 DEF ControlFollowsOwner
<1>4. CASE Applies
  <2>1. PICK k \in Keys :
          LET c == TargetOf(action'[k].ask)
          IN  /\ Only({k}) /\ action'[k].status \in {"active", "failed"}
              /\ action'[k].status = "failed" => "verification" \in Faults
              /\ DOMAIN control' = DOMAIN control \cup {c}
              /\ control'[c] = [active |-> TRUE, by |-> k]
              /\ \A x \in DOMAIN control \ {c} : control'[x] = control[x]
    BY <1>4 DEF Applies
  <2> DEFINE c == TargetOf(action'[k].ask)
  <2>2. control'[c].active /\ action'[control'[c].by].status = "active"
    BY <2>1
  <2>3. ASSUME NEW x \in DOMAIN control, x # c
        PROVE  control'[x].active <=> action'[control'[x].by].status = "active"
    <3>1. control'[x] = control[x]
      BY <2>1, <2>3
    <3>2. control[x].by # k
      <4>1. k \in DOMAIN action => action'[k].ask = action[k].ask
        BY <2>1 DEF Only
      <4>2. QED
        BY <1>1, <2>3, <4>1 DEF OwnTarget
    <3>3. QED
      BY <1>1, <2>1, <3>1, <3>2 DEF Only
  <2>4. QED
    BY <2>1, <2>2, <2>3 DEF ControlFollowsOwner
<1>5. CASE Releases
  <2>1. PICK K \in SUBSET Keys :
          /\ Only(K)
          /\ \A k \in K : action'[k].status \in {"rolled_back", "expired"}
          /\ DOMAIN control' = DOMAIN control
          /\ \A c \in DOMAIN control :
               control'[c] = IF control[c].by \in K THEN [control[c] EXCEPT !.active = FALSE]
                             ELSE control[c]
    BY <1>5 DEF Releases
  <2>2. ASSUME NEW c \in DOMAIN control
        PROVE  control'[c].active <=> action'[control'[c].by].status = "active"
    <3>1. CASE control[c].by \in K
      <4>1. control'[c] = [control[c] EXCEPT !.active = FALSE]
        BY <2>1, <3>1
      <4>2. control'[c].by = control[c].by /\ ~control'[c].active
        BY <1>1, <4>1 DEF ControlRow
      <4>3. action'[control[c].by].status # "active"
        BY <2>1, <3>1
      <4>4. QED
        BY <4>2, <4>3
    <3>2. CASE control[c].by \notin K
      BY <1>1, <2>1, <3>2 DEF Only
    <3>3. QED
      BY <3>1, <3>2
  <2>3. QED
    BY <2>1, <2>2 DEF ControlFollowsOwner
<1>6. QED
  BY <1>2, <1>3, <1>4, <1>5 DEF Effects

(* If transactions do not overlap and no execution is reported failed once *)
(* its control is applied, a control is in force exactly while the action  *)
(* that applied it last is active (sandbox_enforcement.py).                *)
THEOREM ControlsFollowOwners ==
  ASSUME Isolation = "serial", "verification" \notin Faults
  PROVE  Spec => []ControlFollowsOwner
<1>1. Init => SeenInv /\ ControlFollowsOwner
  <2>1. Init => ControlFollowsOwner
    BY DEF Init, ControlFollowsOwner
  <2>2. QED
    BY <2>1, SeenInit
<1>2. SeenInv /\ ControlFollowsOwner /\ [Next]_vars => (SeenInv /\ ControlFollowsOwner)'
  <2>1. ASSUME ControlFollowsOwner, UNCHANGED <<action, control>> PROVE ControlFollowsOwner'
    BY <2>1 DEF ControlFollowsOwner
  <2>2. QED
    BY <2>1, SeenNext, FollowsNext
<1>3. QED
  BY <1>1, <1>2, PTL DEF Spec
-----------------------------------------------------------------------------
(* What a commit may do to the live automatic actions.                     *)
NoSecondHold ==
  /\ \A k \in DOMAIN action :
       action'[k].decided = "auto_authorized" /\ action'[k].status \in LiveStatus
         => action[k].status \in LiveStatus
  /\ \A k, l \in DOMAIN action' \ DOMAIN action : k = l
  /\ \A k \in DOMAIN action' \ DOMAIN action, l \in DOMAIN action :
       action'[k].decided = "auto_authorized" /\ action[l].status \in LiveStatus
         => action'[k].ask # action[l].ask

LEMMA InsertIsNoSecondHold ==
  ASSUME SeenInv, NEW p \in Process, Insert(p) \/ InsertAndExecute(p)
  PROVE  NoSecondHold
<1> DEFINE row == txn[p].row
<1>1. /\ row \in ActionRow
      /\ row.decided = "auto_authorized" =>
           ~Duplicates(row.ask.type, row.ask.scope, Existing(row.ask.case))
  BY DEF SeenInv, TypeInv, TxnsTyped, TxnTyped, CurrentInv, Current, AsDecided,
         Insert, InsertAndExecute, Open
<1>2. ASSUME NEW l \in DOMAIN action, action[l].status \in LiveStatus, action[l].ask = row.ask
      PROVE  Duplicates(row.ask.type, row.ask.scope, Existing(row.ask.case))
  <2> DEFINE x == [type |-> action[l].ask.type, scope |-> action[l].ask.scope,
                   status |-> action[l].status]
  <2>1. x \in Existing(row.ask.case)
    BY <1>2 DEF Existing
  <2>2. x.type = row.ask.type /\ x.scope = row.ask.scope /\ x.status \in LiveStatus
    BY <1>2
  <2> HIDE DEF x
  <2>3. QED
    BY <2>1, <2>2 DEF Duplicates
<1>3. \E k : k \notin DOMAIN action
             /\ \E r : /\ action' = [x \in DOMAIN action \cup {k} |->
                                       IF x = k THEN r ELSE action[x]]
                       /\ r.ask = row.ask /\ r.decided = row.decided
  <2>1. CASE Insert(p)
    BY <2>1 DEF Insert
  <2>2. CASE InsertAndExecute(p)
    <3>1. PICK k \in txn[p].keys, fault \in Faults :
            /\ k \notin DOMAIN action
            /\ action' = [x \in DOMAIN action \cup {k} |->
                 IF x # k THEN action[x]
                 ELSE IF row.status = "auto_authorized"
                      THEN [row EXCEPT !.status = ExecutedStatus(row.ask, fault)]
                      ELSE row]
      BY <2>2 DEF InsertAndExecute
    <3> DEFINE r == IF row.status = "auto_authorized"
                    THEN [row EXCEPT !.status = ExecutedStatus(row.ask, fault)] ELSE row
    <3>2. r.ask = row.ask /\ r.decided = row.decided
      BY <1>1 DEF ActionRow
    <3>3. action' = [x \in DOMAIN action \cup {k} |-> IF x = k THEN r ELSE action[x]]
      BY <3>1
    <3> HIDE DEF r
    <3>4. QED
      BY <3>1, <3>2, <3>3
  <2>3. QED
    BY <2>1, <2>2
<1>4. PICK k, r : /\ k \notin DOMAIN action
                  /\ action' = [x \in DOMAIN action \cup {k} |-> IF x = k THEN r ELSE action[x]]
                  /\ r.ask = row.ask /\ r.decided = row.decided
  BY <1>3
<1> HIDE DEF row
<1>5. QED
  BY <1>1, <1>2, <1>4 DEF NoSecondHold

LEMMA WriteIsNoSecondHold ==
  ASSUME SeenInv, NEW p \in Process, WritesOf(p)
  PROVE  NoSecondHold
<1>1. /\ RowsTyped
      /\ Pending(txn[p]) /\ Current(txn[p]) /\ Approving(txn[p])
  BY DEF SeenInv, TypeInv, TypeOK, RowsTyped, SerialInv, CurrentInv, AuthorityInv, TxnSound
<1>2. ASSUME DOMAIN action' = DOMAIN action,
             \A k \in DOMAIN action :
               action'[k].decided = "auto_authorized" /\ action'[k].status \in LiveStatus
                 => action[k].status \in LiveStatus
      PROVE  NoSecondHold
  BY <1>2 DEF NoSecondHold
<1>3. CASE Insert(p) \/ InsertAndExecute(p)
  BY <1>3, InsertIsNoSecondHold
<1>4. CASE Approve(p)
  <2>1. PICK k \in txn[p].keys :
          action' = [action EXCEPT ![k].status = "approved", ![k].approver = txn[p].who]
    BY <1>4 DEF Approve
  <2>2. k \in DOMAIN action /\ action[k].decided = "awaiting_approval" /\ action[k] \in ActionRow
    BY <1>1, <1>4 DEF Approving, Approve, Open, RowsTyped
  <2>3. action'[k].decided = "awaiting_approval"
        /\ DOMAIN action' = DOMAIN action
        /\ \A x \in DOMAIN action \ {k} : action'[x] = action[x]
    BY <2>1, <2>2 DEF ActionRow
  <2>4. QED
    BY <1>2, <2>3
<1>5. CASE Execute(p)
  <2>1. PICK k \in txn[p].keys, fault \in Faults :
          action' = SetStatus(action, {k}, ExecutedStatus(action[k].ask, fault))
    BY <1>5 DEF Execute
  <2>2. k \in DOMAIN action /\ MayExecute(action[k])
    BY <1>1, <1>5 DEF Execute, Open, Pending, Current, AsSeen
  <2>3. action[k].status \in LiveStatus
    BY <2>2 DEF MayExecute, LiveStatus
  <2>4. DOMAIN action' = DOMAIN action /\ \A x \in DOMAIN action \ {k} : action'[x] = action[x]
    BY <2>1 DEF SetStatus
  <2>5. QED
    BY <1>2, <2>3, <2>4
<1>6. CASE Reject(p) \/ Rollback(p) \/ (p = Expiry /\ Expire)
  <2>1. PICK status \in {"rejected", "rolled_back", "expired"} :
          action' = SetStatus(action, txn[p].keys, status)
    BY <1>6 DEF Reject, Rollback, Expire
  <2>2. DOMAIN action' = DOMAIN action
    BY <2>1 DEF SetStatus
  <2>3. ASSUME NEW k \in DOMAIN action
        PROVE  action'[k] = action[k] \/ action'[k].status \notin LiveStatus
    <3>1. action'[k] = IF k \in txn[p].keys THEN [action[k] EXCEPT !.status = status] ELSE action[k]
      BY <2>1 DEF SetStatus
    <3>2. action[k] \in ActionRow
      BY <1>1 DEF RowsTyped
    <3>3. [action[k] EXCEPT !.status = status].status = status
      BY <3>2 DEF ActionRow
    <3>4. QED
      BY <3>1, <3>3 DEF LiveStatus
  <2>4. QED
    BY <1>2, <2>2, <2>3
<1>7. QED
  BY <1>3, <1>4, <1>5, <1>6 DEF WritesOf

LEMMA NoDuplicateNext ==
  ASSUME SeenInv, NoSecondHold, Effects, NoDuplicateHold
  PROVE  NoDuplicateHold'
<1>1. /\ DOMAIN action \subseteq DOMAIN action'
      /\ \A k \in DOMAIN action : /\ action'[k].ask = action[k].ask
                                  /\ action'[k].decided = action[k].decided
  BY DEF Effects, Quiet, Fails, Applies, Releases, Only
<1> DEFINE Held(k) == action'[k].decided = "auto_authorized" /\ action'[k].status \in LiveStatus
<1>2. SUFFICES ASSUME NEW k \in DOMAIN action', NEW l \in DOMAIN action', k # l,
                      Held(k), Held(l)
               PROVE  action'[k].ask # action'[l].ask
  BY DEF NoDuplicateHold
<1>3. CASE k \in DOMAIN action /\ l \in DOMAIN action
  BY <1>1, <1>2, <1>3 DEF NoSecondHold, NoDuplicateHold
<1>4. CASE k \notin DOMAIN action /\ l \in DOMAIN action
  BY <1>1, <1>2, <1>4 DEF NoSecondHold
<1>5. CASE k \in DOMAIN action /\ l \notin DOMAIN action
  BY <1>1, <1>2, <1>5 DEF NoSecondHold
<1>6. CASE k \notin DOMAIN action /\ l \notin DOMAIN action
  BY <1>2, <1>6 DEF NoSecondHold
<1>7. QED
  BY <1>3, <1>4, <1>5, <1>6

(* If transactions do not overlap, no two live automatic actions of a case *)
(* are of one type and scope, whatever is approved, executed and rolled    *)
(* back between the policy's decision on one and on the other.             *)
THEOREM HoldsAreNotDoubled ==
  ASSUME Isolation = "serial" PROVE Spec => []NoDuplicateHold
<1>1. Init => SeenInv /\ NoDuplicateHold
  <2>1. Init => NoDuplicateHold
    BY DEF Init, NoDuplicateHold
  <2>2. QED
    BY <2>1, SeenInit
<1>2. SeenInv /\ NoDuplicateHold /\ [Next]_vars => (SeenInv /\ NoDuplicateHold)'
  <2>1. ASSUME NoDuplicateHold, UNCHANGED <<action, control>> PROVE NoDuplicateHold'
    BY <2>1 DEF NoDuplicateHold
  <2>2. QED
    BY <2>1, SeenNext, WriteIsNoSecondHold, NoDuplicateNext
<1>3. QED
  BY <1>1, <1>2, PTL DEF Spec
-----------------------------------------------------------------------------
(* The refinement mapping: who holds each control, and who has had it.     *)
HolderNow == [c \in Controls |-> IF InForce(c) THEN control[c].by ELSE Nobody]
SpentNow  == {k \in DOMAIN action :
                action[k].status \in {"active", "expired", "rolled_back", "failed"}}

LEMMA StepHolds ==
  ASSUME SeenInv, SeenInv', Effects
  PROVE  \/ UNCHANGED <<HolderNow, SpentNow>>
         \/ \E c \in Controls, a \in Keys :
              /\ a \notin SpentNow
              /\ HolderNow' = [HolderNow EXCEPT ![c] = a]
              /\ SpentNow' = SpentNow \cup {a}
         \/ \E a \in Keys : /\ a \notin SpentNow /\ SpentNow' = SpentNow \cup {a}
                            /\ UNCHANGED HolderNow
         \/ \E C \in SUBSET Controls :
              /\ \A c \in C : HolderNow[c] # Nobody
              /\ HolderNow' = [c \in Controls |-> IF c \in C THEN Nobody ELSE HolderNow[c]]
              /\ UNCHANGED SpentNow
<1>1. /\ DOMAIN control \subseteq Controls /\ DOMAIN control' \subseteq Controls
      /\ \A c \in DOMAIN control : control[c] \in ControlRow
      /\ DOMAIN action \subseteq Keys
  BY DEF SeenInv, TypeInv, TypeOK
<1>2. ASSUME control' = control PROVE UNCHANGED HolderNow
  BY <1>2 DEF HolderNow, InForce
<1>3. CASE Quiet
  <2>1. PICK K \in SUBSET Keys :
          /\ Only(K) /\ control' = control
          /\ \A k \in K : NotYetSpent(k) /\ action'[k].status \notin SpentStatus
    BY <1>3 DEF Quiet
  <2>2. SpentNow' = SpentNow
    BY <2>1 DEF SpentNow, Only, NotYetSpent, SpentStatus
  <2>3. QED
    BY <1>2, <2>1, <2>2
<1>4. CASE Fails
  <2>1. PICK k \in Keys :
          /\ Only({k}) /\ control' = control
          /\ NotYetSpent(k) /\ action'[k].status = "failed"
    BY <1>4 DEF Fails
  <2>2. k \notin SpentNow /\ SpentNow' = SpentNow \cup {k}
    BY <2>1 DEF SpentNow, Only, NotYetSpent, SpentStatus
  <2>3. QED
    BY <1>2, <2>1, <2>2
<1>5. CASE Applies
  <2>1. PICK k \in Keys :
          LET c == TargetOf(action'[k].ask)
          IN  /\ Only({k}) /\ NotYetSpent(k) /\ action'[k].status \in {"active", "failed"}
              /\ c \in Controls
              /\ DOMAIN control' = DOMAIN control \cup {c}
              /\ control'[c] = [active |-> TRUE, by |-> k]
              /\ \A x \in DOMAIN control \ {c} : control'[x] = control[x]
    BY <1>5 DEF Applies
  <2> DEFINE c == TargetOf(action'[k].ask)
  <2>2. k \notin SpentNow /\ SpentNow' = SpentNow \cup {k}
    BY <2>1 DEF SpentNow, Only, NotYetSpent, SpentStatus
  <2>3. c \in Controls /\ control'[c].active /\ control'[c].by = k /\ c \in DOMAIN control'
    BY <2>1
  <2>4. \A x \in Controls \ {c} :
          (x \in DOMAIN control' <=> x \in DOMAIN control)
          /\ (x \in DOMAIN control => control'[x] = control[x])
    BY <2>1
  <2> HIDE DEF c
  <2>5. HolderNow' = [HolderNow EXCEPT ![c] = k]
    BY <2>3, <2>4 DEF HolderNow, InForce
  <2>6. QED
    BY <2>2, <2>3, <2>5
<1>6. CASE Releases
  <2>1. PICK K \in SUBSET Keys :
          /\ Only(K) /\ K \subseteq DOMAIN action
          /\ \A k \in K : action[k].status = "active"
                          /\ action'[k].status \in {"rolled_back", "expired"}
          /\ DOMAIN control' = DOMAIN control
          /\ \A c \in DOMAIN control :
               control'[c] = IF control[c].by \in K THEN [control[c] EXCEPT !.active = FALSE]
                             ELSE control[c]
    BY <1>6 DEF Releases
  <2> DEFINE C == {c \in Controls : InForce(c) /\ control[c].by \in K}
  <2>2. \A c \in C : HolderNow[c] # Nobody
    BY ResponseAssumption DEF HolderNow
  <2>3. SpentNow' = SpentNow
    BY <2>1 DEF SpentNow, Only
  <2>4. ASSUME NEW c \in DOMAIN control
        PROVE  /\ control[c].by \in K => ~control'[c].active
               /\ control[c].by \notin K => control'[c] = control[c]
    BY <1>1, <2>1 DEF ControlRow
  <2>5. ASSUME NEW c \in Controls
        PROVE  HolderNow'[c] = IF c \in C THEN Nobody ELSE HolderNow[c]
    BY <1>1, <2>1, <2>4 DEF HolderNow, InForce
  <2>6. HolderNow' = [c \in Controls |-> HolderNow'[c]]
    BY DEF HolderNow
  <2>7. HolderNow' = [c \in Controls |-> IF c \in C THEN Nobody ELSE HolderNow[c]]
    BY <2>5, <2>6
  <2>8. C \in SUBSET Controls
    OBVIOUS
  <2> HIDE DEF C
  <2>9. QED
    BY <2>2, <2>3, <2>7, <2>8
<1>7. QED
  BY <1>3, <1>4, <1>5, <1>6 DEF Effects

(* If transactions do not overlap, the service implements ControlHolds:    *)
(* each action takes its control at most once, and one that was displaced, *)
(* rolled back, expired or that failed never takes it back.                *)
THEOREM HoldsAreImplemented ==
  ASSUME Isolation = "serial" PROVE Spec => ImplementsHolds
<1>1. Init => Holds!Init
  <2> SUFFICES ASSUME Init PROVE Holds!Init
    OBVIOUS
  <2>1. DOMAIN control = {} /\ DOMAIN action = {}
    BY DEF Init
  <2>2. QED
    BY <2>1 DEF Holds!Init, InForce
<1>2. SeenInv /\ SeenInv' /\ [Next]_vars => [Holds!Next]_(Holds!vars)
  <2> SUFFICES ASSUME SeenInv, SeenInv', [Next]_vars PROVE [Holds!Next]_(Holds!vars)
    OBVIOUS
  <2>1. CASE UNCHANGED <<action, control>>
    BY <2>1 DEF Holds!vars, InForce
  <2>2. CASE Effects
    BY <2>2, StepHolds
    DEF Holds!Next, Holds!Apply, Holds!Fail, Holds!Release, Holds!vars, HolderNow, SpentNow
  <2>3. QED
    BY <2>1, <2>2, SeenNext
<1>3. SeenInv /\ [Next]_vars => SeenInv'
  BY SeenNext
<1>4. QED
  BY <1>1, <1>2, <1>3, SeenInit, PTL DEF Spec, ImplementsHolds, Holds!Spec
=============================================================================
