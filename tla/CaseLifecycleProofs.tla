--------------------------- MODULE CaseLifecycleProofs ---------------------------
(***************************************************************************)
(* For any ledger, events and cases: the types, revisions form a line,     *)
(* context never counts against an actor, a budget only decides how much   *)
(* is shown, and what a case holds of context is what was in force when it *)
(* was written.                                                            *)
(*                                                                         *)
(* Folds over sets are reasoned about by their values on a set and on the  *)
(* set without one element: what holds of all subsets of a finite set is   *)
(* shown of the smallest counterexample.                                   *)
(***************************************************************************)
EXTENDS CaseLifecycleProperties, FiniteSetTheorems, TLAPS

LedgerOK ==
  /\ approval \in [Entries -> Approval]
  /\ base \in [Entries -> Entries \cup {NoEntry}]

LedgerInv == LedgerOK /\ LinearRevisions

LEMMA ProposeKeeps ==
  ASSUME LedgerInv, NEW n \in Entries, NEW previous \in Entries \cup {NoEntry},
         Propose(n, previous)
  PROVE  LedgerInv'
<1> USE DEF LedgerInv, LedgerOK, Approval
<1>1. /\ approval[n] = "absent"
      /\ approval' = [approval EXCEPT ![n] = "pending"] /\ base' = [base EXCEPT ![n] = previous]
  BY DEF Propose
<1>2. LedgerOK'
  BY <1>1
<1>3. LinearRevisions'
  BY <1>1 DEF LinearRevisions
<1>4. QED
  BY <1>2, <1>3

LEMMA RejectKeeps ==
  ASSUME LedgerInv, NEW n \in Entries, Reject(n)
  PROVE  LedgerInv'
BY DEF LedgerInv, LedgerOK, Approval, Reject, LinearRevisions

(* The approval checks the predecessor that it supersedes, so of two       *)
(* revisions of one entry the second finds it superseded.                  *)
LEMMA ApproveKeeps ==
  ASSUME LedgerInv, NEW n \in Entries, Approve(n)
  PROVE  LedgerInv'
<1> USE DEF LedgerInv, LedgerOK, Approval
<1>1. /\ approval[n] = "pending"
      /\ base[n] # NoEntry => approval[base[n]] = "approved"
      /\ approval' = Activated(n) /\ base' = base
  BY DEF Approve, MayApprove
<1>2. LedgerOK'
  BY <1>1 DEF Activated
<1>3. ASSUME NEW m \in Entries
      PROVE  /\ approval'[m] \in {"approved", "superseded"}
                  <=> m = n \/ approval[m] \in {"approved", "superseded"}
             /\ approval[m] = "superseded" => approval'[m] = "superseded"
  BY <1>1, CaseAssumption DEF Activated
<1>4. base[n] # NoEntry => base[n] \in Entries /\ approval'[base[n]] = "superseded"
  BY <1>1 DEF Activated
<1>5. ASSUME NEW m \in Entries, NEW k \in Entries, base[k] # NoEntry,
             k = n \/ approval[k] \in {"approved", "superseded"}
      PROVE  /\ approval'[base[k]] = "superseded"
             /\ (m = n \/ approval[m] \in {"approved", "superseded"}) /\ base[m] = base[k] => m = k
  <2>1. base[k] \in Entries
    BY <1>5
  <2>2. CASE k = n
    BY <1>1, <1>4, <1>5, <2>2 DEF LinearRevisions
  <2>3. CASE k # n
    BY <1>1, <1>3, <1>5, <2>1, <2>3 DEF LinearRevisions
  <2>4. QED
    BY <2>2, <2>3
<1>6. LinearRevisions'
  BY <1>1, <1>3, <1>5 DEF LinearRevisions
<1>7. QED
  BY <1>2, <1>6

LEMMA LedgerInvariant == Spec => []LedgerInv
<1>1. Init => LedgerInv
  BY DEF Init, LedgerInv, LedgerOK, Approval, LinearRevisions
<1>2. LedgerInv /\ [Next]_vars => LedgerInv'
  <2> SUFFICES ASSUME LedgerInv, [Next]_vars PROVE LedgerInv'
    OBVIOUS
  <2>1. ASSUME UNCHANGED <<approval, base>> PROVE LedgerInv'
    BY <2>1 DEF LedgerInv, LedgerOK, LinearRevisions
  <2>2. ASSUME NEW p \in Sessions, IngestStep(p) \/ Crash(p) PROVE LedgerInv'
    BY <2>1, <2>2 DEF IngestStep, Ingest, Reopen, RecomputeReopened, DetectNothing, Rearm,
                      DetectByRisk, Latch, Build, Crash
  <2>6. ASSUME TimePasses PROVE LedgerInv'
    BY <2>1, <2>6 DEF TimePasses
  <2>3. ASSUME NEW c \in Cases, NEW verdict \in Verdict, Feedback(c, verdict) PROVE LedgerInv'
    BY <2>1, <2>3 DEF Feedback
  <2>4. CASE UNCHANGED vars
    BY <2>1, <2>4 DEF vars
  <2>5. QED
    BY <2>2, <2>3, <2>4, <2>6, ProposeKeeps, RejectKeeps, ApproveKeeps DEF Next
<1>3. QED
  BY <1>1, <1>2, PTL DEF Spec

(* Of the revisions of an entry one at most is ever in force, for any      *)
(* number of entries proposed, revised, approved and rejected in any       *)
(* order, and an entry is superseded as soon as one of them is.            *)
THEOREM RevisionsAreLinear == Spec => []LinearRevisions
BY LedgerInvariant, PTL DEF LedgerInv
-----------------------------------------------------------------------------
LEMMA LargestOfThree ==
  ASSUME NEW S, S \subseteq 0..2, 0 \in S
  PROVE  Max(S) \in S /\ \A x \in S : x <= Max(S)
<1>1. \E m \in S : \A x \in S : m >= x
  <2>1. CASE 2 \in S
    BY <2>1
  <2>2. CASE 2 \notin S /\ 1 \in S
    BY <2>2
  <2>3. CASE 2 \notin S /\ 1 \notin S
    BY <2>3
  <2>4. QED
    BY <2>1, <2>2, <2>3
<1>2. QED
  BY <1>1 DEF Max

LEMMA LargerOfTwo ==
  ASSUME NEW a \in Int, NEW b \in Int
  PROVE  /\ Max({a, b}) = IF a >= b THEN a ELSE b
         /\ Min({a, b}) = IF a <= b THEN a ELSE b
<1>1. PICK m \in {a, b} : \A x \in {a, b} : m >= x
  OBVIOUS
<1>2. PICK l \in {a, b} : \A x \in {a, b} : l <= x
  OBVIOUS
<1>3. Max({a, b}) \in {a, b} /\ \A x \in {a, b} : Max({a, b}) >= x
  BY <1>1 DEF Max
<1>4. Min({a, b}) \in {a, b} /\ \A x \in {a, b} : Min({a, b}) <= x
  BY <1>2 DEF Min
<1>5. QED
  BY <1>3, <1>4

LEMMA SignalRange ==
  ASSUME NEW event \in Event, NEW signals \in Signals
  PROVE  /\ IdentitySignal(event, signals) \in 0..4 /\ ResourceSignal(event, signals) \in 0..4
         /\ MovementSignal(event) \in 0..4 /\ SequenceSignal(event, signals) \in 0..4
         /\ event.action = "external_upload" => MovementSignal(event) = 4
         /\ event.action = "file_download" /\ event.volume >= BULK_DOWNLOAD =>
              MovementSignal(event) = 4
<1>1. /\ event.volume \in Nat /\ signals.deviation \in 0..4 /\ signals.anomaly \in 0..4
      /\ signals.login \in 0..4 /\ signals.sequence \in 0..4
  BY DEF Event, Signals
<1>2. Sensitivity(event.class) \in 1..4
  BY DEF Sensitivity
<1>3. ResourceSignal(event, signals) \in 0..4
  BY <1>1, <1>2, LargerOfTwo DEF ResourceSignal
<1>4. /\ Min({event.volume, BULK_DOWNLOAD}) \in 0..4
      /\ event.volume >= BULK_DOWNLOAD => Min({event.volume, BULK_DOWNLOAD}) = 4
  <2>1. event.volume \in Int /\ 4 \in Int /\ BULK_DOWNLOAD = 4
    BY <1>1 DEF BULK_DOWNLOAD
  <2>2. Min({event.volume, BULK_DOWNLOAD}) = IF event.volume <= 4 THEN event.volume ELSE 4
    BY <2>1, LargerOfTwo
  <2>3. QED
    BY <1>1, <2>1, <2>2
<1>5. IdentitySignal(event, signals) \in 0..4 /\ SequenceSignal(event, signals) \in 0..4
  BY <1>1, LargerOfTwo DEF IdentitySignal, SequenceSignal
<1>6. QED
  BY <1>3, <1>4, <1>5 DEF MovementSignal

LEMMA ProductInRange ==
  ASSUME NEW m \in Nat, NEW n \in Nat, NEW x \in 0..m, NEW y \in 0..n
  PROVE  x * y \in 0..(m * n)
<1>1. (m - x) \in Nat /\ (n - y) \in Nat /\ x \in Nat /\ y \in Nat
  OBVIOUS
<1>2. \A a \in Nat, b \in Nat : a * b \in Nat
  OBVIOUS
<1>3. x * y \in Nat /\ m * n \in Nat /\ (m - x) * n \in Nat /\ x * (n - y) \in Nat
  BY <1>1, <1>2
<1>4. m * n = x * y + x * (n - y) + (m - x) * n
  BY <1>1
<1>5. QED
  BY <1>3, <1>4

LEMMA RawRiskRange ==
  ASSUME NEW event \in Event, NEW signals \in Signals
  PROVE  /\ RawRisk(event, signals) \in 0..256
         /\ CriticalReasons(event) # {} => RawRisk(event, signals) = 256
<1> DEFINE a == 4 - IdentitySignal(event, signals)
           b == 4 - ResourceSignal(event, signals)
           c == 4 - MovementSignal(event)
           d == 4 - SequenceSignal(event, signals)
<1>1. a \in 0..4 /\ b \in 0..4 /\ c \in 0..4 /\ d \in 0..4
  BY SignalRange
<1>2. CriticalReasons(event) # {} => event.action = "privilege_change" \/ c = 0
  <2>1. SUFFICES ASSUME NEW r \in CriticalReasons(event)
                 PROVE  event.action = "privilege_change" \/ c = 0
    OBVIOUS
  <2>2. \/ event.action \in {"privilege_change", "external_upload"}
        \/ event.action = "file_download" /\ event.volume >= BULK_DOWNLOAD
    BY DEF CriticalReasons
  <2>3. QED
    BY <2>2, SignalRange
<1>3. RawRisk(event, signals) =
        IF event.action = "privilege_change" THEN 256 ELSE 256 - a * b * c * d
  BY DEF RawRisk
<1> HIDE DEF a, b, c, d
<1>4. a * b \in 0..16
  BY <1>1, ProductInRange
<1>5. a * b * c \in 0..64
  BY <1>1, <1>4, ProductInRange
<1>6. a * b * c * d \in 0..256
  BY <1>1, <1>5, ProductInRange
<1>7. c = 0 => a * b * c * d = 0
  <2>1. \A n \in Int : n * 0 = 0 /\ 0 * n = 0
    OBVIOUS
  <2>2. a * b \in Int /\ d \in Int
    BY <1>1, <1>4
  <2>3. QED
    BY <2>1, <2>2
<1>8. QED
  BY <1>2, <1>3, <1>6, <1>7

(* The raw risk of a critical event is the highest.                        *)
RawPlausible(event, raw) == raw \in 0..256 /\ (CriticalReasons(event) # {} => raw = 256)

LEMMA ResidualValue ==
  ASSUME NEW event, NEW raw \in 0..256, NEW credit \in 0..2
  PROVE  LET risk  == raw * (2 - credit)
             floor == IF CriticalReasons(event) # {} THEN CRITICAL_EVENT_FLOOR ELSE 0
         IN  /\ risk \in Int /\ floor \in Int
             /\ Residual(event, raw, credit) = IF risk >= floor THEN risk ELSE floor
<1>1. raw \in Int /\ 2 - credit \in Int
  OBVIOUS
<1>2. raw * (2 - credit) \in Int
  BY <1>1
<1>3. (IF CriticalReasons(event) # {} THEN CRITICAL_EVENT_FLOOR ELSE 0) \in Int
  BY DEF CRITICAL_EVENT_FLOOR
<1>4. QED
  BY <1>2, <1>3, LargerOfTwo DEF Residual

LEMMA ResidualBounds ==
  ASSUME NEW event, NEW raw, RawPlausible(event, raw), NEW less \in 0..2, NEW more \in less..2
  PROVE  /\ Residual(event, raw, more) <= Residual(event, raw, less)
         /\ Residual(event, raw, less) \in 0..(2 * raw)
         /\ Residual(event, raw, 0) = 2 * raw
         /\ CriticalReasons(event) # {} => Residual(event, raw, less) >= 128
<1>1. raw \in 0..256 /\ (CriticalReasons(event) # {} => raw = 256)
  BY DEF RawPlausible
<1>2. more \in 0..2 /\ less <= more
  OBVIOUS
<1>3. raw * (2 - 0) = 2 * raw /\ raw * (2 - 1) = raw /\ raw * (2 - 2) = 0
  BY <1>1
<1>4. ASSUME NEW credit \in 0..2
      PROVE  Residual(event, raw, credit) =
               LET risk == IF credit = 0 THEN 2 * raw ELSE IF credit = 1 THEN raw ELSE 0
               IN  IF CriticalReasons(event) # {} /\ risk < 128 THEN 128 ELSE risk
  <2>1. raw * (2 - credit) = IF credit = 0 THEN 2 * raw ELSE IF credit = 1 THEN raw ELSE 0
    BY <1>3
  <2>2. QED
    BY <1>1, <2>1, ResidualValue DEF CRITICAL_EVENT_FLOOR
<1>5. Residual(event, raw, 0) = 2 * raw
  BY <1>1, <1>4
<1>6. Residual(event, raw, less) \in 0..(2 * raw)
  BY <1>1, <1>4
<1>7. Residual(event, raw, more) <= Residual(event, raw, less)
  BY <1>1, <1>2, <1>4
<1>8. CriticalReasons(event) # {} => Residual(event, raw, less) >= 128
  BY <1>1, <1>4
<1>9. QED
  BY <1>5, <1>6, <1>7, <1>8

(* Whatever histories say, more credit never leaves more risk; the floor   *)
(* of a critical event, applied after the context, never adds to its raw   *)
(* risk; without context the residual is the raw risk                      *)
(* (event_category_risk, fuse_event_residuals).                            *)
THEOREM FloorAddsNothing ==
  ASSUME NEW event \in Event, NEW signals \in Signals, NEW less \in 0..2, NEW more \in less..2
  PROVE  LET raw == RawRisk(event, signals)
         IN  /\ Residual(event, raw, more) <= Residual(event, raw, less)
             /\ Residual(event, raw, less) <= 2 * raw
             /\ Residual(event, raw, 0) = 2 * raw
<1> DEFINE raw == RawRisk(event, signals)
<1>1. RawPlausible(event, raw)
  BY RawRiskRange DEF RawPlausible
<1>2. raw \in 0..256
  BY RawRiskRange
<1> HIDE DEF raw
<1>3. /\ Residual(event, raw, more) <= Residual(event, raw, less)
      /\ Residual(event, raw, less) \in 0..(2 * raw)
      /\ Residual(event, raw, 0) = 2 * raw
  BY <1>1, ResidualBounds
<1>4. QED
  BY <1>2, <1>3 DEF raw

LEMMA BestScoreGrows ==
  ASSUME NEW event, NEW A, NEW B, A \subseteq B
  PROVE  /\ BestScore(event, A) \in 0..2
         /\ BestScore(event, B) \in BestScore(event, A)..2
<1> DEFINE S(N) == {0} \cup {Score(event, entry) : entry \in N}
<1>1. \A entry : Score(event, entry) \in 0..2
  BY DEF Score
<1>2. S(A) \subseteq 0..2 /\ S(B) \subseteq 0..2 /\ 0 \in S(A) /\ 0 \in S(B) /\ S(A) \subseteq S(B)
  BY <1>1
<1>3. BestScore(event, A) = Max(S(A)) /\ BestScore(event, B) = Max(S(B))
  BY DEF BestScore
<1> HIDE DEF S
<1>4. Max(S(A)) \in S(A) /\ Max(S(B)) \in S(B) /\ \A x \in S(B) : x <= Max(S(B))
  BY <1>2, LargestOfThree
<1>5. QED
  BY <1>2, <1>3, <1>4

(* In any one assessment, whatever else is approved, an event keeps the    *)
(* credit it has and its risk does not rise; for any entries,              *)
(* contradictory ones included, and whatever histories say                 *)
(* (evaluate_context_compatibility, classify_event, fuse_event_residuals). *)
THEOREM MoreContextNeverHurts ==
  ASSUME NEW event \in Event, NEW signals \in Signals,
         NEW A, NEW B, A \subseteq B, NEW history \in Int
  PROVE  LET raw == RawRisk(event, signals)
         IN  /\ Credit(event, A, history) <= Credit(event, B, history)
             /\ Residual(event, raw, Credit(event, B, history))
                  <= Residual(event, raw, Credit(event, A, history))
<1>1. Indeterminate(event, B, history) => Indeterminate(event, A, history)
  BY DEF Indeterminate
<1>2. /\ BestScore(event, A) \in 0..2 /\ BestScore(event, B) \in BestScore(event, A)..2
  BY BestScoreGrows
<1>3. Credit(event, A, history) \in 0..2
      /\ Credit(event, B, history) \in Credit(event, A, history)..2
  BY <1>1, <1>2 DEF Credit
<1>4. QED
  BY <1>3, FloorAddsNothing
-----------------------------------------------------------------------------
(* Every event is older than some time.                                    *)
LEMMA BoundedSequence ==
  ASSUME NEW n \in Nat, NEW f \in [1..n -> Nat]
  PROVE  \E b \in Nat : \A i \in 1..n : f[i] <= b
<1> DEFINE Bad == {m \in Nat : \E g \in [1..m -> Nat] : ~\E b \in Nat : \A i \in 1..m : g[i] <= b}
<1>1. SUFFICES ASSUME Bad # {} PROVE FALSE
  OBVIOUS
<1>2. Bad \in SUBSET Nat
  OBVIOUS
<1>3. PICK m \in Bad : \A k \in Bad : ~(<<k, m>> \in OpToRel(<, Nat))
  BY <1>1, <1>2, WFMin, NatLessThanWellFounded, Zenon
<1>4. PICK g \in [1..m -> Nat] : ~\E b \in Nat : \A i \in 1..m : g[i] <= b
  OBVIOUS
<1>12. m \in Nat
  OBVIOUS
<1>5. m # 0
  BY <1>4
<1>6. m - 1 \in Nat /\ m - 1 < m
  BY <1>5, <1>12
<1>7. m - 1 \notin Bad
  BY <1>3, <1>6 DEF OpToRel
<1> DEFINE h == [i \in 1..(m - 1) |-> g[i]]
<1> HIDE DEF Bad
<1>8. h \in [1..(m - 1) -> Nat]
  <2>1. \A i \in 1..(m - 1) : i \in 1..m
    BY <1>12
  <2>2. QED
    BY <2>1
<1>9. PICK b \in Nat : \A i \in 1..(m - 1) : h[i] <= b
  BY <1>6, <1>7, <1>8 DEF Bad
<1>10. g[m] \in Nat
  BY <1>5, <1>12
<1>13. \A i \in 1..m : i = m \/ i \in 1..(m - 1)
  BY <1>12
<1>14. ASSUME NEW i \in 1..m PROVE g[i] <= b + g[m]
  <2>1. CASE i = m
    BY <1>10, <2>1
  <2>2. CASE i \in 1..(m - 1)
    <3>1. h[i] <= b /\ h[i] = g[i]
      BY <1>9, <2>2
    <3>2. g[i] \in Nat
      BY <1>4
    <3>3. QED
      BY <1>10, <3>1, <3>2
  <2>3. QED
    BY <1>13, <2>1, <2>2
<1>15. b + g[m] \in Nat
  BY <1>10
<1>11. QED
  BY <1>4, <1>14, <1>15

LEMMA TimesAreBounded == \E b \in Nat : \A e \in Events : Time(e) <= b
<1>1. PICK n \in Nat : ExistsSurjection(1..n, Events)
  BY CaseAssumption, FS_NatSurjection
<1>2. PICK g \in [1..n -> Events] : \A e \in Events : \E i \in 1..n : g[i] = e
  BY <1>1 DEF ExistsSurjection, Surjection
<1> DEFINE f == [i \in 1..n |-> Time(g[i])]
<1>3. \A e \in Events : Time(e) \in Nat
  BY CaseAssumption DEF Time, Event
<1>4. f \in [1..n -> Nat]
  BY <1>3
<1>5. PICK b \in Nat : \A i \in 1..n : f[i] <= b
  BY <1>4, BoundedSequence
<1>6. QED
  BY <1>2, <1>5

LEMMA LargestExists ==
  ASSUME NEW b \in Nat, NEW T \in SUBSET Nat, T # {}, \A x \in T : x <= b
  PROVE  Max(T) \in T /\ \A x \in T : x <= Max(T)
<1> DEFINE Gaps == {b - x : x \in T}
<1>1. Gaps \in SUBSET Nat /\ Gaps # {}
  <2>1. \A x \in T : b - x \in Nat
    OBVIOUS
  <2>2. QED
    BY <2>1
<1>2. PICK m \in Gaps : \A k \in Gaps : ~(<<k, m>> \in OpToRel(<, Nat))
  BY <1>1, WFMin, NatLessThanWellFounded, Zenon
<1>3. PICK x \in T : m = b - x
  BY <1>2
<1>4. ASSUME NEW y \in T PROVE x >= y
  <2>1. b - y \in Gaps
    OBVIOUS
  <2>2. ~(b - y < b - x)
    BY <1>1, <1>2, <1>3, <2>1 DEF OpToRel
  <2>3. QED
    BY <2>2
<1>5. Max(T) \in T /\ \A y \in T : Max(T) >= y
  BY <1>3, <1>4 DEF Max
<1>6. QED
  BY <1>5
-----------------------------------------------------------------------------
(* What the approved entries of a ledger grant an event.                   *)
Granted(e, ledger) ==
  LET event == EventOf[e]
  IN  IF event.resource # None /\ event.class = None THEN 0
      ELSE BestScore(event, Rows(Approved(ledger)))

RowFields == {"status", "created", "raw", "credit", "unresolved", "matched", "flagged"}

RowCurrent(row) ==
  /\ DOMAIN row = RowFields
  /\ row.created \in Nat
  /\ DOMAIN row.credit \subseteq ingested
  /\ \A e \in DOMAIN row.credit : row.credit[e] = Granted(e, approval)

(* What a session still has to do is about an event that is committed.     *)
EventKnown(t) ==
  t # Idle => /\ {"phase", "event"} \subseteq DOMAIN t /\ t.event \in ingested
              /\ t.phase = "build" => t.at \in Int

CreditInv ==
  /\ ingested \subseteq Events
  /\ \A c \in Cases : RowCurrent(case[c])
  /\ DOMAIN txn = Sessions
  /\ \A p \in Sessions : EventKnown(txn[p])

(* Entries that do not explain an event do not matter to it.               *)
LEMMA OthersDoNotMatter ==
  ASSUME NEW event, NEW A, NEW B,
         \A x \in A \ B : Score(event, x) = 0, \A x \in B \ A : Score(event, x) = 0
  PROVE  BestScore(event, A) = BestScore(event, B)
<1> DEFINE S(N) == {0} \cup {Score(event, entry) : entry \in N}
<1>1. S(A) = S(B)
  OBVIOUS
<1>2. QED
  BY <1>1 DEF BestScore

LEMMA EventTypes ==
  ASSUME NEW e \in Events PROVE EventOf[e] \in Event /\ Time(e) \in Nat /\ EventOf[e].time = Time(e)
BY CaseAssumption DEF Event, Time

LEMMA EntryTypes ==
  ASSUME NEW n \in Entries PROVE EntryOf[n].from \in Nat /\ EntryOf[n].until \in Nat
BY CaseAssumption DEF Entry

(* An assessment as of the last of its events, or later, grants what the   *)
(* ledger grants, though it looks at no entry that begins later and gives  *)
(* nothing to an event whose history is short.                             *)
LEMMA AssessmentCurrent ==
  ASSUME NEW E, E \subseteq Events, NEW t \in Nat, \A e \in E : Time(e) <= t,
         NEW ledger, NEW signals
  PROVE  /\ DOMAIN Assessment(E, t, ledger, signals).credit = E
         /\ \A e \in E : Assessment(E, t, ledger, signals).credit[e] = Granted(e, ledger)
<1> DEFINE entries == {n \in Approved(ledger) : EntryOf[n].from <= t}
           history == HistoryAt(ingested, t)
           scoped == {e \in E : Time(e) <= t}
           credit == [e \in scoped |-> Credit(EventOf[e], Rows(entries), history)]
<1>1. Assessment(E, t, ledger, signals).credit = credit
  BY DEF Assessment
<1>2. scoped = E
  OBVIOUS
<1>3. DOMAIN credit = E /\ \A e \in E : credit[e] = Credit(EventOf[e], Rows(entries), history)
  BY <1>2
<1> HIDE DEF history, scoped, credit
<1>4. ASSUME NEW e \in E PROVE Credit(EventOf[e], Rows(entries), history) = Granted(e, ledger)
  <2> DEFINE event == EventOf[e]
             all == Rows(Approved(ledger))
             seen == Rows(entries)
  <2>1. event.time \in Nat /\ event.time <= t
    BY EventTypes
  <2>2. \A x \in seen : x \in all
    BY DEF Rows
  <2>3. \A x \in all \ seen : Score(event, x) = 0
    <3>1. SUFFICES ASSUME NEW n \in Approved(ledger), EntryOf[n] \notin seen
                   PROVE  Score(event, EntryOf[n]) = 0
      BY DEF Rows
    <3>2. n \in Entries /\ ~(EntryOf[n].from <= t)
      BY <3>1 DEF Rows, Approved
    <3>3. ~TimeMatch(event, EntryOf[n])
      BY <2>1, <3>2, EntryTypes DEF TimeMatch
    <3>4. QED
      BY <3>3 DEF Score
  <2> HIDE DEF event, all, seen
  <2>4. BestScore(event, all) = BestScore(event, seen)
    BY <2>2, <2>3, OthersDoNotMatter
  <2>5. (\A x \in seen : ~TimeMatch(event, x)) => BestScore(event, seen) = 0
    <3>1. SUFFICES ASSUME \A x \in seen : ~TimeMatch(event, x) PROVE BestScore(event, seen) = 0
      OBVIOUS
    <3>2. \A x \in seen : Score(event, x) = 0
      BY <3>1 DEF Score
    <3>3. {0} \cup {Score(event, x) : x \in seen} = {0}
      BY <3>2
    <3>4. BestScore(event, seen) = Max({0})
      BY <3>3 DEF BestScore
    <3>5. Max({0, 0}) = 0 /\ {0, 0} = {0}
      BY LargerOfTwo
    <3>6. QED
      BY <3>4, <3>5
  <2>6. Credit(event, seen, history) =
          IF event.resource # None /\ event.class = None THEN 0 ELSE BestScore(event, seen)
    BY <2>5 DEF Credit, Indeterminate
  <2>7. Granted(e, ledger) =
          IF event.resource # None /\ event.class = None THEN 0 ELSE BestScore(event, all)
    BY DEF Granted, event, all
  <2>8. Credit(event, seen, history) = Granted(e, ledger)
    BY <2>4, <2>6, <2>7
  <2>9. QED
    BY <2>8 DEF event, seen
<1>5. QED
  BY <1>1, <1>3, <1>4

LEMMA AssessedFields ==
  ASSUME NEW row, DOMAIN row = RowFields, NEW assessment
  PROVE  /\ DOMAIN Assessed(row, assessment) = RowFields
         /\ Assessed(row, assessment).credit = assessment.credit
         /\ Assessed(row, assessment).created = row.created
BY DEF Assessed, RowFields

LEMMA RecomputedCurrent ==
  ASSUME ingested \subseteq Events, NEW row, DOMAIN row = RowFields, row.created \in Nat,
         NEW E, E \subseteq ingested, NEW ledger, NEW signals
  PROVE  LET new == Recomputed(row, E, ledger, signals)
         IN  /\ DOMAIN new = RowFields /\ new.created \in Nat
             /\ DOMAIN new.credit \subseteq ingested
             /\ \A e \in DOMAIN new.credit : new.credit[e] = Granted(e, ledger)
<1> DEFINE events == IF E # {} THEN E
                     ELSE Happened(ingested, row.created - WINDOW_48H, row.created + WINDOW_48H)
           T == {row.created} \cup {Time(e) : e \in events}
           asOf == Max(T)
           assessment == Assessment(events, asOf, ledger, signals)
<1>1. Recomputed(row, E, ledger, signals) = Assessed(row, assessment)
  BY DEF Recomputed
<1>2. events \subseteq ingested
  BY DEF Happened
<1> HIDE DEF events
<1>3. PICK b \in Nat : \A e \in Events : Time(e) <= b
  BY TimesAreBounded
<1>4. T \in SUBSET Nat /\ T # {}
  BY <1>2, EventTypes
<1>5. b + row.created \in Nat /\ \A x \in T : x <= b + row.created
  <2>1. \A e \in events : Time(e) \in Nat /\ Time(e) <= b
    BY <1>2, <1>3, EventTypes
  <2>2. QED
    BY <2>1
<1>6. asOf \in T /\ \A x \in T : x <= asOf
  BY <1>4, <1>5, LargestExists
<1>7. asOf \in Nat /\ \A e \in events : Time(e) <= asOf
  BY <1>4, <1>6
<1> HIDE DEF asOf, T
<1>8. DOMAIN assessment.credit = events /\ \A e \in events : assessment.credit[e] = Granted(e, ledger)
  BY <1>2, <1>7, AssessmentCurrent
<1> HIDE DEF assessment
<1>9. QED
  BY <1>1, <1>2, <1>8, AssessedFields
-----------------------------------------------------------------------------
(* A case that is created or updated is assessed on what led to it, all of *)
(* which has happened by then.                                             *)
LEMMA CreateOrUpdateCurrent ==
  ASSUME CreditInv, NEW E, E \subseteq ingested, NEW t \in Nat, \A e \in E : Time(e) <= t,
         NEW signals, CreateOrUpdate(E, t, signals)
  PROVE  \A c \in DOMAIN case' : RowCurrent(case'[c])
<1> DEFINE result == Assessment(E, t, approval, signals)
<1>1. DOMAIN result.credit = E /\ \A e \in E : result.credit[e] = Granted(e, approval)
  BY AssessmentCurrent DEF CreditInv
<1> HIDE DEF result
<1>2. ASSUME NEW row, DOMAIN row = RowFields, row.created \in Nat
      PROVE  RowCurrent(Assessed(row, result))
  BY <1>1, <1>2, AssessedFields DEF RowCurrent
<1>3. CASE case' = [case EXCEPT ![NewestLive] = Assessed(@, result)]
  <2>1. ASSUME NEW c \in DOMAIN case PROVE RowCurrent(case'[c])
    <3>1. RowCurrent(case[c])
      BY DEF CreditInv, Cases
    <3>2. RowCurrent(Assessed(case[c], result))
      BY <1>2, <3>1 DEF RowCurrent
    <3>3. QED
      BY <1>3, <3>1, <3>2
  <2>2. QED
    BY <1>3, <2>1
<1>4. ASSUME NEW id,
             case' = [c \in Cases \cup {id} |->
                        IF c \in Cases THEN case[c] ELSE Assessed(NoCase(t), result)]
      PROVE  \A c \in DOMAIN case' : RowCurrent(case'[c])
  <2>1. DOMAIN NoCase(t) = RowFields /\ NoCase(t).created \in Nat
    BY DEF NoCase, RowFields
  <2>2. RowCurrent(Assessed(NoCase(t), result))
    BY <1>2, <2>1
  <2>3. QED
    BY <1>4, <2>2 DEF CreditInv
<1>5. QED
  BY <1>3, <1>4 DEF CreateOrUpdate, result

(* A step that ends a session's work, or goes on with a committed event.   *)
LEMMA CreditStep ==
  ASSUME CreditInv, ingested \subseteq ingested', ingested' \subseteq Events,
         UNCHANGED approval,
         \A c \in DOMAIN case' : RowCurrent(case'[c]),
         \/ txn' = txn
         \/ \E p \in Sessions : \E t :
              /\ txn' = [txn EXCEPT ![p] = t]
              /\ t # Idle => /\ {"phase", "event"} \subseteq DOMAIN t
                             /\ t.event \in ingested'
                             /\ t.phase = "build" => t.at \in Int
  PROVE  CreditInv'
<1>1. ASSUME NEW c \in DOMAIN case' PROVE RowCurrent(case[c])'
  <2>1. RowCurrent(case'[c])
    OBVIOUS
  <2>2. QED
    BY <2>1 DEF RowCurrent, Granted
<1>2. DOMAIN txn' = Sessions
  BY DEF CreditInv
<1>4. ASSUME NEW q \in Sessions PROVE EventKnown(txn[q])'
  <2>1. txn'[q] = txn[q] => EventKnown(txn[q])'
    <3>1. EventKnown(txn[q])
      BY DEF CreditInv
    <3>2. QED
      BY <3>1 DEF EventKnown
  <2>2. ASSUME NEW p \in Sessions, NEW t, txn' = [txn EXCEPT ![p] = t],
               t # Idle => /\ {"phase", "event"} \subseteq DOMAIN t
                           /\ t.event \in ingested'
                           /\ t.phase = "build" => t.at \in Int
        PROVE  EventKnown(txn[q])'
    <3>1. CASE q = p
      <4>1. txn'[q] = t
        BY <2>2, <3>1 DEF CreditInv
      <4>2. QED
        BY <2>2, <4>1 DEF EventKnown
    <3>2. CASE q # p
      BY <2>1, <2>2, <3>2 DEF CreditInv
    <3>3. QED
      BY <3>1, <3>2
  <2>3. QED
    BY <2>1, <2>2
<1>3. QED
  BY <1>1, <1>2, <1>4 DEF CreditInv, Cases

LEMMA ReopenKeepsCredit ==
  ASSUME CreditInv, NEW p \in Sessions, Reopen(p)
  PROVE  CreditInv'
<1> DEFINE e == txn[p].event
           reopened == {c \in Cases : case[c].status = "resolved" /\ Outside(c, e)}
           t == IF reopened = {} THEN [phase |-> "detect", event |-> e]
                ELSE [phase |-> "recompute", event |-> e, todo |-> reopened]
<1>1. /\ UNCHANGED <<ingested, approval>> /\ txn' = [txn EXCEPT ![p] = t]
      /\ case' = [c \in Cases |-> IF c \in reopened THEN [case[c] EXCEPT !.status = "reopened"]
                                  ELSE case[c]]
  BY DEF Reopen
<1>2. {"phase", "event"} \subseteq DOMAIN t /\ t.event = e /\ t.phase # "build"
  OBVIOUS
<1>3. e \in ingested
  BY DEF Reopen, Idle, CreditInv, EventKnown
<1> HIDE DEF t, reopened, e
<1>4. ASSUME NEW c \in DOMAIN case' PROVE RowCurrent(case'[c])
  <2> DEFINE row == [case[c] EXCEPT !.status = "reopened"]
  <2>1. c \in Cases /\ RowCurrent(case[c])
    BY <1>1 DEF CreditInv
  <2>2. DOMAIN row = RowFields /\ row.created = case[c].created /\ row.credit = case[c].credit
    BY <2>1 DEF RowCurrent, RowFields
  <2>3. case'[c] = row \/ case'[c] = case[c]
    BY <1>1, <2>1
  <2> HIDE DEF row
  <2>4. RowCurrent(row)
    BY <2>1, <2>2 DEF RowCurrent
  <2>5. QED
    BY <2>1, <2>3, <2>4
<1>5. QED
  BY <1>1, <1>2, <1>3, <1>4, CreditStep DEF CreditInv

LEMMA RecomputeReopenedKeepsCredit ==
  ASSUME CreditInv, NEW p \in Sessions, RecomputeReopened(p)
  PROVE  CreditInv'
<1>7. PICK signals \in SignalsSeen :
        case' = [case EXCEPT ![Min(txn[p].todo)] =
                   Recomputed(@, Evidence(Min(txn[p].todo)) \cup {txn[p].event}, approval, signals)]
  BY DEF RecomputeReopened
<1> DEFINE c == Min(txn[p].todo)
           rest == txn[p].todo \ {c}
           t == IF rest = {} THEN Idle ELSE [txn[p] EXCEPT !.todo = rest]
           E == Evidence(c) \cup {txn[p].event}
           row == Recomputed(case[c], E, approval, signals)
<1>1. /\ UNCHANGED <<ingested, approval>> /\ txn' = [txn EXCEPT ![p] = t]
      /\ case' = [case EXCEPT ![c] = row]
  BY <1>7 DEF RecomputeReopened
<1>2. /\ {"phase", "event"} \subseteq DOMAIN txn[p] /\ txn[p].event \in ingested
      /\ txn[p].phase = "recompute"
  BY DEF RecomputeReopened, Idle, CreditInv, EventKnown
<1>3. t # Idle => {"phase", "event"} \subseteq DOMAIN t /\ t.event \in ingested /\ t.phase # "build"
  BY <1>2
<1>4. ASSUME c \in Cases PROVE RowCurrent(row)
  <2>1. RowCurrent(case[c])
    BY <1>4 DEF CreditInv
  <2>2. E \subseteq ingested
    BY <1>2, <2>1 DEF RowCurrent, Evidence
  <2>3. DOMAIN case[c] = RowFields /\ case[c].created \in Nat /\ ingested \subseteq Events
    BY <2>1 DEF RowCurrent, CreditInv
  <2> DEFINE old == case[c]
  <2>6. DOMAIN old = RowFields /\ old.created \in Nat /\ row = Recomputed(old, E, approval, signals)
    BY <2>3
  <2> HIDE DEF c, E, old, row
  <2>7. /\ DOMAIN row = RowFields /\ row.created \in Nat
        /\ DOMAIN row.credit \subseteq ingested
    BY <2>2, <2>3, <2>6, RecomputedCurrent
  <2>8. \A e \in DOMAIN row.credit : row.credit[e] = Granted(e, approval)
    BY <2>2, <2>3, <2>6, RecomputedCurrent
  <2>5. QED
    BY <2>7, <2>8 DEF RowCurrent
<1> HIDE DEF c, t, row
<1>5. ASSUME NEW d \in DOMAIN case' PROVE RowCurrent(case'[d])
  BY <1>1, <1>4 DEF CreditInv, Cases
<1>6. QED
  BY <1>1, <1>3, <1>5, CreditStep DEF CreditInv

LEMMA IngestKeepsCredit ==
  ASSUME CreditInv, NEW p \in Sessions, IngestStep(p) \/ Crash(p)
  PROVE  CreditInv'
<1>1. \A c \in DOMAIN case : RowCurrent(case[c])
  BY DEF CreditInv, Cases
<1>2. ASSUME NEW e \in Events, Ingest(p, e) PROVE CreditInv'
  <2> DEFINE t == [phase |-> "reopen", event |-> e]
  <2>1. /\ ingested' = ingested \cup {e} /\ UNCHANGED <<case, approval>>
        /\ txn' = [txn EXCEPT ![p] = t]
    BY <1>2 DEF Ingest
  <2>2. {"phase", "event"} \subseteq DOMAIN t /\ t.event = e /\ t.phase = "reopen"
    OBVIOUS
  <2> HIDE DEF t
  <2>3. \A c \in DOMAIN case' : RowCurrent(case'[c])
    BY <1>1, <2>1
  <2>4. QED
    BY <2>1, <2>2, <2>3, CreditStep DEF CreditInv
<1>3. ASSUME txn' = [txn EXCEPT ![p] = Idle], UNCHANGED <<ingested, approval>>,
             \A c \in DOMAIN case' : RowCurrent(case'[c])
      PROVE  CreditInv'
  BY <1>3, CreditStep DEF CreditInv
<1>4. CASE DetectNothing(p) \/ Rearm(p) \/ Crash(p)
  BY <1>1, <1>3, <1>4 DEF DetectNothing, Rearm, Crash, Done
<1>5. CASE Latch(p)
  <2>1. PICK cp \in ChangePoints : txn' = [txn EXCEPT ![p] = [phase |-> "build", event |-> txn[p].event, at |-> cp]]
    BY <1>5 DEF Latch
  <2> DEFINE t == [phase |-> "build", event |-> txn[p].event, at |-> cp]
  <2>2. {"phase", "event"} \subseteq DOMAIN t /\ t.event = txn[p].event /\ t.at \in Int
    BY CaseAssumption
  <2>3. txn[p].event \in ingested
    BY <1>5 DEF Latch, Detecting, Idle, CreditInv, EventKnown
  <2> HIDE DEF t
  <2>4. txn' = [txn EXCEPT ![p] = t] /\ UNCHANGED <<ingested, approval, case>>
    BY <1>5, <2>1 DEF Latch, t
  <2>5. QED
    BY <1>1, <2>2, <2>3, <2>4, CreditStep DEF CreditInv
<1>6. CASE DetectByRisk(p) \/ Build(p)
  <2> DEFINE t == Time(txn[p].event)
  <2>1. txn[p].event \in ingested
    BY <1>6 DEF DetectByRisk, Build, Detecting, Idle, CreditInv, EventKnown
  <2>2. t \in Nat
    BY <2>1, EventTypes DEF CreditInv
  <2> HIDE DEF t
  <2>3. ASSUME NEW E, E \subseteq ingested, \A e \in E : Time(e) <= t,
               NEW signals, CreateOrUpdate(E, t, signals)
        PROVE  \A c \in DOMAIN case' : RowCurrent(case'[c])
    BY <2>2, <2>3, CreateOrUpdateCurrent
  <2>4. RecentUnusual(t) \subseteq ingested /\ \A e \in RecentUnusual(t) : Time(e) <= t
    BY DEF RecentUnusual, Unusual, Happened
  <2>5. ASSUME NEW cp \in Int
        PROVE  Transition(cp, t) \subseteq ingested /\ \A e \in Transition(cp, t) : Time(e) <= t
    <3>1. cp + WINDOW_48H \in Int
      BY DEF WINDOW_48H
    <3>2. Min({cp + WINDOW_48H, t}) \in Int /\ Min({cp + WINDOW_48H, t}) <= t
      BY <2>2, <3>1, LargerOfTwo
    <3>3. Transition(cp, t) \subseteq Happened(ingested, cp - TRANSITION_LEAD, Min({cp + WINDOW_48H, t}))
      BY DEF Transition, Unusual
    <3>4. ASSUME NEW e \in Transition(cp, t) PROVE e \in ingested /\ Time(e) <= t
      <4>1. e \in ingested /\ Time(e) <= Min({cp + WINDOW_48H, t})
        BY <3>3 DEF Happened
      <4>2. Time(e) \in Nat
        BY <4>1, EventTypes DEF CreditInv
      <4>3. QED
        BY <2>2, <3>2, <4>1, <4>2
    <3>5. QED
      BY <3>4
  <2>8. CASE Build(p)
    <3>1. txn[p].at \in Int
      BY <2>8 DEF Build, Idle, CreditInv, EventKnown
    <3>2. PICK signals : CreateOrUpdate(Transition(txn[p].at, t), t, signals)
      BY <2>8 DEF Build, t
    <3>3. \A c \in DOMAIN case' : RowCurrent(case'[c])
      BY <2>3, <2>5, <3>1, <3>2
    <3>4. QED
      BY <1>3, <2>8, <3>3 DEF Build, Done
  <2>9. CASE DetectByRisk(p)
    <3>1. \A c \in DOMAIN case' : RowCurrent(case'[c])
      BY <1>1, <2>3, <2>4, <2>9 DEF DetectByRisk, BuildIfRisk, t
    <3>2. QED
      BY <1>3, <2>9, <3>1 DEF DetectByRisk, Done
  <2>10. QED
    BY <1>6, <2>8, <2>9
<1>7. QED
  BY <1>2, <1>4, <1>5, <1>6, ReopenKeepsCredit, RecomputeReopenedKeepsCredit DEF IngestStep
-----------------------------------------------------------------------------
(* A proposal or a rejection leaves what is approved alone.                *)
LEMMA SameApprovedKeepsCredit ==
  ASSUME CreditInv, UNCHANGED <<ingested, case, txn>>, Approved(approval') = Approved(approval)
  PROVE  CreditInv'
<1>1. ASSUME NEW c \in DOMAIN case' PROVE RowCurrent(case[c])'
  <2>1. RowCurrent(case[c])
    BY DEF CreditInv, Cases
  <2>2. QED
    BY <2>1 DEF RowCurrent, Granted
<1>2. ASSUME NEW q \in Sessions PROVE EventKnown(txn[q])'
  <2>1. EventKnown(txn[q])
    BY DEF CreditInv
  <2>2. QED
    BY <2>1 DEF EventKnown
<1>3. QED
  BY <1>1, <1>2 DEF CreditInv, Cases

LEMMA FeedbackKeepsCredit ==
  ASSUME CreditInv, NEW c \in Cases, NEW verdict \in Verdict, Feedback(c, verdict)
  PROVE  CreditInv'
<1> DEFINE row == [case[c] EXCEPT !.status = StatusAfter(verdict)]
<1>1. UNCHANGED <<ingested, approval, txn>> /\ case' = [case EXCEPT ![c] = row]
  BY DEF Feedback
<1>2. RowCurrent(case[c])
  BY DEF CreditInv
<1>3. DOMAIN row = RowFields /\ row.created = case[c].created /\ row.credit = case[c].credit
  BY <1>2 DEF RowCurrent, RowFields
<1> HIDE DEF row
<1>4. RowCurrent(row)
  BY <1>2, <1>3 DEF RowCurrent
<1>5. ASSUME NEW d \in DOMAIN case' PROVE RowCurrent(case'[d])
  BY <1>1, <1>4 DEF CreditInv, Cases
<1>6. QED
  BY <1>1, <1>5, CreditStep DEF CreditInv

(* An approval reassesses the cases it can matter to, and only those can   *)
(* be granted anything else.                                               *)
LEMMA ApproveKeepsCredit ==
  ASSUME CreditInv, NEW n \in Entries, Approve(n)
  PROVE  CreditInv'
<1>1. UNCHANGED <<ingested, txn>> /\ approval' = Activated(n)
  BY DEF Approve
<1>7. PICK signals \in [AffectedBy(n) -> SignalsSeen] :
        case' = [c \in Cases |->
                   IF c \in AffectedBy(n) THEN Reassessed(c, n, signals[c]) ELSE case[c]]
  BY DEF Approve
<1>2. ASSUME NEW c \in Cases, c \in AffectedBy(n) PROVE RowCurrent(case[c])'
  <2> DEFINE row == Recomputed(case[c], Evidence(c), Activated(n), signals[c])
             flag == row.flagged \/ (LateContext(n) /\ CoverageRises(case[c], row))
             new == [row EXCEPT !.flagged = flag]
  <2>1. /\ DOMAIN case[c] = RowFields /\ case[c].created \in Nat
        /\ ingested \subseteq Events /\ Evidence(c) \subseteq ingested
    BY DEF CreditInv, RowCurrent, Evidence
  <2>2. case'[c] = new
    BY <1>2, <1>7 DEF Reassessed
  <2> HIDE DEF flag
  <2> DEFINE old == case[c]
             E == Evidence(c)
             ledger == Activated(n)
             seen == signals[c]
  <2>8. /\ DOMAIN old = RowFields /\ old.created \in Nat /\ E \subseteq ingested
        /\ row = Recomputed(old, E, ledger, seen)
    BY <2>1
  <2> HIDE DEF old, E, seen, ledger, row
  <2>10. /\ DOMAIN row = RowFields /\ row.created \in Nat
         /\ DOMAIN row.credit \subseteq ingested
    BY <2>1, <2>8, RecomputedCurrent
  <2>9. \A e \in DOMAIN row.credit : row.credit[e] = Granted(e, ledger)
    BY <2>1, <2>8, RecomputedCurrent
  <2>3. /\ DOMAIN row = RowFields /\ row.created \in Nat
        /\ DOMAIN row.credit \subseteq ingested
        /\ \A e \in DOMAIN row.credit : row.credit[e] = Granted(e, Activated(n))
    BY <2>9, <2>10 DEF ledger
  <2>4. DOMAIN new = RowFields /\ new.created = row.created /\ new.credit = row.credit
    BY <2>3 DEF RowFields
  <2> HIDE DEF new
  <2>5. /\ DOMAIN case'[c] = RowFields /\ case'[c].created \in Nat
        /\ DOMAIN case'[c].credit \subseteq ingested'
        /\ \A e \in DOMAIN case'[c].credit : case'[c].credit[e] = Granted(e, Activated(n))
    BY <1>1, <2>2, <2>3, <2>4
  <2>6. \A e : Granted(e, approval)' = Granted(e, Activated(n))
    BY <1>1 DEF Granted
  <2>7. QED
    BY <2>5, <2>6 DEF RowCurrent
<1>3. ASSUME NEW c \in Cases, c \notin AffectedBy(n) PROVE RowCurrent(case[c])'
  <2>1. case'[c] = case[c]
    BY <1>3, <1>7
  <2>2. RowCurrent(case[c])
    BY DEF CreditInv
  <2>3. ASSUME NEW e \in Evidence(c) PROVE Granted(e, Activated(n)) = Granted(e, approval)
    <3> DEFINE event == EventOf[e]
               before == Approved(approval)
               after == Approved(Activated(n))
    <3>1. \A m \in {n, base[n]} \ {NoEntry} : Score(event, EntryOf[m]) = 0
      BY <1>3 DEF AffectedBy, Score
    <3>2. before \subseteq Entries /\ after \subseteq Entries
      BY DEF Approved
    <3>3. n \in after /\ \A m \in after : m = n \/ m \in before
      BY DEF Approved, Activated
    <3>4. \A m \in before : m = n \/ m = base[n] \/ m \in after
      BY DEF Approved, Activated
    <3> HIDE DEF before, after
    <3>5. \A x \in Rows(before) \ Rows(after) : Score(event, x) = 0
      BY <3>1, <3>2, <3>3, <3>4, CaseAssumption DEF Rows
    <3>6. \A x \in Rows(after) \ Rows(before) : Score(event, x) = 0
      BY <3>1, <3>2, <3>3, CaseAssumption DEF Rows
    <3> HIDE DEF event
    <3>7. BestScore(event, Rows(before)) = BestScore(event, Rows(after))
      BY <3>5, <3>6, OthersDoNotMatter
    <3>8. QED
      BY <3>7 DEF Granted, event, before, after
  <2>4. \A e : Granted(e, approval)' = Granted(e, Activated(n))
    BY <1>1 DEF Granted
  <2>5. QED
    BY <1>1, <2>1, <2>2, <2>3, <2>4 DEF RowCurrent, Evidence
<1>4. DOMAIN case' = Cases
  BY <1>7
<1>5. ASSUME NEW q \in Sessions PROVE EventKnown(txn[q])'
  <2>1. EventKnown(txn[q])
    BY DEF CreditInv
  <2>2. QED
    BY <1>1, <2>1 DEF EventKnown
<1>6. QED
  BY <1>1, <1>2, <1>3, <1>4, <1>5 DEF CreditInv, Cases
-----------------------------------------------------------------------------
LEMMA CreditInvariant == Spec => []CreditInv
<1>1. Init => CreditInv
  BY DEF Init, CreditInv, Cases, EventKnown
<1>2. LedgerInv /\ CreditInv /\ [Next]_vars => CreditInv'
  <2> SUFFICES ASSUME LedgerInv, CreditInv, [Next]_vars PROVE CreditInv'
    OBVIOUS
  <2>1. ASSUME NEW n \in Entries, NEW previous \in Entries \cup {NoEntry}, Propose(n, previous)
        PROVE  CreditInv'
    <3>1. Approved(approval') = Approved(approval)
      BY <2>1 DEF Propose, Approved, LedgerInv, LedgerOK
    <3>2. QED
      BY <2>1, <3>1, SameApprovedKeepsCredit DEF Propose
  <2>2. ASSUME NEW n \in Entries, Reject(n) PROVE CreditInv'
    <3>1. Approved(approval') = Approved(approval)
      BY <2>2 DEF Reject, Approved, LedgerInv, LedgerOK
    <3>2. QED
      BY <2>2, <3>1, SameApprovedKeepsCredit DEF Reject
  <2>3. CASE UNCHANGED vars
    <3>1. Approved(approval') = Approved(approval)
      BY <2>3 DEF vars
    <3>2. QED
      BY <2>3, <3>1, SameApprovedKeepsCredit DEF vars
  <2>5. ASSUME TimePasses PROVE CreditInv'
    <3>1. Approved(approval') = Approved(approval)
      BY <2>5 DEF TimePasses
    <3>2. QED
      BY <2>5, <3>1, SameApprovedKeepsCredit DEF TimePasses
  <2>4. QED
    BY <2>1, <2>2, <2>3, <2>5, IngestKeepsCredit, FeedbackKeepsCredit, ApproveKeepsCredit DEF Next
<1>3. QED
  BY <1>1, <1>2, LedgerInvariant, PTL DEF Spec

(* Whatever is ingested, approved, revised, rejected, judged or lost in a  *)
(* crash, in any order and by any number of sessions, a case grants its    *)
(* events what the approved context grants them.                           *)
THEOREM CreditIsAlwaysCurrent == Spec => []CreditIsCurrent
<1>1. CreditInv => CreditIsCurrent
  BY DEF CreditInv, CreditIsCurrent, RowCurrent, Granted, Evidence
<1>2. QED
  BY <1>1, CreditInvariant, PTL
-----------------------------------------------------------------------------
(* Types.                                                                  *)
RowTyped(row) ==
  /\ row \in CaseRow(DOMAIN row.credit)
  /\ \A e \in DOMAIN row.credit : RawPlausible(EventOf[e], row.raw[e])

TypeInv ==
  /\ LedgerInv /\ CreditInv
  /\ Cases \subseteq CaseIds
  /\ \A c \in Cases : RowTyped(case[c])
  /\ regime \in {"nominal", "latched"}
  /\ threshold \in 20..180
  /\ now \in Instants
  /\ feedbacks \in 0..MaxFeedback /\ crashes \in 0..MaxCrashes

LEMMA CreditRange ==
  ASSUME NEW event, NEW N, NEW history PROVE Credit(event, N, history) \in 0..2
<1>1. BestScore(event, N) \in 0..2
  BY BestScoreGrows
<1>2. QED
  BY <1>1 DEF Credit

LEMMA RawTyped ==
  ASSUME NEW e \in Events, NEW signals \in SignalsSeen
  PROVE  /\ RawRisk(EventOf[e], signals) \in 0..256
         /\ RawPlausible(EventOf[e], RawRisk(EventOf[e], signals))
<1>1. EventOf[e] \in Event /\ signals \in Signals
  BY EventTypes, CaseAssumption
<1>2. QED
  BY <1>1, RawRiskRange DEF RawPlausible

LEMMA AssessedTyped ==
  ASSUME NEW row, RowTyped(row), NEW E, E \subseteq Events, NEW t, NEW ledger,
         NEW signals \in SignalsSeen
  PROVE  LET new == Assessed(row, Assessment(E, t, ledger, signals))
         IN  RowTyped(new) /\ new.flagged = row.flagged /\ new.status = row.status
<1> DEFINE entries == {n \in Approved(ledger) : EntryOf[n].from <= t}
           history == HistoryAt(ingested, t)
           scoped  == {e \in E : Time(e) <= t}
           vague   == {e \in scoped : Indeterminate(EventOf[e], Rows(entries), history)}
           raw     == [e \in scoped |-> RawRisk(EventOf[e], signals)]
           credit  == [e \in scoped |-> Credit(EventOf[e], Rows(entries), history)]
           matched == {n \in entries : \E e \in scoped \ vague : Score(EventOf[e], EntryOf[n]) > 0}
           result  == Assessment(E, t, ledger, signals)
           new     == Assessed(row, result)
<1>1. /\ result.raw = raw /\ result.credit = credit
      /\ result.unresolved = vague /\ result.matched = matched
  BY DEF Assessment
<1>2. credit \in [scoped -> 0..2] /\ vague \subseteq scoped
  BY CreditRange
<1>3. matched \subseteq Entries
  BY DEF Approved
<1>4. DOMAIN credit = scoped
  OBVIOUS
<1>9. raw \in [scoped -> 0..256] /\ \A e \in scoped : RawPlausible(EventOf[e], raw[e])
  <2>1. ASSUME NEW e \in scoped
        PROVE  /\ RawRisk(EventOf[e], signals) \in 0..256
               /\ RawPlausible(EventOf[e], RawRisk(EventOf[e], signals))
    BY RawTyped
  <2>2. QED
    BY <2>1
<1> HIDE DEF raw, credit, vague, matched, scoped, result
<1>5. row \in CaseRow(DOMAIN row.credit)
  BY DEF RowTyped
<1>6. /\ new.raw = raw /\ new.credit = credit
      /\ new.flagged = row.flagged /\ new.status = row.status
  BY <1>1, <1>5 DEF Assessed, CaseRow
<1>7. new \in CaseRow(scoped)
  BY <1>1, <1>2, <1>3, <1>5, <1>9 DEF Assessed, CaseRow
<1>8. QED
  BY <1>4, <1>6, <1>7, <1>9 DEF RowTyped, result

LEMMA RecomputedTyped ==
  ASSUME ingested \subseteq Events, NEW row, RowTyped(row), NEW E, E \subseteq Events, NEW ledger,
         NEW signals \in SignalsSeen
  PROVE  LET new == Recomputed(row, E, ledger, signals)
         IN  RowTyped(new) /\ new.flagged = row.flagged /\ new.status = row.status
<1> DEFINE events == IF E # {} THEN E
                     ELSE Happened(ingested, row.created - WINDOW_48H, row.created + WINDOW_48H)
           asOf == Max({row.created} \cup {Time(e) : e \in events})
<1>1. events \subseteq Events
  BY DEF Happened
<1>2. Recomputed(row, E, ledger, signals) =
        Assessed(row, Assessment(events, asOf, ledger, signals))
  BY DEF Recomputed
<1> HIDE DEF events, asOf
<1>3. QED
  BY <1>1, <1>2, AssessedTyped

(* Candidates are committed events.                                        *)
LEMMA CandidatesIngested ==
  ASSUME NEW t, NEW cp
  PROVE  RecentUnusual(t) \subseteq ingested /\ Transition(cp, t) \subseteq ingested
BY DEF RecentUnusual, Transition, Unusual, Happened

LEMMA StatusTyped ==
  ASSUME NEW row, RowTyped(row), NEW status \in CaseStatus
  PROVE  LET new == [row EXCEPT !.status = status]
         IN  /\ RowTyped(new) /\ new.credit = row.credit /\ new.matched = row.matched
             /\ new.flagged = row.flagged /\ new.created = row.created /\ new.raw = row.raw
BY DEF RowTyped, CaseRow

(* What a step of an ingest leaves of the cases there are, and what of the *)
(* one it may begin.                                                       *)
LEMMA CreateOrUpdateTyped ==
  ASSUME Cases \subseteq CaseIds, \A c \in Cases : RowTyped(case[c]),
         NEW E, E \subseteq Events, NEW t \in Nat, NEW signals \in SignalsSeen,
         CreateOrUpdate(E, t, signals)
  PROVE  /\ DOMAIN case' \subseteq CaseIds /\ Cases \subseteq DOMAIN case' /\ DOMAIN case' # {}
         /\ \A c \in DOMAIN case' : RowTyped(case'[c])
         /\ \A c \in Cases : case'[c].flagged = case[c].flagged
         /\ \A c \in Cases : case'[c] # case[c] => DOMAIN case'[c].credit = {e \in E : Time(e) <= t}
<1> DEFINE result == Assessment(E, t, approval, signals)
<1>1. ASSUME NEW row, RowTyped(row)
      PROVE  /\ RowTyped(Assessed(row, result)) /\ Assessed(row, result).flagged = row.flagged
             /\ DOMAIN Assessed(row, result).credit = {e \in E : Time(e) <= t}
  <2>1. RowTyped(Assessed(row, result)) /\ Assessed(row, result).flagged = row.flagged
    BY <1>1, AssessedTyped
  <2>2. DOMAIN result.credit = {e \in E : Time(e) <= t}
    BY DEF Assessment
  <2> HIDE DEF result
  <2>3. Assessed(row, result).credit = result.credit
    BY <1>1 DEF Assessed, RowTyped, CaseRow
  <2>4. QED
    BY <2>1, <2>2, <2>3
<1> HIDE DEF result
<1>2. CASE \E c \in Cases : case[c].status \in LiveStatus
  <2>1. case' = [case EXCEPT ![NewestLive] = Assessed(@, result)]
    BY <1>2 DEF CreateOrUpdate, result
  <2>2. DOMAIN case' = Cases /\ Cases # {}
    BY <1>2, <2>1 DEF Cases
  <2>3. ASSUME NEW c \in Cases
        PROVE  case'[c] = case[c] \/ case'[c] = Assessed(case[c], result)
    BY <2>1 DEF Cases
  <2>4. QED
    BY <1>1, <2>2, <2>3
<1>3. CASE ~\E c \in Cases : case[c].status \in LiveStatus
  <2> DEFINE fresh == NoCase(t)
  <2>1. PICK id \in CaseIds \ Cases :
          case' = [c \in Cases \cup {id} |-> IF c \in Cases THEN case[c] ELSE Assessed(fresh, result)]
    BY <1>3 DEF CreateOrUpdate, result
  <2>2. RowTyped(fresh)
    <3>1. /\ DOMAIN fresh.credit = {} /\ fresh.credit \in [{} -> 0..2]
          /\ fresh.raw \in [{} -> 0..256]
      BY DEF NoCase
    <3>2. fresh \in CaseRow({})
      BY <3>1 DEF NoCase, CaseRow, CaseStatus, LiveStatus
    <3>3. QED
      BY <3>1, <3>2 DEF RowTyped
  <2> HIDE DEF fresh
  <2>3. QED
    BY <1>1, <2>1, <2>2
<1>4. QED
  BY <1>2, <1>3

LEMMA AdjustedRange ==
  ASSUME threshold \in 20..180, NEW verdict \in Verdict PROVE Adjusted(verdict) \in 20..180
<1> DEFINE x == threshold + Adjustment(verdict)
           capped == Min({180, x})
<1>1. Adjustment(verdict) \in Int
  BY DEF Adjustment, Verdict
<1>2. x \in Int /\ 180 \in Int /\ 20 \in Int
  BY <1>1
<1> HIDE DEF x
<1>3. capped = IF 180 <= x THEN 180 ELSE x
  BY <1>2, LargerOfTwo
<1>4. capped \in Int /\ capped <= 180
  BY <1>2, <1>3
<1> HIDE DEF capped
<1>5. Max({20, capped}) = IF 20 >= capped THEN 20 ELSE capped
  BY <1>2, <1>4, LargerOfTwo
<1>6. Adjusted(verdict) = Max({20, capped})
  BY DEF Adjusted, capped, x
<1>7. QED
  BY <1>4, <1>5, <1>6

(* Steps as the cases see them: which rows they write, and that no case    *)
(* goes or loses its flag.                                                 *)
CasesTyped ==
  /\ DOMAIN case \subseteq CaseIds
  /\ \A c \in DOMAIN case : RowTyped(case[c])

LEMMA CasesTypedNext ==
  ASSUME TypeInv, [Next]_vars
  PROVE  /\ CasesTyped' /\ Cases \subseteq DOMAIN case'
         /\ \A c \in Cases : case[c].flagged => case'[c].flagged
<1>1. Cases = DOMAIN case /\ CasesTyped /\ \A c \in Cases : RowTyped(case[c])
  BY DEF TypeInv, CasesTyped, Cases
<1>12. ingested \subseteq Events /\ \A c \in Cases : Evidence(c) \subseteq ingested
  BY DEF TypeInv, CreditInv, RowCurrent, Evidence
<1> DEFINE Goal == /\ CasesTyped' /\ Cases \subseteq DOMAIN case'
                   /\ \A c \in Cases : case[c].flagged => case'[c].flagged
<1>2. ASSUME case' = case PROVE Goal
  BY <1>1, <1>2 DEF CasesTyped
<1>3. ASSUME DOMAIN case' = Cases,
             \A c \in Cases : RowTyped(case'[c]) /\ (case[c].flagged => case'[c].flagged)
      PROVE  Goal
  BY <1>1, <1>3 DEF CasesTyped
<1>4. ASSUME NEW p \in Sessions, Reopen(p) PROVE Goal
  <2> DEFINE reopened == {c \in Cases : case[c].status = "resolved" /\ Outside(c, txn[p].event)}
  <2>1. case' = [c \in Cases |-> IF c \in reopened THEN [case[c] EXCEPT !.status = "reopened"]
                                 ELSE case[c]]
    BY <1>4 DEF Reopen
  <2>2. "reopened" \in CaseStatus
    BY DEF CaseStatus, LiveStatus
  <2> HIDE DEF reopened
  <2>3. QED
    BY <1>1, <1>3, <2>1, <2>2, StatusTyped
<1>5. ASSUME NEW p \in Sessions, RecomputeReopened(p) PROVE Goal
  <2>4. PICK signals \in SignalsSeen :
          case' = [case EXCEPT ![Min(txn[p].todo)] =
                     Recomputed(@, Evidence(Min(txn[p].todo)) \cup {txn[p].event}, approval, signals)]
    BY <1>5 DEF RecomputeReopened
  <2> DEFINE c == Min(txn[p].todo)
             E == Evidence(c) \cup {txn[p].event}
             row == Recomputed(case[c], E, approval, signals)
  <2>1. case' = [case EXCEPT ![c] = row]
    BY <2>4
  <2>2. c \in Cases => RowTyped(row) /\ row.flagged = case[c].flagged
    <3>1. txn[p].event \in ingested
      BY <1>5 DEF RecomputeReopened, Idle, TypeInv, CreditInv, EventKnown
    <3>2. c \in Cases => E \subseteq Events
      BY <1>12, <3>1
    <3> HIDE DEF c, E
    <3>3. QED
      BY <1>1, <1>12, <3>2, RecomputedTyped
  <2> HIDE DEF c, E, row
  <2>3. QED
    BY <1>1, <1>3, <2>1, <2>2
<1>6. ASSUME NEW p \in Sessions, DetectByRisk(p) \/ Build(p) PROVE Goal
  <2> DEFINE t == Time(txn[p].event)
  <2>1. t \in Nat
    <3>1. txn[p].event \in Events
      BY <1>6 DEF DetectByRisk, Build, Detecting, Idle, TypeInv, CreditInv, EventKnown
    <3>2. QED
      BY <3>1, EventTypes
  <2>2. \/ case' = case
        \/ \E E \in {RecentUnusual(t), Transition(txn[p].at, t)}, signals \in SignalsSeen :
             CreateOrUpdate(E, t, signals)
    BY <1>6 DEF DetectByRisk, BuildIfRisk, Build
  <2>5. \A E \in {RecentUnusual(t), Transition(txn[p].at, t)} : E \subseteq Events
    BY <1>12, CandidatesIngested
  <2> HIDE DEF t
  <2>3. ASSUME NEW E, E \subseteq Events, NEW signals \in SignalsSeen, CreateOrUpdate(E, t, signals)
        PROVE  Goal
    BY <1>1, <2>1, <2>3, CreateOrUpdateTyped DEF CasesTyped
  <2>4. QED
    BY <1>2, <2>2, <2>3, <2>5
<1>7. ASSUME NEW n \in Entries, Approve(n) PROVE Goal
  <2>5. PICK signals \in [AffectedBy(n) -> SignalsSeen] :
          case' = [c \in Cases |->
                     IF c \in AffectedBy(n) THEN Reassessed(c, n, signals[c]) ELSE case[c]]
    BY <1>7 DEF Approve
  <2>1. DOMAIN case' = Cases
    BY <2>5
  <2>2. ASSUME NEW c \in Cases, c \in AffectedBy(n)
        PROVE  RowTyped(case'[c]) /\ (case[c].flagged => case'[c].flagged)
    <3> DEFINE row == Recomputed(case[c], Evidence(c), Activated(n), signals[c])
               late == LateContext(n) /\ CoverageRises(case[c], row)
    <3>1. case'[c] = [row EXCEPT !.flagged = row.flagged \/ late]
      BY <2>2, <2>5 DEF Reassessed
    <3>4. Evidence(c) \subseteq Events /\ signals[c] \in SignalsSeen
      BY <1>12, <2>2
    <3>2. RowTyped(row) /\ row.flagged = case[c].flagged
      BY <1>1, <1>12, <3>4, RecomputedTyped
    <3> HIDE DEF row, late
    <3>3. QED
      BY <3>1, <3>2 DEF RowTyped, CaseRow
  <2>3. ASSUME NEW c \in Cases, c \notin AffectedBy(n) PROVE case'[c] = case[c]
    BY <2>3, <2>5
  <2>4. QED
    BY <1>1, <1>3, <2>1, <2>2, <2>3
<1>8. ASSUME NEW c \in Cases, NEW verdict \in Verdict, Feedback(c, verdict) PROVE Goal
  <2>1. case' = [case EXCEPT ![c].status = StatusAfter(verdict)]
    BY <1>8 DEF Feedback
  <2>2. StatusAfter(verdict) \in CaseStatus
    BY DEF StatusAfter, Verdict, CaseStatus, LiveStatus
  <2>3. case' = [case EXCEPT ![c] = [case[c] EXCEPT !.status = StatusAfter(verdict)]]
    BY <2>1
  <2> DEFINE row == [case[c] EXCEPT !.status = StatusAfter(verdict)]
  <2>4. RowTyped(row) /\ row.flagged = case[c].flagged
    BY <1>1, <2>2, StatusTyped
  <2> HIDE DEF row
  <2>5. QED
    BY <1>1, <1>3, <2>3, <2>4 DEF row
<1>9. CASE UNCHANGED vars
  BY <1>2, <1>9 DEF vars
<1>10. ASSUME \/ \E p \in Sessions : \/ \E e \in Events : Ingest(p, e)
                                     \/ DetectNothing(p) \/ Rearm(p) \/ Latch(p) \/ Crash(p)
              \/ \E n \in Entries : \/ \E previous \in Entries \cup {NoEntry} : Propose(n, previous)
                                    \/ Reject(n)
              \/ TimePasses
       PROVE  Goal
  BY <1>2, <1>10 DEF Ingest, DetectNothing, Rearm, Latch, Crash, Propose, Reject, TimePasses
<1>11. Goal
  BY <1>4, <1>5, <1>6, <1>7, <1>8, <1>9, <1>10 DEF Next, IngestStep
<1>13. QED
  BY <1>11

LEMMA CountersTyped ==
  ASSUME TypeInv, [Next]_vars
  PROVE  /\ regime' \in {"nominal", "latched"} /\ threshold' \in 20..180 /\ now' \in Instants
         /\ feedbacks' \in 0..MaxFeedback /\ crashes' \in 0..MaxCrashes
         /\ crashes <= crashes'
<1> DEFINE Goal == /\ regime' \in {"nominal", "latched"} /\ threshold' \in 20..180 /\ now' \in Instants
                   /\ feedbacks' \in 0..MaxFeedback /\ crashes' \in 0..MaxCrashes
                   /\ crashes <= crashes'
<1>1. /\ regime \in {"nominal", "latched"} /\ threshold \in 20..180 /\ now \in Instants
      /\ feedbacks \in 0..MaxFeedback /\ crashes \in 0..MaxCrashes
      /\ MaxFeedback \in Nat /\ MaxCrashes \in Nat
  BY CaseAssumption DEF TypeInv
<1>2. ASSUME regime' \in {regime, "nominal", "latched"}, UNCHANGED <<threshold, now, feedbacks, crashes>>
      PROVE  Goal
  BY <1>1, <1>2
<1>3. ASSUME NEW p \in Sessions, IngestStep(p) PROVE Goal
  BY <1>2, <1>3 DEF IngestStep, Ingest, Reopen, RecomputeReopened, DetectNothing, Rearm,
                    DetectByRisk, Latch, Build
<1>4. ASSUME NEW p \in Sessions, Crash(p) PROVE Goal
  BY <1>1, <1>4 DEF Crash
<1>5. ASSUME NEW n \in Entries, NEW previous \in Entries \cup {NoEntry},
             Propose(n, previous) \/ Reject(n) \/ Approve(n)
      PROVE  Goal
  BY <1>2, <1>5 DEF Propose, Reject, Approve
<1>6. ASSUME NEW c \in Cases, NEW verdict \in Verdict, Feedback(c, verdict) PROVE Goal
  BY <1>1, <1>6, AdjustedRange DEF Feedback
<1>7. CASE UNCHANGED vars
  BY <1>2, <1>7 DEF vars
<1>10. ASSUME TimePasses PROVE Goal
  BY <1>1, <1>10 DEF TimePasses
<1>8. Goal
  BY <1>3, <1>4, <1>5, <1>6, <1>7, <1>10 DEF Next
<1>9. QED
  BY <1>8

LEMMA TypeInvariant == Spec => []TypeInv
<1>1. Init /\ LedgerInv /\ CreditInv => TypeInv
  <2> SUFFICES ASSUME Init, LedgerInv, CreditInv PROVE TypeInv
    OBVIOUS
  <2>1. Cases = {}
    BY DEF Init, Cases
  <2>2. 0 \in 0..MaxFeedback /\ 0 \in 0..MaxCrashes /\ threshold \in 20..180
        /\ now \in Instants
    BY CaseAssumption DEF Init
  <2>3. QED
    BY <2>1, <2>2 DEF Init, TypeInv
<1>2. TypeInv /\ LedgerInv' /\ CreditInv' /\ [Next]_vars => TypeInv'
  <2> SUFFICES ASSUME TypeInv, LedgerInv', CreditInv', [Next]_vars PROVE TypeInv'
    OBVIOUS
  <2>1. CasesTyped'
    BY CasesTypedNext
  <2>2. /\ regime' \in {"nominal", "latched"} /\ threshold' \in 20..180 /\ now' \in Instants
        /\ feedbacks' \in 0..MaxFeedback /\ crashes' \in 0..MaxCrashes
    BY CountersTyped
  <2>3. QED
    BY <2>1, <2>2 DEF TypeInv, CasesTyped, Cases
<1>3. QED
  BY <1>1, <1>2, LedgerInvariant, CreditInvariant, PTL DEF Spec

(* Type correctness: evidence has been committed, credit has its range,    *)
(* and the threshold keeps its clamp whatever verdicts are given.          *)
THEOREM Typed == Spec => []TypeOK
<1>1. TypeInv => TypeOK
  BY DEF TypeInv, TypeOK, LedgerInv, LedgerOK, CreditInv, RowCurrent, RowTyped, Evidence
<1>2. QED
  BY <1>1, TypeInvariant, PTL
-----------------------------------------------------------------------------
LEMMA LatchNext ==
  ASSUME TypeInv, LatchHasCase, [Next]_vars PROVE LatchHasCase'
<1>1. Cases \subseteq DOMAIN case' /\ Cases' = DOMAIN case'
  BY CasesTypedNext DEF Cases
<1>2. crashes \in Nat /\ crashes' \in Nat /\ crashes <= crashes' /\ DOMAIN txn = Sessions
  BY CountersTyped, CaseAssumption DEF TypeInv, CreditInv
<1>3. ASSUME regime' = "latched" => regime = "latched",
             \A p \in Sessions : txn[p].phase = "build" => txn'[p] = txn[p]
      PROVE  LatchHasCase'
  BY <1>1, <1>2, <1>3 DEF LatchHasCase
<1>4. ASSUME NEW p \in Sessions, txn[p].phase # "build", \E t : txn' = [txn EXCEPT ![p] = t],
             regime' = "latched" => regime = "latched"
      PROVE  LatchHasCase'
  BY <1>2, <1>3, <1>4
<1>5. ASSUME NEW p \in Sessions,
             \/ \E e \in Events : Ingest(p, e)
             \/ Reopen(p) \/ RecomputeReopened(p) \/ DetectNothing(p) \/ Rearm(p) \/ DetectByRisk(p)
      PROVE  LatchHasCase'
  <2>1. txn[p].phase # "build"
    BY <1>5 DEF Ingest, Idle, Reopen, RecomputeReopened, DetectNothing, Rearm, DetectByRisk, Detecting
  <2>2. \E t : txn' = [txn EXCEPT ![p] = t]
    BY <1>5 DEF Ingest, Reopen, RecomputeReopened, DetectNothing, Rearm, DetectByRisk, Done
  <2>3. regime' = "latched" => regime = "latched"
    BY <1>5 DEF Ingest, Reopen, RecomputeReopened, DetectNothing, Rearm, DetectByRisk
  <2>4. QED
    BY <1>4, <2>1, <2>2, <2>3
<1>6. ASSUME NEW p \in Sessions, Latch(p) PROVE LatchHasCase'
  <2>1. PICK cp : txn' = [txn EXCEPT ![p] = [phase |-> "build", event |-> txn[p].event, at |-> cp]]
    BY <1>6 DEF Latch
  <2>2. txn'[p].phase = "build"
    BY <1>2, <2>1
  <2>3. QED
    BY <2>2 DEF LatchHasCase
<1>7. ASSUME NEW p \in Sessions, Build(p) PROVE LatchHasCase'
  <2> DEFINE t == Time(txn[p].event)
  <2>1. txn[p].event \in Events
    BY <1>7 DEF Build, Idle, TypeInv, CreditInv, EventKnown
  <2>2. t \in Nat
    BY <2>1, EventTypes
  <2>3. PICK signals \in SignalsSeen : CreateOrUpdate(Transition(txn[p].at, t), t, signals)
    BY <1>7 DEF Build
  <2>6. Transition(txn[p].at, t) \subseteq Events
    BY CandidatesIngested DEF TypeInv, CreditInv
  <2> HIDE DEF t
  <2>4. DOMAIN case' # {}
    BY <2>2, <2>3, <2>6, CreateOrUpdateTyped DEF TypeInv
  <2>5. QED
    BY <1>1, <2>4 DEF LatchHasCase
<1>8. ASSUME NEW p \in Sessions, Crash(p) PROVE LatchHasCase'
  <2>1. crashes' > 0
    BY <1>2, <1>8 DEF Crash
  <2>2. QED
    BY <2>1 DEF LatchHasCase
<1>9. CASE \/ \E n \in Entries : \/ \E previous \in Entries \cup {NoEntry} : Propose(n, previous)
                                 \/ Reject(n) \/ Approve(n)
           \/ \E c \in Cases, verdict \in Verdict : Feedback(c, verdict)
           \/ TimePasses
           \/ UNCHANGED vars
  <2>1. UNCHANGED <<regime, txn>>
    BY <1>9 DEF Propose, Reject, Approve, Feedback, TimePasses, vars
  <2>2. QED
    BY <1>3, <2>1
<1>10. QED
  BY <1>5, <1>6, <1>7, <1>8, <1>9 DEF Next, IngestStep

(* Whatever sessions ingest at a time and wherever they stop, the actor's  *)
(* latch is not set without a case to show for it, unless the ingest that  *)
(* set it is still on its way to one or was lost in a crash.               *)
THEOREM LatchIsAccountedFor == Spec => []LatchHasCase
<1>1. Init => LatchHasCase
  BY DEF Init, LatchHasCase
<1>2. TypeInv /\ LatchHasCase /\ [Next]_vars => LatchHasCase'
  BY LatchNext
<1>3. QED
  BY <1>1, <1>2, TypeInvariant, PTL DEF Spec
-----------------------------------------------------------------------------
(* An entry that was matched was in force then, so it is in force or       *)
(* superseded; of those in force, the ones matched explain some of a case. *)
Explains(n, credit) ==
  \E e \in DOMAIN credit : credit[e] > 0 /\ Score(EventOf[e], EntryOf[n]) > 0

RowMatched(row, ledger) ==
  /\ \A n \in row.matched : ledger[n] \in {"approved", "superseded"}
  /\ \A n \in Approved(ledger) : n \in row.matched <=> Explains(n, row.credit)

MatchedInv == \A c \in Cases : RowMatched(case[c], approval)

LEMMA BestScoreIsLargest ==
  ASSUME NEW event, NEW N, NEW x \in N PROVE Score(event, x) <= BestScore(event, N)
<1> DEFINE S == {0} \cup {Score(event, entry) : entry \in N}
<1>1. \A entry : Score(event, entry) \in 0..2
  BY DEF Score
<1>2. S \subseteq 0..2 /\ 0 \in S /\ Score(event, x) \in S
  BY <1>1
<1>3. BestScore(event, N) = Max(S)
  BY DEF BestScore
<1> HIDE DEF S
<1>4. QED
  BY <1>2, <1>3, LargestOfThree

LEMMA AssessmentMatched ==
  ASSUME NEW E, E \subseteq Events, NEW t \in Nat, \A e \in E : Time(e) <= t, NEW ledger,
         NEW signals
  PROVE  LET a == Assessment(E, t, ledger, signals)
         IN  /\ a.matched \subseteq Approved(ledger)
             /\ \A n \in Approved(ledger) : n \in a.matched <=> Explains(n, a.credit)
<1> DEFINE entries == {n \in Approved(ledger) : EntryOf[n].from <= t}
           history == HistoryAt(ingested, t)
           scoped  == {e \in E : Time(e) <= t}
           vague   == {e \in scoped : Indeterminate(EventOf[e], Rows(entries), history)}
           credit  == [e \in scoped |-> Credit(EventOf[e], Rows(entries), history)]
           matched == {n \in entries : \E e \in scoped \ vague : Score(EventOf[e], EntryOf[n]) > 0}
           a == Assessment(E, t, ledger, signals)
<1>1. a.credit = credit /\ a.matched = matched
  BY DEF Assessment
<1>2. scoped = E
  OBVIOUS
<1> HIDE DEF a, scoped, history
<1>3. ASSUME NEW n \in Approved(ledger), Explains(n, credit) PROVE n \in matched
  <2>1. PICK e \in E : credit[e] > 0 /\ Score(EventOf[e], EntryOf[n]) > 0
    BY <1>2, <1>3 DEF Explains
  <2>2. e \notin vague
    BY <1>2, <2>1 DEF Credit
  <2>3. n \in Entries /\ TimeMatch(EventOf[e], EntryOf[n])
    BY <2>1 DEF Approved, Score
  <2>4. EntryOf[n].from <= t
    BY <2>3, EventTypes, EntryTypes DEF TimeMatch
  <2>5. QED
    BY <1>2, <2>1, <2>2, <2>4
<1>4. ASSUME NEW n \in matched PROVE Explains(n, credit)
  <2>1. PICK e \in E \ vague : Score(EventOf[e], EntryOf[n]) > 0
    BY <1>2
  <2>2. n \in entries
    OBVIOUS
  <2>3. credit[e] = BestScore(EventOf[e], Rows(entries))
    BY <1>2, <2>1 DEF Credit
  <2>4. EntryOf[n] \in Rows(entries)
    BY <2>2 DEF Rows
  <2>5. Score(EventOf[e], EntryOf[n]) <= BestScore(EventOf[e], Rows(entries))
    BY <2>4, BestScoreIsLargest
  <2>6. Score(EventOf[e], EntryOf[n]) \in Int /\ BestScore(EventOf[e], Rows(entries)) \in Int
    BY BestScoreGrows DEF Score
  <2>7. credit[e] > 0
    BY <2>1, <2>3, <2>5, <2>6
  <2>8. e \in DOMAIN credit
    BY <1>2
  <2> HIDE DEF credit
  <2>9. QED
    BY <2>1, <2>7, <2>8 DEF Explains
<1>5. matched \subseteq Approved(ledger)
  OBVIOUS
<1> HIDE DEF matched, credit
<1>6. QED
  BY <1>1, <1>3, <1>4, <1>5 DEF a

LEMMA AssessedMatched ==
  ASSUME NEW row, RowTyped(row),
         NEW E, E \subseteq Events, NEW t \in Nat, \A e \in E : Time(e) <= t, NEW ledger,
         NEW signals
  PROVE  RowMatched(Assessed(row, Assessment(E, t, ledger, signals)), ledger)
<1> DEFINE a == Assessment(E, t, ledger, signals)
<1>1. /\ a.matched \subseteq Approved(ledger)
      /\ \A n \in Approved(ledger) : n \in a.matched <=> Explains(n, a.credit)
  BY AssessmentMatched
<1> HIDE DEF a
<1>2. Assessed(row, a).matched = a.matched /\ Assessed(row, a).credit = a.credit
  BY DEF Assessed, RowTyped, CaseRow
<1>3. \A n \in Approved(ledger) : ledger[n] = "approved"
  BY DEF Approved
<1>4. RowMatched(Assessed(row, a), ledger)
  BY <1>1, <1>2, <1>3 DEF RowMatched
<1>5. QED
  BY <1>4 DEF a

LEMMA RecomputedMatched ==
  ASSUME ingested \subseteq Events, NEW row, RowTyped(row), NEW E, E \subseteq ingested, NEW ledger,
         NEW signals
  PROVE  RowMatched(Recomputed(row, E, ledger, signals), ledger)
<1> DEFINE events == IF E # {} THEN E
                     ELSE Happened(ingested, row.created - WINDOW_48H, row.created + WINDOW_48H)
           T == {row.created} \cup {Time(e) : e \in events}
           asOf == Max(T)
<1>1. Recomputed(row, E, ledger, signals) =
        Assessed(row, Assessment(events, asOf, ledger, signals))
  BY DEF Recomputed
<1>2. events \subseteq Events /\ row.created \in Nat
  BY DEF Happened, RowTyped, CaseRow
<1> HIDE DEF events
<1>3. PICK b \in Nat : \A e \in Events : Time(e) <= b
  BY TimesAreBounded
<1>4. T \in SUBSET Nat /\ T # {}
  BY <1>2, EventTypes
<1>5. b + row.created \in Nat /\ \A x \in T : x <= b + row.created
  <2>1. \A e \in events : Time(e) \in Nat /\ Time(e) <= b
    BY <1>2, <1>3, EventTypes
  <2>2. QED
    BY <1>2, <2>1
<1>6. asOf \in T /\ \A x \in T : x <= asOf
  BY <1>4, <1>5, LargestExists
<1>7. asOf \in Nat /\ \A e \in events : Time(e) <= asOf
  BY <1>4, <1>6
<1> HIDE DEF asOf, T
<1>8. QED
  BY <1>1, <1>2, <1>7, AssessedMatched

(* A case that an approval does not reassess has no event in the range of  *)
(* the entry, nor of the one it supersedes.                                *)
LEMMA UnaffectedMatched ==
  ASSUME TypeInv, NEW n \in Entries, MayApprove(n), NEW c \in Cases, c \notin AffectedBy(n),
         RowMatched(case[c], approval)
  PROVE  RowMatched(case[c], Activated(n))
<1> DEFINE row == case[c]
           after == Activated(n)
<1>1. /\ approval \in [Entries -> Approval] /\ base \in [Entries -> Entries \cup {NoEntry}]
      /\ approval[n] = "pending" /\ row.matched \subseteq Entries
  BY DEF TypeInv, LedgerInv, LedgerOK, MayApprove, RowTyped, CaseRow
<1>2. n \notin row.matched
  BY <1>1 DEF RowMatched
<1>3. ~Explains(n, row.credit)
  BY CaseAssumption DEF Explains, AffectedBy, Evidence, Score
<1>4. \A m \in Entries : after[m] = IF m = n THEN "approved"
                                    ELSE IF m = base[n] THEN "superseded" ELSE approval[m]
  BY DEF Activated
<1> HIDE DEF after
<1>5. ASSUME NEW m \in row.matched PROVE after[m] \in {"approved", "superseded"}
  BY <1>1, <1>4, <1>5 DEF RowMatched
<1>6. ASSUME NEW m \in Approved(after) PROVE m \in row.matched <=> Explains(m, row.credit)
  <2>1. m \in Entries /\ after[m] = "approved"
    BY DEF Approved
  <2>2. m = n \/ m \in Approved(approval)
    BY <1>4, <2>1 DEF Approved
  <2>3. QED
    BY <1>2, <1>3, <2>2 DEF RowMatched
<1>7. QED
  BY <1>5, <1>6 DEF RowMatched, after

LEMMA CreateOrUpdateMatched ==
  ASSUME TypeInv, MatchedInv, NEW E, E \subseteq Events, NEW t \in Nat, \A e \in E : Time(e) <= t,
         NEW signals, CreateOrUpdate(E, t, signals)
  PROVE  \A c \in DOMAIN case' : RowMatched(case'[c], approval)
<1> DEFINE result == Assessment(E, t, approval, signals)
<1>1. ASSUME NEW row, RowTyped(row) PROVE RowMatched(Assessed(row, result), approval)
  BY <1>1, AssessedMatched
<1> HIDE DEF result
<1>2. \A c \in DOMAIN case : RowTyped(case[c]) /\ RowMatched(case[c], approval)
  BY DEF TypeInv, MatchedInv, Cases
<1>3. CASE case' = [case EXCEPT ![NewestLive] = Assessed(@, result)]
  <2>1. DOMAIN case' = DOMAIN case
        /\ \A c \in DOMAIN case : case'[c] = case[c] \/ case'[c] = Assessed(case[c], result)
    BY <1>3
  <2>2. QED
    BY <1>1, <1>2, <2>1
<1>4. ASSUME NEW id,
             case' = [c \in Cases \cup {id} |->
                        IF c \in Cases THEN case[c] ELSE Assessed(NoCase(t), result)]
      PROVE  \A c \in DOMAIN case' : RowMatched(case'[c], approval)
  <2> DEFINE fresh == NoCase(t)
  <2>1. RowTyped(fresh)
    <3>1. /\ DOMAIN fresh.credit = {} /\ fresh.credit \in [{} -> 0..2]
          /\ fresh.raw \in [{} -> 0..256]
      BY DEF NoCase
    <3>2. fresh \in CaseRow({})
      BY <3>1 DEF NoCase, CaseRow, CaseStatus, LiveStatus
    <3>3. QED
      BY <3>1, <3>2 DEF RowTyped
  <2> HIDE DEF fresh
  <2>2. case' = [c \in Cases \cup {id} |-> IF c \in Cases THEN case[c] ELSE Assessed(fresh, result)]
    BY <1>4 DEF fresh
  <2>3. QED
    BY <1>1, <1>2, <2>1, <2>2 DEF Cases
<1>5. QED
  BY <1>3, <1>4 DEF CreateOrUpdate, result

(* What a detection builds a case of: committed events up to its time.     *)
LEMMA DetectionWindow ==
  ASSUME CreditInv, NEW p \in Sessions, DetectByRisk(p) \/ Build(p)
  PROVE  /\ UNCHANGED <<approval, ingested>>
         /\ \/ UNCHANGED case
            \/ \E t \in Nat : \E E \in SUBSET ingested :
                 /\ \A e \in E : Time(e) <= t
                 /\ \E signals \in SignalsSeen : CreateOrUpdate(E, t, signals)
<1> DEFINE t == Time(txn[p].event)
<1>1. txn[p].event \in ingested
  BY DEF DetectByRisk, Build, Detecting, Idle, CreditInv, EventKnown
<1>2. t \in Nat
  BY <1>1, EventTypes DEF CreditInv
<1> HIDE DEF t
<1>3. CASE DetectByRisk(p)
  <2>1. RecentUnusual(t) \in SUBSET ingested /\ \A e \in RecentUnusual(t) : Time(e) <= t
    BY DEF RecentUnusual, Unusual, Happened
  <2>2. UNCHANGED case \/ \E signals \in SignalsSeen : CreateOrUpdate(RecentUnusual(t), t, signals)
    BY <1>3 DEF DetectByRisk, BuildIfRisk, t
  <2>3. UNCHANGED <<approval, ingested>>
    BY <1>3 DEF DetectByRisk
  <2>4. QED
    BY <1>2, <2>1, <2>2, <2>3
<1>4. CASE Build(p)
  <2> DEFINE cp == txn[p].at
             E == Transition(cp, t)
  <2>1. cp \in Int
    BY <1>4 DEF Build, Idle, CreditInv, EventKnown
  <2> HIDE DEF cp
  <2> DEFINE until == cp + WINDOW_48H
  <2>4. E \subseteq Happened(ingested, cp - TRANSITION_LEAD, Min({until, t}))
    BY DEF Transition, Unusual
  <2>2. until \in Int
    BY <2>1 DEF WINDOW_48H
  <2> HIDE DEF until
  <2>3. Min({until, t}) \in Int /\ Min({until, t}) <= t
    <3>1. Min({until, t}) = IF until <= t THEN until ELSE t
      BY <1>2, <2>2, LargerOfTwo
    <3>2. QED
      BY <1>2, <2>2, <3>1
  <2>5. ASSUME NEW e \in E PROVE e \in ingested /\ Time(e) <= t
    <3>1. e \in ingested /\ Time(e) <= Min({until, t})
      BY <2>4 DEF Happened
    <3>2. Time(e) \in Nat
      BY <3>1, EventTypes DEF CreditInv
    <3>3. QED
      BY <1>2, <2>3, <3>1, <3>2
  <2>6. /\ \E signals \in SignalsSeen : CreateOrUpdate(E, t, signals)
        /\ UNCHANGED <<approval, ingested>>
    BY <1>4 DEF Build, t, cp
  <2> HIDE DEF E
  <2>7. E \in SUBSET ingested /\ \A e \in E : Time(e) <= t
    BY <2>5
  <2>8. QED
    BY <1>2, <2>6, <2>7
<1>5. QED
  BY <1>3, <1>4

LEMMA MatchedNext ==
  ASSUME TypeInv, MatchedInv, [Next]_vars
  PROVE  MatchedInv'
<1>1. /\ CreditInv /\ ingested \subseteq Events /\ Cases = DOMAIN case
      /\ approval \in [Entries -> Approval]
      /\ \A c \in Cases : RowTyped(case[c]) /\ RowMatched(case[c], approval)
  BY DEF TypeInv, CreditInv, LedgerInv, LedgerOK, MatchedInv, Cases
<1> DEFINE Goal == MatchedInv'
<1>2. ASSUME NEW ledger, approval' = ledger, \A c \in DOMAIN case' : RowMatched(case'[c], ledger)
      PROVE  Goal
  <2>1. ASSUME NEW c \in DOMAIN case' PROVE RowMatched(case[c], approval)'
    <3>1. RowMatched(case'[c], approval')
      BY <1>2
    <3>2. QED
      BY <3>1 DEF RowMatched, Approved, Explains
  <2>2. QED
    BY <2>1 DEF MatchedInv, Cases
<1>3. ASSUME UNCHANGED case, Approved(approval') = Approved(approval),
             \A n \in Entries : approval[n] \in {"approved", "superseded"} => approval'[n] = approval[n]
      PROVE  Goal
  <2>1. ASSUME NEW c \in Cases PROVE RowMatched(case[c], approval')
    <3>1. RowMatched(case[c], approval) /\ case[c].matched \subseteq Entries
      BY <1>1 DEF RowTyped, CaseRow
    <3>2. QED
      BY <1>3, <3>1 DEF RowMatched
  <2>2. QED
    BY <1>1, <1>2, <1>3, <2>1
<1>4. ASSUME NEW c, NEW row, case' = [case EXCEPT ![c] = row], UNCHANGED approval,
             c \in Cases => RowMatched(row, approval)
      PROVE  Goal
  BY <1>1, <1>2, <1>4
<1>5. ASSUME NEW p \in Sessions, Reopen(p) PROVE Goal
  <2> DEFINE reopened == {c \in Cases : case[c].status = "resolved" /\ Outside(c, txn[p].event)}
  <2>1. /\ case' = [c \in Cases |-> IF c \in reopened THEN [case[c] EXCEPT !.status = "reopened"]
                                    ELSE case[c]]
        /\ UNCHANGED approval
    BY <1>5 DEF Reopen
  <2>2. "reopened" \in CaseStatus
    BY DEF CaseStatus, LiveStatus
  <2> HIDE DEF reopened
  <2>3. ASSUME NEW c \in Cases PROVE RowMatched(case'[c], approval)
    <3>1. RowMatched([case[c] EXCEPT !.status = "reopened"], approval)
      BY <1>1, <2>2, StatusTyped DEF RowMatched
    <3>2. QED
      BY <1>1, <2>1, <3>1
  <2>4. QED
    BY <1>2, <2>1, <2>3
<1>6. ASSUME NEW p \in Sessions, RecomputeReopened(p) PROVE Goal
  <2>5. PICK signals \in SignalsSeen :
          case' = [case EXCEPT ![Min(txn[p].todo)] =
                     Recomputed(@, Evidence(Min(txn[p].todo)) \cup {txn[p].event}, approval, signals)]
    BY <1>6 DEF RecomputeReopened
  <2> DEFINE c == Min(txn[p].todo)
             row == Recomputed(case[c], Evidence(c) \cup {txn[p].event}, approval, signals)
  <2>1. case' = [case EXCEPT ![c] = row] /\ UNCHANGED approval
    BY <1>6, <2>5 DEF RecomputeReopened
  <2>2. txn[p].event \in ingested
    BY <1>6 DEF RecomputeReopened, Idle, TypeInv, CreditInv, EventKnown
  <2>3. c \in Cases => RowMatched(row, approval)
    <3> HIDE DEF c
    <3>1. c \in Cases => Evidence(c) \subseteq ingested
      BY DEF TypeInv, CreditInv, RowCurrent, Evidence
    <3>2. QED
      BY <1>1, <2>2, <3>1, RecomputedMatched
  <2> HIDE DEF c, row
  <2>4. QED
    BY <1>4, <2>1, <2>3
<1>7. ASSUME NEW p \in Sessions, DetectByRisk(p) \/ Build(p) PROVE Goal
  <2>1. UNCHANGED approval
    BY <1>1, <1>7, DetectionWindow
  <2>2. CASE UNCHANGED case
    BY <1>1, <1>2, <2>1, <2>2
  <2>3. ASSUME NEW t \in Nat, NEW E \in SUBSET ingested, \A e \in E : Time(e) <= t,
               NEW signals \in SignalsSeen, CreateOrUpdate(E, t, signals)
        PROVE  Goal
    <3>1. \A c \in DOMAIN case' : RowMatched(case'[c], approval)
      BY <1>1, <2>3, CreateOrUpdateMatched
    <3>2. QED
      BY <1>2, <2>1, <3>1
  <2>4. QED
    BY <1>1, <1>7, <2>2, <2>3, DetectionWindow
<1>8. ASSUME NEW n \in Entries, Approve(n) PROVE Goal
  <2>5. PICK signals \in [AffectedBy(n) -> SignalsSeen] :
          case' = [c \in Cases |->
                     IF c \in AffectedBy(n) THEN Reassessed(c, n, signals[c]) ELSE case[c]]
    BY <1>8 DEF Approve
  <2>1. DOMAIN case' = Cases /\ approval' = Activated(n) /\ MayApprove(n)
    BY <1>8 DEF Approve
  <2>2. ASSUME NEW c \in Cases, c \in AffectedBy(n) PROVE RowMatched(case'[c], Activated(n))
    <3> DEFINE row == Recomputed(case[c], Evidence(c), Activated(n), signals[c])
               late == LateContext(n) /\ CoverageRises(case[c], row)
    <3>1. case'[c] = [row EXCEPT !.flagged = row.flagged \/ late]
      BY <2>2, <2>5 DEF Reassessed
    <3>6. signals[c] \in SignalsSeen
      BY <2>2
    <3>2. Evidence(c) \subseteq ingested
      BY DEF TypeInv, CreditInv, RowCurrent, Evidence
    <3>3. RowMatched(row, Activated(n)) /\ RowTyped(row)
      BY <1>1, <3>2, <3>6, RecomputedMatched, RecomputedTyped
    <3> HIDE DEF row, late
    <3>4. case'[c].credit = row.credit /\ case'[c].matched = row.matched
      BY <3>1, <3>3 DEF RowTyped, CaseRow
    <3>5. QED
      BY <3>3, <3>4 DEF RowMatched
  <2>3. ASSUME NEW c \in Cases, c \notin AffectedBy(n) PROVE RowMatched(case'[c], Activated(n))
    <3>1. case'[c] = case[c]
      BY <2>3, <2>5
    <3>2. QED
      BY <1>1, <2>1, <2>3, <3>1, UnaffectedMatched
  <2>4. QED
    BY <1>2, <2>1, <2>2, <2>3
<1>9. ASSUME NEW c \in Cases, NEW verdict \in Verdict, Feedback(c, verdict) PROVE Goal
  <2> DEFINE row == [case[c] EXCEPT !.status = StatusAfter(verdict)]
  <2>1. case' = [case EXCEPT ![c] = row] /\ UNCHANGED approval
    BY <1>9 DEF Feedback
  <2>2. StatusAfter(verdict) \in CaseStatus
    BY DEF StatusAfter, Verdict, CaseStatus, LiveStatus
  <2>3. RowMatched(row, approval)
    BY <1>1, <2>2, StatusTyped DEF RowMatched
  <2> HIDE DEF row
  <2>4. QED
    BY <1>4, <2>1, <2>3
<1>10. ASSUME NEW n \in Entries, NEW previous \in Entries \cup {NoEntry},
              Propose(n, previous) \/ Reject(n)
       PROVE  Goal
  <2>1. UNCHANGED case /\ \A m \in Entries :
          approval'[m] = approval[m]
            \/ (approval[m] \in {"absent", "pending"} /\ approval'[m] \in {"pending", "rejected"})
    <3>1. CASE Propose(n, previous)
      BY <1>1, <3>1 DEF Propose
    <3>2. CASE Reject(n)
      BY <1>1, <3>2 DEF Reject
    <3>3. QED
      BY <1>10, <3>1, <3>2
  <2>2. Approved(approval') = Approved(approval)
    BY <2>1 DEF Approved
  <2>3. QED
    BY <1>3, <2>1, <2>2
<1>11. ASSUME \/ UNCHANGED vars \/ TimePasses
              \/ \E p \in Sessions : \/ \E e \in Events : Ingest(p, e)
                                     \/ DetectNothing(p) \/ Rearm(p) \/ Latch(p) \/ Crash(p)
       PROVE  Goal
  <2>1. UNCHANGED <<case, approval>>
    BY <1>11 DEF vars, TimePasses, Ingest, DetectNothing, Rearm, Latch, Crash
  <2>2. QED
    BY <1>1, <1>2, <2>1
<1> HIDE DEF Goal
<1>12. Goal
  BY <1>5, <1>6, <1>7, <1>8, <1>9, <1>10, <1>11 DEF Next, IngestStep
<1>13. QED
  BY <1>12 DEF Goal

(* What check_auto_reopen rests on: of the entries in force a case's       *)
(* matched ones are those that explain some of it, whatever was approved,  *)
(* revised, ingested or lost in a crash since it was assessed.             *)
THEOREM MatchedIsAlwaysCurrent == Spec => []MatchedIsCurrent
<1>1. Init => MatchedInv
  BY DEF Init, MatchedInv, Cases
<1>2. TypeInv /\ MatchedInv /\ [Next]_vars => MatchedInv'
  BY MatchedNext
<1>3. TypeInv /\ MatchedInv => MatchedIsCurrent
  BY DEF MatchedInv, RowMatched, Explains, MatchedIsCurrent, Evidence
<1>4. QED
  BY <1>1, <1>2, <1>3, TypeInvariant, PTL DEF Spec
-----------------------------------------------------------------------------
(* The folds of the scores.  Pick is the element the community modules'    *)
(* folds take next; a fold runs over the subsets of what it is given.      *)
Pick(s) == CHOOSE x \in s : TRUE

IsFold(g, R, unit, S) ==
  \A s \in SUBSET S : g[s] = IF s = {} THEN unit ELSE R[Pick(s)][g[s \ {Pick(s)}]]

LEMMA AllNumbers ==
  ASSUME NEW N \in SUBSET Nat, 0 \in N, \A n \in N : n + 1 \in N
  PROVE  N = Nat
<1> DEFINE Rest == Nat \ N
<1>1. SUFFICES ASSUME Rest # {} PROVE FALSE
  OBVIOUS
<1>2. Rest \in SUBSET Nat
  OBVIOUS
<1>3. PICK m \in Rest : \A k \in Rest : ~(<<k, m>> \in OpToRel(<, Nat))
  BY <1>1, <1>2, WFMin, NatLessThanWellFounded, Zenon
<1>4. m \in Nat /\ m # 0
  OBVIOUS
<1>5. m - 1 \in Nat /\ m - 1 < m /\ (m - 1) + 1 = m
  BY <1>4
<1>6. m - 1 \in N
  BY <1>3, <1>4, <1>5 DEF OpToRel
<1>7. QED
  BY <1>5, <1>6

LEMMA AllSubsets ==
  ASSUME NEW S, IsFiniteSet(S), NEW Good \in SUBSET SUBSET S, {} \in Good,
         \A s \in SUBSET S : s # {} /\ s \ {Pick(s)} \in Good => s \in Good
  PROVE  S \in Good
<1> DEFINE N == {n \in Nat : \A s \in SUBSET S : Cardinality(s) = n => s \in Good}
<1>1. \A s \in SUBSET S : IsFiniteSet(s) /\ Cardinality(s) \in Nat
  BY FS_Subset, FS_CardinalityType
<1>2. 0 \in N
  BY <1>1, FS_EmptySet
<1>3. ASSUME NEW n \in N PROVE n + 1 \in N
  <2> SUFFICES ASSUME NEW s \in SUBSET S, Cardinality(s) = n + 1 PROVE s \in Good
    OBVIOUS
  <2>1. n \in Nat /\ s # {}
    BY FS_EmptySet
  <2>2. Pick(s) \in s
    BY <2>1 DEF Pick
  <2>3. Cardinality(s \ {Pick(s)}) = Cardinality(s) - 1
    BY <1>1, <2>2, FS_RemoveElement
  <2>4. Cardinality(s \ {Pick(s)}) = n
    BY <2>1, <2>3
  <2>5. s \ {Pick(s)} \in Good
    BY <2>4
  <2>6. QED
    BY <2>1, <2>5
<1>4. N \in SUBSET Nat
  OBVIOUS
<1> HIDE DEF N
<1>5. N = Nat
  BY <1>2, <1>3, <1>4, AllNumbers
<1>6. QED
  BY <1>1, <1>5 DEF N

(* There is a fold of every finite set.                                    *)
LEMMA FoldExists ==
  ASSUME NEW S, IsFiniteSet(S), NEW unit \in Nat, NEW R \in [S -> [Nat -> Nat]]
  PROVE  \E g \in [SUBSET S -> Nat] : IsFold(g, R, unit, S)
<1> DEFINE Value(g, s) == IF s = {} THEN unit ELSE R[Pick(s)][g[s \ {Pick(s)}]]
           Upto(g, n) == \A s \in SUBSET S : Cardinality(s) <= n => g[s] = Value(g, s)
           N == {n \in Nat : \E g \in [SUBSET S -> Nat] : Upto(g, n)}
<1>1. \A s \in SUBSET S : IsFiniteSet(s) /\ Cardinality(s) \in Nat
  BY FS_Subset, FS_CardinalityType
<1>2. ASSUME NEW g \in [SUBSET S -> Nat], NEW s \in SUBSET S PROVE Value(g, s) \in Nat
  <2>1. s # {} => Pick(s) \in S /\ s \ {Pick(s)} \in SUBSET S
    BY DEF Pick
  <2>2. QED
    BY <2>1
<1>3. ASSUME NEW s \in SUBSET S, s # {}
      PROVE  s \ {Pick(s)} \in SUBSET S /\ Cardinality(s \ {Pick(s)}) = Cardinality(s) - 1
  <2>1. Pick(s) \in s
    BY <1>3 DEF Pick
  <2>2. Cardinality(s \ {Pick(s)}) = Cardinality(s) - 1
    BY <1>1, <2>1, FS_RemoveElement
  <2>3. QED
    BY <2>2
<1>4. 0 \in N
  <2> DEFINE g == [s \in SUBSET S |-> unit]
  <2>1. g \in [SUBSET S -> Nat]
    OBVIOUS
  <2>2. ASSUME NEW s \in SUBSET S, Cardinality(s) <= 0 PROVE g[s] = Value(g, s)
    <3>1. s = {}
      BY <1>1, <2>2, FS_EmptySet
    <3>2. QED
      BY <3>1
  <2>3. QED
    BY <2>1, <2>2
<1>5. ASSUME NEW n \in N PROVE n + 1 \in N
  <2>1. n \in Nat
    OBVIOUS
  <2>2. PICK g \in [SUBSET S -> Nat] : Upto(g, n)
    OBVIOUS
  <2> DEFINE h == [s \in SUBSET S |-> Value(g, s)]
  <2>3. h \in [SUBSET S -> Nat]
    BY <1>2
  <2>4. \A s \in SUBSET S : Cardinality(s) <= n => h[s] = g[s]
    BY <2>2
  <2>5. ASSUME NEW s \in SUBSET S, Cardinality(s) <= n + 1 PROVE h[s] = Value(h, s)
    <3>1. CASE s = {}
      BY <3>1
    <3>2. CASE s # {}
      <4>1. s \ {Pick(s)} \in SUBSET S /\ Cardinality(s \ {Pick(s)}) <= n
        <5>1. /\ s \ {Pick(s)} \in SUBSET S /\ Cardinality(s) \in Nat
              /\ Cardinality(s \ {Pick(s)}) = Cardinality(s) - 1
          BY <1>1, <1>3, <3>2
        <5>2. QED
          BY <2>1, <2>5, <5>1
      <4>2. h[s \ {Pick(s)}] = g[s \ {Pick(s)}]
        BY <2>4, <4>1
      <4>3. h[s] = Value(g, s)
        OBVIOUS
      <4> HIDE DEF h
      <4>4. QED
        BY <3>2, <4>2, <4>3
    <3>3. QED
      BY <3>1, <3>2
  <2> HIDE DEF h, Value
  <2>6. QED
    BY <2>1, <2>3, <2>5
<1>6. N \in SUBSET Nat
  OBVIOUS
<1> HIDE DEF N
<1>7. N = Nat
  BY <1>4, <1>5, <1>6, AllNumbers
<1>8. PICK g \in [SUBSET S -> Nat] : Upto(g, Cardinality(S))
  BY <1>1, <1>7 DEF N
<1>9. \A s \in SUBSET S : Cardinality(s) <= Cardinality(S)
  BY FS_Subset
<1>10. QED
  BY <1>8, <1>9 DEF IsFold

LEMMA ProductsGrow ==
  ASSUME NEW a \in Nat, NEW b \in Nat, NEW x \in Nat, NEW y \in Nat, a <= b, x <= y
  PROVE  a * x \in Nat /\ a * x <= b * y
<1>1. \A n \in Nat, m \in Nat : n * m \in Nat
  OBVIOUS
<1>2. (b - a) \in Nat /\ (y - x) \in Nat
  OBVIOUS
<1>3. (b - a) * x \in Nat /\ b * (y - x) \in Nat
  BY <1>1, <1>2
<1>4. b * y = a * x + (b - a) * x + b * (y - x)
  BY <1>2
<1>5. a * x \in Nat
  BY <1>1
<1>6. QED
  BY <1>3, <1>4, <1>5

Remainder(risk) == [e \in DOMAIN risk |-> [v \in Nat |-> (512 - risk[e]) * v]]

(* g multiplies what its events leave of the risk, over the subsets of S.  *)
Multiplies(g, risk, S) ==
  /\ g[{}] = 1
  /\ \A s \in SUBSET S : s # {} => g[s] = (512 - risk[Pick(s)]) * g[s \ {Pick(s)}]

LEMMA ComplementFold ==
  ASSUME NEW S, IsFiniteSet(S), NEW risk \in [S -> 0..512]
  PROVE  \E g \in [SUBSET S -> Nat] : Complement(risk) = g[S] /\ Multiplies(g, risk, S)
<1> DEFINE w == [e \in DOMAIN risk |-> 512 - risk[e]]
           Fold(h) == h = [s \in SUBSET DOMAIN w |->
                             IF s = {} THEN 1
                             ELSE w[CHOOSE x \in s : TRUE] * h[s \ {CHOOSE x \in s : TRUE}]]
           h == CHOOSE h : Fold(h)
<1>1. DOMAIN w = S
  OBVIOUS
<1>2. Complement(risk) = h[DOMAIN w]
  BY DEF Complement, FoldFunction, FoldFunctionOnSet, MapThenFoldSet
<1>3. Remainder(risk) \in [S -> [Nat -> Nat]]
  <2>1. \A e \in S, v \in Nat : (512 - risk[e]) * v \in Nat
    BY ProductsGrow
  <2>2. QED
    BY <2>1 DEF Remainder
<1>4. PICK g \in [SUBSET S -> Nat] : IsFold(g, Remainder(risk), 1, S)
  BY <1>3, FoldExists
<1>5. ASSUME NEW s \in SUBSET S, s # {} PROVE Pick(s) \in S /\ s \ {Pick(s)} \in SUBSET S
  BY <1>5 DEF Pick
<1>6. Multiplies(g, risk, S)
  <2>1. ASSUME NEW s \in SUBSET S, s # {}
        PROVE  g[s] = (512 - risk[Pick(s)]) * g[s \ {Pick(s)}]
    BY <1>4, <1>5, <2>1 DEF IsFold, Remainder
  <2>2. QED
    BY <1>4, <2>1 DEF IsFold, Multiplies
<1>7. Fold(g)
  <2>1. ASSUME NEW s \in SUBSET S, s # {} PROVE g[s] = w[Pick(s)] * g[s \ {Pick(s)}]
    BY <1>5, <1>6, <2>1 DEF Multiplies
  <2>2. g[{}] = 1
    BY <1>4 DEF IsFold
  <2>3. DOMAIN w = S
    OBVIOUS
  <2> HIDE DEF w
  <2>5. \A s \in SUBSET S : g[s] = IF s = {} THEN 1 ELSE w[Pick(s)] * g[s \ {Pick(s)}]
    BY <2>1, <2>2
  <2>6. g = [s \in SUBSET S |-> IF s = {} THEN 1 ELSE w[Pick(s)] * g[s \ {Pick(s)}]]
    BY <2>5
  <2>4. QED
    BY <2>3, <2>6 DEF Pick
<1>8. Fold(h)
  <2> HIDE DEF Fold
  <2>1. QED
    BY <1>7
<1> HIDE DEF h
<1>9. \A s \in SUBSET S : h[s] = IF s = {} THEN 1 ELSE w[Pick(s)] * h[s \ {Pick(s)}]
  <2>1. DOMAIN w = S
    OBVIOUS
  <2> HIDE DEF w
  <2>2. QED
    BY <1>8, <2>1 DEF Pick
<1>10. h[S] = g[S]
  <2> DEFINE Good == {s \in SUBSET S : h[s] = g[s]}
  <2>1. {} \in Good
    BY <1>4, <1>9 DEF IsFold
  <2>2. ASSUME NEW s \in SUBSET S, s # {}, s \ {Pick(s)} \in Good PROVE s \in Good
    <3>1. h[s] = w[Pick(s)] * h[s \ {Pick(s)}]
      BY <1>9, <2>2
    <3>2. g[s] = w[Pick(s)] * g[s \ {Pick(s)}]
      BY <1>5, <1>6, <2>2 DEF Multiplies
    <3>3. h[s \ {Pick(s)}] = g[s \ {Pick(s)}]
      BY <2>2
    <3> HIDE DEF w
    <3>4. QED
      BY <3>1, <3>2, <3>3
  <2> HIDE DEF Good
  <2>3. S \in Good
    <3>1. Good \in SUBSET SUBSET S
      BY DEF Good
    <3>2. QED
      BY <2>1, <2>2, <3>1, AllSubsets
  <2>4. QED
    BY <2>3 DEF Good
<1>11. QED
  BY <1>1, <1>2, <1>10, <1>6

LEMMA ComplementType ==
  ASSUME NEW S, IsFiniteSet(S), NEW risk \in [S -> 0..512]
  PROVE  Complement(risk) \in Nat
<1>1. PICK g \in [SUBSET S -> Nat] : Complement(risk) = g[S] /\ Multiplies(g, risk, S)
  BY ComplementFold
<1>2. QED
  BY <1>1

(* Less risk of every event leaves no less probability of none.            *)
LEMMA ComplementFalls ==
  ASSUME NEW S, IsFiniteSet(S), NEW low \in [S -> 0..512], NEW high \in [S -> 0..512],
         \A e \in S : low[e] <= high[e]
  PROVE  Complement(high) <= Complement(low)
<1>1. PICK l \in [SUBSET S -> Nat] :
        Complement(low) = l[S] /\ Multiplies(l, low, S)
  BY ComplementFold
<1>2. PICK h \in [SUBSET S -> Nat] :
        Complement(high) = h[S] /\ Multiplies(h, high, S)
  BY ComplementFold
<1>8. ASSUME NEW s \in SUBSET S, s # {}
      PROVE  /\ Pick(s) \in s
             /\ h[s \ {Pick(s)}] \in Nat /\ h[s] = (512 - high[Pick(s)]) * h[s \ {Pick(s)}]
             /\ l[s \ {Pick(s)}] \in Nat /\ l[s] = (512 - low[Pick(s)]) * l[s \ {Pick(s)}]
  <2>1. Pick(s) \in s /\ s \ {Pick(s)} \in SUBSET S
    BY <1>8 DEF Pick
  <2>2. h[s] = (512 - high[Pick(s)]) * h[s \ {Pick(s)}]
    BY <1>2, <1>8 DEF Multiplies
  <2>3. l[s] = (512 - low[Pick(s)]) * l[s \ {Pick(s)}]
    BY <1>1, <1>8 DEF Multiplies
  <2>4. QED
    BY <2>1, <2>2, <2>3
<1> DEFINE Good == {s \in SUBSET S : h[s] <= l[s]}
<1>3. {} \in Good
  BY <1>1, <1>2 DEF Multiplies
<1>4. ASSUME NEW s \in SUBSET S, s # {}, s \ {Pick(s)} \in Good PROVE s \in Good
  <2> DEFINE x == Pick(s)
             a == 512 - high[x]
             b == 512 - low[x]
             u == h[s \ {x}]
             v == l[s \ {x}]
  <2>1. x \in S /\ u \in Nat /\ v \in Nat /\ h[s] = a * u /\ l[s] = b * v
    BY <1>4, <1>8
  <2>2. a \in Nat /\ b \in Nat /\ a <= b
    <3> DEFINE k == 512
    <3>1. k \in Nat /\ low[x] \in 0..k /\ high[x] \in 0..k /\ low[x] <= high[x]
      BY <2>1
    <3>2. a = k - high[x] /\ b = k - low[x]
      OBVIOUS
    <3> HIDE DEF a, b, x, k
    <3>3. QED
      BY <3>1, <3>2
  <2>3. u <= v
    BY <1>4
  <2> HIDE DEF a, b, u, v
  <2>4. a * u <= b * v
    BY <2>1, <2>2, <2>3, ProductsGrow
  <2>5. QED
    BY <2>1, <2>4
<1>5. Good \in SUBSET SUBSET S
  OBVIOUS
<1> HIDE DEF Good
<1>6. S \in Good
  BY <1>3, <1>4, <1>5, AllSubsets
<1>7. QED
  BY <1>1, <1>2, <1>6 DEF Good

(* One event of a quarter is a quarter at least of the whole.              *)
LEMMA QuarterCounts ==
  ASSUME NEW S, IsFiniteSet(S), NEW risk \in [S -> 0..512], NEW e \in S, risk[e] >= 128
  PROVE  AtLeast(risk, 5)
<1> DEFINE zero == [x \in S |-> 0]
<1>1. zero \in [S -> 0..512] /\ \A x \in S : zero[x] = 0
  OBVIOUS
<1> HIDE DEF zero
<1>2. PICK g \in [SUBSET S -> Nat] :
        Complement(risk) = g[S] /\ Multiplies(g, risk, S)
  BY ComplementFold
<1>3. PICK z \in [SUBSET S -> Nat] :
        Complement(zero) = z[S] /\ Multiplies(z, zero, S)
  BY <1>1, ComplementFold
<1>12. ASSUME NEW s \in SUBSET S, s # {}
      PROVE  /\ Pick(s) \in s
             /\ g[s \ {Pick(s)}] \in Nat /\ 512 - risk[Pick(s)] \in 0..512
             /\ g[s] = (512 - risk[Pick(s)]) * g[s \ {Pick(s)}]
  <2>1. Pick(s) \in s /\ s \ {Pick(s)} \in SUBSET S
    BY <1>12 DEF Pick
  <2>2. risk[Pick(s)] \in 0..512
    BY <2>1
  <2>3. QED
    BY <1>2, <1>12, <2>1, <2>2 DEF Multiplies
<1>13. ASSUME NEW s \in SUBSET S, s # {}
      PROVE  /\ z[s \ {Pick(s)}] \in Nat
             /\ z[s] = (512 - zero[Pick(s)]) * z[s \ {Pick(s)}]
  <2>1. s \ {Pick(s)} \in SUBSET S
    OBVIOUS
  <2>2. QED
    BY <1>3, <1>13, <2>1 DEF Multiplies
<1> DEFINE Good == {s \in SUBSET S : g[s] <= z[s] /\ (e \in s => 4 * g[s] <= 3 * z[s])}
<1>4. {} \in Good
  BY <1>2, <1>3 DEF Multiplies
<1>5. ASSUME NEW s \in SUBSET S, s # {}, s \ {Pick(s)} \in Good PROVE s \in Good
  <2> DEFINE x == Pick(s)
             a == 512 - risk[x]
             u == g[s \ {x}]
             v == z[s \ {x}]
  <2>1. x \in s /\ a \in 0..512 /\ u \in Nat /\ g[s] = a * u
    BY <1>5, <1>12
  <2>2. v \in Nat /\ z[s] = 512 * v
    <3>1. v \in Nat /\ z[s] = (512 - zero[x]) * v
      BY <1>5, <1>13
    <3>2. zero[x] = 0
      BY <1>1, <2>1
    <3>3. QED
      BY <3>1, <3>2
  <2>3. u <= v /\ (x # e /\ e \in s => 4 * u <= 3 * v)
    BY <1>5
  <2>4. x = e => a <= 384
    OBVIOUS
  <2> HIDE DEF a, u, v, x
  <2>5. g[s] <= z[s]
    BY <2>1, <2>2, <2>3, ProductsGrow
  <2>6. ASSUME x = e PROVE 4 * g[s] <= 3 * z[s]
    <3>1. a * u <= 384 * v
      BY <2>1, <2>2, <2>3, <2>4, <2>6, ProductsGrow
    <3>2. a * u \in Nat
      BY <2>1, <2>2, <2>3, ProductsGrow
    <3>3. QED
      BY <2>1, <2>2, <3>1, <3>2
  <2>7. ASSUME x # e, e \in s PROVE 4 * g[s] <= 3 * z[s]
    <3>1. 4 * u \in Nat /\ 3 * v \in Nat /\ a \in Nat /\ a <= 512
      BY <2>1, <2>2
    <3>2. a * (4 * u) <= 512 * (3 * v)
      BY <2>3, <2>7, <3>1, ProductsGrow
    <3>3. a * (4 * u) = 4 * (a * u)
      BY <2>1
    <3>4. QED
      BY <2>1, <2>2, <3>2, <3>3
  <2>8. QED
    BY <2>5, <2>6, <2>7
<1>6. Good \in SUBSET SUBSET S
  OBVIOUS
<1> HIDE DEF Good
<1>7. S \in Good
  BY <1>4, <1>5, <1>6, AllSubsets
<1>8. 4 * Complement(risk) <= 3 * Complement(zero)
  BY <1>2, <1>3, <1>7 DEF Good
<1>9. Complement(risk) \in Nat /\ Complement(zero) \in Nat
  BY <1>2, <1>3
<1>10. AtLeast(risk, 5) <=> 20 * Complement(risk) <= 15 * Complement(zero)
  BY DEF AtLeast, zero
<1>11. QED
  BY <1>8, <1>9, <1>10

(* Sums over a case.                                                       *)
Adds(g, w, S) ==
  /\ g[{}] = 0
  /\ \A s \in SUBSET S : s # {} => g[s] = w[Pick(s)] + g[s \ {Pick(s)}]

LEMMA SumExists ==
  ASSUME NEW S, IsFiniteSet(S), NEW w \in [S -> Nat]
  PROVE  \E g \in [SUBSET S -> Nat] : Adds(g, w, S)
<1> DEFINE R == [e \in S |-> [v \in Nat |-> w[e] + v]]
<1>1. R \in [S -> [Nat -> Nat]]
  OBVIOUS
<1>2. PICK g \in [SUBSET S -> Nat] : IsFold(g, R, 0, S)
  <2> HIDE DEF R
  <2>1. QED
    BY <1>1, FoldExists
<1>3. ASSUME NEW s \in SUBSET S, s # {} PROVE g[s] = w[Pick(s)] + g[s \ {Pick(s)}]
  <2>1. Pick(s) \in S /\ g[s \ {Pick(s)}] \in Nat
    BY <1>3 DEF Pick
  <2>2. g[s] = R[Pick(s)][g[s \ {Pick(s)}]]
    <3> HIDE DEF R
    <3>1. QED
      BY <1>2, <1>3 DEF IsFold
  <2>3. QED
    BY <2>1, <2>2
<1>4. QED
  BY <1>2, <1>3 DEF IsFold, Adds

LEMMA SumsAgree ==
  ASSUME NEW S, IsFiniteSet(S), NEW w, NEW g, Adds(g, w, S), NEW h, Adds(h, w, S)
  PROVE  g[S] = h[S]
<1> DEFINE Good == {s \in SUBSET S : g[s] = h[s]}
<1>1. {} \in Good
  BY DEF Adds
<1>2. ASSUME NEW s \in SUBSET S, s # {}, s \ {Pick(s)} \in Good PROVE s \in Good
  BY <1>2 DEF Adds
<1>3. Good \in SUBSET SUBSET S
  OBVIOUS
<1> HIDE DEF Good
<1>4. S \in Good
  BY <1>1, <1>2, <1>3, AllSubsets
<1>5. QED
  BY <1>4 DEF Good

LEMMA SumsGrow ==
  ASSUME NEW S, IsFiniteSet(S), NEW low \in [S -> Nat], NEW high \in [S -> Nat],
         \A e \in S : low[e] <= high[e],
         NEW l \in [SUBSET S -> Nat], Adds(l, low, S),
         NEW h \in [SUBSET S -> Nat], Adds(h, high, S)
  PROVE  l[S] <= h[S]
<1> DEFINE Good == {s \in SUBSET S : l[s] <= h[s]}
<1>1. {} \in Good
  BY DEF Adds
<1>2. ASSUME NEW s \in SUBSET S, s # {}, s \ {Pick(s)} \in Good PROVE s \in Good
  <2>1. Pick(s) \in S /\ s \ {Pick(s)} \in SUBSET S
    BY <1>2 DEF Pick
  <2>2. l[s] = low[Pick(s)] + l[s \ {Pick(s)}] /\ h[s] = high[Pick(s)] + h[s \ {Pick(s)}]
    BY <1>2 DEF Adds
  <2>3. /\ l[s \ {Pick(s)}] \in Nat /\ h[s \ {Pick(s)}] \in Nat
        /\ low[Pick(s)] \in Nat /\ high[Pick(s)] \in Nat /\ low[Pick(s)] <= high[Pick(s)]
    BY <2>1
  <2>4. l[s \ {Pick(s)}] <= h[s \ {Pick(s)}]
    BY <1>2
  <2>5. QED
    BY <2>2, <2>3, <2>4
<1>3. Good \in SUBSET SUBSET S
  OBVIOUS
<1> HIDE DEF Good
<1>4. S \in Good
  BY <1>1, <1>2, <1>3, AllSubsets
<1>5. QED
  BY <1>4 DEF Good

(* What an event counts for in the total, and in what is covered of it.    *)
Weight(raw) == [e \in DOMAIN raw |-> 2 * raw[e]]
CreditWeight(raw, credit) == [e \in DOMAIN raw |-> raw[e] * credit[e]]

LEMMA WeightTypes ==
  ASSUME NEW S, NEW raw \in [S -> 0..256], NEW credit \in [S -> 0..2]
  PROVE  /\ Weight(raw) \in [S -> Nat] /\ CreditWeight(raw, credit) \in [S -> Nat]
         /\ \A e \in S : CreditWeight(raw, credit)[e] <= Weight(raw)[e]
<1> DEFINE whole == Weight(raw)
           part  == CreditWeight(raw, credit)
<1>1. \A e \in S : raw[e] \in Nat /\ credit[e] \in 0..2
  OBVIOUS
<1>2. ASSUME NEW e \in S PROVE part[e] \in Nat /\ whole[e] \in Nat /\ part[e] <= whole[e]
  <2> DEFINE r == raw[e]
             k == credit[e]
  <2>1. r \in Nat /\ k \in {0, 1, 2}
    BY <1>1
  <2>2. part[e] = r * k /\ whole[e] = 2 * r
    BY DEF Weight, CreditWeight
  <2> HIDE DEF r, k, part, whole
  <2>3. QED
    BY <2>1, <2>2
<1>3. whole \in [S -> Nat] /\ part \in [S -> Nat]
  BY <1>2 DEF Weight, CreditWeight
<1>4. QED
  BY <1>2, <1>3

LEMMA TotalFold ==
  ASSUME NEW S, IsFiniteSet(S), NEW raw \in [S -> 0..256]
  PROVE  \E g \in [SUBSET S -> Nat] : RiskTotal(raw) = g[S] /\ Adds(g, Weight(raw), S)
<1> DEFINE w == Weight(raw)
           Fold(h) == h = [s \in SUBSET S |->
                             IF s = {} THEN 0
                             ELSE 2 * raw[CHOOSE x \in s : TRUE] + h[s \ {CHOOSE x \in s : TRUE}]]
           h == CHOOSE h : Fold(h)
<1>1. DOMAIN raw = S
  OBVIOUS
<1>2. RiskTotal(raw) = h[S]
  BY <1>1 DEF RiskTotal, MapThenSumSet, MapThenFoldSet
<1>11. w \in [S -> Nat]
  <2>1. [e \in S |-> 0] \in [S -> 0..2]
    OBVIOUS
  <2>2. QED
    BY <2>1, WeightTypes
<1>4. ASSUME NEW s \in SUBSET S, s # {} PROVE w[Pick(s)] = 2 * raw[Pick(s)]
  BY <1>4 DEF Pick, Weight
<1> HIDE DEF w
<1>3. PICK g \in [SUBSET S -> Nat] : Adds(g, w, S)
  BY <1>11, SumExists
<1>5. Fold(g)
  <2>1. \A s \in SUBSET S :
          g[s] = IF s = {} THEN 0 ELSE 2 * raw[Pick(s)] + g[s \ {Pick(s)}]
    BY <1>3, <1>4 DEF Adds
  <2>2. QED
    BY <2>1 DEF Pick
<1>6. Fold(h)
  <2> HIDE DEF Fold
  <2>1. QED
    BY <1>5
<1> HIDE DEF h
<1>7. \A s \in SUBSET S : h[s] = IF s = {} THEN 0 ELSE 2 * raw[Pick(s)] + h[s \ {Pick(s)}]
  BY <1>6 DEF Pick
<1>8. Adds(h, w, S)
  BY <1>4, <1>7 DEF Adds
<1>9. h[S] = g[S]
  BY <1>3, <1>8, SumsAgree
<1>10. QED
  BY <1>2, <1>3, <1>9 DEF w

LEMMA CoveredFold ==
  ASSUME NEW S, IsFiniteSet(S), NEW raw \in [S -> 0..256], NEW credit \in [S -> 0..2]
  PROVE  \E g \in [SUBSET S -> Nat] :
           RiskCovered(raw, credit) = g[S] /\ Adds(g, CreditWeight(raw, credit), S)
<1> DEFINE w == CreditWeight(raw, credit)
           Fold(h) == h = [s \in SUBSET S |->
                             IF s = {} THEN 0
                             ELSE raw[CHOOSE x \in s : TRUE] * credit[CHOOSE x \in s : TRUE]
                                    + h[s \ {CHOOSE x \in s : TRUE}]]
           h == CHOOSE h : Fold(h)
<1>1. DOMAIN credit = S
  OBVIOUS
<1>2. RiskCovered(raw, credit) = h[S]
  BY <1>1 DEF RiskCovered, MapThenSumSet, MapThenFoldSet
<1>11. w \in [S -> Nat]
  BY WeightTypes
<1>4. ASSUME NEW s \in SUBSET S, s # {}
      PROVE  w[Pick(s)] = raw[Pick(s)] * credit[Pick(s)]
  BY <1>4 DEF Pick, CreditWeight
<1> HIDE DEF w
<1>3. PICK g \in [SUBSET S -> Nat] : Adds(g, w, S)
  BY <1>11, SumExists
<1>5. Fold(g)
  <2>1. \A s \in SUBSET S :
          g[s] = IF s = {} THEN 0 ELSE raw[Pick(s)] * credit[Pick(s)] + g[s \ {Pick(s)}]
    BY <1>3, <1>4 DEF Adds
  <2>2. QED
    BY <2>1 DEF Pick
<1>6. Fold(h)
  <2> HIDE DEF Fold
  <2>1. QED
    BY <1>5
<1> HIDE DEF h
<1>7. \A s \in SUBSET S :
        h[s] = IF s = {} THEN 0 ELSE raw[Pick(s)] * credit[Pick(s)] + h[s \ {Pick(s)}]
  BY <1>6 DEF Pick
<1>8. Adds(h, w, S)
  BY <1>4, <1>7 DEF Adds
<1>9. h[S] = g[S]
  BY <1>3, <1>8, SumsAgree
<1>10. QED
  BY <1>2, <1>3, <1>9 DEF w

(* What is covered is part of the total.                                   *)
LEMMA CoveredWithinTotal ==
  ASSUME NEW S, IsFiniteSet(S), NEW raw \in [S -> 0..256], NEW credit \in [S -> 0..2]
  PROVE  RiskCovered(raw, credit) <= RiskTotal(raw)
<1> DEFINE whole == Weight(raw)
           part  == CreditWeight(raw, credit)
<1>1. whole \in [S -> Nat] /\ part \in [S -> Nat] /\ \A e \in S : part[e] <= whole[e]
  BY WeightTypes
<1>2. PICK g \in [SUBSET S -> Nat] : RiskTotal(raw) = g[S] /\ Adds(g, whole, S)
  BY TotalFold
<1>3. PICK h \in [SUBSET S -> Nat] : RiskCovered(raw, credit) = h[S] /\ Adds(h, part, S)
  BY CoveredFold
<1> HIDE DEF whole, part
<1>4. h[S] <= g[S]
  BY <1>1, <1>2, <1>3, SumsGrow
<1>5. QED
  BY <1>2, <1>3, <1>4

(* The scores of one case.                                                 *)
LEMMA ScoresWithinBounds ==
  ASSUME NEW row, RowTyped(row), NEW S, S = DOMAIN row.credit, S \subseteq Events
  PROVE  LET raw      == RawOf(row)
             residual == ResidualOf(row)
         IN  /\ raw \in [S -> 0..512] /\ residual \in [S -> 0..512]
             /\ \A e \in S : residual[e] <= raw[e]
             /\ Complement(raw) <= Complement(residual)
             /\ ResidualOf(WithoutContext(row)) = raw
             /\ Covered(row) <= Total(row)
             /\ (\E e \in S : CriticalReasons(EventOf[e]) # {}) => AtLeast(residual, 5)
<1> DEFINE raw == RawOf(row)
           residual == ResidualOf(row)
<1>1. IsFiniteSet(S) /\ row \in CaseRow(S) /\ \A e \in S : RawPlausible(EventOf[e], row.raw[e])
  BY CaseAssumption, FS_Subset DEF RowTyped
<1>8. row.raw \in [S -> 0..256] /\ row.credit \in [S -> 0..2]
  BY <1>1 DEF CaseRow
<1>2. /\ raw = [e \in S |-> 2 * row.raw[e]]
      /\ residual = [e \in S |-> Residual(EventOf[e], row.raw[e], row.credit[e])]
      /\ ResidualOf(WithoutContext(row)) = [e \in S |-> Residual(EventOf[e], row.raw[e], 0)]
  BY <1>1 DEF RawOf, ResidualOf, WithoutContext, CaseRow
<1>3. ASSUME NEW e \in S
      PROVE  /\ 2 * row.raw[e] \in 0..512
             /\ Residual(EventOf[e], row.raw[e], row.credit[e]) \in 0..512
             /\ Residual(EventOf[e], row.raw[e], row.credit[e]) <= 2 * row.raw[e]
             /\ Residual(EventOf[e], row.raw[e], 0) = 2 * row.raw[e]
             /\ CriticalReasons(EventOf[e]) # {} =>
                  Residual(EventOf[e], row.raw[e], row.credit[e]) >= 128
  <2> DEFINE event == EventOf[e]
             r     == row.raw[e]
             k     == row.credit[e]
  <2>1. RawPlausible(event, r) /\ r \in 0..256 /\ k \in 0..2
    BY <1>1, <1>8
  <2> HIDE DEF event, r, k
  <2>2. k \in k..2
    BY <2>1
  <2>3. /\ Residual(event, r, k) \in 0..(2 * r) /\ Residual(event, r, 0) = 2 * r
        /\ CriticalReasons(event) # {} => Residual(event, r, k) >= 128
    BY <2>1, <2>2, ResidualBounds
  <2>4. 2 * r \in 0..512 /\ Residual(event, r, k) \in 0..512 /\ Residual(event, r, k) <= 2 * r
    BY <2>1, <2>3
  <2>5. QED
    BY <2>3, <2>4 DEF event, r, k
<1>4. /\ raw \in [S -> 0..512] /\ residual \in [S -> 0..512]
      /\ \A e \in S : residual[e] <= raw[e]
      /\ ResidualOf(WithoutContext(row)) = raw
      /\ \A e \in S : CriticalReasons(EventOf[e]) # {} => residual[e] >= 128
  BY <1>2, <1>3
<1> HIDE DEF raw, residual
<1>5. Complement(raw) <= Complement(residual)
  BY <1>1, <1>4, ComplementFalls
<1>6. ASSUME NEW e \in S, CriticalReasons(EventOf[e]) # {} PROVE AtLeast(residual, 5)
  BY <1>1, <1>4, <1>6, QuarterCounts
<1>9. Covered(row) <= Total(row)
  BY <1>1, <1>8, CoveredWithinTotal DEF Covered, Total
<1>7. QED
  BY <1>4, <1>5, <1>6, <1>9 DEF raw, residual

(* For any events and context: no risk exceeds the risk without context,   *)
(* of an event or of a case; coverage is at most all; and a case with a    *)
(* critical event stays above the floor.                                   *)
THEOREM RiskIsBounded == Spec => []RiskWithinBounds
<1>1. TypeInv => RiskWithinBounds
  <2> SUFFICES ASSUME TypeInv, NEW c \in Cases
               PROVE  LET raw      == RawOf(case[c])
                          residual == ResidualOf(case[c])
                      IN  /\ \A e \in Evidence(c) : residual[e] <= raw[e]
                          /\ Complement(raw) <= Complement(residual)
                          /\ ResidualOf(WithoutContext(case[c])) = raw
                          /\ Covered(case[c]) <= Total(case[c])
                          /\ (\E e \in Evidence(c) : CriticalReasons(EventOf[e]) # {})
                               => AtLeast(residual, 5)
    BY DEF RiskWithinBounds
  <2> DEFINE S == Evidence(c)
             row == case[c]
  <2>1. RowTyped(row) /\ S \subseteq Events /\ S = DOMAIN row.credit
    BY DEF TypeInv, CreditInv, RowCurrent, Evidence
  <2> HIDE DEF S, row
  <2>2. \A e \in S : ResidualOf(row)[e] <= RawOf(row)[e]
    BY <2>1, ScoresWithinBounds
  <2>3. Complement(RawOf(row)) <= Complement(ResidualOf(row))
    BY <2>1, ScoresWithinBounds
  <2>4. ResidualOf(WithoutContext(row)) = RawOf(row) /\ Covered(row) <= Total(row)
    BY <2>1, ScoresWithinBounds
  <2>5. (\E e \in S : CriticalReasons(EventOf[e]) # {}) => AtLeast(ResidualOf(row), 5)
    BY <2>1, ScoresWithinBounds
  <2>6. QED
    BY <2>2, <2>3, <2>4, <2>5 DEF S, row
<1>2. QED
  BY <1>1, TypeInvariant, PTL
-----------------------------------------------------------------------------
(* An approval that supersedes nothing adds an entry to those in force.    *)
LEMMA ApprovalOnlyAdds ==
  ASSUME LedgerInv, NEW n \in Entries, base[n] = NoEntry
  PROVE  Approved(approval) \subseteq Approved(Activated(n))
BY CaseAssumption DEF Approved, Activated, LedgerInv, LedgerOK

LEMMA RecomputedDomain ==
  ASSUME ingested \subseteq Events, NEW row, DOMAIN row = RowFields, row.created \in Nat,
         NEW E, E \subseteq ingested, E # {}, NEW ledger, NEW signals
  PROVE  DOMAIN Recomputed(row, E, ledger, signals).credit = E
<1> DEFINE T == {row.created} \cup {Time(e) : e \in E}
           asOf == Max(T)
           assessment == Assessment(E, asOf, ledger, signals)
<1>1. Recomputed(row, E, ledger, signals) = Assessed(row, assessment)
  BY DEF Recomputed
<1>2. PICK b \in Nat : \A e \in Events : Time(e) <= b
  BY TimesAreBounded
<1>3. T \in SUBSET Nat /\ T # {}
  BY EventTypes
<1>4. b + row.created \in Nat /\ \A x \in T : x <= b + row.created
  <2>1. \A e \in E : Time(e) \in Nat /\ Time(e) <= b
    BY <1>2, EventTypes
  <2>2. QED
    BY <2>1
<1>5. asOf \in T /\ \A x \in T : x <= asOf
  BY <1>3, <1>4, LargestExists
<1>6. asOf \in Nat /\ \A e \in E : Time(e) <= asOf
  BY <1>3, <1>5
<1> HIDE DEF asOf, T
<1>7. DOMAIN assessment.credit = E
  BY <1>6, AssessmentCurrent
<1> HIDE DEF assessment
<1>8. QED
  BY <1>1, <1>7, AssessedFields

LEMMA ApprovalKeepsEvidence ==
  ASSUME TypeInv, NEW n \in Entries, Approve(n), NEW c \in Cases
  PROVE  DOMAIN case'[c].credit = Evidence(c)
<1>1. RowCurrent(case[c]) /\ ingested \subseteq Events
  BY DEF TypeInv, CreditInv
<1>2. PICK signals \in [AffectedBy(n) -> SignalsSeen] :
        case' = [d \in Cases |->
                   IF d \in AffectedBy(n) THEN Reassessed(d, n, signals[d]) ELSE case[d]]
  BY DEF Approve
<1>3. CASE c \notin AffectedBy(n)
  BY <1>2, <1>3 DEF Evidence
<1>4. CASE c \in AffectedBy(n)
  <2> DEFINE row == Recomputed(case[c], Evidence(c), Activated(n), signals[c])
             late == LateContext(n) /\ CoverageRises(case[c], row)
  <2>1. case'[c] = [row EXCEPT !.flagged = row.flagged \/ late]
    BY <1>2, <1>4 DEF Reassessed
  <2>2. Evidence(c) \subseteq ingested /\ Evidence(c) # {}
    BY <1>1, <1>4 DEF RowCurrent, Evidence, AffectedBy
  <2>3. DOMAIN row = RowFields /\ DOMAIN row.credit = Evidence(c)
    <3> DEFINE old == case[c]
               E == Evidence(c)
               ledger == Activated(n)
               seen == signals[c]
    <3>1. /\ DOMAIN old = RowFields /\ old.created \in Nat /\ E \subseteq ingested /\ E # {}
          /\ row = Recomputed(old, E, ledger, seen)
      BY <1>1, <2>2 DEF RowCurrent
    <3> HIDE DEF old, E, ledger, seen, row
    <3>2. DOMAIN row = RowFields
      BY <1>1, <3>1, RecomputedCurrent
    <3>3. DOMAIN row.credit = E
      BY <1>1, <3>1, RecomputedDomain
    <3>4. QED
      BY <3>2, <3>3 DEF E
  <2> HIDE DEF row, late
  <2>4. case'[c].credit = row.credit
    BY <2>1, <2>3 DEF RowFields
  <2>5. QED
    BY <2>3, <2>4
<1>5. QED
  BY <1>3, <1>4

LEMMA ApprovalOnlyCredits ==
  ASSUME TypeInv, CreditInv', NEW n \in Entries, Approve(n), base[n] = NoEntry,
         NEW c \in Cases, NEW e \in Evidence(c)
  PROVE  case[c].credit[e] \in 0..2 /\ case'[c].credit[e] \in case[c].credit[e]..2
<1>1. RowCurrent(case[c]) /\ LedgerInv
  BY DEF TypeInv, CreditInv
<1>2. e \in DOMAIN case'[c].credit
  BY ApprovalKeepsEvidence
<1>3. case[c].credit[e] = Granted(e, approval)
  BY <1>1 DEF RowCurrent, Evidence
<1>4. case'[c].credit[e] = Granted(e, Activated(n))
  <2>1. c \in DOMAIN case' /\ approval' = Activated(n)
    BY DEF Approve
  <2>2. case'[c].credit[e] = Granted(e, approval')
    BY <1>2, <2>1 DEF CreditInv, RowCurrent, Cases, Granted
  <2>3. QED
    BY <2>1, <2>2
<1>5. Rows(Approved(approval)) \subseteq Rows(Approved(Activated(n)))
  BY <1>1, ApprovalOnlyAdds DEF Rows
<1>6. Granted(e, approval) \in 0..2 /\ Granted(e, Activated(n)) \in Granted(e, approval)..2
  BY <1>5, BestScoreGrows DEF Granted
<1>7. QED
  BY <1>3, <1>4, <1>6

(* In one assessment, of whatever raw risks, more credit is less risk.     *)
LEMMA CreditLowersRisk ==
  ASSUME NEW row, RowTyped(row), NEW S, S = DOMAIN row.credit, S \subseteq Events,
         NEW less \in [S -> 0..2], \A e \in S : less[e] <= row.credit[e]
  PROVE  LET with    == ResidualOf(row)
             without == ResidualOf([row EXCEPT !.credit = less])
         IN  /\ DOMAIN with = S /\ DOMAIN without = S
             /\ \A e \in S : with[e] <= without[e]
             /\ Complement(without) <= Complement(with)
<1> DEFINE with    == ResidualOf(row)
           without == ResidualOf([row EXCEPT !.credit = less])
<1>1. IsFiniteSet(S) /\ row \in CaseRow(S) /\ \A e \in S : RawPlausible(EventOf[e], row.raw[e])
  BY CaseAssumption, FS_Subset DEF RowTyped
<1>2. /\ with = [e \in S |-> Residual(EventOf[e], row.raw[e], row.credit[e])]
      /\ without = [e \in S |-> Residual(EventOf[e], row.raw[e], less[e])]
  BY <1>1 DEF ResidualOf, CaseRow
<1>3. ASSUME NEW e \in S
      PROVE  /\ Residual(EventOf[e], row.raw[e], row.credit[e]) \in 0..512
             /\ Residual(EventOf[e], row.raw[e], less[e]) \in 0..512
             /\ Residual(EventOf[e], row.raw[e], row.credit[e])
                  <= Residual(EventOf[e], row.raw[e], less[e])
  <2> DEFINE event == EventOf[e]
             r == row.raw[e]
             k == row.credit[e]
             l == less[e]
  <2>1. RawPlausible(event, r) /\ r \in 0..256 /\ k \in 0..2 /\ l \in 0..2 /\ l <= k
    BY <1>1 DEF CaseRow
  <2> HIDE DEF event, r, k, l
  <2>2. k \in l..2 /\ k \in k..2
    BY <2>1
  <2>3. Residual(event, r, k) <= Residual(event, r, l) /\ Residual(event, r, l) \in 0..(2 * r)
    BY <2>1, <2>2, ResidualBounds
  <2>4. Residual(event, r, k) \in 0..(2 * r)
    BY <2>1, <2>2, ResidualBounds
  <2>5. 0..(2 * r) \subseteq 0..512
    BY <2>1
  <2>6. QED
    BY <2>3, <2>4, <2>5 DEF event, r, k, l
<1>4. with \in [S -> 0..512] /\ without \in [S -> 0..512] /\ \A e \in S : with[e] <= without[e]
  <2>1. \A e \in S : /\ with[e] = Residual(EventOf[e], row.raw[e], row.credit[e])
                     /\ without[e] = Residual(EventOf[e], row.raw[e], less[e])
    BY <1>2
  <2>2. \A e \in S : with[e] \in 0..512 /\ without[e] \in 0..512 /\ with[e] <= without[e]
    BY <1>3, <2>1
  <2>3. with = [e \in S |-> with[e]] /\ without = [e \in S |-> without[e]]
    BY <1>2
  <2> HIDE DEF with, without
  <2>4. QED
    BY <2>2, <2>3
<1> HIDE DEF with, without
<1>5. Complement(without) <= Complement(with)
  BY <1>1, <1>4, ComplementFalls
<1>6. QED
  BY <1>4, <1>5 DEF with, without

(* Approving context that supersedes nothing takes no credit from any      *)
(* event and gives no case a higher risk than the same assessment would    *)
(* give it without that credit; for any ledger, events and cases, whatever *)
(* histories say at each assessment, the critical floor included.          *)
THEOREM ContextLowersRisk == Spec => ContextNeverRaisesRisk
<1> DEFINE Step ==
      \A n \in Entries :
        approval[n] = "pending" /\ approval'[n] = "approved" /\ base[n] = NoEntry =>
          \A c \in Cases :
            LET with    == ResidualOf(case'[c])
                without == ResidualOf([case'[c] EXCEPT !.credit = case[c].credit])
            IN  /\ DOMAIN with = Evidence(c) /\ DOMAIN without = Evidence(c)
                /\ \A e \in Evidence(c) : /\ case[c].credit[e] <= case'[c].credit[e]
                                           /\ with[e] <= without[e]
                /\ Complement(without) <= Complement(with)
<1>1. TypeInv /\ CreditInv' /\ [Next]_vars => [Step]_vars
  <2> SUFFICES ASSUME TypeInv, CreditInv', Next,
                      NEW n \in Entries, approval[n] = "pending", approval'[n] = "approved",
                      base[n] = NoEntry, NEW c \in Cases
               PROVE  LET with    == ResidualOf(case'[c])
                          without == ResidualOf([case'[c] EXCEPT !.credit = case[c].credit])
                      IN  /\ DOMAIN with = Evidence(c) /\ DOMAIN without = Evidence(c)
                          /\ \A e \in Evidence(c) : /\ case[c].credit[e] <= case'[c].credit[e]
                                                     /\ with[e] <= without[e]
                          /\ Complement(without) <= Complement(with)
    OBVIOUS
  <2>1. approval \in [Entries -> Approval] /\ base \in [Entries -> Entries \cup {NoEntry}]
    BY DEF TypeInv, LedgerInv, LedgerOK
  <2>2. Approve(n)
    <3>1. ASSUME NEW p \in Sessions, IngestStep(p) \/ Crash(p) PROVE UNCHANGED approval
      BY <3>1 DEF IngestStep, Ingest, Reopen, RecomputeReopened, DetectNothing, Rearm,
                  DetectByRisk, Latch, Build, Crash
    <3>2. ASSUME NEW d \in Cases, NEW verdict \in Verdict, Feedback(d, verdict)
          PROVE  UNCHANGED approval
      BY <3>2 DEF Feedback
    <3>6. ASSUME TimePasses PROVE UNCHANGED approval
      BY <3>6 DEF TimePasses
    <3>3. ASSUME NEW m \in Entries, NEW previous \in Entries \cup {NoEntry},
                 Propose(m, previous) \/ Reject(m)
          PROVE  approval'[n] # "approved"
      BY <2>1, <3>3 DEF Propose, Reject
    <3>4. ASSUME NEW m \in Entries, Approve(m), m # n PROVE approval'[n] # "approved"
      BY <3>4 DEF Approve, Activated
    <3>5. QED
      BY <3>1, <3>2, <3>3, <3>4, <3>6 DEF Next
  <2> DEFINE S == Evidence(c)
             less == case[c].credit
             row == case'[c]
  <2>3. RowTyped(row) /\ RowTyped(case[c]) /\ S \subseteq Events
    BY CasesTypedNext DEF TypeInv, CreditInv, RowCurrent, CasesTyped, Evidence
  <2>4. S = DOMAIN row.credit
    BY <2>2, ApprovalKeepsEvidence
  <2>5. less \in [S -> 0..2]
    BY <2>3 DEF RowTyped, CaseRow, Evidence
  <2>6. \A e \in S : less[e] \in 0..2 /\ row.credit[e] \in less[e]..2
    BY <2>2, ApprovalOnlyCredits
  <2> HIDE DEF S, less, row
  <2>7. \A e \in S : less[e] <= row.credit[e]
    BY <2>6
  <2>8. /\ DOMAIN ResidualOf(row) = S /\ DOMAIN ResidualOf([row EXCEPT !.credit = less]) = S
        /\ \A e \in S : ResidualOf(row)[e] <= ResidualOf([row EXCEPT !.credit = less])[e]
        /\ Complement(ResidualOf([row EXCEPT !.credit = less])) <= Complement(ResidualOf(row))
    BY <2>3, <2>4, <2>5, <2>7, CreditLowersRisk
  <2>9. QED
    BY <2>7, <2>8 DEF S, less, row
<1>2. QED
  BY <1>1, TypeInvariant, CreditInvariant, PTL DEF Spec, ContextNeverRaisesRisk
-----------------------------------------------------------------------------
(* An entry that explains nothing of what has happened adds no credit.     *)
LEMMA UselessEntryGrantsNothing ==
  ASSUME NEW n \in Entries, NEW e \in Events, Score(EventOf[e], EntryOf[n]) = 0
  PROVE  Granted(e, Activated(n)) <= Granted(e, approval)
<1> DEFINE event  == EventOf[e]
           before == Rows(Approved(approval))
           after  == Rows(Approved(Activated(n)))
           both   == before \cup {EntryOf[n]}
<1>1. after \subseteq both
  BY DEF Rows, Approved, Activated
<1>2. \A x \in both \ before : Score(event, x) = 0
  OBVIOUS
<1>3. \A x \in before \ both : Score(event, x) = 0
  OBVIOUS
<1>4. Granted(e, approval) = (IF event.resource # None /\ event.class = None THEN 0
                              ELSE BestScore(event, before))
  BY DEF Granted
<1>5. Granted(e, Activated(n)) = (IF event.resource # None /\ event.class = None THEN 0
                                  ELSE BestScore(event, after))
  BY DEF Granted
<1> HIDE DEF event, before, after, both
<1>6. BestScore(event, both) = BestScore(event, before)
  BY <1>2, <1>3, OthersDoNotMatter
<1>7. BestScore(event, after) \in 0..2 /\ BestScore(event, both) \in BestScore(event, after)..2
  BY <1>1, BestScoreGrows
<1>8. QED
  BY <1>4, <1>5, <1>6, <1>7

LEMMA OnlyApprovalsGrant ==
  ASSUME TypeInv, [Next]_vars
  PROVE  Approved(approval') = Approved(approval) \/ \E n \in Entries : Approve(n)
<1>1. approval \in [Entries -> Approval]
  BY DEF TypeInv, LedgerInv, LedgerOK
<1>2. ASSUME UNCHANGED approval PROVE Approved(approval') = Approved(approval)
  BY <1>2
<1>3. ASSUME NEW p \in Sessions, IngestStep(p) \/ Crash(p) PROVE UNCHANGED approval
  BY <1>3 DEF IngestStep, Ingest, Reopen, RecomputeReopened, DetectNothing, Rearm,
              DetectByRisk, Latch, Build, Crash
<1>4. ASSUME NEW d \in Cases, NEW verdict \in Verdict, Feedback(d, verdict)
      PROVE  UNCHANGED approval
  BY <1>4 DEF Feedback
<1>5. ASSUME NEW m \in Entries, NEW previous \in Entries \cup {NoEntry}, Propose(m, previous)
      PROVE  Approved(approval') = Approved(approval)
  BY <1>1, <1>5 DEF Propose, Approved
<1>6. ASSUME NEW m \in Entries, Reject(m) PROVE Approved(approval') = Approved(approval)
  BY <1>1, <1>6 DEF Reject, Approved
<1>7. CASE TimePasses \/ UNCHANGED vars
  BY <1>2, <1>7 DEF TimePasses, vars
<1>8. QED
  BY <1>2, <1>3, <1>4, <1>5, <1>6, <1>7 DEF Next

LEMMA CoverageIsFlagged ==
  ASSUME TypeInv, CreditInv', [Next]_vars, NEW c \in Cases,
         NEW e \in Evidence(c) \cap DOMAIN case'[c].credit,
         Time(e) < now, case[c].credit[e] < case'[c].credit[e], CoverageRises(case[c], case'[c])
  PROVE  case'[c].flagged
<1>1. /\ c \in DOMAIN case' /\ RowTyped(case[c])
      /\ ingested \subseteq Events /\ e \in ingested /\ e \in Events
      /\ \A d \in Cases : RowTyped(case[d]) /\ Evidence(d) \subseteq ingested
  BY CasesTypedNext DEF TypeInv, CreditInv, RowCurrent, Evidence
<1>2. case[c].credit[e] = Granted(e, approval)
  BY DEF TypeInv, CreditInv, RowCurrent, Evidence
<1>3. case'[c].credit[e] = Granted(e, approval')
  BY <1>1 DEF CreditInv, RowCurrent, Cases, Granted
<1>4. \A ledger : Granted(e, ledger) \in 0..2
  BY BestScoreGrows DEF Granted
<1>5. Granted(e, approval) < Granted(e, approval')
  BY <1>2, <1>3
<1>6. Approved(approval') # Approved(approval)
  <2>1. Approved(approval') = Approved(approval) => Granted(e, approval') = Granted(e, approval)
    BY DEF Granted
  <2>2. Granted(e, approval) \in Int
    BY <1>4
  <2>3. QED
    BY <1>5, <2>1, <2>2
<1>7. PICK n \in Entries : Approve(n)
  BY <1>6, OnlyApprovalsGrant
<1>8. approval' = Activated(n)
  BY <1>7 DEF Approve
<1>9. LateContext(n)
  <2>1. Score(EventOf[e], EntryOf[n]) # 0
    <3>1. Granted(e, approval) \in 0..2 /\ Granted(e, Activated(n)) \in 0..2
      BY <1>4
    <3>2. ~(Granted(e, Activated(n)) <= Granted(e, approval))
      BY <1>5, <1>8, <3>1
    <3>3. QED
      BY <1>1, <3>2, UselessEntryGrantsNothing
  <2>2. Score(EventOf[e], EntryOf[n]) > 0
    BY <2>1 DEF Score
  <2>3. QED
    BY <1>1, <2>2 DEF LateContext
<1>10. PICK signals \in [AffectedBy(n) -> SignalsSeen] :
         case' = [d \in Cases |->
                    IF d \in AffectedBy(n) THEN Reassessed(d, n, signals[d]) ELSE case[d]]
  BY <1>7 DEF Approve
<1>11. c \in AffectedBy(n)
  <2>1. case[c].credit[e] \in Int
    BY <1>2, <1>4
  <2>2. case'[c] # case[c]
    BY <2>1
  <2>3. QED
    BY <1>10, <2>2
<1> DEFINE row == Recomputed(case[c], Evidence(c), Activated(n), signals[c])
           late == LateContext(n) /\ CoverageRises(case[c], row)
<1>12. case'[c] = [row EXCEPT !.flagged = row.flagged \/ late]
  BY <1>10, <1>11 DEF Reassessed
<1>13. RowTyped(row)
  <2>1. Evidence(c) \subseteq Events /\ signals[c] \in SignalsSeen
    BY <1>1, <1>11
  <2>2. QED
    BY <1>1, <2>1, RecomputedTyped
<1>14. CoverageRises(case[c], case'[c]) => CoverageRises(case[c], row)
  <2> HIDE DEF row, late
  <2>1. case'[c].raw = row.raw /\ case'[c].credit = row.credit
    BY <1>12, <1>13 DEF RowTyped, CaseRow
  <2>2. Total(case'[c]) = Total(row) /\ Covered(case'[c]) = Covered(row)
    BY <2>1 DEF Total, Covered
  <2>3. QED
    BY <2>2 DEF CoverageRises
<1> HIDE DEF row
<1>15. case'[c].flagged <=> row.flagged \/ late
  BY <1>12, <1>13 DEF RowTyped, CaseRow
<1>16. QED
  BY <1>9, <1>14, <1>15

(* Context is never credited after the fact unseen: whatever the step, an  *)
(* event that is past gains credit, and its case a quarter of coverage,    *)
(* only where an approval flags the case, and no later step takes the flag *)
(* away; whatever weights an assessment gives the events, and whether or   *)
(* not others are dated in the future.                                     *)
THEOREM LateCreditIsSeen == Spec => RetroactiveIsFlagged
<1> DEFINE Step ==
      \A c \in Cases :
        /\ case[c].flagged => case'[c].flagged
        /\ /\ \E e \in Evidence(c) \cap DOMAIN case'[c].credit :
                Time(e) < now /\ case[c].credit[e] < case'[c].credit[e]
           /\ CoverageRises(case[c], case'[c])
           => case'[c].flagged
<1>1. TypeInv /\ CreditInv' /\ [Next]_vars => [Step]_vars
  <2> SUFFICES ASSUME TypeInv, CreditInv', [Next]_vars PROVE Step
    OBVIOUS
  <2>1. \A c \in Cases : case[c].flagged => case'[c].flagged
    BY CasesTypedNext
  <2>2. ASSUME NEW c \in Cases, NEW e \in Evidence(c) \cap DOMAIN case'[c].credit,
               Time(e) < now, case[c].credit[e] < case'[c].credit[e],
               CoverageRises(case[c], case'[c])
        PROVE  case'[c].flagged
    BY <2>2, CoverageIsFlagged
  <2>3. QED
    BY <2>1, <2>2
<1>2. QED
  BY <1>1, TypeInvariant, CreditInvariant, PTL DEF Spec, RetroactiveIsFlagged
-----------------------------------------------------------------------------
(* The order of rank_cases, for numbers v that say what speaks against a   *)
(* case: of equal ones the smaller id comes first.                         *)
AheadOf(v, c, d) == v[c] < v[d] \/ (v[c] = v[d] /\ c < d)
Leaders(v, L, c) == {d \in L : AheadOf(v, d, c)}
Best(v, L, n)    == {c \in L : Cardinality(Leaders(v, L, c)) < n}

LEMMA LeadersCount ==
  ASSUME NEW L \in SUBSET Nat, IsFiniteSet(L), NEW v \in [L -> Int]
  PROVE  /\ \A c \in L : /\ IsFiniteSet(Leaders(v, L, c))
                         /\ Cardinality(Leaders(v, L, c)) \in Nat
                         /\ Cardinality(Leaders(v, L, c)) < Cardinality(L)
         /\ \A c, d \in L : AheadOf(v, c, d) =>
              Cardinality(Leaders(v, L, c)) < Cardinality(Leaders(v, L, d))
<1>1. \A c \in L : v[c] \in Int /\ c \in Nat
  OBVIOUS
<1>2. ASSUME NEW A, NEW B, A \subseteq B, B \subseteq L, NEW x \in B, x \notin A
      PROVE  /\ IsFiniteSet(A) /\ Cardinality(A) \in Nat /\ Cardinality(A) < Cardinality(B)
  <2>1. IsFiniteSet(B) /\ A \subseteq B \ {x} /\ B \ {x} \subseteq B
    BY <1>2, FS_Subset
  <2>2. IsFiniteSet(B \ {x}) /\ Cardinality(B \ {x}) = Cardinality(B) - 1
    BY <1>2, <2>1, FS_RemoveElement
  <2>3. IsFiniteSet(A) /\ Cardinality(A) <= Cardinality(B \ {x})
    BY <2>1, <2>2, FS_Subset
  <2>4. Cardinality(A) \in Nat /\ Cardinality(B) \in Nat
    BY <2>1, <2>3, FS_CardinalityType
  <2>5. QED
    BY <2>2, <2>3, <2>4
<1>3. ASSUME NEW c \in L
      PROVE  /\ IsFiniteSet(Leaders(v, L, c)) /\ Cardinality(Leaders(v, L, c)) \in Nat
             /\ Cardinality(Leaders(v, L, c)) < Cardinality(L)
  <2>1. Leaders(v, L, c) \subseteq L /\ c \notin Leaders(v, L, c)
    BY <1>1 DEF Leaders, AheadOf
  <2>2. QED
    BY <1>2, <2>1
<1>4. ASSUME NEW c \in L, NEW d \in L, AheadOf(v, c, d)
      PROVE  Cardinality(Leaders(v, L, c)) < Cardinality(Leaders(v, L, d))
  <2>1. c \in Leaders(v, L, d) /\ c \notin Leaders(v, L, c) /\ Leaders(v, L, d) \subseteq L
    BY <1>1, <1>4 DEF Leaders, AheadOf
  <2>2. ASSUME NEW x \in Leaders(v, L, c) PROVE x \in Leaders(v, L, d)
    <3>1. x \in L /\ AheadOf(v, x, c)
      BY DEF Leaders
    <3>2. AheadOf(v, x, d)
      BY <1>1, <1>4, <3>1 DEF AheadOf
    <3>3. QED
      BY <3>1, <3>2 DEF Leaders
  <2>3. Leaders(v, L, c) \subseteq Leaders(v, L, d)
    BY <2>2
  <2> DEFINE A == Leaders(v, L, c)
             B == Leaders(v, L, d)
  <2> HIDE DEF A, B
  <2>4. A \subseteq B /\ B \subseteq L /\ c \in B /\ c \notin A
    BY <2>1, <2>3 DEF A, B
  <2>5. Cardinality(A) < Cardinality(B)
    BY <1>2, <2>4
  <2>6. QED
    BY <2>5 DEF A, B
<1>5. QED
  BY <1>3, <1>4

(* The best n are n, unless there are fewer.                               *)
LEMMA BestCount ==
  ASSUME NEW L \in SUBSET Nat, IsFiniteSet(L), NEW v \in [L -> Int], NEW n \in Nat
  PROVE  /\ Best(v, L, n) \subseteq Best(v, L, n + 1) /\ Best(v, L, n) \subseteq L
         /\ Cardinality(L) <= n => Best(v, L, n) = L
         /\ Cardinality(Best(v, L, n)) <= n
         /\ Cardinality(L) >= n => Cardinality(Best(v, L, n)) >= n
<1> DEFINE B == Best(v, L, n)
           rank(c) == Cardinality(Leaders(v, L, c))
<1>1. Cardinality(L) \in Nat
  BY FS_CardinalityType
<1>2. \A c \in L : rank(c) \in Nat /\ rank(c) < Cardinality(L) /\ IsFiniteSet(Leaders(v, L, c))
  BY LeadersCount
<1>3. \A c, d \in L : AheadOf(v, c, d) => rank(c) < rank(d)
  BY LeadersCount
<1>4. B = {c \in L : rank(c) < n} /\ Best(v, L, n + 1) = {c \in L : rank(c) < n + 1}
  BY DEF Best
<1>5. \A c, d \in L : c # d => AheadOf(v, c, d) \/ AheadOf(v, d, c)
  <2>1. \A c \in L : v[c] \in Int /\ c \in Nat
    OBVIOUS
  <2>2. QED
    BY <2>1 DEF AheadOf
<1>6. \A c \in L : \A d \in Leaders(v, L, c) : d \in L /\ AheadOf(v, d, c)
  BY DEF Leaders
<1> HIDE DEF B, rank
<1>7. B \subseteq L /\ B \subseteq Best(v, L, n + 1) /\ (Cardinality(L) <= n => B = L)
  <2>1. \A c \in L : rank(c) < n => rank(c) < n + 1
    BY <1>2
  <2>2. ASSUME Cardinality(L) <= n PROVE \A c \in L : rank(c) < n
    BY <1>1, <1>2, <2>2
  <2> HIDE DEF rank
  <2>3. B \subseteq L
    BY <1>4
  <2>4. B \subseteq Best(v, L, n + 1)
    BY <1>4, <2>1
  <2>5. ASSUME Cardinality(L) <= n PROVE B = L
    BY <1>4, <2>2, <2>5
  <2>6. QED
    BY <2>3, <2>4, <2>5
<1>8. IsFiniteSet(B)
  BY <1>7, FS_Subset
<1>9. Cardinality(B) <= n
  <2> DEFINE f == [c \in B |-> rank(c)]
             S == 0..(n - 1)
  <2>1. IsFiniteSet(S) /\ Cardinality(S) = n
    BY FS_Interval
  <2>2. f \in [B -> S]
    BY <1>2, <1>4
  <2>3. ASSUME NEW c \in B, NEW d \in B, f[c] = f[d] PROVE c = d
    <3>1. c \in L /\ d \in L /\ rank(c) = rank(d) /\ rank(c) \in Nat
      BY <1>2, <1>4, <2>3
    <3>2. ~AheadOf(v, c, d) /\ ~AheadOf(v, d, c)
      BY <1>3, <3>1
    <3>3. QED
      BY <1>5, <3>1, <3>2
  <2> HIDE DEF f, S
  <2>4. f \in Injection(B, S)
    BY <2>2, <2>3 DEF Injection, IsInjective
  <2>5. Cardinality(B) <= Cardinality(S)
    BY <2>1, <2>4, FS_Injection
  <2>6. QED
    BY <2>1, <2>5
<1>10. ASSUME Cardinality(L) >= n PROVE Cardinality(B) >= n
  <2> DEFINE Rest == {rank(c) : c \in L \ B}
  <2>1. CASE B = L
    BY <1>10, <2>1
  <2>2. CASE B # L
    <3>1. Rest \in SUBSET Nat /\ Rest # {}
      BY <1>2, <1>7, <2>2
    <3>2. PICK m \in Rest : \A k \in Rest : ~(<<k, m>> \in OpToRel(<, Nat))
      BY <3>1, WFMin, NatLessThanWellFounded, Zenon
    <3>3. PICK c \in L \ B : rank(c) = m
      OBVIOUS
    <3>4. ASSUME NEW d \in Leaders(v, L, c) PROVE d \in B
      <4>1. d \in L /\ AheadOf(v, d, c)
        BY <1>6
      <4>2. rank(d) < rank(c) /\ rank(d) \in Nat /\ m \in Nat
        BY <1>2, <1>3, <3>3, <4>1
      <4>3. rank(d) \notin Rest
        BY <3>2, <3>3, <4>2 DEF OpToRel
      <4>4. QED
        BY <4>1, <4>3
    <3>5. rank(c) <= Cardinality(B)
      BY <1>8, <3>4, FS_Subset DEF rank
    <3>6. rank(c) \in Nat /\ rank(c) >= n
      <4>1. rank(c) \in Nat /\ ~(rank(c) < n)
        BY <1>2, <1>4
      <4>2. QED
        BY <4>1
    <3>7. Cardinality(B) \in Nat
      BY <1>8, FS_CardinalityType
    <3>8. QED
      BY <3>5, <3>6, <3>7
  <2>3. QED
    BY <2>1, <2>2
<1>11. QED
  BY <1>7, <1>9, <1>10 DEF B

(* Top of the model is the best of that order.                             *)
LEMMA TopIsBest ==
  ASSUME TypeInv, NEW n \in Nat
  PROVE  /\ Live \in SUBSET Nat /\ IsFiniteSet(Live)
         /\ Top(Live, n) = Best([c \in Live |-> ResidualComplement(c)], Live, n)
         /\ [c \in Live |-> ResidualComplement(c)] \in [Live -> Int]
<1> DEFINE v == [c \in Live |-> ResidualComplement(c)]
<1>1. Live \subseteq Cases /\ Cases \subseteq CaseIds
  BY DEF Live, TypeInv
<1>2. Live \in SUBSET Nat /\ IsFiniteSet(Live)
  BY <1>1, CaseAssumption, FS_Subset
<1>3. ASSUME NEW c \in Live PROVE ResidualComplement(c) \in Int
  <2> DEFINE S == Evidence(c)
             row == case[c]
             risk == ResidualOf(row)
             k == Cardinality(Events) - Cardinality(DOMAIN risk)
  <2>1. S \subseteq Events /\ RowTyped(row) /\ S = DOMAIN row.credit
    BY <1>1 DEF TypeInv, CreditInv, RowCurrent, Evidence
  <2>2. IsFiniteSet(S)
    BY <2>1, CaseAssumption, FS_Subset
  <2>3. risk \in [S -> 0..512]
    <3> HIDE DEF S, row
    <3>1. QED
      BY <2>1, ScoresWithinBounds
  <2>4. Complement(risk) \in Nat
    <3> HIDE DEF risk, S
    <3>1. QED
      BY <2>2, <2>3, ComplementType
  <2>5. DOMAIN risk = S
    BY <2>3
  <2>6. Cardinality(Events) \in Nat /\ Cardinality(S) \in Nat /\ Cardinality(S) <= Cardinality(Events)
    BY <2>1, <2>2, CaseAssumption, FS_Subset, FS_CardinalityType
  <2>7. k \in Nat
    BY <2>5, <2>6
  <2>8. ResidualComplement(c) = Complement(risk) * 512 ^ k
    BY DEF ResidualComplement
  <2> HIDE DEF risk, k
  <2>9. 512 ^ k \in Int
    BY <2>7
  <2> DEFINE x == 512 ^ k
  <2> HIDE DEF x
  <2>10. x \in Int /\ ResidualComplement(c) = Complement(risk) * x
    BY <2>8, <2>9 DEF x
  <2>11. QED
    BY <2>4, <2>10
<1>4. v \in [Live -> Int]
  BY <1>3
<1>5. Top(Live, n) = IF Cardinality(Live) <= n THEN Live ELSE Best(v, Live, n)
  <2>1. ASSUME NEW c \in Live
        PROVE  {d \in Live : \/ ResidualComplement(d) < ResidualComplement(c)
                             \/ ResidualComplement(d) = ResidualComplement(c) /\ d < c}
                 = Leaders(v, Live, c)
    BY DEF Leaders, AheadOf
  <2>2. {c \in Live : Cardinality({d \in Live :
             \/ ResidualComplement(d) < ResidualComplement(c)
             \/ ResidualComplement(d) = ResidualComplement(c) /\ d < c}) < n}
          = Best(v, Live, n)
    BY <2>1 DEF Best
  <2>3. QED
    BY <2>2 DEF Top
<1> HIDE DEF v
<1>6. Cardinality(Live) <= n => Best(v, Live, n) = Live
  BY <1>2, <1>4, BestCount
<1>7. QED
  BY <1>2, <1>4, <1>5, <1>6 DEF v

(* For any cases and scores: a larger budget hides nothing a smaller one   *)
(* shows; a budget shows as many live cases as it allows, if there are,    *)
(* and beyond it only those of the hard rule, which it always shows.       *)
THEOREM LargerBudgetsHideNothing == Spec => []BudgetOnlyAdds
<1>1. TypeInv => BudgetOnlyAdds
  <2> SUFFICES ASSUME TypeInv, NEW n \in 1..Cardinality(CaseIds)
               PROVE  /\ {c \in Live : HardRule(c)} \subseteq Ranked(n)
                      /\ Ranked(n) \subseteq Ranked(n + 1)
                      /\ Cardinality({c \in Ranked(n) : ~HardRule(c)}) <= n
                      /\ Cardinality(Live) >= n => Cardinality(Ranked(n)) >= n
    BY DEF BudgetOnlyAdds
  <2> DEFINE v == [c \in Live |-> ResidualComplement(c)]
             B == Best(v, Live, n)
             more == Best(v, Live, n + 1)
             hard == {c \in Live : HardRule(c)}
             soft == {c \in Ranked(n) : ~HardRule(c)}
  <2>1. n \in Nat /\ n + 1 \in Nat
    BY CaseAssumption, FS_CardinalityType
  <2>2. /\ Live \in SUBSET Nat /\ IsFiniteSet(Live) /\ v \in [Live -> Int]
        /\ Top(Live, n) = B /\ Top(Live, n + 1) = more
    BY <2>1, TopIsBest
  <2>3. Ranked(n) = B \cup hard /\ Ranked(n + 1) = more \cup hard
    BY <2>2 DEF Ranked
  <2> HIDE DEF v
  <2>4. /\ B \subseteq more /\ B \subseteq Live /\ Cardinality(B) <= n
        /\ Cardinality(Live) >= n => Cardinality(B) >= n
    BY <2>1, <2>2, BestCount
  <2>5. soft \subseteq B /\ hard \subseteq Live
    BY <2>3
  <2> HIDE DEF B, more, hard
  <2>6. IsFiniteSet(B) /\ IsFiniteSet(Ranked(n))
    <3>1. Ranked(n) \in SUBSET Live /\ B \in SUBSET Live
      BY <2>3, <2>4, <2>5
    <3>2. QED
      BY <2>2, <3>1, FS_Subset
  <2>7. Cardinality(soft) <= Cardinality(B) /\ IsFiniteSet(soft)
    BY <2>5, <2>6, FS_Subset
  <2>8. B \in SUBSET Ranked(n)
    BY <2>3
  <2>9. Cardinality(B) <= Cardinality(Ranked(n))
    BY <2>6, <2>8, FS_Subset
  <2>10. Cardinality(B) \in Nat /\ Cardinality(Ranked(n)) \in Nat /\ Cardinality(soft) \in Nat
    BY <2>6, <2>7, FS_CardinalityType
  <2>11. Cardinality(soft) <= n
    BY <2>1, <2>4, <2>7, <2>10
  <2>12. Cardinality(Live) >= n => Cardinality(Ranked(n)) >= n
    BY <2>1, <2>4, <2>9, <2>10
  <2>13. QED
    BY <2>3, <2>4, <2>11, <2>12 DEF hard
<1>2. QED
  BY <1>1, TypeInvariant, PTL
=============================================================================
