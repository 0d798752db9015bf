-------------------------- MODULE AuditChainProofs --------------------------
(* What verify_audit_chain can and cannot tell, for tables of any length.  *)
EXTENDS AuditChain, WellFoundedInduction, TLAPS

(* The records of a table, the newest last, no two with one hash.          *)
IsTable(table, n) ==
  \A i \in 1..n :
    /\ table[i].hash # Genesis
    /\ \A j \in 1..n : table[i].hash = table[j].hash => i = j

(* The query of append_audit finds a record if there is one.               *)
LEMMA NewestIsThere ==
  ASSUME NEW n \in Nat, NEW I \in SUBSET (1..n), I # {}
  PROVE  Newest(I) \in I /\ \A j \in I : j =< Newest(I)
<1> DEFINE Ages == {n - i : i \in I}
<1>1. Ages \in SUBSET Nat /\ Ages # {}
  <2>1. \A i \in I : n - i \in Nat
    OBVIOUS
  <2> QED
    BY <2>1
<1>2. PICK m \in Ages : \A k \in Ages : ~(<<k, m>> \in OpToRel(<, Nat))
  BY <1>1, WFMin, NatLessThanWellFounded, Zenon
<1>3. \A k \in Ages : ~(k < m)
  BY <1>1, <1>2 DEF OpToRel
<1>4. PICK i \in I : m = n - i
  BY <1>2
<1>5. \A j \in I : j =< i
  <2> TAKE j \in I
  <2>1. n - j \in Ages
    OBVIOUS
  <2>2. ~(n - j < n - i)
    BY <2>1, <1>3, <1>4
  <2> QED
    BY <2>2
<1> QED
  BY <1>5 DEF Newest

(* In a chain that verifies as a whole, a record refers to the one before. *)
LEMMA WholeChain ==
  ASSUME NEW n \in Nat, NEW table, VerifyAuditChain(table, 1..n),
         NEW i \in 1..n
  PROVE  table[i].previous = IF i = 1 THEN Genesis ELSE table[i - 1].hash
<1>1. table[i].previous = HashOfNewest(table, Before(1..n, i))
  BY DEF VerifyAuditChain
<1>2. CASE i = 1
  BY <1>1, <1>2 DEF HashOfNewest, Before
<1>3. CASE i # 1
  <2>1. Before(1..n, i) = 1..(i - 1)
    BY DEF Before
  <2>2. i - 1 \in 1..(i - 1) /\ i - 1 \in Nat
    BY <1>3
  <2>3. Newest(1..(i - 1)) \in 1..(i - 1) /\ \A j \in 1..(i - 1) : j =< Newest(1..(i - 1))
    BY <2>2, NewestIsThere
  <2>4. Newest(1..(i - 1)) = i - 1
    BY <2>2, <2>3
  <2> QED
    BY <1>1, <1>3, <2>1, <2>2, <2>4 DEF HashOfNewest
<1> QED
  BY <1>2, <1>3

(* Of a chain that verifies as a whole, a part verifies exactly if each of *)
(* its records comes with the one before it.  Read one way: a record that  *)
(* is removed is missed, unless it is the last.  Read the other way: the   *)
(* history of one request (api/access_routes.py, which passes that         *)
(* request's records alone) is reported as broken, with nothing altered,   *)
(* as soon as a record of another request comes before one of them.        *)
THEOREM PartVerifiesIffClosed ==
  ASSUME NEW n \in Nat, NEW table, IsTable(table, n),
         VerifyAuditChain(table, 1..n),
         NEW I \in SUBSET (1..n)
  PROVE  VerifyAuditChain(table, I) <=> \A i \in I : i > 1 => i - 1 \in I
<1>1. ASSUME VerifyAuditChain(table, I), NEW i \in I, i > 1
      PROVE  i - 1 \in I
  <2>1. i \in 1..n /\ i - 1 \in 1..n
    BY <1>1
  <2>2. table[i].previous = table[i - 1].hash
    BY <1>1, <2>1, WholeChain
  <2>3. table[i].previous = HashOfNewest(table, Before(I, i))
    BY <1>1 DEF VerifyAuditChain
  <2>4. Before(I, i) # {}
    BY <2>1, <2>2, <2>3 DEF HashOfNewest, IsTable
  <2>5. Newest(Before(I, i)) \in Before(I, i)
    <3>1. Before(I, i) \in SUBSET (1..n)
      BY DEF Before
    <3> QED
      BY <3>1, <2>4, NewestIsThere
  <2>6. Newest(Before(I, i)) \in I /\ Newest(Before(I, i)) \in 1..n
    BY <2>5 DEF Before
  <2>7. table[Newest(Before(I, i))].hash = table[i - 1].hash
    BY <2>2, <2>3, <2>4 DEF HashOfNewest
  <2> QED
    BY <2>1, <2>6, <2>7 DEF IsTable
<1>2. ASSUME \A i \in I : i > 1 => i - 1 \in I
      PROVE  VerifyAuditChain(table, I)
  <2> SUFFICES ASSUME NEW i \in I
               PROVE  table[i].previous = HashOfNewest(table, Before(I, i))
    BY DEF VerifyAuditChain
  <2>1. i \in 1..n
    OBVIOUS
  <2>2. CASE i = 1
    <3>1. Before(I, i) = {}
      <4>1. \A j \in I : ~(j < 1)
        OBVIOUS
      <4> QED
        BY <2>2, <4>1 DEF Before
    <3>2. table[i].previous = Genesis
      BY <2>1, <2>2, WholeChain
    <3> QED
      BY <3>1, <3>2 DEF HashOfNewest
  <2>3. CASE i # 1
    <3>1. i - 1 \in Before(I, i) /\ Before(I, i) \in SUBSET (1..n)
      <4>1. i > 1 /\ i - 1 < i
        BY <2>1, <2>3
      <4>2. i - 1 \in I
        BY <4>1, <1>2
      <4> QED
        BY <4>1, <4>2 DEF Before
    <3>2. /\ Newest(Before(I, i)) \in Before(I, i)
          /\ \A j \in Before(I, i) : j =< Newest(Before(I, i))
      BY <3>1, NewestIsThere
    <3>3. Newest(Before(I, i)) = i - 1
      BY <3>1, <3>2, <2>1 DEF Before
    <3>4. table[i].previous = table[i - 1].hash
      BY <2>1, <2>3, WholeChain
    <3> QED
      BY <3>1, <3>3, <3>4 DEF HashOfNewest
  <2> QED
    BY <2>2, <2>3
<1> QED
  BY <1>1, <1>2

(* A removed record is missed: whatever is taken from a chain that         *)
(* verifies, but for records at its end, it no longer does.                *)
COROLLARY RemovalIsDetected ==
  ASSUME NEW n \in Nat, NEW table, IsTable(table, n),
         VerifyAuditChain(table, 1..n),
         NEW k \in 1..n, k < n
  PROVE  ~VerifyAuditChain(table, (1..n) \ {k})
<1>1. k + 1 \in (1..n) \ {k} /\ k + 1 > 1 /\ (k + 1) - 1 = k
  OBVIOUS
<1>2. k \notin (1..n) \ {k}
  OBVIOUS
<1> QED
  BY <1>1, <1>2, PartVerifiesIffClosed
=============================================================================
