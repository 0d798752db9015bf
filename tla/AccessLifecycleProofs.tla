------------------------- MODULE AccessLifecycleProofs -------------------------
(***************************************************************************)
(* What every implementation of AccessLifecycle inherits.                  *)
(***************************************************************************)
EXTENDS AccessLifecycle, TLAPS

TypeOK == phase \in [Requests -> Phase] /\ open \in [Requests -> BOOLEAN]

(* The lifecycle keeps its types, and opens nothing outside a grant.       *)
LEMMA LifecycleInvariant == Spec => [](TypeOK /\ OpenOnlyWhileGranted)
<1> DEFINE Inv == TypeOK /\ OpenOnlyWhileGranted
<1>1. Init => Inv
  BY DEF Init, TypeOK, OpenOnlyWhileGranted, Phase
<1>2. Inv /\ [Next]_vars => Inv'
  <2> SUFFICES ASSUME Inv, [Next]_vars PROVE Inv'
    OBVIOUS
  <2> USE DEF TypeOK, OpenOnlyWhileGranted, Phase
  <2>1. ASSUME NEW r \in Requests, Open(r) \/ Shut(r) PROVE Inv'
    BY <2>1 DEF Open, Shut
  <2>2. ASSUME NEW r \in Requests,
               \/ Submit(r) \/ Refuse(r) \/ Grant(r) \/ Activate(r)
               \/ Withdraw(r) \/ Fail(r) \/ Close(r)
        PROVE  Inv'
    BY <2>2 DEF Submit, Refuse, Grant, Activate, Withdraw, Fail, Close, MoveTo
  <2>3. CASE UNCHANGED vars
    BY <2>3 DEF vars
  <2>4. QED
    BY <2>1, <2>2, <2>3 DEF Next
<1>3. QED
  BY <1>1, <1>2, PTL DEF Spec

(* Nobody is let in during the review or after a refusal, a revocation or  *)
(* an expiry.                                                              *)
THEOREM OpenOnlyUnderGrant == Spec => []OpenOnlyWhileGranted
BY LifecycleInvariant, PTL

(* What is closed is closed for good.                                      *)
THEOREM ClosedForGood == Spec => ClosedIsFinal
<1>1. TypeOK /\ [Next]_vars =>
        [\A r \in Requests : phase[r] = "closed" => phase'[r] = "closed"]_vars
  <2> SUFFICES ASSUME TypeOK, Next, NEW q \in Requests, phase[q] = "closed"
               PROVE  phase'[q] = "closed"
    BY DEF vars
  <2>1. PICK r \in Requests :
          \/ Submit(r) \/ Refuse(r) \/ Grant(r) \/ Open(r) \/ Activate(r)
          \/ Withdraw(r) \/ Fail(r) \/ Shut(r) \/ Close(r)
    BY DEF Next
  <2>2. QED
    BY <2>1 DEF TypeOK, Submit, Refuse, Grant, Open, Activate, Withdraw, Fail, Shut, Close, MoveTo
<1>2. QED
  BY <1>1, LifecycleInvariant, PTL DEF Spec, ClosedIsFinal
=============================================================================
