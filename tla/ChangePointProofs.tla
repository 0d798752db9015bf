-------------------------- MODULE ChangePointProofs --------------------------
(***************************************************************************)
(* What the detector's two tests can report, for any series, forgetting    *)
(* factor, delta and lambda.  Neither sum is ever left beyond Lambda, so   *)
(* the observation that takes it there has to push it.                     *)
(***************************************************************************)
EXTENDS ChangePoint, TLAPS

Parameters ==
  /\ Values \subseteq Int
  /\ Length \in Nat /\ One \in Nat \ {0} /\ Forget \in Nat \ {0}
  /\ Delta \in Nat /\ Lambda \in Nat

SeriesOK == series \in [1..Len(series) -> Int] /\ Len(series) \in Nat

SumsOK ==
  /\ n \in Nat
  /\ mean \in Int /\ baseline_mean \in Int
  /\ cum \in Int /\ min_cum \in Int /\ cum - min_cum <= Lambda
  /\ DOMAIN rearm = {"n", "mean", "cum", "max"}
  /\ rearm.n \in Nat /\ rearm.mean \in Int
  /\ rearm.cum \in Int /\ rearm.max \in Int /\ rearm.max - rearm.cum <= Lambda

SumsInv == SeriesOK /\ SumsOK

LEMMA SmoothedType ==
  ASSUME Parameters, NEW m \in Int, NEW y \in Int PROVE Smoothed(m, y) \in Int
<1>1. Forget \in Int /\ Forget > 0
  BY DEF Parameters
<1> DEFINE k == (Forget - 1) * m
<1>2. k \in Int
  BY <1>1
<1> HIDE DEF k
<1>3. (y + k) \div Forget \in Int
  BY <1>1, <1>2
<1>4. QED
  BY <1>3 DEF Smoothed, k

LEMMA NextValue ==
  ASSUME Parameters, SumsInv, n < Len(series) PROVE value \in Int
BY DEF SumsInv, SeriesOK, SumsOK, value

LEMMA ForwardKeeps ==
  ASSUME Parameters, SumsInv, First \/ Observe \/ Report
  PROVE  /\ SumsInv'
         /\ change_points' # change_points => value > mean' + Delta
<1>1. n < Len(series) /\ n' = n + 1 /\ UNCHANGED series
  BY DEF First, Observe, Report, Takes
<1>2. value \in Int /\ mean \in Int /\ Delta \in Nat /\ Lambda \in Nat
  BY <1>1, NextValue DEF Parameters, SumsInv, SumsOK
<1>3. CASE First
  BY <1>1, <1>2, <1>3 DEF First, SumsInv, SeriesOK, SumsOK
<1>4. ASSUME mean' = Smoothed(mean, value) PROVE mean' \in Int /\ Cum \in Int
  <2>1. mean' \in Int
    BY <1>2, <1>4, SmoothedType
  <2>2. QED
    BY <1>2, <2>1 DEF Cum, SumsInv, SumsOK
<1>5. CASE Observe
  <2>1. mean' \in Int /\ Cum \in Int
    BY <1>4, <1>5 DEF Observe
  <2>2. /\ cum' = Cum /\ min_cum' = MinCum /\ Cum - MinCum <= Lambda
        /\ UNCHANGED <<baseline_mean, rearm, change_points>>
    BY <1>5 DEF Observe
  <2>3. MinCum \in Int
    BY <2>1 DEF MinCum, Smaller, SumsInv, SumsOK
  <2>4. QED
    BY <1>1, <2>1, <2>2, <2>3 DEF SumsInv, SeriesOK, SumsOK
<1>6. CASE Report
  <2>1. mean' \in Int /\ Cum \in Int
    BY <1>4, <1>6 DEF Report
  <2>2. /\ cum' = 0 /\ min_cum' = 0 /\ baseline_mean' = mean' /\ rearm' = NoEvidence(mean')
        /\ Cum - MinCum > Lambda
    BY <1>6 DEF Report
  <2>3. value > mean' + Delta
    <3>1. Cum - min_cum > Lambda
      BY <1>2, <2>1, <2>2 DEF MinCum, Smaller, SumsInv, SumsOK
    <3>2. Cum > cum
      BY <1>2, <2>1, <3>1 DEF SumsInv, SumsOK
    <3>3. cum \in Int /\ Cum = cum + value - mean' - Delta
      BY DEF Cum, SumsInv, SumsOK
    <3> DEFINE m == mean'
               v == value
               s == Cum
    <3>4. m \in Int /\ v \in Int /\ s \in Int /\ s > cum /\ s = cum + v - m - Delta
      BY <1>2, <2>1, <3>2, <3>3
    <3> HIDE DEF m, v, s
    <3>5. v > m + Delta
      BY <1>2, <3>3, <3>4
    <3>6. QED
      BY <3>5 DEF m, v
  <2>4. /\ DOMAIN rearm' = {"n", "mean", "cum", "max"}
        /\ rearm'.n = 0 /\ rearm'.mean = mean' /\ rearm'.cum = 0 /\ rearm'.max = 0
    BY <2>2 DEF NoEvidence
  <2>5. SumsOK' /\ SeriesOK'
    BY <1>1, <1>2, <2>1, <2>2, <2>4 DEF SumsInv, SeriesOK, SumsOK
  <2>6. QED
    BY <2>3, <2>5 DEF SumsInv
<1>7. QED
  BY <1>3, <1>5, <1>6

LEMMA ReverseKeeps ==
  ASSUME Parameters, SumsInv, FirstLatched \/ Hold \/ Rearm
  PROVE  /\ SumsInv' /\ UNCHANGED change_points
         /\ Rearm /\ ~Settled => value > rearm'.mean - Delta
<1>1. /\ n < Len(series) /\ n' = n + 1 /\ UNCHANGED <<series, baseline_mean, change_points>>
      /\ mean' = Smoothed(mean, value)
  BY DEF FirstLatched, Hold, Rearm, Takes
<1>2. value \in Int /\ Delta \in Nat /\ Lambda \in Nat
  BY <1>1, NextValue DEF Parameters
<1>3. mean' \in Int /\ RearmMean \in Int
  BY <1>1, <1>2, SmoothedType DEF RearmMean, SumsInv, SumsOK
<1>4. /\ RearmCum \in Int /\ RearmMax \in Int
      /\ RearmCum >= rearm.cum + RearmMean - value - Delta
  <2>1. RearmCum \in {rearm.cum + (RearmMean - value) - Delta,
                      rearm.cum + (RearmMean - value) - Delta + Delta}
    BY <1>2, <1>3 DEF RearmCum, SumsInv, SumsOK
  <2>2. rearm.cum \in Int /\ rearm.max \in Int
    BY DEF SumsInv, SumsOK
  <2>3. RearmCum \in Int
    BY <1>2, <1>3, <2>1, <2>2
  <2>4. RearmMax \in Int
    BY <2>2, <2>3 DEF RearmMax, Larger
  <2>5. QED
    BY <1>2, <1>3, <2>1, <2>2, <2>3, <2>4
<1>5. CASE FirstLatched
  <2>1. UNCHANGED <<cum, min_cum>> /\ rearm' = [rearm EXCEPT !.n = 1, !.mean = value]
    BY <1>5 DEF FirstLatched
  <2>2. ~Rearm
    BY <1>5 DEF FirstLatched, Rearm, SumsInv, SumsOK
  <2>3. QED
    BY <1>1, <1>2, <1>3, <2>1, <2>2 DEF SumsInv, SeriesOK, SumsOK
<1>6. CASE Hold
  <2>1. /\ UNCHANGED <<cum, min_cum>>
        /\ rearm' = [n |-> rearm.n + 1, mean |-> RearmMean, cum |-> RearmCum, max |-> RearmMax]
        /\ ~Returned
    BY <1>6 DEF Hold
  <2>2. RearmMax - RearmCum <= Lambda
    BY <1>2, <1>4, <2>1 DEF Returned
  <2>3. ~Rearm
    BY <2>1 DEF Rearm
  <2>4. QED
    BY <1>1, <1>3, <1>4, <2>1, <2>2, <2>3 DEF SumsInv, SeriesOK, SumsOK
<1>7. CASE Rearm
  <2>1. cum' = 0 /\ min_cum' = 0 /\ rearm' = NoEvidence(RearmMean) /\ Returned
    BY <1>7 DEF Rearm
  <2>2. rearm'.mean = RearmMean
    BY <2>1 DEF NoEvidence
  <2>3. ASSUME ~Settled PROVE value > RearmMean - Delta
    <3>1. RearmMax - RearmCum > Lambda
      BY <2>1, <2>3 DEF Returned
    <3>2. rearm.max - RearmCum > Lambda
      BY <1>2, <1>4, <3>1 DEF RearmMax, Larger, SumsInv, SumsOK
    <3>3. RearmCum < rearm.cum
      BY <1>2, <1>4, <3>2 DEF SumsInv, SumsOK
    <3>4. QED
      BY <1>2, <1>3, <1>4, <3>3 DEF SumsInv, SumsOK
  <2>4. SumsInv'
    BY <1>1, <1>2, <1>3, <2>1 DEF NoEvidence, SumsInv, SeriesOK, SumsOK
  <2>5. QED
    BY <1>1, <2>2, <2>3, <2>4
<1>8. QED
  BY <1>5, <1>6, <1>7

LEMMA SumsInvariant ==
  ASSUME Parameters PROVE Spec => []SumsInv
<1>1. Init => SumsInv
  <2> SUFFICES ASSUME Init PROVE SumsInv
    OBVIOUS
  <2>1. series \in [1..Length -> Int] /\ Length \in Nat /\ Lambda \in Nat
    BY DEF Parameters, Init
  <2>2. Len(series) = Length
    BY <2>1
  <2>3. Length > 0 => series[1] \in Int
    BY <2>1
  <2>4. baseline_mean \in Int /\ mean \in Int
    BY <2>3 DEF Init
  <2>5. n = 0 /\ cum = 0 /\ min_cum = 0 /\ rearm = NoEvidence(0)
    BY DEF Init
  <2>6. QED
    BY <2>1, <2>2, <2>4, <2>5 DEF NoEvidence, SumsInv, SeriesOK, SumsOK
<1>2. SumsInv /\ [Next]_vars => SumsInv'
  <2>1. SumsInv /\ UNCHANGED vars => SumsInv'
    BY DEF vars, SumsInv, SeriesOK, SumsOK
  <2>2. QED
    BY <2>1, ForwardKeeps, ReverseKeeps DEF Next
<1>3. QED
  BY <1>1, <1>2, PTL DEF Spec

(* A dip is never reported: for every series and parameter a report comes  *)
(* at a value more than Delta above the running mean.                      *)
THEOREM OnlyRisesAreReported ==
  ASSUME Parameters PROVE Spec => ReportsAreRises
<1>1. SumsInv /\ [Next]_vars => [change_points' # change_points => value > mean' + Delta]_vars
  BY ForwardKeeps, ReverseKeeps DEF Next, vars
<1>2. QED
  BY <1>1, SumsInvariant, PTL DEF Spec, ReportsAreRises

(* The sum that is to detect the return to the baseline ends the latch     *)
(* only at values that do not return: for every series and parameter.      *)
THEOREM ReverseTestIsReversed ==
  ASSUME Parameters PROVE Spec => RearmIsNoReturn
<1>1. SumsInv /\ [Next]_vars =>
        [regime = "latched" /\ regime' = "nominal" /\ ~Settled => value > rearm'.mean - Delta]_vars
  <2> SUFFICES ASSUME SumsInv, Next, regime = "latched", regime' = "nominal", ~Settled
               PROVE  value > rearm'.mean - Delta
    BY DEF vars
  <2>1. Rearm
    BY DEF Next, First, Observe, Report, FirstLatched, Hold, Takes
  <2>2. QED
    BY <2>1, ReverseKeeps
<1>2. QED
  BY <1>1, SumsInvariant, PTL DEF Spec, RearmIsNoReturn
=============================================================================
