----------------------------- MODULE ChangePoint -----------------------------
(***************************************************************************)
(* The Page-Hinkley detector with its regime latch (changepoint.py): one   *)
(* run of detect over a series.  A step is one call of update.             *)
(*                                                                         *)
(* Numbers are multiples of 1/One and the forgetting factor is 1/Forget,   *)
(* so the running means are exact as long as One is a multiple of          *)
(* Forget^Length.  Only rises are detected: nothing in the program asks    *)
(* for direction "down".                                                   *)
(***************************************************************************)
EXTENDS Integers, Sequences

CONSTANTS
  Values,     \* observations, in units of 1/One
  Length,     \* bound: observations of a series
  One,        \* what stands for 1.0
  Forget,     \* 1 / alpha
  Delta, Lambda

VARIABLES
  series,         \* the observations
  n,              \* how many of them were taken
  mean, cum, min_cum,
  regime, baseline_mean,
  rearm,          \* the reverse test: samples, mean, cum, max
  change_points   \* indices into series

vars == <<series, n, mean, cum, min_cum, regime, baseline_mean, rearm, change_points>>

Abs(x) == IF x < 0 THEN -x ELSE x
Larger(x, y) == IF x > y THEN x ELSE y
Smaller(x, y) == IF x < y THEN x ELSE y

Smoothed(m, x) == (x + (Forget - 1) * m) \div Forget

(* abs(x - baseline) <= max(2 * delta, 0.05), and                          *)
(* abs(x - baseline) <= max(abs(baseline) / 4 + 0.1, 0.15).                *)
Close(x)        == 20 * Abs(x - baseline_mean) <= Larger(40 * Delta, One)
NearBaseline(x) ==
  20 * Abs(x - baseline_mean) <= Larger(5 * Abs(baseline_mean) + 2 * One, 3 * One)

NoEvidence(m) == [n |-> 0, mean |-> m, cum |-> 0, max |-> 0]

(* The next observation.                                                   *)
value == series[n + 1]
-----------------------------------------------------------------------------
Takes(state) ==
  /\ n < Len(series) /\ regime = state
  /\ n' = n + 1 /\ UNCHANGED series

First ==
  /\ Takes("nominal") /\ n = 0
  /\ mean' = value
  /\ UNCHANGED <<cum, min_cum, regime, baseline_mean, rearm, change_points>>

(* The sums of the forward test after value.                               *)
Cum    == cum + value - mean' - Delta
MinCum == Smaller(min_cum, Cum)

Observe ==
  /\ Takes("nominal") /\ n > 0
  /\ mean' = Smoothed(mean, value)
  /\ Cum - MinCum <= Lambda
  /\ cum' = Cum /\ min_cum' = MinCum
  /\ UNCHANGED <<regime, baseline_mean, rearm, change_points>>

Report ==
  /\ Takes("nominal") /\ n > 0
  /\ mean' = Smoothed(mean, value)
  /\ Cum - MinCum > Lambda
  /\ change_points' = Append(change_points, n + 1)
  /\ regime' = "latched" /\ baseline_mean' = mean'
  /\ cum' = 0 /\ min_cum' = 0 /\ rearm' = NoEvidence(mean')

(* The reverse test after value, once it has its first sample.             *)
RearmMean == Smoothed(rearm.mean, value)
RearmCum  ==
  rearm.cum + (RearmMean - value) - Delta + (IF Close(value) /\ value <= RearmMean THEN Delta ELSE 0)
RearmMax  == Larger(rearm.max, RearmCum)
Settled   == NearBaseline(value) /\ rearm.n + 1 >= 5 /\ RearmMean <= baseline_mean + 3 * Delta
Returned  == RearmMax - RearmCum > Lambda \/ Settled

FirstLatched ==
  /\ Takes("latched") /\ rearm.n = 0
  /\ mean' = Smoothed(mean, value)
  /\ rearm' = [rearm EXCEPT !.n = 1, !.mean = value]
  /\ UNCHANGED <<cum, min_cum, regime, baseline_mean, change_points>>

Hold ==
  /\ Takes("latched") /\ rearm.n > 0 /\ ~Returned
  /\ mean' = Smoothed(mean, value)
  /\ rearm' = [n |-> rearm.n + 1, mean |-> RearmMean, cum |-> RearmCum, max |-> RearmMax]
  /\ UNCHANGED <<cum, min_cum, regime, baseline_mean, change_points>>

Rearm ==
  /\ Takes("latched") /\ rearm.n > 0 /\ Returned
  /\ mean' = Smoothed(mean, value)
  /\ regime' = "nominal"
  /\ rearm' = NoEvidence(RearmMean) /\ cum' = 0 /\ min_cum' = 0
  /\ UNCHANGED <<baseline_mean, change_points>>
-----------------------------------------------------------------------------
(* reset, and the latch of an earlier run if detect is given one.          *)
Init ==
  /\ series \in [1..Length -> Values]
  /\ regime \in {"nominal", "latched"}
  /\ baseline_mean = IF regime = "latched" /\ Length > 0 THEN series[1] ELSE 0
  /\ mean = baseline_mean
  /\ n = 0 /\ cum = 0 /\ min_cum = 0
  /\ rearm = NoEvidence(0) /\ change_points = <<>>

Next == First \/ Observe \/ Report \/ FirstLatched \/ Hold \/ Rearm

Spec == Init /\ [][Next]_vars
-----------------------------------------------------------------------------
(* A change is reported once: between two reports the series has moved, as *)
(* "a sustained plateau after a detected shift does not emit duplicate     *)
(* change points" (the module's docstring).                                *)
PlateauReportsOnce ==
  \A i, j \in DOMAIN change_points :
    i < j => \E k \in change_points[i]..change_points[j] : series[k] # series[change_points[i]]

(* No dip is ever reported as a rise: a report comes at a value above the  *)
(* running mean by more than Delta, whatever had built up before (update). *)
ReportsAreRises ==
  [][change_points' # change_points => value > mean' + Delta]_vars

(* The reverse test never ends the latch on a drop: unless the value has   *)
(* settled near the baseline, it ends it at a value that is not below the  *)
(* mean of the samples by Delta (_try_rearm accumulates mean - x but fires *)
(* when the sum falls).                                                    *)
RearmIsNoReturn ==
  [][regime = "latched" /\ regime' = "nominal" /\ ~Settled => value > rearm'.mean - Delta]_vars
=============================================================================
