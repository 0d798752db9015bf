---------------------------- MODULE MCChangePoint ----------------------------
(* Instances of ChangePoint for TLC: alpha 1/4, delta 1/8, lambda 3/8 on   *)
(* observations 0.0 and 4.0; one lambda lasts three deltas instead of the  *)
(* fifty of config.py.                                                     *)
EXTENDS ChangePoint

Exact    == 4 ^ Length
LowHigh  == {0, 4 * Exact}
AnEighth == Exact \div 8
ThreeEighths == 3 * AnEighth
=============================================================================
