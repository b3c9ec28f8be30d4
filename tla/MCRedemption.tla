---------------------------- MODULE MCRedemption ----------------------------
(* Instances of Redemption: two resolved conditions, so that a call can be    *)
(* refused and retried, and a condition asked for again or another one.       *)
EXTENDS Redemption

MCConditions == {"c1", "c2"}
=============================================================================
