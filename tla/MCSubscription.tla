--------------------------- MODULE MCSubscription ---------------------------
(* Instances of Subscription for TLC.  ChargeHonoured is a liveness property,*)
(* so that no symmetry is declared.                                          *)
EXTENDS Subscription
=============================================================================
