------------------------------ MODULE MCBilling ------------------------------
(* Small instances of Billing for TLC.                                      *)
EXTENDS Billing

EveryRegime == {"in order", "any order", "parallel"}

AnyOrder == {"any order"}
=============================================================================
