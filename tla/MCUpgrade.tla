------------------------------ MODULE MCUpgrade ------------------------------
(* An instance of Upgrade for TLC. *)
EXTENDS Upgrade

CONSTANTS w1, w2

TwoWorkers == {w1, w2}
=============================================================================
