------------------------------ MODULE MCOutbox ------------------------------
(* Instances of Outbox for TLC.                                             *)
EXTENDS Outbox, TLC

CONSTANTS w1, w2   \* worker processes

DispatcherSymmetry == Permutations({w1, w2})
=============================================================================
