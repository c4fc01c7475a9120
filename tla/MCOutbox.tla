------------------------------ MODULE MCOutbox ------------------------------
(* Small instances of Outbox for TLC. *)
EXTENDS Outbox, TLC

CONSTANTS d1, d2, o1, o2

OpSymmetry == Permutations({o1, o2})
=============================================================================
