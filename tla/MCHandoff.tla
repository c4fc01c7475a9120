----------------------------- MODULE MCHandoff -----------------------------
(* Small instances of Handoff for TLC. *)
EXTENDS Handoff, TLC

Interchangeable == Permutations(Clis) \cup Permutations(Windows)
=============================================================================
