----------------------------- MODULE UvcStreamMC -----------------------------
(* Small instances of UvcStream for TLC. *)
EXTENDS UvcStream, TLC

Symmetry == Permutations(Transfers)

=============================================================================
