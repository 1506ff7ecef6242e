---------------------------- MODULE UVCPreviewMC ----------------------------
(* Small instances of UVCPreview for TLC. *)
EXTENDS UVCPreview, TLC

Symmetry == Permutations(Frames) \cup Permutations(CaptureThreads)

=============================================================================
