----------------------------- MODULE UsbMonitorMC -----------------------------
(* Small instances of UsbMonitor for TLC. *)
EXTENDS UsbMonitor, TLC

Symmetry == Permutations(Blocks)

=============================================================================
