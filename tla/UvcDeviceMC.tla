---------------------------- MODULE UvcDeviceMC ----------------------------
(* Small instances of UvcDevice for TLC: the thread that opens and closes   *)
(* the camera, the preview thread, and the event thread.                    *)
EXTENDS UvcDevice, TLC

CONSTANTS main, preview

MCCallers == {main, preview}

=============================================================================
