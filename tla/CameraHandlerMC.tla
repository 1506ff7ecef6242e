--------------------------- MODULE CameraHandlerMC ---------------------------
(* Small instances of CameraHandler for TLC: the constants are model values  *)
(* of the configurations.                                                    *)
EXTENDS CameraHandler

=============================================================================
