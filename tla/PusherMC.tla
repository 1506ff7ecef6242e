------------------------------ MODULE PusherMC ------------------------------
(* Small instances of Pusher for TLC. *)
EXTENDS Pusher
=============================================================================
