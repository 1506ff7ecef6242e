---------------------------- MODULE StreamService ----------------------------
(***************************************************************************)
(* What uvc_start_streaming_bandwidth and uvc_stop_streaming promise their *)
(* caller: frames are delivered one at a time, from the start of the       *)
(* stream until uvc_stop_streaming returns, and never after it.            *)
(***************************************************************************)
VARIABLES
  stream,     \* "off", "on" or "stopping": as its caller knows it
  delivering  \* TRUE: a call of the frame callback is in progress

serviceVars == <<stream, delivering>>

ServiceInit == stream = "off" /\ delivering = FALSE

Start == stream = "off" /\ stream' = "on" /\ UNCHANGED delivering

Deliver == stream # "off" /\ ~delivering /\ delivering' = TRUE /\ UNCHANGED stream

Return == delivering /\ delivering' = FALSE /\ UNCHANGED stream

Stop == stream = "on" /\ stream' = "stopping" /\ UNCHANGED delivering

Stopped == stream = "stopping" /\ ~delivering /\ stream' = "off" /\ UNCHANGED delivering

ServiceNext == Start \/ Deliver \/ Return \/ Stop \/ Stopped

ServiceSpec == ServiceInit /\ [][ServiceNext]_serviceVars

=============================================================================
