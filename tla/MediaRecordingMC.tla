-------------------------- MODULE MediaRecordingMC --------------------------
(* Small instances of MediaRecording for TLC. *)
EXTENDS MediaRecording

MCFrames == [e \in {video, audio} |-> IF e = video THEN 3 ELSE 1]

=============================================================================
