----------------------------- MODULE PusherProofs -----------------------------
(***************************************************************************)
(* Proofs about Pusher, for any number of recordings.                      *)
(*                                                                         *)
(* The argument: the camera thread joins the consumers of a recording      *)
(* before it lets go of them, so that at most one recording has threads;   *)
(* and what the capture thread has seen open it finds open until that      *)
(* recording is told to exit.                                              *)
(***************************************************************************)
EXTENDS Pusher, TLAPS

(* The fields of the handler, at each step of the camera thread. *)
CameraLife ==
  /\ mAacConsumer # None => mAacConsumer = mH264Consumer
  /\ client = "startAudio" => mH264Consumer # None
  /\ client \notin {"idle"} => mAacConsumer = None
  /\ client = "forget" => mH264Consumer # None /\ isExit[mH264Consumer]
  /\ client = "join" => mH264Consumer = None /\ isExit[joining]

(* A video thread runs only for the consumer of the handler or for the one  *)
(* the handler waits for, and has its numerals and its codec in between.    *)
HasNumerals == {"codec", "sleep", "drain", "stop", "release", "free"}
HasCodec    == {"sleep", "drain", "stop", "release"}
VideoLife ==
  /\ numerals # None => avc /\ pc[numerals] \in HasNumerals
  /\ \A c \in Sessions :
       /\ pc[c] \notin {"new", "end"} => c = mH264Consumer \/ (client = "join" /\ c = joining)
       /\ pc[c] \in HasNumerals /\ avc => numerals = c
       /\ pc[c] = "codec" => avc
       /\ pc[c] \in {"stop", "release", "free", "end"} => isExit[c]
       /\ isEncoderStart[c] => avc /\ pc[c] \in {"sleep", "drain", "stop"}
       /\ codec[c] = "running" <=> avc /\ pc[c] \in HasCodec

(* The same of the audio threads, their recorders and their encoders, and   *)
(* of the exceptions they meet.                                             *)
AudioLife ==
  /\ \A c \in Sessions :
       /\ apc[c] \notin {"new", "end"} => c = mAacConsumer \/ (client = "joinAudio" /\ c = joining)
       /\ apc[c] \in {"stop", "end"} => exitAudio[c]
       /\ recorder[c] # "none" <=> apc[c] \in {"codec", "loop", "read", "stop"}
       /\ recorder[c] = "useless" => ~mic
       /\ recorder[c] = "on" => mic
       /\ apc[c] \in {"loop", "read"} /\ aac => c \in mAudioEncoder
  /\ ThrowsOnlyFor

(* The consumer the capture thread has seen is that of the handler or is    *)
(* told to exit; and it has been open, if the thread saw it open.           *)
CaptureLife ==
  /\ seen # None => seen = mH264Consumer \/ isExit[seen]
  /\ frame \in {"draw", "feed", "queue"} => avc /\ pc[seen] \in HasCodec \cup {"free", "end"}
  /\ FramesAreLostOnlyInAStop

IInv == TypeOK /\ CameraLife /\ VideoLife /\ AudioLife /\ CaptureLife

(* Nothing has been started.                                                *)
LEMMA InitInv == Init => IInv
<1> SUFFICES ASSUME Init PROVE IInv
  OBVIOUS
<1> USE SessionsAssumption DEF Init, OptSessions, HasNumerals, HasCodec
<1>1. TypeOK
  BY DEF TypeOK
<1>2. CameraLife /\ CaptureLife
  BY DEF CameraLife, CaptureLife, FramesAreLostOnlyInAStop
<1>3. VideoLife
  BY DEF VideoLife
<1>4. AudioLife
  BY DEF AudioLife, ThrowsOnlyFor
<1> QED
  BY <1>1, <1>2, <1>3, <1>4 DEF IInv

(* Starting and stopping a recording preserves the invariant.               *)
LEMMA StartStopStep ==
  ASSUME IInv, Running, Start \/ StopAudioRecord \/ Stop
  PROVE  IInv'
<1> USE SessionsAssumption
    DEF IInv, Running, OptSessions, HasNumerals, HasCodec, camera, encoder, voice, phone, capture, exits
<1>1. CASE \E c \in Sessions, v \in BOOLEAN : StartVideoRecord(c, v)
  <2>1. TypeOK'
    BY <1>1 DEF StartVideoRecord, TypeOK
  <2>2. CameraLife'
    BY <1>1 DEF StartVideoRecord, TypeOK, CameraLife
  <2>3. VideoLife'
    BY <1>1 DEF StartVideoRecord, TypeOK, CameraLife, VideoLife
  <2>4. AudioLife'
    BY <1>1 DEF StartVideoRecord, TypeOK, CameraLife, AudioLife, ThrowsOnlyFor
  <2>5. CaptureLife'
    BY <1>1 DEF StartVideoRecord, TypeOK, CameraLife, VideoLife, CaptureLife, FramesAreLostOnlyInAStop
  <2> QED
    BY <2>1, <2>2, <2>3, <2>4, <2>5
<1>2. CASE StartAudioRecord
  <2>1. TypeOK'
    BY <1>2 DEF StartAudioRecord, TypeOK, CameraLife
  <2>2. CameraLife'
    BY <1>2 DEF StartAudioRecord, TypeOK, CameraLife
  <2>3. VideoLife'
    BY <1>2 DEF StartAudioRecord, TypeOK, CameraLife, VideoLife
  <2>4. AudioLife'
    BY <1>2 DEF StartAudioRecord, TypeOK, CameraLife, AudioLife, ThrowsOnlyFor
  <2>5. CaptureLife'
    BY <1>2 DEF StartAudioRecord, TypeOK, CameraLife, VideoLife, CaptureLife, FramesAreLostOnlyInAStop
  <2> QED
    BY <2>1, <2>2, <2>3, <2>4, <2>5
<1>3. CASE StopAudioRecord
  <2>1. TypeOK'
    <3>1. CASE mAacConsumer = None
      BY <1>3, <3>1 DEF StopAudioRecord, TypeOK, CameraLife
    <3>2. CASE mAacConsumer # None
      <4>1. exitAudio \in [Sessions -> BOOLEAN] /\ mAacConsumer \in Sessions
        BY <3>2 DEF TypeOK
      <4>2. exitAudio' \in [Sessions -> BOOLEAN]
        BY <1>3, <3>2, <4>1 DEF StopAudioRecord
      <4> QED
        BY <1>3, <3>2, <4>1, <4>2 DEF StopAudioRecord, TypeOK, CameraLife
    <3> QED
      BY <3>1, <3>2
  <2>2. CameraLife'
    BY <1>3 DEF StopAudioRecord, TypeOK, CameraLife
  <2>3. VideoLife'
    BY <1>3 DEF StopAudioRecord, TypeOK, CameraLife, VideoLife
  <2>4. AudioLife'
    BY <1>3 DEF StopAudioRecord, TypeOK, CameraLife, AudioLife, ThrowsOnlyFor
  <2>5. CaptureLife'
    BY <1>3 DEF StopAudioRecord, TypeOK, CameraLife, VideoLife, CaptureLife, FramesAreLostOnlyInAStop
  <2> QED
    BY <2>1, <2>2, <2>3, <2>4, <2>5
<1>4. CASE JoinAudio
  <2>1. TypeOK'
    BY <1>4 DEF JoinAudio, TypeOK
  <2>2. CameraLife'
    BY <1>4 DEF JoinAudio, TypeOK, CameraLife
  <2>3. VideoLife'
    BY <1>4 DEF JoinAudio, TypeOK, CameraLife, VideoLife
  <2>4. AudioLife'
    BY <1>4 DEF JoinAudio, TypeOK, CameraLife, AudioLife, ThrowsOnlyFor
  <2>5. CaptureLife'
    BY <1>4 DEF JoinAudio, TypeOK, CameraLife, VideoLife, CaptureLife, FramesAreLostOnlyInAStop
  <2> QED
    BY <2>1, <2>2, <2>3, <2>4, <2>5
<1>5. CASE StopVideoRecord
  <2>1. TypeOK'
    <3>1. CASE mH264Consumer = None
      BY <1>5, <3>1 DEF StopVideoRecord, TypeOK, CameraLife
    <3>2. CASE mH264Consumer # None
      <4>1. isExit \in [Sessions -> BOOLEAN] /\ mH264Consumer \in Sessions
        BY <3>2 DEF TypeOK
      <4>2. isExit' \in [Sessions -> BOOLEAN]
        BY <1>5, <3>2, <4>1 DEF StopVideoRecord
      <4> QED
        BY <1>5, <3>2, <4>1, <4>2 DEF StopVideoRecord, TypeOK, CameraLife
    <3> QED
      BY <3>1, <3>2
  <2>2. CameraLife'
    BY <1>5 DEF StopVideoRecord, TypeOK, CameraLife
  <2>3. VideoLife'
    BY <1>5 DEF StopVideoRecord, TypeOK, CameraLife, VideoLife
  <2>4. AudioLife'
    BY <1>5 DEF StopVideoRecord, TypeOK, CameraLife, AudioLife, ThrowsOnlyFor
  <2>5. CaptureLife'
    BY <1>5 DEF StopVideoRecord, TypeOK, CameraLife, VideoLife, CaptureLife, FramesAreLostOnlyInAStop
  <2> QED
    BY <2>1, <2>2, <2>3, <2>4, <2>5
<1>6. CASE ForgetConsumer
  <2>1. TypeOK'
    BY <1>6 DEF ForgetConsumer, TypeOK, CameraLife
  <2>2. CameraLife'
    BY <1>6 DEF ForgetConsumer, TypeOK, CameraLife
  <2>3. VideoLife'
    BY <1>6 DEF ForgetConsumer, TypeOK, CameraLife, VideoLife
  <2>4. AudioLife'
    BY <1>6 DEF ForgetConsumer, TypeOK, CameraLife, AudioLife, ThrowsOnlyFor
  <2>5. CaptureLife'
    BY <1>6 DEF ForgetConsumer, TypeOK, CameraLife, VideoLife, CaptureLife, FramesAreLostOnlyInAStop
  <2> QED
    BY <2>1, <2>2, <2>3, <2>4, <2>5
<1>7. CASE JoinVideo
  <2>1. TypeOK'
    BY <1>7 DEF JoinVideo, TypeOK
  <2>2. CameraLife'
    BY <1>7 DEF JoinVideo, TypeOK, CameraLife
  <2>3. VideoLife'
    BY <1>7 DEF JoinVideo, TypeOK, CameraLife, VideoLife
  <2>4. AudioLife'
    BY <1>7 DEF JoinVideo, TypeOK, CameraLife, AudioLife, ThrowsOnlyFor
  <2>5. CaptureLife'
    BY <1>7 DEF JoinVideo, TypeOK, CameraLife, VideoLife, CaptureLife, FramesAreLostOnlyInAStop
  <2> QED
    BY <2>1, <2>2, <2>3, <2>4, <2>5
<1> QED
  BY <1>1, <1>2, <1>3, <1>4, <1>5, <1>6, <1>7 DEF Start, Stop

(* A step of a video thread preserves the invariant.                       *)
LEMMA VideoStep ==
  ASSUME IInv, Running, NEW c \in Sessions, Video(c)
  PROVE  IInv'
<1> USE SessionsAssumption
    DEF IInv, Running, OptSessions, HasNumerals, HasCodec, camera, encoder, voice, phone, capture, exits
<1>1. CASE InitOsd(c)
  <2>1. TypeOK'
    BY <1>1 DEF InitOsd, TypeOK
  <2>2. CameraLife'
    BY <1>1 DEF InitOsd, TypeOK, CameraLife
  <2>3. VideoLife'
    BY <1>1 DEF InitOsd, TypeOK, CameraLife, VideoLife
  <2>4. AudioLife'
    BY <1>1 DEF InitOsd, TypeOK, CameraLife, AudioLife, ThrowsOnlyFor
  <2>5. CaptureLife'
    BY <1>1 DEF InitOsd, TypeOK, CameraLife, VideoLife, CaptureLife, FramesAreLostOnlyInAStop
  <2> QED
    BY <2>1, <2>2, <2>3, <2>4, <2>5
<1>2. CASE StartMediaCodec(c)
  <2>1. TypeOK'
    <3>1. codec' \in [Sessions -> {"none", "running", "released"}]
      BY <1>2 DEF StartMediaCodec, TypeOK
    <3>2. isEncoderStart \in [Sessions -> BOOLEAN]
      BY DEF TypeOK
    <3>3. isEncoderStart' = [isEncoderStart EXCEPT ![c] = TRUE] \/ UNCHANGED isEncoderStart
      BY <1>2 DEF StartMediaCodec
    <3>4. isEncoderStart' \in [Sessions -> BOOLEAN]
      BY <3>2, <3>3
    <3>5. pc' = [pc EXCEPT ![c] = "sleep"] \/ UNCHANGED pc
      BY <1>2 DEF StartMediaCodec
    <3>6. thrown' = "create" \/ UNCHANGED thrown
      BY <1>2 DEF StartMediaCodec
    <3>7. UNCHANGED <<camera, numerals, voice, phone, capture, exits>>
      BY <1>2 DEF StartMediaCodec
    <3> QED
      BY <3>1, <3>4, <3>5, <3>6, <3>7 DEF TypeOK
  <2>2. CameraLife'
    BY <1>2 DEF StartMediaCodec, TypeOK, CameraLife
  <2>3. VideoLife'
    BY <1>2 DEF StartMediaCodec, TypeOK, CameraLife, VideoLife
  <2>4. AudioLife'
    BY <1>2 DEF StartMediaCodec, TypeOK, CameraLife, AudioLife, ThrowsOnlyFor
  <2>5. CaptureLife'
    BY <1>2 DEF StartMediaCodec, TypeOK, CameraLife, VideoLife, CaptureLife, FramesAreLostOnlyInAStop
  <2> QED
    BY <2>1, <2>2, <2>3, <2>4, <2>5
<1>3. CASE Sleep(c)
  <2>1. TypeOK'
    BY <1>3 DEF Sleep, TypeOK
  <2>2. CameraLife'
    BY <1>3 DEF Sleep, TypeOK, CameraLife
  <2>3. VideoLife'
    BY <1>3 DEF Sleep, TypeOK, CameraLife, VideoLife
  <2>4. AudioLife'
    BY <1>3 DEF Sleep, TypeOK, CameraLife, AudioLife, ThrowsOnlyFor
  <2>5. CaptureLife'
    BY <1>3 DEF Sleep, TypeOK, CameraLife, VideoLife, CaptureLife, FramesAreLostOnlyInAStop
  <2> QED
    BY <2>1, <2>2, <2>3, <2>4, <2>5
<1>4. CASE DrainUntilExit(c)
  <2>1. TypeOK'
    BY <1>4 DEF DrainUntilExit, TypeOK
  <2>2. CameraLife'
    BY <1>4 DEF DrainUntilExit, TypeOK, CameraLife
  <2>3. VideoLife'
    BY <1>4 DEF DrainUntilExit, TypeOK, CameraLife, VideoLife
  <2>4. AudioLife'
    BY <1>4 DEF DrainUntilExit, TypeOK, CameraLife, AudioLife, ThrowsOnlyFor
  <2>5. CaptureLife'
    BY <1>4 DEF DrainUntilExit, TypeOK, CameraLife, VideoLife, CaptureLife, FramesAreLostOnlyInAStop
  <2> QED
    BY <2>1, <2>2, <2>3, <2>4, <2>5
<1>5. CASE StopMediaCodec(c)
  <2>1. TypeOK'
    BY <1>5 DEF StopMediaCodec, TypeOK
  <2>2. CameraLife'
    BY <1>5 DEF StopMediaCodec, TypeOK, CameraLife
  <2>3. VideoLife'
    BY <1>5 DEF StopMediaCodec, TypeOK, CameraLife, VideoLife
  <2>4. AudioLife'
    BY <1>5 DEF StopMediaCodec, TypeOK, CameraLife, AudioLife, ThrowsOnlyFor
  <2>5. CaptureLife'
    BY <1>5 DEF StopMediaCodec, TypeOK, CameraLife, VideoLife, CaptureLife, FramesAreLostOnlyInAStop
  <2> QED
    BY <2>1, <2>2, <2>3, <2>4, <2>5
<1>6. CASE ReleaseCodec(c)
  <2>1. TypeOK'
    BY <1>6 DEF ReleaseCodec, TypeOK
  <2>2. CameraLife'
    BY <1>6 DEF ReleaseCodec, TypeOK, CameraLife
  <2>3. VideoLife'
    BY <1>6 DEF ReleaseCodec, TypeOK, CameraLife, VideoLife
  <2>4. AudioLife'
    BY <1>6 DEF ReleaseCodec, TypeOK, CameraLife, AudioLife, ThrowsOnlyFor
  <2>5. CaptureLife'
    BY <1>6 DEF ReleaseCodec, TypeOK, CameraLife, VideoLife, CaptureLife, FramesAreLostOnlyInAStop
  <2> QED
    BY <2>1, <2>2, <2>3, <2>4, <2>5
<1>7. CASE ReleaseOsd(c)
  <2>1. TypeOK'
    BY <1>7 DEF ReleaseOsd, TypeOK
  <2>2. CameraLife'
    BY <1>7 DEF ReleaseOsd, TypeOK, CameraLife
  <2>3. VideoLife'
    BY <1>7 DEF ReleaseOsd, TypeOK, CameraLife, VideoLife
  <2>4. AudioLife'
    BY <1>7 DEF ReleaseOsd, TypeOK, CameraLife, AudioLife, ThrowsOnlyFor
  <2>5. CaptureLife'
    BY <1>7 DEF ReleaseOsd, TypeOK, CameraLife, VideoLife, CaptureLife, FramesAreLostOnlyInAStop
  <2> QED
    BY <2>1, <2>2, <2>3, <2>4, <2>5
<1> QED
  BY <1>1, <1>2, <1>3, <1>4, <1>5, <1>6, <1>7 DEF Video

(* A step of an audio thread preserves the invariant.                      *)
LEMMA AudioStep ==
  ASSUME IInv, Running, NEW c \in Sessions, Audio(c)
  PROVE  IInv'
<1> USE SessionsAssumption
    DEF IInv, Running, OptSessions, HasNumerals, HasCodec, camera, encoder, voice, phone, capture, exits
<1>1. CASE InitAudioRecord(c)
  <2>1. TypeOK'
    BY <1>1 DEF InitAudioRecord, TypeOK
  <2>2. CameraLife'
    BY <1>1 DEF InitAudioRecord, TypeOK, CameraLife
  <2>3. VideoLife'
    BY <1>1 DEF InitAudioRecord, TypeOK, CameraLife, VideoLife
  <2>4. AudioLife'
    BY <1>1 DEF InitAudioRecord, TypeOK, CameraLife, AudioLife, ThrowsOnlyFor
  <2>5. CaptureLife'
    BY <1>1 DEF InitAudioRecord, TypeOK, CameraLife, VideoLife, CaptureLife, FramesAreLostOnlyInAStop
  <2> QED
    BY <2>1, <2>2, <2>3, <2>4, <2>5
<1>2. CASE InitMediaCodec(c)
  <2>1. TypeOK'
    BY <1>2 DEF InitMediaCodec, TypeOK
  <2>2. CameraLife'
    BY <1>2 DEF InitMediaCodec, TypeOK, CameraLife
  <2>3. VideoLife'
    BY <1>2 DEF InitMediaCodec, TypeOK, CameraLife, VideoLife
  <2>4. AudioLife'
    BY <1>2 DEF InitMediaCodec, TypeOK, CameraLife, AudioLife, ThrowsOnlyFor
  <2>5. CaptureLife'
    BY <1>2 DEF InitMediaCodec, TypeOK, CameraLife, VideoLife, CaptureLife, FramesAreLostOnlyInAStop
  <2> QED
    BY <2>1, <2>2, <2>3, <2>4, <2>5
<1>3. CASE LookAtExit(c)
  <2>1. TypeOK'
    BY <1>3 DEF LookAtExit, TypeOK
  <2>2. CameraLife'
    BY <1>3 DEF LookAtExit, TypeOK, CameraLife
  <2>3. VideoLife'
    BY <1>3 DEF LookAtExit, TypeOK, CameraLife, VideoLife
  <2>4. AudioLife'
    BY <1>3 DEF LookAtExit, TypeOK, CameraLife, AudioLife, ThrowsOnlyFor
  <2>5. CaptureLife'
    BY <1>3 DEF LookAtExit, TypeOK, CameraLife, VideoLife, CaptureLife, FramesAreLostOnlyInAStop
  <2> QED
    BY <2>1, <2>2, <2>3, <2>4, <2>5
<1>4. CASE ReadAudio(c)
  <2>1. TypeOK'
    BY <1>4 DEF ReadAudio, TypeOK
  <2>2. CameraLife'
    BY <1>4 DEF ReadAudio, TypeOK, CameraLife
  <2>3. VideoLife'
    BY <1>4 DEF ReadAudio, TypeOK, CameraLife, VideoLife
  <2>4. AudioLife'
    BY <1>4 DEF ReadAudio, TypeOK, CameraLife, AudioLife, ThrowsOnlyFor
  <2>5. CaptureLife'
    BY <1>4 DEF ReadAudio, TypeOK, CameraLife, VideoLife, CaptureLife, FramesAreLostOnlyInAStop
  <2> QED
    BY <2>1, <2>2, <2>3, <2>4, <2>5
<1>5. CASE StopAudio(c)
  <2>1. TypeOK'
    BY <1>5 DEF StopAudio, TypeOK
  <2>2. CameraLife'
    BY <1>5 DEF StopAudio, TypeOK, CameraLife
  <2>3. VideoLife'
    BY <1>5 DEF StopAudio, TypeOK, CameraLife, VideoLife
  <2>4. AudioLife'
    BY <1>5 DEF StopAudio, TypeOK, CameraLife, AudioLife, ThrowsOnlyFor
  <2>5. CaptureLife'
    BY <1>5 DEF StopAudio, TypeOK, CameraLife, VideoLife, CaptureLife, FramesAreLostOnlyInAStop
  <2> QED
    BY <2>1, <2>2, <2>3, <2>4, <2>5
<1> QED
  BY <1>1, <1>2, <1>3, <1>4, <1>5 DEF Audio

(* A step of the capture thread preserves the invariant.                    *)
LEMMA CaptureStep ==
  ASSUME IInv, Running, Capture
  PROVE  IInv'
<1> USE SessionsAssumption
    DEF IInv, Running, OptSessions, HasNumerals, HasCodec, camera, encoder, voice, phone, capture, exits,
        Done, Lose, Continue
<1>1. CASE OnFrame
  <2>1. TypeOK'
    BY <1>1 DEF OnFrame, TypeOK
  <2>2. CameraLife'
    BY <1>1 DEF OnFrame, TypeOK, CameraLife
  <2>3. VideoLife'
    BY <1>1 DEF OnFrame, TypeOK, CameraLife, VideoLife
  <2>4. AudioLife'
    BY <1>1 DEF OnFrame, TypeOK, CameraLife, AudioLife, ThrowsOnlyFor
  <2>5. CaptureLife'
    BY <1>1 DEF OnFrame, TypeOK, CameraLife, VideoLife, CaptureLife, FramesAreLostOnlyInAStop
  <2> QED
    BY <2>1, <2>2, <2>3, <2>4, <2>5
<1>2. CASE ReadConsumer
  <2>1. TypeOK'
    BY <1>2 DEF ReadConsumer, TypeOK
  <2>2. CameraLife'
    BY <1>2 DEF ReadConsumer, TypeOK, CameraLife
  <2>3. VideoLife'
    BY <1>2 DEF ReadConsumer, TypeOK, CameraLife, VideoLife
  <2>4. AudioLife'
    BY <1>2 DEF ReadConsumer, TypeOK, CameraLife, AudioLife, ThrowsOnlyFor
  <2>5. CaptureLife'
    BY <1>2 DEF ReadConsumer, TypeOK, CameraLife, VideoLife, CaptureLife, FramesAreLostOnlyInAStop
  <2> QED
    BY <2>1, <2>2, <2>3, <2>4, <2>5
<1>3. CASE SetRawYuv
  <2>1. TypeOK'
    BY <1>3 DEF SetRawYuv, TypeOK
  <2>2. CameraLife'
    BY <1>3 DEF SetRawYuv, TypeOK, CameraLife
  <2>3. VideoLife'
    BY <1>3 DEF SetRawYuv, TypeOK, CameraLife, VideoLife
  <2>4. AudioLife'
    BY <1>3 DEF SetRawYuv, TypeOK, CameraLife, AudioLife, ThrowsOnlyFor
  <2>5. CaptureLife'
    BY <1>3 DEF SetRawYuv, TypeOK, CameraLife, VideoLife, CaptureLife, FramesAreLostOnlyInAStop
  <2> QED
    BY <2>1, <2>2, <2>3, <2>4, <2>5
<1>4. CASE AddOsd
  <2>1. TypeOK'
    BY <1>4 DEF AddOsd, TypeOK
  <2>2. CameraLife'
    BY <1>4 DEF AddOsd, TypeOK, CameraLife
  <2>3. VideoLife'
    BY <1>4 DEF AddOsd, TypeOK, CameraLife, VideoLife
  <2>4. AudioLife'
    BY <1>4 DEF AddOsd, TypeOK, CameraLife, AudioLife, ThrowsOnlyFor
  <2>5. CaptureLife'
    BY <1>4 DEF AddOsd, TypeOK, CameraLife, VideoLife, CaptureLife, FramesAreLostOnlyInAStop
  <2> QED
    BY <2>1, <2>2, <2>3, <2>4, <2>5
<1>5. CASE FeedMediaCodec
  <2>1. TypeOK'
    BY <1>5 DEF FeedMediaCodec, TypeOK
  <2>2. CameraLife'
    BY <1>5 DEF FeedMediaCodec, TypeOK, CameraLife
  <2>3. VideoLife'
    BY <1>5 DEF FeedMediaCodec, TypeOK, CameraLife, VideoLife
  <2>4. AudioLife'
    BY <1>5 DEF FeedMediaCodec, TypeOK, CameraLife, AudioLife, ThrowsOnlyFor
  <2>5. CaptureLife'
    BY <1>5 DEF FeedMediaCodec, TypeOK, CameraLife, VideoLife, CaptureLife, FramesAreLostOnlyInAStop
  <2> QED
    BY <2>1, <2>2, <2>3, <2>4, <2>5
<1>6. CASE QueueFrame
  <2>1. TypeOK'
    BY <1>6 DEF QueueFrame, TypeOK
  <2>2. CameraLife'
    BY <1>6 DEF QueueFrame, TypeOK, CameraLife
  <2>3. VideoLife'
    BY <1>6 DEF QueueFrame, TypeOK, CameraLife, VideoLife
  <2>4. AudioLife'
    BY <1>6 DEF QueueFrame, TypeOK, CameraLife, AudioLife, ThrowsOnlyFor
  <2>5. CaptureLife'
    BY <1>6 DEF QueueFrame, TypeOK, CameraLife, VideoLife, CaptureLife, FramesAreLostOnlyInAStop
  <2> QED
    BY <2>1, <2>2, <2>3, <2>4, <2>5
<1> QED
  BY <1>1, <1>2, <1>3, <1>4, <1>5, <1>6 DEF Capture

(* Every step preserves the invariant.                                      *)
LEMMA StepInv == IInv /\ [Next]_vars => IInv'
<1> SUFFICES ASSUME IInv, [Next]_vars PROVE IInv'
  OBVIOUS
<1>1. CASE UNCHANGED vars
  BY <1>1 DEF vars, camera, encoder, voice, phone, capture, exits, IInv, TypeOK, CameraLife, VideoLife,
              AudioLife, CaptureLife, FramesAreLostOnlyInAStop, ThrowsOnlyFor
<1> QED
  BY <1>1, StartStopStep, VideoStep, AudioStep, CaptureStep DEF Next

(* The inductive invariant holds in every state.                            *)
THEOREM Invariance == Spec => []IInv
BY InitInv, StepInv, PTL DEF Spec

(* Every variable keeps its type, for any number of recordings.             *)
THEOREM TypeCorrect == Spec => []TypeOK
<1>1. IInv => TypeOK
  BY DEF IInv
<1> QED
  BY <1>1, Invariance, PTL

(* A frame is lost only on a consumer that has been told to exit: onFrame,  *)
(* setRawYuv and feedMediaCodecData find what they have seen before.        *)
THEOREM LostOnlyInAStop == Spec => []FramesAreLostOnlyInAStop
<1>1. IInv => FramesAreLostOnlyInAStop
  BY DEF IInv, CaptureLife
<1> QED
  BY <1>1, Invariance, PTL

(* initOsd and releaseOsd of different recordings never meet.               *)
THEOREM OneOwner == Spec => []NumeralsHaveOneOwner
<1>1. IInv => NumeralsHaveOneOwner
  BY SessionsAssumption DEF IInv, TypeOK, CameraLife, VideoLife, HasNumerals, OptSessions, NumeralsHaveOneOwner
<1> QED
  BY <1>1, Invariance, PTL

(* handleStopPusher leaves no thread, codec, recorder or numerals.          *)
THEOREM StopLeavesNothing == Spec => []NothingIsLeft
<1>1. IInv => NothingIsLeft
  BY SessionsAssumption
  DEF IInv, TypeOK, CameraLife, VideoLife, AudioLife, HasNumerals, HasCodec, OptSessions, NothingIsLeft
<1> QED
  BY <1>1, Invariance, PTL

(* The exceptions that end the program: a codec that cannot be created,     *)
(* sound without an encoder, a recorder of no use that is stopped on        *)
(* request; handleStopPusher leaves the audio thread its recorder.          *)
THEOREM ThrowsOnly == Spec => []ThrowsOnlyFor
<1>1. IInv => ThrowsOnlyFor
  BY DEF IInv, AudioLife
<1> QED
  BY <1>1, Invariance, PTL
=============================================================================
