------------------------------- MODULE Pusher -------------------------------
(***************************************************************************)
(* The recording the app makes: handleStartPusher and handleStopPusher of   *)
(* AbstractUVCCameraHandler.java on the camera thread, onFrame on the       *)
(* capture thread of the preview, a H264EncodeConsumer and, unless the     *)
(* voice is off, an AACEncodeConsumer, each a thread of its own, and the    *)
(* numerals of the time stamp, which YuvOsdUtils.c keeps in one global for  *)
(* all consumers.  Nothing is locked: isExit, isEncoderStart, mH264Consumer *)
(* and the numerals are plain variables.                                    *)
(***************************************************************************)
EXTENDS Integers

CONSTANTS
  Sessions,   \* bound: recordings, each with consumers of its own
  None

ASSUME SessionsAssumption == None \notin Sessions

VARIABLES
  client,          \* the camera thread: in which step of start or stop
  mH264Consumer, mAacConsumer,
  joining,         \* the consumer whose end the camera thread waits for
  pc, apc,         \* the video and the audio thread of each session
  isExit, isEncoderStart,
  exitAudio,       \* isExit of the audio consumer
  codec,           \* mMediaCodec of each video consumer
  recorder,        \* mAudioRecord of each audio consumer
  mAudioEncoder,   \* the codecs of the audio consumers that are not null
  numerals,        \* mNumArrays: whose array it is, None once it is freed
  frame, seen,     \* the capture thread: in which step of onFrame, with whom
  lost,            \* consumers a frame could not be handed to
  mic, avc, aac,   \* has the phone a free microphone, and each codec
  thrown           \* where an exception has ended the program

camera  == <<client, mH264Consumer, mAacConsumer, joining>>
encoder == <<pc, isEncoderStart, codec, numerals>>
voice   == <<apc, recorder, mAudioEncoder>>
phone   == <<mic, avc, aac>>
capture == <<frame, seen, lost>>
exits   == <<isExit, exitAudio>>
vars    == <<camera, encoder, voice, phone, thrown, capture, exits>>

OptSessions == Sessions \cup {None}

TypeOK ==
  /\ client \in {"idle", "startAudio", "joinAudio", "stopVideo", "forget", "join"}
  /\ {mH264Consumer, mAacConsumer, joining, numerals, seen} \subseteq OptSessions /\ lost \subseteq Sessions
  /\ pc \in [Sessions -> {"new", "init", "codec", "sleep", "drain", "stop", "release", "free", "end"}]
  /\ apc \in [Sessions -> {"new", "record", "codec", "loop", "read", "stop", "end"}]
  /\ {isExit, isEncoderStart, exitAudio} \subseteq [Sessions -> BOOLEAN]
  /\ codec \in [Sessions -> {"none", "running", "released"}]
  /\ recorder \in [Sessions -> {"none", "useless", "on"}]
  /\ frame \in {"none", "read", "check", "draw", "feed", "queue"} /\ {mic, avc, aac} \subseteq BOOLEAN
  /\ mAudioEncoder \subseteq Sessions /\ thrown \in {"nowhere", "create", "encode", "read", "stop"}
  /\ (seen = None <=> frame = "none") /\ (joining = None <=> client \notin {"joinAudio", "join"})

Init ==
  /\ client = "idle" /\ mH264Consumer = None /\ mAacConsumer = None /\ joining = None
  /\ pc = [c \in Sessions |-> "new"] /\ apc = [c \in Sessions |-> "new"]
  /\ isExit = [c \in Sessions |-> FALSE] /\ exitAudio = isExit /\ isEncoderStart = isExit
  /\ codec = [c \in Sessions |-> "none"] /\ recorder = codec /\ mAudioEncoder = {}
  /\ numerals = None
  /\ frame = "none" /\ seen = None /\ lost = {}
  /\ mic \in BOOLEAN /\ avc \in BOOLEAN /\ aac \in BOOLEAN /\ thrown = "nowhere"

-----------------------------------------------------------------------------
(* The camera thread.  handleStartPusher: the video thread, ... *)
StartVideoRecord(c, voiceClose) ==
  /\ client = "idle" /\ mH264Consumer = None /\ pc[c] = "new"
  /\ mH264Consumer' = c
  /\ pc' = [pc EXCEPT ![c] = "init"]
  /\ client' = IF voiceClose THEN "idle" ELSE "startAudio"
  /\ UNCHANGED <<mAacConsumer, joining, isEncoderStart, codec, numerals, voice, phone, thrown, capture, exits>>

(* ... and the audio thread. *)
StartAudioRecord ==
  /\ client = "startAudio"
  /\ mAacConsumer' = mH264Consumer
  /\ apc' = [apc EXCEPT ![mH264Consumer] = "record"]
  /\ client' = "idle"
  /\ UNCHANGED <<mH264Consumer, joining, encoder, recorder, mAudioEncoder, phone, thrown, capture, exits>>

(* Mutant: the camera thread releases the recorder. *)
StopAudioRecordItself ==
  /\ client = "idle" /\ mAacConsumer # None
  /\ exitAudio' = [exitAudio EXCEPT ![mAacConsumer] = TRUE]
  /\ recorder' = [recorder EXCEPT ![mAacConsumer] = "none"]
  /\ joining' = mAacConsumer /\ mAacConsumer' = None
  /\ client' = "joinAudio"
  /\ UNCHANGED <<mH264Consumer, encoder, apc, mAudioEncoder, phone, thrown, capture, isExit>>

(* handleStopPusher: tell the audio thread and wait for it, ... *)
StopAudioRecord ==
  /\ client = "idle"
  /\ IF mAacConsumer = None
       THEN client' = "stopVideo" /\ UNCHANGED <<exitAudio, joining>>
       ELSE /\ exitAudio' = [exitAudio EXCEPT ![mAacConsumer] = TRUE]
            /\ joining' = mAacConsumer
            /\ client' = "joinAudio"
  /\ mAacConsumer' = None
  /\ UNCHANGED <<mH264Consumer, encoder, voice, phone, thrown, capture, isExit>>

JoinAudio ==
  /\ client = "joinAudio" /\ apc[joining] = "end"
  /\ client' = "stopVideo" /\ joining' = None
  /\ UNCHANGED <<mH264Consumer, mAacConsumer, encoder, voice, phone, thrown, capture, exits>>

(* ... then the video thread, *)
StopVideoRecord ==
  /\ client = "stopVideo"
  /\ IF mH264Consumer = None
       THEN client' = "idle" /\ UNCHANGED isExit
       ELSE client' = "forget" /\ isExit' = [isExit EXCEPT ![mH264Consumer] = TRUE]
  /\ UNCHANGED <<mH264Consumer, mAacConsumer, joining, encoder, voice, phone, thrown, capture, exitAudio>>

(* Mutant: the camera thread does not wait. *)
ForgetConsumerWithoutJoin ==
  /\ client = "forget"
  /\ mH264Consumer' = None
  /\ client' = "idle"
  /\ UNCHANGED <<mAacConsumer, joining, encoder, voice, phone, thrown, capture, exits>>

(* which from here on no new frame finds, ... *)
ForgetConsumer ==
  /\ client = "forget"
  /\ joining' = mH264Consumer /\ mH264Consumer' = None
  /\ client' = "join"
  /\ UNCHANGED <<mAacConsumer, encoder, voice, phone, thrown, capture, exits>>

(* ... and wait for it. *)
JoinVideo ==
  /\ client = "join" /\ pc[joining] = "end"
  /\ client' = "idle" /\ joining' = None
  /\ UNCHANGED <<mH264Consumer, mAacConsumer, encoder, voice, phone, thrown, capture, exits>>

-----------------------------------------------------------------------------
(* The video thread.  startMediaCodec: initOsd, unless there is no encoder, *)
InitOsd(c) ==
  /\ pc[c] = "init"
  /\ IF avc THEN numerals' = c /\ pc' = [pc EXCEPT ![c] = "codec"]
            ELSE pc' = [pc EXCEPT ![c] = "sleep"] /\ UNCHANGED numerals
  /\ UNCHANGED <<camera, isEncoderStart, codec, voice, phone, thrown, capture, exits>>

(* the codec, and only then is the consumer open for frames.  If the codec  *)
(* cannot be created, null is configured.                                   *)
StartMediaCodec(c) ==
  /\ pc[c] = "codec"
  /\ \/ /\ codec' = [codec EXCEPT ![c] = "running"]
        /\ isEncoderStart' = [isEncoderStart EXCEPT ![c] = TRUE]
        /\ pc' = [pc EXCEPT ![c] = "sleep"]
        /\ UNCHANGED thrown
     \/ thrown' = "create" /\ UNCHANGED <<codec, isEncoderStart, pc>>
  /\ UNCHANGED <<camera, numerals, voice, phone, capture, exits>>

(* The loop, after 200 ms, until exit; the output goes to the listener.  A  *)
(* codec that is null throws, is caught in the loop and asked again.        *)
Sleep(c) ==
  /\ pc[c] = "sleep"
  /\ pc' = [pc EXCEPT ![c] = IF isExit[c] THEN "stop" ELSE "drain"]
  /\ UNCHANGED <<camera, isEncoderStart, codec, numerals, voice, phone, thrown, capture, exits>>

(* Mutant: the loop ends when the consumer is closed. *)
DrainUntilClosed(c) ==
  /\ pc[c] = "drain" /\ ~isEncoderStart[c]
  /\ pc' = [pc EXCEPT ![c] = "stop"]
  /\ UNCHANGED <<camera, isEncoderStart, codec, numerals, voice, phone, thrown, capture, exits>>

DrainUntilExit(c) ==
  /\ pc[c] = "drain" /\ isExit[c]
  /\ pc' = [pc EXCEPT ![c] = "stop"]
  /\ UNCHANGED <<camera, isEncoderStart, codec, numerals, voice, phone, thrown, capture, exits>>

(* stopMediaCodec: close the consumer, release the codec, releaseOsd. *)
StopMediaCodec(c) ==
  /\ pc[c] = "stop"
  /\ isEncoderStart' = [isEncoderStart EXCEPT ![c] = FALSE]
  /\ pc' = [pc EXCEPT ![c] = "release"]
  /\ UNCHANGED <<camera, codec, numerals, voice, phone, thrown, capture, exits>>

ReleaseCodec(c) ==
  /\ pc[c] = "release"
  /\ codec' = IF codec[c] = "none" THEN codec ELSE [codec EXCEPT ![c] = "released"]
  /\ pc' = [pc EXCEPT ![c] = "free"]
  /\ UNCHANGED <<camera, isEncoderStart, numerals, voice, phone, thrown, capture, exits>>

(* Mutant: the numerals are kept. *)
ReleaseOsdKeeps(c) ==
  /\ pc[c] = "free"
  /\ pc' = [pc EXCEPT ![c] = "end"]
  /\ UNCHANGED <<camera, isEncoderStart, codec, numerals, voice, phone, thrown, capture, exits>>

ReleaseOsd(c) ==
  /\ pc[c] = "free"
  /\ numerals' = None
  /\ pc' = [pc EXCEPT ![c] = "end"]
  /\ UNCHANGED <<camera, isEncoderStart, codec, voice, phone, thrown, capture, exits>>

-----------------------------------------------------------------------------
(* The audio thread: a recorder, of no use if the microphone is taken; a    *)
(* codec; read and encode until exit; ...                                   *)
InitAudioRecord(c) ==
  /\ apc[c] = "record"
  /\ recorder' = [recorder EXCEPT ![c] = IF mic THEN "on" ELSE "useless"]
  /\ apc' = [apc EXCEPT ![c] = "codec"]
  /\ UNCHANGED <<camera, encoder, mAudioEncoder, phone, thrown, capture, exits>>

InitMediaCodec(c) ==
  /\ apc[c] = "codec"
  /\ \/ /\ mAudioEncoder' = IF aac THEN mAudioEncoder \cup {c} ELSE mAudioEncoder
        /\ apc' = [apc EXCEPT ![c] = "loop"]
        /\ UNCHANGED thrown
     \/ aac /\ thrown' = "create" /\ UNCHANGED <<mAudioEncoder, apc>>
  /\ UNCHANGED <<camera, encoder, recorder, phone, capture, exits>>

LookAtExit(c) ==
  /\ apc[c] = "loop"
  /\ apc' = [apc EXCEPT ![c] = IF exitAudio[c] THEN "stop" ELSE "read"]
  /\ UNCHANGED <<camera, encoder, recorder, mAudioEncoder, phone, thrown, capture, exits>>

(* read needs the recorder, encodeBytes the codec for what it has read, if  *)
(* anything.                                                                *)
ReadAudio(c) ==
  /\ apc[c] = "read"
  /\ \/ thrown' = IF recorder[c] = "none" THEN "read" ELSE thrown
     \/ recorder[c] = "on" /\ c \notin mAudioEncoder /\ thrown' = "encode"
  /\ apc' = [apc EXCEPT ![c] = "loop"]
  /\ UNCHANGED <<camera, encoder, recorder, mAudioEncoder, phone, capture, exits>>

(* ... and stop, which a recorder of no use does not bear. *)
StopAudio(c) ==
  /\ apc[c] = "stop"
  /\ thrown' = IF recorder[c] = "useless" THEN "stop" ELSE thrown
  /\ mAudioEncoder' = mAudioEncoder \ {c}
  /\ recorder' = [recorder EXCEPT ![c] = "none"]
  /\ apc' = [apc EXCEPT ![c] = "end"]
  /\ UNCHANGED <<camera, encoder, phone, capture, exits>>

-----------------------------------------------------------------------------
(* The capture thread.  onFrame looks at mH264Consumer, ... *)
OnFrame ==
  /\ frame = "none" /\ mH264Consumer # None
  /\ frame' = "read" /\ seen' = mH264Consumer
  /\ UNCHANGED <<camera, encoder, voice, phone, thrown, lost, exits>>

Done == frame' = "none" /\ seen' = None
Lose == lost' = lost \cup {seen}
Continue(step) == frame' = step /\ UNCHANGED <<seen, lost>>

(* ... and reads it again, to call it: the exception for null is cleared in *)
(* do_capture_callback.                                                     *)
ReadConsumer ==
  /\ frame = "read"
  /\ IF mH264Consumer = None
       THEN Done /\ Lose
       ELSE frame' = "check" /\ seen' = mH264Consumer /\ UNCHANGED lost
  /\ UNCHANGED <<camera, encoder, voice, phone, thrown, exits>>

(* setRawYuv: is the consumer open; after a pause, addOsd draws the time    *)
(* with the numerals; ...                                                   *)
SetRawYuv ==
  /\ frame = "check"
  /\ IF isEncoderStart[seen] THEN Continue("draw") ELSE Done /\ UNCHANGED lost
  /\ UNCHANGED <<camera, encoder, voice, phone, thrown, exits>>

AddOsd ==
  /\ frame = "draw"
  /\ frame' = "feed" /\ UNCHANGED seen
  /\ IF numerals = None THEN Lose ELSE UNCHANGED lost
  /\ UNCHANGED <<camera, encoder, voice, phone, thrown, exits>>

(* ... feedMediaCodecData: is it still open; a codec that has no buffer or  *)
(* is stopped gives none, and one stopped later throws.                     *)
FeedMediaCodec ==
  /\ frame = "feed"
  /\ IF isEncoderStart[seen] /\ codec[seen] = "running"
       THEN Continue("queue") \/ (Done /\ UNCHANGED lost)
       ELSE Done /\ UNCHANGED lost
  /\ UNCHANGED <<camera, encoder, voice, phone, thrown, exits>>

QueueFrame ==
  /\ frame = "queue"
  /\ Done
  /\ IF codec[seen] = "running" THEN UNCHANGED lost ELSE Lose
  /\ UNCHANGED <<camera, encoder, voice, phone, thrown, exits>>

Start == (\E c \in Sessions, v \in BOOLEAN : StartVideoRecord(c, v)) \/ StartAudioRecord
Stop  == JoinAudio \/ StopVideoRecord \/ ForgetConsumer \/ JoinVideo
Video(c) == InitOsd(c) \/ StartMediaCodec(c) \/ Sleep(c) \/ DrainUntilExit(c)
            \/ StopMediaCodec(c) \/ ReleaseCodec(c) \/ ReleaseOsd(c)
Audio(c) == InitAudioRecord(c) \/ InitMediaCodec(c) \/ LookAtExit(c) \/ ReadAudio(c) \/ StopAudio(c)
Capture == OnFrame \/ ReadConsumer \/ SetRawYuv \/ AddOsd \/ FeedMediaCodec \/ QueueFrame

(* No exception has ended the program. *)
Running == thrown = "nowhere"

Next ==
  /\ Running
  /\ Start \/ StopAudioRecord \/ Stop \/ Capture \/ \E c \in Sessions : Video(c) \/ Audio(c)

(* The camera thread goes on with a stop it has begun, the consumers run:   *)
(* the calls to the codecs have timeouts, AudioRecord.read returns.         *)
Fairness ==
  /\ WF_vars(Running /\ Stop)
  /\ \A c \in Sessions : WF_vars(Running /\ Video(c)) /\ WF_vars(Running /\ Audio(c))

Spec == Init /\ [][Next]_vars /\ Fairness

-----------------------------------------------------------------------------
(* Properties.                                                              *)

(* No frame is lost on a consumer before it is told to exit: it is open for *)
(* frames only once its numerals and its codec are there, and the consumer  *)
(* of the recording before does not take them away.                         *)
FramesAreLostOnlyInAStop == \A c \in lost : isExit[c]

(* initOsd never overwrites an array in use or leaks one, releaseOsd never  *)
(* frees one twice: one video thread at a time has numerals, if any.        *)
NumeralsHaveOneOwner ==
  \A c \in Sessions : pc[c] \in {"codec", "sleep", "drain", "stop", "release", "free"} =>
    /\ numerals = IF avc THEN c ELSE None
    /\ \A d \in Sessions \ {c} : pc[d] \in {"new", "end"}

(* When a recording has ended nothing of it is left: no thread, no codec,   *)
(* no recorder, no numerals.                                                *)
NothingIsLeft ==
  client = "idle" /\ mH264Consumer = None =>
    /\ \A c \in Sessions : /\ pc[c] \in {"new", "end"} /\ apc[c] \in {"new", "end"}
                           /\ codec[c] # "running" /\ recorder[c] = "none"
    /\ numerals = None

(* An exception ends the program in three ways only: a codec cannot be      *)
(* created; there is sound but no encoder for it; or a recorder of no use   *)
(* is stopped, when its thread has been told to exit.  A stop takes nothing *)
(* away from the thread that still reads and encodes.                       *)
ThrowsOnlyFor ==
  /\ thrown \in {"nowhere", "create", "encode", "stop"}
  /\ thrown = "encode" => mic /\ ~aac
  /\ thrown = "stop" => ~mic /\ \E c \in Sessions : exitAudio[c] /\ apc[c] = "end"

(* stopRecording gets through on the camera thread, however early it comes. *)
StopPusherReturns == client \in {"joinAudio", "stopVideo", "join"} ~> (client = "idle" \/ ~Running)
=============================================================================
