--------------------------- MODULE MediaRecording ---------------------------
(***************************************************************************)
(* The encoders and the muxer of a recording: MediaEncoder.java, one thread *)
(* for the video and one for the audio, MediaMuxerWrapper.java, which both  *)
(* share, and handleStartRecording and handleStopRecording of the handler.  *)
(*                                                                         *)
(* A recording has an encoder for the video and, unless the voice is off,  *)
(* one for the audio.  A constructor that waits is woken by its thread     *)
(* only: the wait at MediaEncoder.java:101 has no guard, and what follows  *)
(* if it ends by itself is not modelled.                                   *)
(*                                                                         *)
(* An encoder sleeps until it is told of a frame or of the stop, then      *)
(* drains its codec into the muxer.  The muxer starts with the last encoder *)
(* that has a track for it and stops with the last that leaves; it begins  *)
(* a new file every minute.  Codec, MediaMuxer and SD card are external.    *)
(* No encoder queues the end of the stream (encode does nothing for a      *)
(* length of 0), so that no codec ever reports it.                         *)
(***************************************************************************)
EXTENDS Integers, Sequences

CONSTANTS
  video, audio,
  MaxFrames,     \* bound: frames the codec of each encoder is given
  MaxRemovals,   \* bound: times the SD card is taken out
  None

Encoders == {video, audio}

ASSUME BoundsAssumption == MaxFrames \in [Encoders -> Nat] /\ MaxRemovals \in Nat
ASSUME NoneAssumption == None \notin Encoders /\ video # audio

VARIABLES
  silent,           \* the voice is off: there is no audio encoder
  client,           \* the camera thread: what it does next
  constructing,     \* the encoder whose constructor waits, or None
  pc,               \* the thread of each encoder
  stopping,         \* localRequestStop of the thread
  mIsCapturing, mRequestDrain, mRequestStop, mMuxerStarted, mTrackIndex,
  codec,            \* of each encoder: is it running, frames given and kept
  feeder,           \* the thread that feeds each codec
  mMediaMuxer,      \* its state, and the encoders of its tracks
  mIsStarted, mStatredCount,
  mIndex,           \* mVideoTrackIndex and mAudioTrackIndex
  writable, removals, \* the SD card
  failed            \* an exception has ended the program

flags  == <<mIsCapturing, mRequestDrain, mRequestStop>>
tracks == <<mMuxerStarted, mTrackIndex>>
muxer  == <<mMediaMuxer, mIsStarted, mStatredCount, mIndex>>
card   == <<writable, removals>>
vars   == <<silent, client, constructing, pc, stopping, flags, tracks, codec, feeder, muxer, card, failed>>

Steps == {"new", "begin", "loop", "decided", "asleep", "drain", "track", "start", "muxer", "release", "stop", "end"}

(* The orders in which tracks can have been added. *)
TrackOrders == {<<>>, <<video>>, <<audio>>, <<video, audio>>, <<audio, video>>}

TypeOK ==
  /\ client \in {"new", "start", "recording", "stop", "end"} \X (Encoders \cup {None})
  /\ constructing \in Encoders \cup {None}
  /\ pc \in [Encoders -> Steps] /\ feeder \in [Encoders -> {"idle", "encode", "announce", "end"}]
  /\ stopping \in [Encoders -> BOOLEAN] /\ mIsCapturing \in [Encoders -> BOOLEAN]
  /\ mRequestStop \in [Encoders -> BOOLEAN] /\ mMuxerStarted \in [Encoders -> BOOLEAN]
  /\ mRequestDrain \in [Encoders -> Nat] /\ mTrackIndex \in [Encoders -> -1..1]
  /\ codec \in [Encoders -> [running : BOOLEAN, given : Nat, kept : Nat, format : BOOLEAN]]
  /\ mMediaMuxer \in [is : {"ready", "started", "stopped", "none"}, tracks : TrackOrders]
  /\ mIsStarted \in BOOLEAN /\ mStatredCount \in 0..2 /\ mIndex \in [Encoders -> -1..1]
  /\ silent \in BOOLEAN /\ writable \in BOOLEAN /\ removals \in 0..MaxRemovals /\ failed \in BOOLEAN

Each(x) == [e \in Encoders |-> x]
NewCodec(found) == [running |-> found, given |-> 0, kept |-> 0, format |-> FALSE]

Init ==
  /\ silent \in BOOLEAN
  /\ client = <<"new", video>> /\ constructing = None
  /\ pc = Each("new") /\ stopping = Each(FALSE) /\ feeder = Each("idle")
  /\ mIsCapturing = Each(FALSE) /\ mRequestDrain = Each(0) /\ mRequestStop = Each(FALSE)
  /\ mMuxerStarted = Each(FALSE) /\ mTrackIndex = Each(-1)
  /\ codec = Each(NewCodec(FALSE))
  /\ mMediaMuxer = [is |-> "ready", tracks |-> <<>>]
  /\ mIsStarted = FALSE /\ mStatredCount = 0 /\ mIndex = Each(0)
  /\ writable = TRUE /\ removals = 0 /\ failed = FALSE

Goto(e, step) == pc' = [pc EXCEPT ![e] = step]
(* mEncoderCount, once the encoders have been constructed *)
EncoderCount == IF silent THEN 1 ELSE 2
(* after the video encoder the camera thread does the same with the audio *)
Then(e, step, next) == client' = IF e = video /\ ~silent THEN <<step, audio>> ELSE next
(* mSync.notifyAll, as the thread of the encoder sees it *)
Notified(e) == IF pc[e] = "asleep" THEN [pc EXCEPT ![e] = "loop"] ELSE pc

-----------------------------------------------------------------------------
(* Mutant: the constructor does not wait. *)
ConstructWithoutWait(e) ==
  /\ client = <<"new", e>>
  /\ Goto(e, "begin")
  /\ Then(e, "new", <<"start", None>>)
  /\ UNCHANGED <<silent, constructing, stopping, flags, tracks, codec, feeder, muxer, card, failed>>

(* The camera thread: construct the encoders, each of which waits for its   *)
(* thread; prepare them, which gives a codec to each for which there is     *)
(* one, ...                                                                 *)
Construct(e) ==
  /\ client = <<"new", e>> /\ constructing = None
  /\ Goto(e, "begin")
  /\ constructing' = e
  /\ Then(e, "new", <<"start", None>>)
  /\ UNCHANGED <<silent, stopping, flags, tracks, codec, feeder, muxer, card, failed>>

Prepare ==
  /\ client = <<"start", None>> /\ constructing = None
  /\ codec' \in [Encoders -> {NewCodec(TRUE), NewCodec(FALSE)}]
  /\ mMuxerStarted' = Each(FALSE) /\ mTrackIndex' = Each(-1)
  /\ client' = <<"start", video>>
  /\ UNCHANGED <<silent, constructing, pc, stopping, flags, feeder, muxer, card, failed>>

(* ... start them and, later, ask them to stop. *)
StartRecording(e) ==
  /\ client = <<"start", e>>
  /\ mIsCapturing' = [mIsCapturing EXCEPT ![e] = TRUE]
  /\ mRequestStop' = [mRequestStop EXCEPT ![e] = FALSE]
  /\ pc' = Notified(e)
  /\ Then(e, "start", <<"stop", video>>)
  /\ UNCHANGED <<silent, constructing, stopping, mRequestDrain, tracks, codec, feeder, muxer, card, failed>>

StopRecording(e) ==
  /\ client = <<"stop", e>>
  /\ IF ~mIsCapturing[e] \/ mRequestStop[e]
       THEN UNCHANGED <<mRequestStop, pc>>
       ELSE mRequestStop' = [mRequestStop EXCEPT ![e] = TRUE] /\ pc' = Notified(e)
  /\ Then(e, "stop", <<"end", None>>)
  /\ UNCHANGED <<silent, constructing, stopping, mIsCapturing, mRequestDrain, tracks, codec, feeder, muxer, card, failed>>

-----------------------------------------------------------------------------
(* Who feeds the codec: while the encoder captures and is not to stop, give *)
(* the codec a frame, which fails if there is none, or it has been released *)
(* in between.  The audio thread, if the microphone gave nothing, does not  *)
(* look whether it is to stop.                                              *)
LookForFrame(e) ==
  /\ feeder[e] = "idle" /\ mIsCapturing[e] /\ (e = audio \/ ~mRequestStop[e]) /\ codec[e].given < MaxFrames[e]
  /\ feeder' = [feeder EXCEPT ![e] = "encode"]
  /\ UNCHANGED <<silent, client, constructing, pc, stopping, flags, tracks, codec, muxer, card, failed>>

Encode(e) ==
  /\ feeder[e] = "encode"
  /\ IF codec[e].running
       THEN /\ codec' = [codec EXCEPT ![e].given = @ + 1, ![e].kept = @ + 1]
            /\ feeder' = [feeder EXCEPT ![e] = "announce"]
       ELSE feeder' = [feeder EXCEPT ![e] = "end"] /\ UNCHANGED codec
  /\ UNCHANGED <<silent, client, constructing, pc, stopping, flags, tracks, muxer, card, failed>>

(* ... and tell the thread of the encoder. *)
FrameAvailableSoon(e) ==
  /\ feeder[e] = "announce"
  /\ IF ~mIsCapturing[e] \/ mRequestStop[e]
       THEN UNCHANGED <<mRequestDrain, pc>>
       ELSE mRequestDrain' = [mRequestDrain EXCEPT ![e] = @ + 1] /\ pc' = Notified(e)
  /\ feeder' = [feeder EXCEPT ![e] = "idle"]
  /\ UNCHANGED <<silent, client, constructing, stopping, mIsCapturing, mRequestStop, tracks, codec, muxer, card, failed>>

-----------------------------------------------------------------------------
(* The thread of an encoder: reset the requests and let the constructor     *)
(* return.                                                                  *)
Begin(e) ==
  /\ pc[e] = "begin"
  /\ mRequestStop' = [mRequestStop EXCEPT ![e] = FALSE]
  /\ mRequestDrain' = [mRequestDrain EXCEPT ![e] = 0]
  /\ constructing' = IF constructing = e THEN None ELSE constructing
  /\ Goto(e, "loop")
  /\ UNCHANGED <<silent, client, stopping, mIsCapturing, tracks, codec, feeder, muxer, card, failed>>

(* See what is asked of it; ...  *)
Decide(e) ==
  /\ pc[e] = "loop"
  /\ stopping' = [stopping EXCEPT ![e] = mRequestStop[e]]
  /\ IF mRequestDrain[e] > 0
       THEN mRequestDrain' = [mRequestDrain EXCEPT ![e] = @ - 1]
       ELSE UNCHANGED mRequestDrain
  /\ Goto(e, IF mRequestStop[e] \/ mRequestDrain[e] > 0 THEN "drain" ELSE "decided")
  /\ UNCHANGED <<silent, client, constructing, mIsCapturing, mRequestStop, tracks, codec, feeder, muxer, card, failed>>

(* ... with nothing to do, wait, without another look. *)
WaitForRequest(e) ==
  /\ pc[e] = "decided"
  /\ Goto(e, "asleep")
  /\ UNCHANGED <<silent, client, constructing, stopping, flags, tracks, codec, feeder, muxer, card, failed>>

(* Mutant: the thread forgets what it drains for. *)
DrainNothingAndLoop(e) ==
  /\ pc[e] = "drain"
  /\ Goto(e, "loop")
  /\ UNCHANGED <<silent, client, constructing, stopping, flags, tracks, codec, feeder, muxer, card, failed>>

(* drain: until the codec has nothing, for now; before the release this is  *)
(* done twice.                                                              *)
DrainNothing(e) ==
  /\ pc[e] = "drain"
  /\ Goto(e, IF stopping[e] THEN "release" ELSE "loop")
  /\ UNCHANGED <<silent, client, constructing, stopping, flags, tracks, codec, feeder, muxer, card, failed>>

HasOutput(e) == pc[e] = "drain" /\ mIsCapturing[e] /\ codec[e].kept > 0

(* The first thing a codec has is its format: add a track for it, ... *)
DrainFormat(e) ==
  /\ HasOutput(e) /\ ~codec[e].format
  /\ codec' = [codec EXCEPT ![e].format = TRUE]
  /\ Goto(e, "track")
  /\ UNCHANGED <<silent, client, constructing, stopping, flags, tracks, feeder, muxer, card, failed>>

AddTrack(e) ==
  /\ pc[e] = "track"
  /\ IF mIsStarted \/ mMuxerStarted[e]
       THEN failed' = TRUE /\ UNCHANGED <<mMediaMuxer, mIndex, tracks, pc>>
       ELSE /\ mMediaMuxer' = [mMediaMuxer EXCEPT !.tracks = Append(@, e)]
            /\ mIndex' = [mIndex EXCEPT ![e] = Len(mMediaMuxer.tracks)]
            /\ mTrackIndex' = [mTrackIndex EXCEPT ![e] = Len(mMediaMuxer.tracks)]
            /\ mMuxerStarted' = [mMuxerStarted EXCEPT ![e] = TRUE]
            /\ Goto(e, "start") /\ UNCHANGED failed
  /\ UNCHANGED <<silent, client, constructing, stopping, flags, codec, feeder, mIsStarted, mStatredCount, card>>

(* ... start the muxer, if this is the last encoder, ... *)
StartMuxer(e) ==
  /\ pc[e] = "start"
  /\ mStatredCount' = mStatredCount + 1
  /\ IF mStatredCount' = EncoderCount
       THEN mMediaMuxer' = [mMediaMuxer EXCEPT !.is = "started"] /\ mIsStarted' = TRUE
       ELSE UNCHANGED <<mMediaMuxer, mIsStarted>>
  /\ Goto(e, IF mIsStarted' THEN "drain" ELSE "muxer")
  /\ UNCHANGED <<silent, client, constructing, stopping, flags, tracks, codec, feeder, mIndex, card, failed>>

(* ... or wait for the other. *)
WaitForMuxer(e) ==
  /\ pc[e] = "muxer" /\ mIsStarted
  /\ Goto(e, "drain")
  /\ UNCHANGED <<silent, client, constructing, stopping, flags, tracks, codec, feeder, muxer, card, failed>>

-----------------------------------------------------------------------------
(* writeSampleData, under the monitor of the wrapper.  Once a new file has  *)
(* been begun mAudioTrackIndex is -1 for good, and all samples are dropped. *)
Dropped == mIndex[video] = -1 \/ mIndex[audio] = -1 \/ mStatredCount = 0
Fits(e) == mMediaMuxer.is = "started" /\ mTrackIndex[e] < Len(mMediaMuxer.tracks)
                                      /\ mMediaMuxer.tracks[mTrackIndex[e] + 1] = e
Drained(e) == codec' = [codec EXCEPT ![e].kept = @ - 1]

WriteSample(e) ==
  /\ HasOutput(e) /\ codec[e].format
  /\ Drained(e)
  /\ IF Dropped
       THEN UNCHANGED <<failed, muxer>>
       ELSE IF writable
       THEN failed' = ~Fits(e) /\ UNCHANGED muxer
       ELSE (* release *)
            /\ mMediaMuxer' = [mMediaMuxer EXCEPT !.is = "stopped"] /\ mIsStarted' = FALSE
            /\ UNCHANGED <<failed, mStatredCount, mIndex>>
  /\ UNCHANGED <<silent, client, constructing, pc, stopping, flags, tracks, feeder, card>>

(* Mutant: the index of the audio track is kept. *)
WriteSampleAndSplitKeeps(e) ==
  /\ HasOutput(e) /\ codec[e].format /\ ~Dropped
  /\ Drained(e)
  /\ failed' = (~writable \/ ~Fits(e))
  /\ mMediaMuxer' = [is |-> "started", tracks |-> <<video>>]
  /\ mIndex' = [mIndex EXCEPT ![video] = 0]
  /\ mIsStarted' = TRUE
  /\ UNCHANGED <<silent, client, constructing, pc, stopping, flags, tracks, feeder, mStatredCount, card>>

(* ... and, a minute after the start, release the muxer and begin a new     *)
(* file, with the track of the video; ...                                   *)
WriteSampleAndSplit(e) ==
  /\ HasOutput(e) /\ codec[e].format /\ ~Dropped
  /\ Drained(e)
  /\ failed' = (writable /\ ~Fits(e))
  /\ writable' = TRUE   \* a card that was out has come back
  /\ mIndex' = [e1 \in Encoders |-> IF e1 = video THEN 0 ELSE -1]
  /\ mMediaMuxer' = [is |-> "started", tracks |-> <<video>>]
  /\ mIsStarted' = TRUE
  /\ UNCHANGED <<silent, client, constructing, pc, stopping, flags, tracks, feeder, mStatredCount, removals>>

(* ... the muxer for it may fail to be made, or to start: that is caught,   *)
(* and the recording goes on without one; ...                               *)
WriteSampleAndSplitFails(e) ==
  /\ HasOutput(e) /\ codec[e].format /\ ~Dropped
  /\ Drained(e)
  /\ failed' = (writable /\ ~Fits(e))
  /\ writable' = TRUE
  /\ mIndex' \in {[e1 \in Encoders |-> IF e1 = video THEN i ELSE -1] : i \in {-1, 0}}
  /\ mMediaMuxer' = [is |-> "none", tracks |-> <<>>]
  /\ mIsStarted' = FALSE
  /\ UNCHANGED <<silent, client, constructing, pc, stopping, flags, tracks, feeder, mStatredCount, removals>>

(* ... and there is no name for it without a card: that is not caught.      *)
WriteSampleAndSplitNowhere(e) ==
  /\ HasOutput(e) /\ codec[e].format /\ ~Dropped
  /\ ~writable \/ removals < MaxRemovals
  /\ failed' = TRUE
  /\ writable' = FALSE
  /\ removals' = IF writable THEN removals + 1 ELSE removals
  /\ UNCHANGED <<silent, client, constructing, pc, stopping, flags, tracks, codec, feeder, muxer>>

-----------------------------------------------------------------------------
(* release of the encoder, ... *)
ReleaseCodec(e) ==
  /\ pc[e] = "release"
  /\ mIsCapturing' = [mIsCapturing EXCEPT ![e] = FALSE]
  /\ codec' = [codec EXCEPT ![e].running = FALSE]
  /\ Goto(e, "stop")
  /\ UNCHANGED <<silent, client, constructing, stopping, mRequestDrain, mRequestStop, tracks, feeder, muxer, card, failed>>

(* ... which counts it out of the muxer, and the end of the thread. *)
CountOut(e, last) ==
  /\ pc[e] = "stop"
  /\ mStatredCount' = mStatredCount - 1
  /\ IF last THEN mMediaMuxer' = [mMediaMuxer EXCEPT !.is = IF @ = "none" THEN @ ELSE "stopped"] /\ mIsStarted' = FALSE
             ELSE UNCHANGED <<mMediaMuxer, mIsStarted>>
  /\ mRequestStop' = [mRequestStop EXCEPT ![e] = TRUE]
  /\ Goto(e, "end")
  /\ UNCHANGED <<silent, client, constructing, stopping, mIsCapturing, mRequestDrain, tracks, codec, feeder, mIndex, card, failed>>

(* Mutant: the first to leave stops the muxer. *)
StopMuxerAtOnce(e) == mMuxerStarted[e] /\ CountOut(e, TRUE)

StopMuxer(e) == mMuxerStarted[e] /\ CountOut(e, mStatredCount <= 1)

EndWithoutTrack(e) ==
  /\ pc[e] = "stop" /\ ~mMuxerStarted[e]
  /\ mRequestStop' = [mRequestStop EXCEPT ![e] = TRUE]
  /\ Goto(e, "end")
  /\ UNCHANGED <<silent, client, constructing, stopping, mIsCapturing, mRequestDrain, tracks, codec, feeder, muxer, card, failed>>

(* The SD card comes and goes. *)
TakeCard ==
  /\ writable /\ removals < MaxRemovals
  /\ writable' = FALSE /\ removals' = removals + 1
  /\ UNCHANGED <<silent, client, constructing, pc, stopping, flags, tracks, codec, feeder, muxer, failed>>

ReturnCard ==
  /\ ~writable
  /\ writable' = TRUE
  /\ UNCHANGED <<silent, client, constructing, pc, stopping, flags, tracks, codec, feeder, muxer, removals, failed>>

Client(e) == Construct(e) \/ StartRecording(e) \/ StopRecording(e)
Feeder(e) == LookForFrame(e) \/ Encode(e) \/ FrameAvailableSoon(e)
Thread(e) ==
  \/ Begin(e) \/ Decide(e) \/ WaitForRequest(e)
  \/ DrainNothing(e) \/ DrainFormat(e) \/ WriteSample(e)
  \/ WriteSampleAndSplit(e) \/ WriteSampleAndSplitFails(e) \/ WriteSampleAndSplitNowhere(e)
  \/ AddTrack(e) \/ StartMuxer(e) \/ WaitForMuxer(e)
  \/ ReleaseCodec(e) \/ StopMuxer(e) \/ EndWithoutTrack(e)

Next ==
  /\ ~failed
  /\ \/ \E e \in Encoders : Client(e) \/ Feeder(e) \/ Thread(e)
     \/ Prepare \/ TakeCard \/ ReturnCard

(* The threads of the encoders run; nothing is assumed of the camera thread *)
(* and of who feeds the codecs.                                             *)
Spec == Init /\ [][Next]_vars /\ \A e \in Encoders : WF_vars(~failed /\ Thread(e))

-----------------------------------------------------------------------------
(* Properties.                                                              *)

(* As long as the card stays in no sample is written to a muxer that is not *)
(* started or lacks its track, no track is added to a started muxer and no  *)
(* thread dies of it: neither the other encoder that leaves first nor the   *)
(* new file can get in the way.  Nothing is said of a recording whose card  *)
(* has been taken out.                                                      *)
WritesSucceed == removals = 0 => ~failed

(* The muxer is stopped by the last encoder that leaves: not before, as     *)
(* long as the card stays in, and not later, so that no file is left        *)
(* without its end.                                                         *)
HasLeft(e) == pc[e] \in {"new", "end"}
StopsWithTheLast ==
  /\ removals = 0 /\ mMediaMuxer.is = "stopped" => \A e \in Encoders : HasLeft(e)
  /\ (\A e \in Encoders : HasLeft(e)) => mMediaMuxer.is # "started"

(* A request to stop is for good: the thread that starts late does not wipe *)
(* it out.  And a thread sleeps over a request only if that came between    *)
(* its last look and its wait: one that comes later wakes it.               *)
Pending(e) == pc[e] = "asleep" /\ (mRequestStop[e] \/ mRequestDrain[e] > 0)
RequestsAreHeeded ==
  [][\A e \in Encoders :
       /\ mRequestStop[e] => mRequestStop'[e]
       /\ Pending(e)' /\ ~Pending(e) => pc[e] = "decided"]_vars

(* A thread that has its place in the muxer and looks at its requests once  *)
(* more after the stop gets to its end, whatever the other encoder does.    *)
StopEndsTheThread ==
  \A e \in Encoders :
    (mRequestStop[e] /\ pc[e] \in {"loop", "drain"} /\ mMuxerStarted[e]) ~> (pc[e] = "end" \/ failed)
=============================================================================
