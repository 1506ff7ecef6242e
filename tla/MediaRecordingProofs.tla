------------------------- MODULE MediaRecordingProofs -------------------------
(***************************************************************************)
(* Proofs about MediaRecording, for any number of frames and removals of   *)
(* the SD card.                                                            *)
(*                                                                         *)
(* The argument: mStatredCount counts the encoders that have called start  *)
(* and have not left, and an encoder gets past start only when both have   *)
(* called it; so the muxer has both tracks as long as a sample is written, *)
(* until a new file has been begun, whose samples are all dropped.         *)
(***************************************************************************)
EXTENDS MediaRecording, SequenceTheorems, TLAPS

(* The camera thread has not constructed, or not started, encoder e; the    *)
(* audio encoder of a silent recording it never will.                       *)
Unconstructed(e) == client \in {<<"new", video>>, <<"new", e>>} \/ (silent /\ e = audio)
Unstarted(e) ==
  \/ silent /\ e = audio
  \/ client \in {<<"new", video>>, <<"new", audio>>, <<"start", None>>, <<"start", e>>}
  \/ e = audio /\ client = <<"start", video>>

(* Nothing is asked of an encoder before it has been started, and by then   *)
(* its thread has begun: the constructor waits.                             *)
ClientLife ==
  /\ client \in {<<"new", video>>, <<"new", audio>>, <<"start", None>>, <<"start", video>>,
                  <<"start", audio>>, <<"stop", video>>, <<"stop", audio>>, <<"end", None>>}
  /\ silent => client \notin {<<"new", audio>>, <<"start", audio>>, <<"stop", audio>>}
  /\ constructing # None => client \in {<<"new", audio>>, <<"start", None>>}
  /\ \A e \in Encoders :
       /\ pc[e] = "new" <=> Unconstructed(e)
       /\ pc[e] = "begin" <=> constructing = e
       /\ Unstarted(e) =>
            /\ pc[e] \in {"new", "begin", "loop", "decided", "asleep"} /\ feeder[e] = "idle"
            /\ ~mIsCapturing[e] /\ ~mRequestStop[e] /\ mRequestDrain[e] = 0
            /\ ~mMuxerStarted[e] /\ ~codec[e].format

(* No more frames are announced, and no more are kept, than were given. *)
FrameLife ==
  \A e \in Encoders :
    /\ codec[e].kept <= codec[e].given /\ codec[e].given <= MaxFrames[e]
    /\ feeder[e] = "encode" => codec[e].given < MaxFrames[e]
    /\ mRequestDrain[e] + (IF feeder[e] = "announce" THEN 1 ELSE 0) <= codec[e].given

(* An encoder has called start of the muxer; and has not left it. *)
Past(e)    == mMuxerStarted[e] /\ pc[e] # "start"
AllPast    == Past(video) /\ (silent \/ Past(audio))
Counted(e) == IF Past(e) /\ pc[e] # "end" THEN 1 ELSE 0

MuxerLife ==
  /\ mStatredCount = Counted(video) + Counted(audio)
  /\ mIsStarted <=> mMediaMuxer.is = "started"
  /\ mMediaMuxer.is = "ready" <=> ~AllPast
  /\ mMediaMuxer.is = "started" => \E e \in Encoders : ~HasLeft(e)
  /\ \A e \in Encoders :
       /\ codec[e].format <=> pc[e] = "track" \/ mMuxerStarted[e]
       /\ pc[e] = "track" => ~mMuxerStarted[e]
       /\ pc[e] \in {"start", "muxer"} => mMuxerStarted[e]
       /\ Past(e) /\ pc[e] # "muxer" => AllPast

(* The tracks are those of the encoders that have added one, until a new    *)
(* file has been begun.                                                     *)
TrackLife ==
  /\ mIndex[audio] = -1 => AllPast
  /\ mMediaMuxer.is = "none" => mIndex[audio] = -1
  /\ mIndex[audio] # -1 =>
       \A e \in Encoders :
         /\ mMuxerStarted[e] <=> \E i \in 1..Len(mMediaMuxer.tracks) : mMediaMuxer.tracks[i] = e
         /\ mMuxerStarted[e] => /\ mTrackIndex[e] + 1 \in 1..Len(mMediaMuxer.tracks)
                                /\ mMediaMuxer.tracks[mTrackIndex[e] + 1] = e

(* With the card in its place nobody but the last encoder stops the muxer. *)
CardLife ==
  removals = 0 =>
    /\ writable /\ ~failed
    /\ mMediaMuxer.is = "stopped" => \A e \in Encoders : HasLeft(e)

IInv == TypeOK /\ ClientLife /\ FrameLife /\ MuxerLife /\ TrackLife /\ CardLife

(* The recording has not been begun.                                        *)
LEMMA InitInv == Init => IInv
<1> SUFFICES ASSUME Init PROVE IInv
  OBVIOUS
<1> USE BoundsAssumption, NoneAssumption DEF Init, Each, NewCodec, Encoders, HasLeft
<1>1. TypeOK
  <2>1. client \in {"new", "start", "recording", "stop", "end"} \X (Encoders \cup {None})
    OBVIOUS
  <2>2. constructing \in Encoders \cup {None} /\ pc \in [Encoders -> Steps]
    BY DEF Steps
  <2>3. /\ mRequestDrain \in [Encoders -> Nat] /\ mTrackIndex \in [Encoders -> -1..1]
        /\ codec \in [Encoders -> [running : BOOLEAN, given : Nat, kept : Nat, format : BOOLEAN]]
    OBVIOUS
  <2>4. mMediaMuxer \in [is : {"ready", "started", "stopped", "none"}, tracks : TrackOrders]
    BY DEF TrackOrders
  <2>5. mStatredCount \in 0..2 /\ mIndex \in [Encoders -> -1..1] /\ removals \in 0..MaxRemovals
    OBVIOUS
  <2>6. silent \in BOOLEAN /\ mIsStarted \in BOOLEAN /\ writable \in BOOLEAN /\ failed \in BOOLEAN
    OBVIOUS
  <2>7. /\ stopping \in [Encoders -> BOOLEAN] /\ mIsCapturing \in [Encoders -> BOOLEAN]
        /\ mRequestStop \in [Encoders -> BOOLEAN] /\ mMuxerStarted \in [Encoders -> BOOLEAN]
        /\ feeder \in [Encoders -> {"idle", "encode", "announce", "end"}]
    OBVIOUS
  <2> HIDE DEF Init, Encoders
  <2> QED
    BY <2>1, <2>2, <2>3, <2>4, <2>5, <2>6, <2>7 DEF TypeOK
<1>2. ClientLife
  BY DEF ClientLife, Unconstructed, Unstarted
<1>3. FrameLife /\ CardLife
  BY DEF FrameLife, CardLife
<1>4. MuxerLife
  BY DEF MuxerLife, Past, AllPast, Counted
<1>5. TrackLife
  BY DEF TrackLife
<1> QED
  BY <1>1, <1>2, <1>3, <1>4, <1>5 DEF IInv

(* The audio encoder of a silent recording does nothing.                    *)
LEMMA SilentAudio == IInv /\ silent => pc[audio] = "new" /\ ~mMuxerStarted[audio]
BY DEF IInv, ClientLife, Unconstructed, Unstarted, Encoders

(* What prepare makes of a codec.                                           *)
LEMMA FreshCodec ==
  {NewCodec(TRUE), NewCodec(FALSE)} \subseteq [running : BOOLEAN, given : Nat, kept : Nat, format : BOOLEAN]
BY DEF NewCodec

(* Appending to a sequence of one.                                          *)
LEMMA AppendToOne == \A a, b : Append(<<a>>, b) = <<a, b>>
<1> TAKE a, b
<1>1. <<a>> \in Seq({a, b}) /\ <<a, b>> \in Seq({a, b}) /\ Append(<<a>>, b) \in Seq({a, b})
  OBVIOUS
<1>2. Len(<<a, b>>) = 2 /\ Len(Append(<<a>>, b)) = 2
  OBVIOUS
<1>3. \A i \in 1..2 : Append(<<a>>, b)[i] = <<a, b>>[i]
  OBVIOUS
<1> QED
  BY <1>1, <1>2, <1>3, SeqEqual

(* A track is added to a muxer that is not started and lacks it.            *)
LEMMA NewTrack ==
  ASSUME IInv, NEW e \in Encoders, pc[e] = "track", ~mMuxerStarted[e]
  PROVE  LET s == mMediaMuxer.tracks
             n == Len(s)
         IN  /\ n \in 0..1 /\ n \in -1..1 /\ Append(s, e) \in TrackOrders /\ mIndex[audio] # -1
             /\ Len(Append(s, e)) = n + 1 /\ Append(s, e)[n + 1] = e
             /\ \A i \in 1..n : Append(s, e)[i] = s[i]
<1> USE NoneAssumption DEF Encoders
<1>1. mIndex[audio] # -1
  BY SilentAudio DEF IInv, TrackLife, AllPast, Past
<1>2. mMediaMuxer.tracks \in TrackOrders /\ \A i \in 1..Len(mMediaMuxer.tracks) : mMediaMuxer.tracks[i] # e
  BY <1>1 DEF IInv, TypeOK, TrackLife
<1>3. \/ mMediaMuxer.tracks = <<>>
      \/ e = audio /\ mMediaMuxer.tracks = <<video>>
      \/ e = video /\ mMediaMuxer.tracks = <<audio>>
  BY <1>2 DEF TrackOrders
<1>4. CASE mMediaMuxer.tracks = <<>>
  <2>1. Append(<<>>, e) = <<e>>
    OBVIOUS
  <2> QED
    BY <1>1, <1>4, <2>1 DEF TrackOrders
<1>5. CASE e = audio /\ mMediaMuxer.tracks = <<video>>
  <2>1. Append(<<video>>, audio) = <<video, audio>>
    BY AppendToOne
  <2> QED
    BY <1>1, <1>5, <2>1 DEF TrackOrders
<1>6. CASE e = video /\ mMediaMuxer.tracks = <<audio>>
  <2>1. Append(<<audio>>, video) = <<audio, video>>
    BY AppendToOne
  <2> QED
    BY <1>1, <1>6, <2>1 DEF TrackOrders
<1> QED
  BY <1>3, <1>4, <1>5, <1>6

(* A sample that is not dropped fits, as long as the card stays in.         *)
LEMMA SampleFits ==
  ASSUME IInv, NEW e \in Encoders, HasOutput(e), codec[e].format, ~Dropped, removals = 0
  PROVE  Fits(e)
<1> USE NoneAssumption DEF IInv, Encoders
<1>1. Past(e) /\ AllPast
  BY DEF HasOutput, MuxerLife, Past
<1>2. mMediaMuxer.is = "started"
  BY <1>1 DEF HasOutput, HasLeft, Dropped, MuxerLife, TrackLife, CardLife, TypeOK
<1>3. /\ mTrackIndex[e] + 1 \in 1..Len(mMediaMuxer.tracks)
      /\ mMediaMuxer.tracks[mTrackIndex[e] + 1] = e
  BY <1>1 DEF Past, Dropped, TrackLife
<1>4. Len(mMediaMuxer.tracks) \in Nat /\ mTrackIndex[e] \in Int
  BY DEF TypeOK, TrackOrders
<1> QED
  BY <1>2, <1>3, <1>4 DEF Fits

(* A step of the camera thread for an encoder preserves the invariant.      *)
LEMMA ClientStep ==
  ASSUME IInv, ~failed, NEW e \in Encoders, Client(e)
  PROVE  IInv'
<1> USE BoundsAssumption, NoneAssumption DEF IInv, Encoders, flags, tracks, muxer, card, Goto, Notified, HasLeft
<1>1. CASE Construct(e)
  <2>1. TypeOK'
    BY <1>1 DEF Construct, Then, TypeOK, Steps, TrackOrders
  <2>2. ClientLife'
    BY <1>1 DEF Construct, Then, TypeOK, ClientLife, Unconstructed, Unstarted
  <2>3. FrameLife'
    BY <1>1 DEF Construct, Then, TypeOK, ClientLife, FrameLife, Unstarted
  <2>4. MuxerLife'
    BY <1>1 DEF Construct, Then, TypeOK, MuxerLife, Past, AllPast, Counted, ClientLife, Unconstructed, Unstarted
  <2>5. TrackLife'
    BY <1>1 DEF Construct, Then, TypeOK, MuxerLife, TrackLife, Past, AllPast
  <2>6. CardLife'
    BY <1>1 DEF Construct, Then, TypeOK, CardLife, MuxerLife, Past, AllPast, Counted, ClientLife, Unconstructed, Unstarted
  <2> QED
    BY <2>1, <2>2, <2>3, <2>4, <2>5, <2>6
<1>2. CASE StartRecording(e)
  <2>1. TypeOK'
    BY <1>2 DEF StartRecording, Then, TypeOK, Steps, TrackOrders
  <2>2. ClientLife'
    BY <1>2 DEF StartRecording, Then, TypeOK, ClientLife, Unconstructed, Unstarted
  <2>3. FrameLife'
    BY <1>2 DEF StartRecording, Then, TypeOK, ClientLife, FrameLife, Unstarted
  <2>4. MuxerLife'
    BY <1>2 DEF StartRecording, Then, TypeOK, MuxerLife, Past, AllPast, Counted
  <2>5. TrackLife'
    BY <1>2 DEF StartRecording, Then, TypeOK, MuxerLife, TrackLife, Past, AllPast
  <2>6. CardLife'
    BY <1>2 DEF StartRecording, Then, TypeOK, CardLife, MuxerLife, Past, AllPast, Counted
  <2> QED
    BY <2>1, <2>2, <2>3, <2>4, <2>5, <2>6
<1>3. CASE StopRecording(e)
  <2>1. TypeOK'
    <3>1. mRequestStop' \in [Encoders -> BOOLEAN] /\ pc' \in [Encoders -> Steps]
      <4>1. CASE ~mIsCapturing[e] \/ mRequestStop[e]
        BY <1>3, <4>1 DEF StopRecording, Then, TypeOK
      <4>2. CASE ~(~mIsCapturing[e] \/ mRequestStop[e])
        <5>1. mRequestStop' \in [Encoders -> BOOLEAN]
          <6>1. mRequestStop' = [mRequestStop EXCEPT ![e] = TRUE]
            BY <1>3, <4>2 DEF StopRecording, Then
          <6>2. mRequestStop \in [Encoders -> BOOLEAN]
            BY DEF TypeOK
          <6> QED
            BY <6>1, <6>2
        <5>2. pc' \in [Encoders -> Steps]
          BY <1>3, <4>2 DEF StopRecording, Then, TypeOK, Steps
        <5> QED
          BY <5>1, <5>2
      <4> QED
        BY <4>1, <4>2
    <3>2. client' \in {"new", "start", "recording", "stop", "end"} \X (Encoders \cup {None})
      BY <1>3 DEF StopRecording, Then
    <3> QED
      BY <1>3, <3>1, <3>2 DEF StopRecording, Then, TypeOK, Steps, TrackOrders
  <2>2. ClientLife'
    BY <1>3 DEF StopRecording, Then, TypeOK, ClientLife, Unconstructed, Unstarted
  <2>3. FrameLife'
    BY <1>3 DEF StopRecording, Then, TypeOK, ClientLife, FrameLife, Unstarted
  <2>4. MuxerLife'
    BY <1>3 DEF StopRecording, Then, TypeOK, MuxerLife, Past, AllPast, Counted
  <2>5. TrackLife'
    BY <1>3 DEF StopRecording, Then, TypeOK, MuxerLife, TrackLife, Past, AllPast
  <2>6. CardLife'
    BY <1>3 DEF StopRecording, Then, TypeOK, CardLife, MuxerLife, Past, AllPast, Counted
  <2> QED
    BY <2>1, <2>2, <2>3, <2>4, <2>5, <2>6
<1> QED
  BY <1>1, <1>2, <1>3 DEF Client

(* A step of who feeds a codec preserves the invariant.                     *)
LEMMA FeederStep ==
  ASSUME IInv, ~failed, NEW e \in Encoders, Feeder(e)
  PROVE  IInv'
<1> USE BoundsAssumption, NoneAssumption DEF IInv, Encoders, flags, tracks, muxer, card, Goto, Notified, HasLeft
<1>1. CASE LookForFrame(e)
  <2>1. TypeOK'
    BY <1>1 DEF LookForFrame, TypeOK, Steps, TrackOrders
  <2>2. ClientLife'
    BY <1>1 DEF LookForFrame, TypeOK, ClientLife, Unconstructed, Unstarted
  <2>3. FrameLife'
    BY <1>1 DEF LookForFrame, TypeOK, ClientLife, FrameLife, Unstarted
  <2>4. MuxerLife'
    BY <1>1 DEF LookForFrame, TypeOK, MuxerLife, Past, AllPast, Counted
  <2>5. TrackLife'
    BY <1>1 DEF LookForFrame, TypeOK, MuxerLife, TrackLife, Past, AllPast
  <2>6. CardLife'
    BY <1>1 DEF LookForFrame, TypeOK, CardLife, MuxerLife, Past, AllPast, Counted
  <2> QED
    BY <2>1, <2>2, <2>3, <2>4, <2>5, <2>6
<1>2. CASE Encode(e)
  <2>1. TypeOK'
    BY <1>2 DEF Encode, TypeOK, Steps, TrackOrders
  <2>2. ClientLife'
    BY <1>2 DEF Encode, TypeOK, ClientLife, Unconstructed, Unstarted
  <2>3. FrameLife'
    BY <1>2 DEF Encode, TypeOK, ClientLife, FrameLife, Unstarted
  <2>4. MuxerLife'
    BY <1>2 DEF Encode, TypeOK, MuxerLife, Past, AllPast, Counted
  <2>5. TrackLife'
    BY <1>2 DEF Encode, TypeOK, MuxerLife, TrackLife, Past, AllPast
  <2>6. CardLife'
    BY <1>2 DEF Encode, TypeOK, CardLife, MuxerLife, Past, AllPast, Counted
  <2> QED
    BY <2>1, <2>2, <2>3, <2>4, <2>5, <2>6
<1>3. CASE FrameAvailableSoon(e)
  <2>1. TypeOK'
    BY <1>3 DEF FrameAvailableSoon, TypeOK, Steps, TrackOrders
  <2>2. ClientLife'
    BY <1>3 DEF FrameAvailableSoon, TypeOK, ClientLife, Unconstructed, Unstarted
  <2>3. FrameLife'
    BY <1>3 DEF FrameAvailableSoon, TypeOK, ClientLife, FrameLife, Unstarted
  <2>4. MuxerLife'
    BY <1>3 DEF FrameAvailableSoon, TypeOK, MuxerLife, Past, AllPast, Counted
  <2>5. TrackLife'
    BY <1>3 DEF FrameAvailableSoon, TypeOK, MuxerLife, TrackLife, Past, AllPast
  <2>6. CardLife'
    BY <1>3 DEF FrameAvailableSoon, TypeOK, CardLife, MuxerLife, Past, AllPast, Counted
  <2> QED
    BY <2>1, <2>2, <2>3, <2>4, <2>5, <2>6
<1> QED
  BY <1>1, <1>2, <1>3 DEF Feeder

(* Preparing the encoders and moving the card preserve the invariant.       *)
LEMMA OtherStep ==
  ASSUME IInv, ~failed, Prepare \/ TakeCard \/ ReturnCard
  PROVE  IInv'
<1> USE BoundsAssumption, NoneAssumption DEF IInv, Encoders, flags, tracks, muxer, card, Goto, Notified, HasLeft
<1>1. CASE Prepare
  <2>1. TypeOK'
    <3>1. codec' \in [Encoders -> [running : BOOLEAN, given : Nat, kept : Nat, format : BOOLEAN]]
      <4> DEFINE Fresh == {NewCodec(TRUE), NewCodec(FALSE)}
      <4>1. Fresh \subseteq [running : BOOLEAN, given : Nat, kept : Nat, format : BOOLEAN]
        BY FreshCodec
      <4>2. codec' \in [Encoders -> Fresh]
        BY <1>1 DEF Prepare
      <4> HIDE DEF Fresh
      <4> QED
        BY <4>1, <4>2
    <3>2. mMuxerStarted' \in [Encoders -> BOOLEAN]
      BY <1>1 DEF Prepare, Each
    <3>3. mTrackIndex' \in [Encoders -> -1..1]
      BY <1>1 DEF Prepare, Each
    <3>4. client' \in {"new", "start", "recording", "stop", "end"} \X (Encoders \cup {None})
      BY <1>1 DEF Prepare
    <3> QED
      BY <1>1, <3>1, <3>2, <3>3, <3>4 DEF Prepare, TypeOK, Steps, TrackOrders
  <2>2. ClientLife'
    BY <1>1 DEF Prepare, Each, NewCodec, TypeOK, ClientLife, Unconstructed, Unstarted
  <2>3. FrameLife'
    BY <1>1 DEF Prepare, Each, NewCodec, TypeOK, ClientLife, FrameLife, Unstarted
  <2>4. MuxerLife'
    <3>1. mMuxerStarted' = mMuxerStarted /\ \A e \in Encoders : ~mMuxerStarted[e] /\ ~codec[e].format /\ ~codec'[e].format
      BY <1>1 DEF Prepare, Each, NewCodec, TypeOK, ClientLife, Unstarted
    <3> QED
      BY <1>1, <3>1 DEF Prepare, TypeOK, MuxerLife, Past, AllPast, Counted
  <2>5. TrackLife'
    <3>1. mMuxerStarted' = mMuxerStarted /\ \A e \in Encoders : ~mMuxerStarted[e]
      BY <1>1 DEF Prepare, Each, NewCodec, TypeOK, ClientLife, Unstarted
    <3> QED
      BY <1>1, <3>1 DEF Prepare, TypeOK, TrackLife, Past, AllPast
  <2>6. CardLife'
    BY <1>1 DEF Prepare, Each, NewCodec, TypeOK, CardLife, MuxerLife, Past, AllPast, Counted
  <2> QED
    BY <2>1, <2>2, <2>3, <2>4, <2>5, <2>6
<1>2. CASE TakeCard
  <2>1. TypeOK'
    <3>1. removals' \in 0..MaxRemovals
      BY <1>2 DEF TakeCard, TypeOK
    <3>2. writable' \in BOOLEAN
      BY <1>2 DEF TakeCard
    <3> QED
      BY <1>2, <3>1, <3>2 DEF TakeCard, TypeOK, Steps, TrackOrders
  <2>2. ClientLife'
    BY <1>2 DEF TakeCard, TypeOK, ClientLife, Unconstructed, Unstarted
  <2>3. FrameLife'
    BY <1>2 DEF TakeCard, TypeOK, ClientLife, FrameLife, Unstarted
  <2>4. MuxerLife'
    BY <1>2 DEF TakeCard, TypeOK, MuxerLife, Past, AllPast, Counted
  <2>5. TrackLife'
    BY <1>2 DEF TakeCard, TypeOK, MuxerLife, TrackLife, Past, AllPast
  <2>6. CardLife'
    BY <1>2 DEF TakeCard, TypeOK, CardLife, MuxerLife, Past, AllPast, Counted
  <2> QED
    BY <2>1, <2>2, <2>3, <2>4, <2>5, <2>6
<1>3. CASE ReturnCard
  <2>1. TypeOK'
    BY <1>3 DEF ReturnCard, TypeOK, Steps, TrackOrders
  <2>2. ClientLife'
    BY <1>3 DEF ReturnCard, TypeOK, ClientLife, Unconstructed, Unstarted
  <2>3. FrameLife'
    BY <1>3 DEF ReturnCard, TypeOK, ClientLife, FrameLife, Unstarted
  <2>4. MuxerLife'
    BY <1>3 DEF ReturnCard, TypeOK, MuxerLife, Past, AllPast, Counted
  <2>5. TrackLife'
    BY <1>3 DEF ReturnCard, TypeOK, MuxerLife, TrackLife, Past, AllPast
  <2>6. CardLife'
    BY <1>3 DEF ReturnCard, TypeOK, CardLife, MuxerLife, Past, AllPast, Counted
  <2> QED
    BY <2>1, <2>2, <2>3, <2>4, <2>5, <2>6
<1> QED
  BY <1>1, <1>2, <1>3

(* A step of the thread of an encoder preserves the invariant.              *)
LEMMA ThreadStep ==
  ASSUME IInv, ~failed, NEW e \in Encoders, Thread(e)
  PROVE  IInv'
<1> USE BoundsAssumption, NoneAssumption DEF IInv, Encoders, flags, tracks, muxer, card, Goto, Notified, HasLeft
<1>1. CASE Begin(e)
  <2>1. TypeOK'
    BY <1>1 DEF Begin, TypeOK, Steps, TrackOrders
  <2>2. ClientLife'
    BY <1>1 DEF Begin, TypeOK, ClientLife, Unconstructed, Unstarted
  <2>3. FrameLife'
    BY <1>1 DEF Begin, TypeOK, ClientLife, FrameLife, Unstarted
  <2>4. MuxerLife'
    BY <1>1 DEF Begin, TypeOK, MuxerLife, Past, AllPast, Counted
  <2>5. TrackLife'
    BY <1>1 DEF Begin, TypeOK, MuxerLife, TrackLife, Past, AllPast
  <2>6. CardLife'
    BY <1>1 DEF Begin, TypeOK, CardLife, MuxerLife, Past, AllPast, Counted
  <2> QED
    BY <2>1, <2>2, <2>3, <2>4, <2>5, <2>6
<1>2. CASE Decide(e)
  <2>1. TypeOK'
    BY <1>2 DEF Decide, TypeOK, Steps, TrackOrders
  <2>2. ClientLife'
    BY <1>2 DEF Decide, TypeOK, ClientLife, Unconstructed, Unstarted
  <2>3. FrameLife'
    BY <1>2 DEF Decide, TypeOK, ClientLife, FrameLife, Unstarted
  <2>4. MuxerLife'
    BY <1>2 DEF Decide, TypeOK, MuxerLife, Past, AllPast, Counted
  <2>5. TrackLife'
    BY <1>2 DEF Decide, TypeOK, MuxerLife, TrackLife, Past, AllPast
  <2>6. CardLife'
    BY <1>2 DEF Decide, TypeOK, CardLife, MuxerLife, Past, AllPast, Counted
  <2> QED
    BY <2>1, <2>2, <2>3, <2>4, <2>5, <2>6
<1>3. CASE WaitForRequest(e)
  <2>1. TypeOK'
    BY <1>3 DEF WaitForRequest, TypeOK, Steps, TrackOrders
  <2>2. ClientLife'
    BY <1>3 DEF WaitForRequest, TypeOK, ClientLife, Unconstructed, Unstarted
  <2>3. FrameLife'
    BY <1>3 DEF WaitForRequest, TypeOK, ClientLife, FrameLife, Unstarted
  <2>4. MuxerLife'
    BY <1>3 DEF WaitForRequest, TypeOK, MuxerLife, Past, AllPast, Counted
  <2>5. TrackLife'
    BY <1>3 DEF WaitForRequest, TypeOK, MuxerLife, TrackLife, Past, AllPast
  <2>6. CardLife'
    BY <1>3 DEF WaitForRequest, TypeOK, CardLife, MuxerLife, Past, AllPast, Counted
  <2> QED
    BY <2>1, <2>2, <2>3, <2>4, <2>5, <2>6
<1>4. CASE DrainNothing(e)
  <2>1. TypeOK'
    BY <1>4 DEF DrainNothing, TypeOK, Steps, TrackOrders
  <2>2. ClientLife'
    BY <1>4 DEF DrainNothing, TypeOK, ClientLife, Unconstructed, Unstarted
  <2>3. FrameLife'
    BY <1>4 DEF DrainNothing, TypeOK, ClientLife, FrameLife, Unstarted
  <2>4. MuxerLife'
    BY <1>4 DEF DrainNothing, TypeOK, MuxerLife, Past, AllPast, Counted
  <2>5. TrackLife'
    BY <1>4 DEF DrainNothing, TypeOK, MuxerLife, TrackLife, Past, AllPast
  <2>6. CardLife'
    BY <1>4 DEF DrainNothing, TypeOK, CardLife, MuxerLife, Past, AllPast, Counted
  <2> QED
    BY <2>1, <2>2, <2>3, <2>4, <2>5, <2>6
<1>5. CASE DrainFormat(e)
  <2>1. TypeOK'
    <3> DEFINE Codecs == [running : BOOLEAN, given : Nat, kept : Nat, format : BOOLEAN]
    <3>1. codec' \in [Encoders -> Codecs]
      <4>1. codec \in [Encoders -> Codecs] /\ codec[e] \in Codecs
        BY DEF TypeOK
      <4>2. [codec[e] EXCEPT !.format = TRUE] \in Codecs
        BY <4>1
      <4>3. codec' = [codec EXCEPT ![e] = [codec[e] EXCEPT !.format = TRUE]]
        BY <1>5 DEF DrainFormat
      <4> HIDE DEF Codecs
      <4> QED
        BY <4>1, <4>2, <4>3
    <3>2. pc' \in [Encoders -> Steps]
      BY <1>5 DEF DrainFormat, Goto, TypeOK, Steps
    <3> QED
      BY <1>5, <3>1, <3>2 DEF DrainFormat, TypeOK
  <2>2. ClientLife'
    BY <1>5 DEF DrainFormat, HasOutput, TypeOK, ClientLife, Unconstructed, Unstarted
  <2>3. FrameLife'
    BY <1>5 DEF DrainFormat, HasOutput, TypeOK, ClientLife, FrameLife, Unstarted
  <2>4. MuxerLife'
    BY <1>5 DEF DrainFormat, HasOutput, TypeOK, MuxerLife, Past, AllPast, Counted
  <2>5. TrackLife'
    BY <1>5 DEF DrainFormat, HasOutput, TypeOK, MuxerLife, TrackLife, Past, AllPast
  <2>6. CardLife'
    BY <1>5 DEF DrainFormat, HasOutput, TypeOK, CardLife, MuxerLife, Past, AllPast, Counted
  <2> QED
    BY <2>1, <2>2, <2>3, <2>4, <2>5, <2>6
<1>6. CASE AddTrack(e)
  <2>1. TypeOK'
    <3>1. CASE mIsStarted \/ mMuxerStarted[e]
      BY <1>6, <3>1 DEF AddTrack, TypeOK, Steps, TrackOrders
    <3>2. CASE ~(mIsStarted \/ mMuxerStarted[e])
      <4>0. pc' \in [Encoders -> Steps] /\ mMuxerStarted' \in [Encoders -> BOOLEAN] /\ UNCHANGED failed
        <5>1. mMuxerStarted' \in [Encoders -> BOOLEAN] /\ UNCHANGED failed
          <6>1. mMuxerStarted' = [mMuxerStarted EXCEPT ![e] = TRUE] /\ UNCHANGED failed
            BY <1>6, <3>2 DEF AddTrack
          <6>2. mMuxerStarted \in [Encoders -> BOOLEAN]
            BY DEF TypeOK
          <6> QED
            BY <6>1, <6>2
        <5>2. pc' \in [Encoders -> Steps]
          BY <1>6, <3>2 DEF AddTrack, TypeOK, Steps
        <5> QED
          BY <5>1, <5>2
      <4>1. /\ mMediaMuxer' = [mMediaMuxer EXCEPT !.tracks = Append(mMediaMuxer.tracks, e)]
            /\ mIndex' = [mIndex EXCEPT ![e] = Len(mMediaMuxer.tracks)]
            /\ mTrackIndex' = [mTrackIndex EXCEPT ![e] = Len(mMediaMuxer.tracks)]
        BY <1>6, <3>2 DEF AddTrack
      <4>2. Append(mMediaMuxer.tracks, e) \in TrackOrders /\ Len(mMediaMuxer.tracks) \in -1..1
        BY <1>6, <3>2, NewTrack DEF AddTrack
      <4>3. mMediaMuxer' \in [is : {"ready", "started", "stopped", "none"}, tracks : TrackOrders]
        BY <4>1, <4>2 DEF TypeOK
      <4>4. mIndex' \in [Encoders -> -1..1] /\ mTrackIndex' \in [Encoders -> -1..1]
        BY <4>1, <4>2 DEF TypeOK
      <4> QED
        BY <1>6, <4>0, <4>3, <4>4 DEF AddTrack, TypeOK, Steps, TrackOrders
    <3> QED
      BY <3>1, <3>2
  <2>2. ClientLife'
    <3>1. ~Unstarted(e)
      BY <1>6 DEF AddTrack, ClientLife
    <3>2. CASE mIsStarted \/ mMuxerStarted[e]
      BY <1>6, <3>2 DEF AddTrack, ClientLife, Unconstructed, Unstarted
    <3>3. CASE ~(mIsStarted \/ mMuxerStarted[e])
      <4>1. pc' = [pc EXCEPT ![e] = "start"] /\ mMuxerStarted' = [mMuxerStarted EXCEPT ![e] = TRUE]
        BY <1>6, <3>3 DEF AddTrack
      <4> QED
        BY <1>6, <3>1, <3>3, <4>1 DEF AddTrack, TypeOK, ClientLife, Unconstructed, Unstarted
    <3> QED
      BY <3>2, <3>3
  <2>3. FrameLife'
    BY <1>6 DEF AddTrack, TypeOK, ClientLife, FrameLife, Unstarted
  <2>4. MuxerLife'
    <3>1. CASE mIsStarted \/ mMuxerStarted[e]
      BY <1>6, <3>1 DEF AddTrack, MuxerLife, Past, AllPast, Counted
    <3>2. CASE ~(mIsStarted \/ mMuxerStarted[e])
      <4>1. mMediaMuxer'.is = mMediaMuxer.is
        BY <1>6, <3>2 DEF AddTrack, TypeOK
      <4>2. pc' = [pc EXCEPT ![e] = "start"] /\ mMuxerStarted' = [mMuxerStarted EXCEPT ![e] = TRUE]
        BY <1>6, <3>2 DEF AddTrack
      <4> QED
        BY <1>6, <3>2, <4>1, <4>2 DEF AddTrack, TypeOK, MuxerLife, Past, AllPast, Counted
    <3> QED
      BY <3>1, <3>2
  <2>5. TrackLife'
    <3>1. CASE mIsStarted \/ mMuxerStarted[e]
      BY <1>6, <3>1 DEF AddTrack, TrackLife, Past, AllPast
    <3>2. CASE ~(mIsStarted \/ mMuxerStarted[e])
      <4> DEFINE n == Len(mMediaMuxer.tracks)
      <4>1. /\ n \in 0..1 /\ mIndex[audio] # -1 /\ Len(Append(mMediaMuxer.tracks, e)) = n + 1
            /\ Append(mMediaMuxer.tracks, e)[n + 1] = e
            /\ \A i \in 1..n : Append(mMediaMuxer.tracks, e)[i] = mMediaMuxer.tracks[i]
        BY <1>6, <3>2, NewTrack DEF AddTrack
      <4>2. /\ mMediaMuxer'.tracks = Append(mMediaMuxer.tracks, e) /\ mTrackIndex' = [mTrackIndex EXCEPT ![e] = n]
            /\ mMuxerStarted' = [mMuxerStarted EXCEPT ![e] = TRUE]
            /\ mIndex' = [mIndex EXCEPT ![e] = n]
        BY <1>6, <3>2 DEF AddTrack, TypeOK
      <4>3. mIndex'[audio] # -1
        BY <4>1, <4>2 DEF TypeOK
      <4>4. ASSUME NEW d \in Encoders
            PROVE  /\ mMuxerStarted'[d] <=> \E i \in 1..(n + 1) : mMediaMuxer'.tracks[i] = d
                   /\ mMuxerStarted'[d] => /\ mTrackIndex'[d] + 1 \in 1..(n + 1)
                                           /\ mMediaMuxer'.tracks[mTrackIndex'[d] + 1] = d
        <5>1. CASE d = e
          BY <4>1, <4>2, <5>1 DEF TypeOK
        <5>2. CASE d # e
          <6>1. mMuxerStarted'[d] = mMuxerStarted[d] /\ mTrackIndex'[d] = mTrackIndex[d]
            BY <4>2, <5>2 DEF TypeOK
          <6>2. mTrackIndex[d] \in Int
            BY DEF TypeOK
          <6>3. /\ mMuxerStarted[d] <=> \E i \in 1..n : mMediaMuxer.tracks[i] = d
                /\ mMuxerStarted[d] => mTrackIndex[d] + 1 \in 1..n /\ mMediaMuxer.tracks[mTrackIndex[d] + 1] = d
            BY <4>1 DEF TrackLife
          <6> HIDE DEF n
          <6> QED
            BY <4>1, <4>2, <5>2, <6>1, <6>2, <6>3
        <5> QED
          BY <5>1, <5>2
      <4>5. mMediaMuxer'.is # "none"
        BY <1>6, <3>2, <4>1 DEF AddTrack, TypeOK, TrackLife
      <4> QED
        BY <4>1, <4>2, <4>3, <4>4, <4>5 DEF TrackLife
    <3> QED
      BY <3>1, <3>2
  <2>6. CardLife'
    <3>1. CASE mIsStarted \/ mMuxerStarted[e]
      <4>1. FALSE
        BY <1>6, <3>1, SilentAudio DEF AddTrack, MuxerLife, Past, AllPast
      <4> QED
        BY <4>1
    <3>2. CASE ~(mIsStarted \/ mMuxerStarted[e])
      <4>1. UNCHANGED failed /\ mMediaMuxer'.is = mMediaMuxer.is /\ pc' = [pc EXCEPT ![e] = "start"]
        BY <1>6, <3>2 DEF AddTrack, TypeOK
      <4> QED
        BY <1>6, <4>1 DEF AddTrack, TypeOK, CardLife
    <3> QED
      BY <3>1, <3>2
  <2> QED
    BY <2>1, <2>2, <2>3, <2>4, <2>5, <2>6
<1>7. CASE StartMuxer(e)
  <2>1. TypeOK'
    <3>1. pc' \in [Encoders -> Steps]
      BY <1>7 DEF StartMuxer, EncoderCount, TypeOK, Steps
    <3>2. mStatredCount' \in 0..2
      BY <1>7, SilentAudio DEF StartMuxer, EncoderCount, TypeOK, MuxerLife, Past, Counted
    <3>3. mMediaMuxer' \in [is : {"ready", "started", "stopped", "none"}, tracks : TrackOrders] /\ mIsStarted' \in BOOLEAN
      BY <1>7 DEF StartMuxer, EncoderCount, TypeOK
    <3> QED
      BY <1>7, <3>1, <3>2, <3>3 DEF StartMuxer, EncoderCount, TypeOK, Steps, TrackOrders
  <2>2. ClientLife'
    BY <1>7 DEF StartMuxer, EncoderCount, TypeOK, ClientLife, Unconstructed, Unstarted
  <2>3. FrameLife'
    BY <1>7 DEF StartMuxer, EncoderCount, TypeOK, ClientLife, FrameLife, Unstarted
  <2>4. MuxerLife'
    BY <1>7, SilentAudio DEF StartMuxer, EncoderCount, TypeOK, MuxerLife, Past, AllPast, Counted
  <2>5. TrackLife'
    BY <1>7 DEF StartMuxer, EncoderCount, TypeOK, MuxerLife, TrackLife, Past, AllPast
  <2>6. CardLife'
    BY <1>7 DEF StartMuxer, EncoderCount, TypeOK, CardLife, MuxerLife, Past, AllPast, Counted
  <2> QED
    BY <2>1, <2>2, <2>3, <2>4, <2>5, <2>6
<1>8. CASE WaitForMuxer(e)
  <2>1. TypeOK'
    BY <1>8 DEF WaitForMuxer, TypeOK, Steps, TrackOrders
  <2>2. ClientLife'
    BY <1>8 DEF WaitForMuxer, TypeOK, ClientLife, Unconstructed, Unstarted
  <2>3. FrameLife'
    BY <1>8 DEF WaitForMuxer, TypeOK, ClientLife, FrameLife, Unstarted
  <2>4. MuxerLife'
    BY <1>8 DEF WaitForMuxer, TypeOK, MuxerLife, Past, AllPast, Counted
  <2>5. TrackLife'
    BY <1>8 DEF WaitForMuxer, TypeOK, MuxerLife, TrackLife, Past, AllPast
  <2>6. CardLife'
    BY <1>8 DEF WaitForMuxer, TypeOK, CardLife, MuxerLife, Past, AllPast, Counted
  <2> QED
    BY <2>1, <2>2, <2>3, <2>4, <2>5, <2>6
<1>9. CASE WriteSample(e)
  <2>1. TypeOK'
    <3>1. codec' \in [Encoders -> [running : BOOLEAN, given : Nat, kept : Nat, format : BOOLEAN]]
      BY <1>9 DEF WriteSample, HasOutput, Drained, TypeOK
    <3>2. mMediaMuxer' \in [is : {"ready", "started", "stopped", "none"}, tracks : TrackOrders]
      BY <1>9 DEF WriteSample, TypeOK, TrackOrders
    <3>3. mIsStarted' \in BOOLEAN /\ failed' \in BOOLEAN
      BY <1>9 DEF WriteSample, TypeOK
    <3>4. mIndex' \in [Encoders -> -1..1]
      BY <1>9 DEF WriteSample, TypeOK
    <3> QED
      BY <1>9, <3>1, <3>2, <3>3, <3>4 DEF WriteSample, TypeOK, Steps, TrackOrders
  <2>2. ClientLife'
    BY <1>9 DEF WriteSample, HasOutput, Drained, Dropped, Fits, TypeOK, ClientLife, Unconstructed, Unstarted
  <2>3. FrameLife'
    BY <1>9 DEF WriteSample, HasOutput, Drained, Dropped, Fits, TypeOK, ClientLife, FrameLife, Unstarted
  <2>4. MuxerLife'
    BY <1>9 DEF WriteSample, HasOutput, Drained, Dropped, Fits, TypeOK, MuxerLife, Past, AllPast, Counted
  <2>5. TrackLife'
    BY <1>9 DEF WriteSample, HasOutput, Drained, Dropped, Fits, TypeOK, MuxerLife, TrackLife, Past, AllPast
  <2>6. CardLife'
    <3>1. removals = 0 /\ ~Dropped => Fits(e)
      BY <1>9, SampleFits DEF WriteSample
    <3> QED
      BY <1>9, <3>1 DEF WriteSample, HasOutput, TypeOK, CardLife
  <2> QED
    BY <2>1, <2>2, <2>3, <2>4, <2>5, <2>6
<1>10. CASE WriteSampleAndSplit(e)
  <2>1. TypeOK'
    <3>1. codec' \in [Encoders -> [running : BOOLEAN, given : Nat, kept : Nat, format : BOOLEAN]]
      BY <1>10 DEF WriteSampleAndSplit, HasOutput, Drained, TypeOK
    <3>2. mMediaMuxer' \in [is : {"ready", "started", "stopped", "none"}, tracks : TrackOrders]
      BY <1>10 DEF WriteSampleAndSplit, TypeOK, TrackOrders
    <3>3. mIsStarted' \in BOOLEAN /\ failed' \in BOOLEAN /\ writable' \in BOOLEAN
      BY <1>10 DEF WriteSampleAndSplit, TypeOK
    <3>4. mIndex' \in [Encoders -> -1..1]
      BY <1>10 DEF WriteSampleAndSplit, TypeOK
    <3> QED
      BY <1>10, <3>1, <3>2, <3>3, <3>4 DEF WriteSampleAndSplit, TypeOK, Steps, TrackOrders
  <2>2. ClientLife'
    BY <1>10 DEF WriteSampleAndSplit, HasOutput, Drained, Dropped, Fits, TypeOK, ClientLife, Unconstructed, Unstarted
  <2>3. FrameLife'
    BY <1>10 DEF WriteSampleAndSplit, HasOutput, Drained, Dropped, Fits, TypeOK, ClientLife, FrameLife, Unstarted
  <2>4. MuxerLife'
    BY <1>10 DEF WriteSampleAndSplit, HasOutput, Drained, Dropped, Fits, TypeOK, MuxerLife, Past, AllPast, Counted
  <2>5. TrackLife'
    BY <1>10 DEF WriteSampleAndSplit, HasOutput, Drained, Dropped, Fits, TypeOK, MuxerLife, TrackLife, Past, AllPast
  <2>6. CardLife'
    <3>1. removals = 0 => Fits(e)
      BY <1>10, SampleFits DEF WriteSampleAndSplit
    <3> QED
      BY <1>10, <3>1 DEF WriteSampleAndSplit, HasOutput, TypeOK, CardLife
  <2> QED
    BY <2>1, <2>2, <2>3, <2>4, <2>5, <2>6
<1>14. CASE WriteSampleAndSplitFails(e)
  <2>1. TypeOK'
    <3>1. codec' \in [Encoders -> [running : BOOLEAN, given : Nat, kept : Nat, format : BOOLEAN]]
      <4>1. codec' = [codec EXCEPT ![e].kept = @ - 1] /\ codec[e].kept > 0
        BY <1>14 DEF WriteSampleAndSplitFails, HasOutput, Drained
      <4> QED
        BY <4>1 DEF TypeOK
    <3>2. mMediaMuxer' \in [is : {"ready", "started", "stopped", "none"}, tracks : TrackOrders]
      BY <1>14 DEF WriteSampleAndSplitFails, TypeOK, TrackOrders
    <3>3. mIsStarted' \in BOOLEAN /\ failed' \in BOOLEAN /\ writable' \in BOOLEAN
      BY <1>14 DEF WriteSampleAndSplitFails, TypeOK
    <3>4. mIndex' \in [Encoders -> -1..1]
      BY <1>14 DEF WriteSampleAndSplitFails, TypeOK
    <3> QED
      BY <1>14, <3>1, <3>2, <3>3, <3>4 DEF WriteSampleAndSplitFails, TypeOK, Steps, TrackOrders
  <2>2. ClientLife'
    BY <1>14 DEF WriteSampleAndSplitFails, HasOutput, Drained, Dropped, Fits, TypeOK, ClientLife, Unconstructed, Unstarted
  <2>3. FrameLife'
    BY <1>14 DEF WriteSampleAndSplitFails, HasOutput, Drained, TypeOK, FrameLife
  <2>4. MuxerLife'
    BY <1>14 DEF WriteSampleAndSplitFails, HasOutput, Drained, Dropped, Fits, TypeOK, MuxerLife, Past, AllPast, Counted
  <2>5. TrackLife'
    <3>1. mIndex'[audio] = -1
      BY <1>14 DEF WriteSampleAndSplitFails
    <3>2. AllPast /\ UNCHANGED <<silent, pc, mMuxerStarted>>
      BY <1>14 DEF WriteSampleAndSplitFails, HasOutput, MuxerLife, Past
    <3>3. AllPast'
      BY <3>2 DEF AllPast, Past
    <3> QED
      BY <3>1, <3>3 DEF TrackLife
  <2>6. CardLife'
    <3>1. removals = 0 => Fits(e)
      BY <1>14, SampleFits DEF WriteSampleAndSplitFails
    <3> QED
      BY <1>14, <3>1 DEF WriteSampleAndSplitFails, HasOutput, TypeOK, CardLife
  <2> QED
    BY <2>1, <2>2, <2>3, <2>4, <2>5, <2>6
<1>15. CASE WriteSampleAndSplitNowhere(e)
  <2>1. TypeOK'
    <3>1. removals' \in 0..MaxRemovals
      BY <1>15 DEF WriteSampleAndSplitNowhere, TypeOK
    <3>2. failed' \in BOOLEAN /\ writable' \in BOOLEAN
      BY <1>15 DEF WriteSampleAndSplitNowhere
    <3> QED
      BY <1>15, <3>1, <3>2 DEF WriteSampleAndSplitNowhere, TypeOK, Steps, TrackOrders
  <2>2. ClientLife'
    BY <1>15 DEF WriteSampleAndSplitNowhere, TypeOK, ClientLife, Unconstructed, Unstarted
  <2>3. FrameLife'
    BY <1>15 DEF WriteSampleAndSplitNowhere, TypeOK, FrameLife
  <2>4. MuxerLife'
    BY <1>15 DEF WriteSampleAndSplitNowhere, TypeOK, MuxerLife, Past, AllPast, Counted
  <2>5. TrackLife'
    BY <1>15 DEF WriteSampleAndSplitNowhere, TypeOK, TrackLife, Past, AllPast
  <2>6. CardLife'
    BY <1>15 DEF WriteSampleAndSplitNowhere, TypeOK, CardLife
  <2> QED
    BY <2>1, <2>2, <2>3, <2>4, <2>5, <2>6
<1>11. CASE ReleaseCodec(e)
  <2>1. TypeOK'
    <3>1. codec' \in [Encoders -> [running : BOOLEAN, given : Nat, kept : Nat, format : BOOLEAN]]
      BY <1>11 DEF ReleaseCodec, TypeOK
    <3>2. pc' \in [Encoders -> Steps]
      BY <1>11 DEF ReleaseCodec, Goto, TypeOK, Steps
    <3> QED
      BY <1>11, <3>1, <3>2 DEF ReleaseCodec, TypeOK
  <2>2. ClientLife'
    BY <1>11 DEF ReleaseCodec, TypeOK, ClientLife, Unconstructed, Unstarted
  <2>3. FrameLife'
    BY <1>11 DEF ReleaseCodec, TypeOK, ClientLife, FrameLife, Unstarted
  <2>4. MuxerLife'
    BY <1>11 DEF ReleaseCodec, TypeOK, MuxerLife, Past, AllPast, Counted
  <2>5. TrackLife'
    BY <1>11 DEF ReleaseCodec, TypeOK, MuxerLife, TrackLife, Past, AllPast
  <2>6. CardLife'
    BY <1>11 DEF ReleaseCodec, TypeOK, CardLife, MuxerLife, Past, AllPast, Counted
  <2> QED
    BY <2>1, <2>2, <2>3, <2>4, <2>5, <2>6
<1>12. CASE StopMuxer(e)
  <2>1. TypeOK'
    <3>1. pc' \in [Encoders -> Steps] /\ mRequestStop' \in [Encoders -> BOOLEAN]
      BY <1>12 DEF StopMuxer, CountOut, TypeOK, Steps
    <3>2. mStatredCount' \in 0..2
      BY <1>12, SilentAudio DEF StopMuxer, CountOut, TypeOK, MuxerLife, Past, Counted
    <3>3. mMediaMuxer' \in [is : {"ready", "started", "stopped", "none"}, tracks : TrackOrders] /\ mIsStarted' \in BOOLEAN
      BY <1>12 DEF StopMuxer, CountOut, TypeOK
    <3> QED
      BY <1>12, <3>1, <3>2, <3>3 DEF StopMuxer, CountOut, TypeOK, Steps, TrackOrders
  <2>2. ClientLife'
    BY <1>12 DEF StopMuxer, CountOut, TypeOK, ClientLife, Unconstructed, Unstarted
  <2>3. FrameLife'
    BY <1>12 DEF StopMuxer, CountOut, TypeOK, ClientLife, FrameLife, Unstarted
  <2>4. MuxerLife'
    <3>1. /\ mMuxerStarted[e] /\ pc[e] = "stop" /\ pc' = [pc EXCEPT ![e] = "end"]
          /\ mStatredCount' = mStatredCount - 1
          /\ UNCHANGED <<silent, mMuxerStarted, codec>>
      BY <1>12 DEF StopMuxer, CountOut
    <3>2. AllPast /\ AllPast' /\ Past(e)
      BY <3>1 DEF TypeOK, MuxerLife, Past, AllPast
    <3>3. mStatredCount' = Counted(video)' + Counted(audio)'
      BY <3>1 DEF TypeOK, MuxerLife, Past, Counted
    <3>4. /\ mMediaMuxer.is # "ready" /\ mMediaMuxer'.is # "ready"
          /\ mIsStarted' <=> mMediaMuxer'.is = "started"
          /\ mMediaMuxer'.is = "started" => mStatredCount > 1
      BY <1>12, <3>2 DEF StopMuxer, CountOut, TypeOK, MuxerLife
    <3>5. mStatredCount > 1 => \E d \in Encoders : ~HasLeft(d)'
      BY <3>1, <3>3 DEF TypeOK, Counted, Past, ClientLife, Unconstructed, Unstarted
    <3>6. ASSUME NEW d \in Encoders
          PROVE  /\ codec'[d].format <=> pc'[d] = "track" \/ mMuxerStarted'[d]
                 /\ pc'[d] = "track" => ~mMuxerStarted'[d]
                 /\ pc'[d] \in {"start", "muxer"} => mMuxerStarted'[d]
      BY <3>1 DEF TypeOK, MuxerLife
    <3> QED
      BY <3>2, <3>3, <3>4, <3>5, <3>6 DEF MuxerLife
  <2>5. TrackLife'
    BY <1>12 DEF StopMuxer, CountOut, TypeOK, MuxerLife, TrackLife, Past, AllPast
  <2>6. CardLife'
    BY <1>12, SilentAudio DEF StopMuxer, CountOut, TypeOK, CardLife, MuxerLife, Past, AllPast, Counted
  <2> QED
    BY <2>1, <2>2, <2>3, <2>4, <2>5, <2>6
<1>13. CASE EndWithoutTrack(e)
  <2>1. TypeOK'
    BY <1>13 DEF EndWithoutTrack, TypeOK, Steps, TrackOrders
  <2>2. ClientLife'
    BY <1>13 DEF EndWithoutTrack, TypeOK, ClientLife, Unconstructed, Unstarted
  <2>3. FrameLife'
    BY <1>13 DEF EndWithoutTrack, TypeOK, ClientLife, FrameLife, Unstarted
  <2>4. MuxerLife'
    BY <1>13, SilentAudio DEF EndWithoutTrack, TypeOK, MuxerLife, Past, AllPast, Counted
  <2>5. TrackLife'
    BY <1>13 DEF EndWithoutTrack, TypeOK, MuxerLife, TrackLife, Past, AllPast
  <2>6. CardLife'
    BY <1>13 DEF EndWithoutTrack, TypeOK, CardLife, MuxerLife, Past, AllPast, Counted
  <2> QED
    BY <2>1, <2>2, <2>3, <2>4, <2>5, <2>6
<1> QED
  BY <1>1, <1>2, <1>3, <1>4, <1>5, <1>6, <1>7, <1>8, <1>9, <1>10, <1>11, <1>12, <1>13, <1>14, <1>15 DEF Thread

(* Every step preserves the invariant.                                      *)
LEMMA StepInv == IInv /\ [Next]_vars => IInv'
<1> SUFFICES ASSUME IInv, [Next]_vars PROVE IInv'
  OBVIOUS
<1>1. CASE UNCHANGED vars
  BY <1>1 DEF vars, flags, tracks, muxer, card, IInv, TypeOK, ClientLife, Unconstructed, Unstarted, FrameLife,
              MuxerLife, Past, AllPast, Counted, TrackLife, CardLife, HasLeft
<1> QED
  BY <1>1, ClientStep, FeederStep, OtherStep, ThreadStep DEF Next

(* The inductive invariant holds in every state.                            *)
THEOREM Invariance == Spec => []IInv
BY InitInv, StepInv, PTL DEF Spec

(* Every variable keeps its type, for any number of frames.                 *)
THEOREM TypeCorrect == Spec => []TypeOK
<1>1. IInv => TypeOK
  BY DEF IInv
<1> QED
  BY <1>1, Invariance, PTL

(* With the card in its place no exception ends the program.                *)
THEOREM NoWriteFails == Spec => []WritesSucceed
<1>1. IInv => WritesSucceed
  BY DEF IInv, CardLife, WritesSucceed
<1> QED
  BY <1>1, Invariance, PTL

(* The last encoder that leaves stops the muxer, and nobody before.         *)
THEOREM LastStops == Spec => []StopsWithTheLast
<1>1. IInv => StopsWithTheLast
  BY DEF IInv, CardLife, MuxerLife, StopsWithTheLast
<1> QED
  BY <1>1, Invariance, PTL

(* What RequestsAreHeeded says of one encoder and one step.                 *)
Heeds(e) ==
  /\ mRequestStop[e] => mRequestStop'[e]
  /\ Pending(e)' /\ ~Pending(e) => pc[e] = "decided"

(* start and the beginning of a thread, which take requests back, find      *)
(* none; whoever makes a request notifies the thread that waits.            *)
LEMMA StepHeeds ==
  ASSUME IInv, Next, NEW e \in Encoders
  PROVE  Heeds(e)
<1> USE NoneAssumption DEF IInv, TypeOK, Heeds, Pending, Encoders, flags, tracks, muxer, card, Goto, Notified, HasLeft
<1>1. CASE \E f \in Encoders : Client(f)
  <2> PICK f \in Encoders : Client(f)
    BY <1>1
  <2>1. CASE Construct(f)
    BY <2>1 DEF Construct, Then
  <2>2. CASE StartRecording(f)
    <3>1. ~mRequestStop[f]
      BY <2>2 DEF StartRecording, Then, ClientLife, Unstarted
    <3> QED
      BY <2>2, <3>1 DEF StartRecording, Then
  <2>3. CASE StopRecording(f)
    BY <2>3 DEF StopRecording, Then
  <2> QED
    BY <2>1, <2>2, <2>3 DEF Client
<1>2. CASE \E f \in Encoders : Feeder(f)
  <2> PICK f \in Encoders : Feeder(f)
    BY <1>2
  <2>1. CASE LookForFrame(f) \/ Encode(f)
    BY <2>1 DEF LookForFrame, Encode
  <2>2. CASE FrameAvailableSoon(f)
    BY <2>2 DEF FrameAvailableSoon
  <2> QED
    BY <2>1, <2>2 DEF Feeder
<1>3. CASE \E f \in Encoders : Thread(f)
  <2> PICK f \in Encoders : Thread(f)
    BY <1>3
  <2>1. CASE Begin(f)
    <3>1. ~mRequestStop[f]
      BY <2>1 DEF Begin, ClientLife, Unstarted
    <3> QED
      BY <2>1, <3>1 DEF Begin
  <2>2. CASE Decide(f)
    BY <2>2 DEF Decide
  <2>3. CASE WaitForRequest(f)
    BY <2>3 DEF WaitForRequest
  <2>4. CASE DrainNothing(f) \/ DrainFormat(f) \/ WriteSample(f)
    BY <2>4 DEF DrainNothing, DrainFormat, WriteSample
  <2>7. CASE WriteSampleAndSplit(f) \/ WriteSampleAndSplitFails(f) \/ WriteSampleAndSplitNowhere(f)
    BY <2>7 DEF WriteSampleAndSplit, WriteSampleAndSplitFails, WriteSampleAndSplitNowhere
  <2>5. CASE AddTrack(f) \/ StartMuxer(f) \/ WaitForMuxer(f)
    BY <2>5 DEF AddTrack, StartMuxer, WaitForMuxer
  <2>6. CASE ReleaseCodec(f) \/ StopMuxer(f) \/ EndWithoutTrack(f)
    BY <2>6 DEF ReleaseCodec, StopMuxer, CountOut, EndWithoutTrack
  <2> QED
    BY <2>1, <2>2, <2>3, <2>4, <2>5, <2>6, <2>7 DEF Thread
<1>4. CASE Prepare \/ TakeCard \/ ReturnCard
  BY <1>4 DEF Prepare, TakeCard, ReturnCard
<1> QED
  BY <1>1, <1>2, <1>3, <1>4 DEF Next

(* No request to stop is lost, and none is slept over but one that comes    *)
(* between the last look of the thread and its wait.                        *)
THEOREM RequestsHeeded == Spec => RequestsAreHeeded
<1>1. IInv /\ [Next]_vars => [\A e \in Encoders : Heeds(e)]_vars
  BY StepHeeds
<1>2. Spec => [][\A e \in Encoders : Heeds(e)]_vars
  BY <1>1, Invariance, PTL DEF Spec
<1> QED
  BY <1>2 DEF RequestsAreHeeded, Heeds
=============================================================================
