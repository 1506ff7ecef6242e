-------------------------- MODULE UVCPreviewProofs --------------------------
(***************************************************************************)
(* Proofs about UVCPreview, for every number of frames and capture         *)
(* threads and every size of the queue and the pool.                       *)
(***************************************************************************)
EXTENDS UVCPreview, TLAPS, FiniteSetTheorems

(* The local variables of different threads are different slots.            *)
LEMMA SlotsAreDistinct ==
  /\ {Copy, FrameMjpeg, Frame, Converted} \subseteq Slots
  /\ Copy # FrameMjpeg /\ Copy # Frame /\ Copy # Converted
  /\ FrameMjpeg # Frame /\ FrameMjpeg # Converted /\ Frame # Converted
  /\ \A c \in CaptureThreads :
       /\ {CaptureFrame(c), CaptureConverted(c), CallbackFrame(c)} \subseteq Slots
       /\ CaptureFrame(c) # CaptureConverted(c) /\ CaptureFrame(c) # CallbackFrame(c)
       /\ CaptureConverted(c) # CallbackFrame(c)
       /\ {CaptureFrame(c), CaptureConverted(c), CallbackFrame(c)}
            \cap {Copy, FrameMjpeg, Frame, Converted} = {}
       /\ \A d \in CaptureThreads \ {c} :
            {CaptureFrame(c), CaptureConverted(c), CallbackFrame(c)}
              \cap {CaptureFrame(d), CaptureConverted(d), CallbackFrame(d)} = {}
BY ThreadsAssumption
   DEF Copy, FrameMjpeg, Frame, Converted, CaptureFrame, CaptureConverted, CallbackFrame,
       Slots, UvcSlots, PreviewSlots, CaptureSlots

-----------------------------------------------------------------------------
(* The operators on frames keep the types and the single ownership.         *)

(* The pool and the heap are finite.                                        *)
LEMMA PoolTypes ==
  ASSUME FramesOK
  PROVE  IsFiniteSet(mFramePool) /\ Cardinality(mFramePool) \in Nat
BY FramesAssumption, FS_Subset, FS_CardinalityType DEF FramesOK

(* recycle_frame keeps the pool within FRAME_POOL_SZ.                       *)
LEMMA RecycleFrameTypes ==
  ASSUME FramesOK, NEW f \in Frames, RecycleFrame(f)
  PROVE  /\ mFramePool' \subseteq Frames /\ Cardinality(mFramePool') <= PoolSize
         /\ live' \subseteq Frames
<1>1. IsFiniteSet(mFramePool) /\ Cardinality(mFramePool) \in Nat
  BY PoolTypes
<1>2. Cardinality(mFramePool \cup {f}) <= Cardinality(mFramePool) + 1
  BY <1>1, FS_AddElement
<1>3. Cardinality(mFramePool \cup {f}) \in Nat
  BY <1>1, FS_AddElement, FS_CardinalityType
<1>4. CASE Cardinality(mFramePool) < PoolSize
  <2>1. mFramePool' = mFramePool \cup {f} /\ live' = live
    BY <1>1, <1>4, LimitsAssumption DEF RecycleFrame
  <2>2. Cardinality(mFramePool') <= PoolSize
    BY <1>1, <1>2, <1>3, <1>4, <2>1, LimitsAssumption
  <2> QED
    BY <2>1, <2>2 DEF FramesOK
<1>5. CASE ~(Cardinality(mFramePool) < PoolSize)
  BY <1>5 DEF RecycleFrame, FramesOK
<1> QED
  BY <1>4, <1>5

(* get_frame into a free local variable gives it a frame nobody else has.   *)
LEMMA GetFrameKeeps ==
  ASSUME FramesOK, FrameOwnership, NEW slot \in Slots,
         GetFrame(slot), UNCHANGED <<previewFrames, captureQueu>>
  PROVE  FramesOK' /\ FrameOwnership'
<1>1. PICK f \in Frames :
        /\ held' = [held EXCEPT ![slot] = f]
        /\ f \notin live \/ f \in mFramePool
        /\ f \in live' /\ f \notin mFramePool'
        /\ live \subseteq live' /\ live' \subseteq live \cup {f}
        /\ mFramePool' = mFramePool \ {f}
  BY DEF GetFrame, FramesOK, FrameOwnership
<1>2. Cardinality(mFramePool') <= PoolSize
  <2>1. IsFiniteSet(mFramePool) /\ Cardinality(mFramePool) \in Nat
    BY PoolTypes
  <2>2. Cardinality(mFramePool') \in Nat /\ Cardinality(mFramePool') <= Cardinality(mFramePool)
    BY <1>1, <2>1, FS_Subset, FS_CardinalityType
  <2> QED
    BY <2>1, <2>2, LimitsAssumption DEF FramesOK
<1>3. FramesOK'
  BY <1>1, <1>2 DEF FramesOK
<1>4. \A s \in Slots : s # slot => held'[s] = held[s]
  BY <1>1 DEF FramesOK
<1>5. held'[slot] = f
  BY <1>1 DEF FramesOK
<1>6. f \notin Queued /\ f # captureQueu /\ \A s \in Slots : held[s] # f
  BY <1>1, FramesAssumption DEF FrameOwnership
<1>7. Queued' = Queued
  BY DEF Queued
<1> QED
  BY <1>1, <1>3, <1>4, <1>5, <1>6, <1>7, FramesAssumption DEF FrameOwnership, FramesOK

(* recycle_frame of a local variable that holds a frame leaves no reference *)
(* to it behind.                                                            *)
LEMMA RecycleHeldKeeps ==
  ASSUME FramesOK, FrameOwnership, NEW slot \in Slots, held[slot] # None, RecycleHeld(slot)
  PROVE  FramesOK' /\ FrameOwnership'
<1>1. held[slot] \in Frames
  BY DEF FramesOK
<1>2. /\ mFramePool' \subseteq Frames /\ Cardinality(mFramePool') <= PoolSize
      /\ live' \subseteq Frames
  BY <1>1, RecycleFrameTypes DEF RecycleHeld
<1>3. held' = [held EXCEPT ![slot] = None] /\ UNCHANGED <<previewFrames, captureQueu>>
  BY DEF RecycleHeld
<1>4. FramesOK'
  BY <1>2, <1>3 DEF FramesOK
<1>5. /\ \A s \in Slots : s # slot => held'[s] = held[s]
      /\ held'[slot] = None
      /\ Queued' = Queued
  BY <1>3 DEF FramesOK, Queued
<1>6. \/ mFramePool' = mFramePool \cup {held[slot]} /\ live' = live
      \/ mFramePool' = mFramePool /\ live' = live \ {held[slot]}
  BY DEF RecycleHeld, RecycleFrame
<1>7. /\ held[slot] \in live \ (mFramePool \cup Queued)
      /\ held[slot] # captureQueu
      /\ \A s \in Slots : s # slot => held[s] # held[slot]
  BY DEF FrameOwnership
<1>8. CASE mFramePool' = mFramePool \cup {held[slot]} /\ live' = live
  BY <1>3, <1>4, <1>5, <1>7, <1>8 DEF FrameOwnership
<1>9. CASE mFramePool' = mFramePool /\ live' = live \ {held[slot]}
  BY <1>3, <1>4, <1>5, <1>7, <1>9 DEF FrameOwnership
<1> QED
  BY <1>4, <1>6, <1>8, <1>9

(* clearCaptureFrame gives the frame in the slot back.                      *)
LEMMA ClearCaptureFrameKeeps ==
  ASSUME FramesOK, FrameOwnership, ClearCaptureFrame
  PROVE  FramesOK' /\ FrameOwnership'
<1>1. CASE captureQueu = None
  BY <1>1 DEF ClearCaptureFrame, FramesOK, FrameOwnership, Queued
<1>2. CASE captureQueu # None
  <2>1. captureQueu \in Frames /\ RecycleFrame(captureQueu)
    BY <1>2 DEF FramesOK, ClearCaptureFrame
  <2>2. FramesOK'
    BY <2>1, RecycleFrameTypes DEF FramesOK, ClearCaptureFrame
  <2>3. \/ mFramePool' = mFramePool \cup {captureQueu} /\ live' = live
        \/ mFramePool' = mFramePool /\ live' = live \ {captureQueu}
    BY <2>1 DEF RecycleFrame
  <2>4. captureQueu' = None /\ UNCHANGED <<previewFrames, held>> /\ Queued' = Queued
    BY DEF ClearCaptureFrame, Queued
  <2>5. FrameOwnership'
    BY <1>2, <2>1, <2>3, <2>4 DEF FrameOwnership
  <2> QED
    BY <2>2, <2>5
<1> QED
  BY <1>1, <1>2

(* addPreviewFrame moves the copy to the queue, within MAX_FRAME.           *)
LEMMA AddPreviewFrameKeeps ==
  ASSUME FramesOK, FrameOwnership, HandsFull, AddPreviewFrame
  PROVE  FramesOK' /\ FrameOwnership'
<1>1. CASE UNCHANGED <<previewFrames, held>>
  BY <1>1 DEF AddPreviewFrame, FramesOK, FrameOwnership, Queued
<1>2. CASE /\ Len(previewFrames) < MaxFrame
           /\ previewFrames' = Append(previewFrames, held[Copy])
           /\ held' = [held EXCEPT ![Copy] = None]
  <2> DEFINE f == held[Copy]
  <2>1. f \in Frames /\ Copy \in Slots
    BY SlotsAreDistinct DEF AddPreviewFrame, HandsFull, FramesOK
  <2>2. previewFrames \in Seq(Frames) /\ Len(previewFrames) \in Nat
    BY DEF FramesOK
  <2> HIDE DEF f
  <2>2a. previewFrames' = Append(previewFrames, f)
    BY <1>2 DEF f
  <2>3. /\ previewFrames' \in Seq(Frames) /\ Len(previewFrames') = Len(previewFrames) + 1
        /\ \A i \in 1..Len(previewFrames) : previewFrames'[i] = previewFrames[i]
        /\ previewFrames'[Len(previewFrames) + 1] = f
        /\ DOMAIN previewFrames' = 1..(Len(previewFrames) + 1)
    BY <2>2a, <2>1, <2>2
  <2>4. Queued' = Queued \cup {f}
    BY <2>2, <2>3 DEF Queued
  <2>4a. UNCHANGED <<captureQueu, mFramePool, live>>
    BY DEF AddPreviewFrame
  <2>4b. Len(previewFrames') <= MaxFrame
    BY <1>2, <2>2, <2>3, LimitsAssumption
  <2>5. FramesOK'
    BY <1>2, <2>1, <2>3, <2>4a, <2>4b DEF FramesOK
  <2>6. /\ f \in live \ (mFramePool \cup Queued) /\ f # captureQueu
        /\ \A t \in Slots \ {Copy} : held[t] # f
    BY <2>1, FramesAssumption DEF FrameOwnership, f
  <2>7. \A i, j \in DOMAIN previewFrames' : i # j => previewFrames'[i] # previewFrames'[j]
    BY <2>2, <2>3, <2>6 DEF FrameOwnership, Queued
  <2>8. held'[Copy] = None /\ \A t \in Slots : t # Copy => held'[t] = held[t]
    BY <1>2, <2>1 DEF FramesOK
  <2> QED
    BY <2>1, <2>4, <2>4a, <2>5, <2>6, <2>7, <2>8, FramesAssumption DEF FrameOwnership
<1> QED
  BY <1>1, <1>2 DEF AddPreviewFrame

(* waitPreviewFrame moves the oldest queued frame to the preview thread.    *)
LEMMA TakePreviewFrameKeeps ==
  ASSUME FramesOK, FrameOwnership, NEW from, TakePreviewFrame(from)
  PROVE  FramesOK' /\ FrameOwnership'
<1>1. CASE UNCHANGED <<previewFrames, held>>
  BY <1>1 DEF TakePreviewFrame, FramesOK, FrameOwnership, Queued
<1>2. ASSUME NEW slot \in Slots,
             previewFrames # <<>>,
             held' = [held EXCEPT ![slot] = Head(previewFrames)],
             previewFrames' = Tail(previewFrames)
      PROVE  FramesOK' /\ FrameOwnership'
  <2> DEFINE f == Head(previewFrames)
  <2>1. previewFrames \in Seq(Frames) /\ Len(previewFrames) \in Nat /\ Len(previewFrames) > 0
    BY <1>2 DEF FramesOK
  <2>2. /\ previewFrames' \in Seq(Frames) /\ Len(previewFrames') = Len(previewFrames) - 1
        /\ \A i \in 1..(Len(previewFrames) - 1) : previewFrames'[i] = previewFrames[i + 1]
        /\ f = previewFrames[1] /\ f \in Frames
        /\ DOMAIN previewFrames = 1..Len(previewFrames)
        /\ DOMAIN previewFrames' = 1..(Len(previewFrames) - 1)
    BY <1>2, <2>1
  <2>3. f \in Queued /\ Queued' \subseteq Queued \ {f}
    BY <2>1, <2>2 DEF Queued, FrameOwnership
  <2>4. UNCHANGED <<captureQueu, mFramePool, live>>
    BY DEF TakePreviewFrame
  <2>5. FramesOK'
    BY <1>2, <2>1, <2>2, <2>4, LimitsAssumption DEF FramesOK
  <2>6. held'[slot] = f /\ \A t \in Slots : t # slot => held'[t] = held[t]
    BY <1>2, <2>2 DEF FramesOK
  <2>7. \A i, j \in DOMAIN previewFrames' : i # j => previewFrames'[i] # previewFrames'[j]
    <3>1. SUFFICES ASSUME NEW i \in 1..(Len(previewFrames) - 1),
                          NEW j \in 1..(Len(previewFrames) - 1), i # j
                   PROVE  previewFrames'[i] # previewFrames'[j]
      BY <2>1, <2>2
    <3>2. i + 1 \in DOMAIN previewFrames /\ j + 1 \in DOMAIN previewFrames /\ i + 1 # j + 1
      BY <2>1, <3>1
    <3> QED
      BY <2>2, <3>1, <3>2 DEF FrameOwnership
  <2>8. f # captureQueu /\ f \in live \ mFramePool /\ \A t \in Slots : held[t] # f
    BY <2>2, <2>3, FramesAssumption DEF FrameOwnership
  <2> HIDE DEF f
  <2> QED
    BY <2>2, <2>3, <2>4, <2>5, <2>6, <2>7, <2>8, FramesAssumption DEF FrameOwnership
<1>3. {FrameMjpeg, Frame} \subseteq Slots
  BY SlotsAreDistinct
<1> QED
  BY <1>1, <1>2, <1>3 DEF TakePreviewFrame

(* addCaptureFrame moves the frame to the slot and recycles the one there.  *)
LEMMA AddCaptureFrameKeeps ==
  ASSUME FramesOK, FrameOwnership, HandsFull, AddCaptureFrame
  PROVE  FramesOK' /\ FrameOwnership'
<1> DEFINE f == held[Frame]
<1>1. f \in Frames /\ Frame \in Slots
  BY SlotsAreDistinct DEF AddCaptureFrame, PreviewGoes, HandsFull, FramesOK
<1>2. /\ held'[Frame] = None /\ \A t \in Slots : t # Frame => held'[t] = held[t]
      /\ held' \in [Slots -> Frames \cup {None}]
  BY <1>1 DEF FramesOK, AddCaptureFrame
<1>3. /\ f \in live \ (mFramePool \cup Queued) /\ f # captureQueu
      /\ \A t \in Slots \ {Frame} : held[t] # f
  BY <1>1, FramesAssumption DEF FrameOwnership
<1>4. UNCHANGED previewFrames /\ Queued' = Queued
  BY DEF AddCaptureFrame, Queued
<1>5. CASE UNCHANGED <<mFramePool, live, captureQueu>>
  BY <1>2, <1>4, <1>5 DEF FramesOK, FrameOwnership
<1>6. CASE captureQueu' = f /\ captureQueu = None /\ UNCHANGED <<mFramePool, live>>
  <2> HIDE DEF f
  <2> QED
    BY <1>1, <1>2, <1>3, <1>4, <1>6, FramesAssumption DEF FramesOK, FrameOwnership
<1>7. CASE captureQueu' = f /\ captureQueu # None /\ RecycleFrame(captureQueu)
  <2>1. captureQueu \in Frames
    BY <1>7 DEF FramesOK
  <2>2. /\ mFramePool' \subseteq Frames /\ Cardinality(mFramePool') <= PoolSize
        /\ live' \subseteq Frames
    BY <1>7, <2>1, RecycleFrameTypes
  <2>3. \/ mFramePool' = mFramePool \cup {captureQueu} /\ live' = live
        \/ mFramePool' = mFramePool /\ live' = live \ {captureQueu}
    BY <1>7 DEF RecycleFrame
  <2>4. captureQueu \in live \ (mFramePool \cup Queued) /\ \A s \in Slots : held[s] # captureQueu
    BY <1>7, <2>1, FramesAssumption DEF FrameOwnership
  <2>5. FramesOK'
    BY <1>1, <1>2, <1>4, <1>7, <2>2 DEF FramesOK
  <2> HIDE DEF f
  <2> QED
    BY <1>1, <1>2, <1>3, <1>4, <1>7, <2>3, <2>4, <2>5, FramesAssumption DEF FrameOwnership
<1> QED
  BY <1>5, <1>6, <1>7 DEF AddCaptureFrame

(* waitCaptureFrame moves the frame of the slot to the capture thread.      *)
LEMMA TakeCaptureFrameKeeps ==
  ASSUME FramesOK, FrameOwnership, NEW c \in CaptureThreads, NEW from, TakeCaptureFrame(c, from)
  PROVE  FramesOK' /\ FrameOwnership'
<1>1. CASE UNCHANGED <<captureQueu, held>>
  BY <1>1 DEF TakeCaptureFrame, FramesOK, FrameOwnership, Queued
<1>2. CASE /\ captureQueu # None /\ captureQueu' = None
           /\ held' = [held EXCEPT ![CaptureFrame(c)] = captureQueu]
  <2>1. CaptureFrame(c) \in Slots /\ captureQueu \in Frames
    BY <1>2, SlotsAreDistinct DEF FramesOK
  <2>2. UNCHANGED <<previewFrames, mFramePool, live>> /\ Queued' = Queued
    BY DEF TakeCaptureFrame, Queued
  <2>3. /\ held'[CaptureFrame(c)] = captureQueu
        /\ \A t \in Slots : t # CaptureFrame(c) => held'[t] = held[t]
    BY <1>2, <2>1 DEF FramesOK
  <2>4. FramesOK'
    BY <1>2, <2>1, <2>2 DEF FramesOK
  <2>5. captureQueu \in live \ (mFramePool \cup Queued) /\ \A s \in Slots : held[s] # captureQueu
    BY <1>2, <2>1, FramesAssumption DEF FrameOwnership
  <2> QED
    BY <1>2, <2>1, <2>2, <2>3, <2>4, <2>5, FramesAssumption DEF FrameOwnership
<1> QED
  BY <1>1, <1>2 DEF TakeCaptureFrame

-----------------------------------------------------------------------------
(* One step of any thread.                                                  *)

(* No step of any thread gives a frame a second owner.                      *)
LEMMA FramesStep ==
  ASSUME TypeOK, FrameOwnership, HandsFull, [Next]_vars
  PROVE  FramesOK' /\ FrameOwnership'
<1>0. FramesOK
  BY DEF TypeOK
<1>1. ASSUME UNCHANGED frames
      PROVE  FramesOK' /\ FrameOwnership'
  BY <1>0, <1>1 DEF frames, FramesOK, FrameOwnership, Queued
<1>2. CASE AppNext
  <2>1. CASE StopClearsQueue
    BY <1>0, <2>1, ClearCaptureFrameKeeps DEF StopClearsQueue
  <2>2. CASE ~StopClearsQueue
    <3>1. UNCHANGED frames
      BY <1>2, <2>2 DEF AppNext, SetPreviewDisplay, StartPreview, CreatePreviewThread, StopPreview,
            StopSignalsPreview, StopSignalsCapture, JoinCapture, JoinPreview,
            StopReleasesWindows, SetterEnters, SetterWaits, SetterWakes, SwapCallback,
            KeepCallback, SwapDisplay, AssignCallback
    <3> QED
      BY <1>1, <3>1
  <2> QED
    BY <2>1, <2>2
<1>3. CASE CallbackNext
  <2>1. CASE CallbackEnters
    BY <1>1, <2>1 DEF CallbackEnters
  <2>2. CASE CallbackCopies
    <3>1. CASE GetFrame(Copy)
      BY <1>0, <2>2, <3>1, GetFrameKeeps, SlotsAreDistinct DEF CallbackCopies
    <3>2. CASE UNCHANGED <<mFramePool, live, held>>
      BY <1>1, <2>2, <3>2 DEF CallbackCopies, frames
    <3> QED
      BY <2>2, <3>1, <3>2 DEF CallbackCopies
  <2>3. CASE AddPreviewFrame
    BY <1>0, <2>3, AddPreviewFrameKeeps
  <2>4. CASE CallbackRecycles
    BY <1>0, <2>4, RecycleHeldKeeps, SlotsAreDistinct DEF CallbackRecycles, CallbackGoes, HandsFull
  <2> QED
    BY <1>3, <2>1, <2>2, <2>3, <2>4 DEF CallbackNext
<1>4. CASE PreviewNext
  <2>1. CASE WaitPreviewFrame \/ PreviewWakes
    BY <1>0, <2>1, TakePreviewFrameKeeps DEF WaitPreviewFrame, PreviewWakes
  <2>2. CASE DecodeFrame
    BY <1>0, <2>2, GetFrameKeeps, SlotsAreDistinct DEF DecodeFrame
  <2>3. CASE RecycleMjpeg
    BY <1>0, <2>3, RecycleHeldKeeps, SlotsAreDistinct DEF RecycleMjpeg
  <2>4. CASE RecycleUndecoded
    BY <1>0, <2>4, RecycleHeldKeeps, SlotsAreDistinct DEF RecycleUndecoded, PreviewGoes, HandsFull
  <2>5. CASE ConvertPreview
    BY <1>0, <2>5, GetFrameKeeps, SlotsAreDistinct DEF ConvertPreview
  <2>6. CASE DrawPreview
    BY <1>0, <2>6, RecycleHeldKeeps, SlotsAreDistinct DEF DrawPreview, PreviewGoes, HandsFull
  <2>7. CASE AddCaptureFrame
    BY <1>0, <2>7, AddCaptureFrameKeeps
  <2>8. CASE \/ PreparePreview \/ StartStreaming \/ (\E c \in CaptureThreads : CreateCaptureThread(c))
             \/ PreviewLoop \/ PreviewSleeps \/ SkipDraw
             \/ PreviewSignalsCapture \/ StopStreaming \/ StreamStopped
    <3>1. UNCHANGED frames
      BY <2>8 DEF PreparePreview, StartStreaming, CreateCaptureThread, PreviewLoop, PreviewSleeps,
                  SkipDraw, PreviewSignalsCapture, StopStreaming, StreamStopped
    <3> QED
      BY <1>1, <3>1
  <2> QED
    BY <1>4, <2>1, <2>2, <2>3, <2>4, <2>5, <2>6, <2>7, <2>8 DEF PreviewNext
<1>5. ASSUME NEW c \in CaptureThreads, CaptureNext(c)
      PROVE  FramesOK' /\ FrameOwnership'
  <2>0. {CaptureFrame(c), CaptureConverted(c), CallbackFrame(c)} \subseteq Slots
    BY SlotsAreDistinct
  <2>1. CASE CaptureBegins(c)
    BY <1>0, <2>1, ClearCaptureFrameKeeps DEF CaptureBegins
  <2>2. CASE WaitCaptureFrame(c) \/ CaptureWakes(c)
    BY <1>0, <2>2, TakeCaptureFrameKeeps DEF WaitCaptureFrame, CaptureWakes
  <2>3. CASE Render(c)
    <3>1. CASE GetFrame(CaptureConverted(c))
      BY <1>0, <2>0, <2>3, <3>1, GetFrameKeeps DEF Render
    <3>2. CASE UNCHANGED <<mFramePool, live, held>>
      BY <1>1, <2>3, <3>2 DEF Render, frames
    <3> QED
      BY <2>3, <3>1, <3>2 DEF Render
  <2>4. CASE ConvertForCallback(c)
    <3>1. CASE GetFrame(CallbackFrame(c))
      BY <1>0, <2>0, <2>4, <3>1, GetFrameKeeps DEF ConvertForCallback
    <3>2. CASE UNCHANGED <<mFramePool, live, held>>
      BY <1>1, <2>4, <3>2 DEF ConvertForCallback, frames
    <3> QED
      BY <2>4, <3>1, <3>2 DEF ConvertForCallback
  <2>5. CASE RecycleSource(c)
    BY <1>0, <2>0, <2>5, RecycleHeldKeeps DEF RecycleSource, CaptureGoes, HandsFull
  <2>6. CASE RecycleCallbackFrame(c)
    BY <1>0, <2>0, <2>6, RecycleHeldKeeps DEF RecycleCallbackFrame, CaptureGoes, HandsFull
  <2>7. CASE LeaveSurface(c)
    BY <1>0, <1>1, <2>0, <2>7, RecycleHeldKeeps DEF LeaveSurface
  <2>8. CASE \/ CaptureLoop(c) \/ CaptureArms(c) \/ ChooseLoop(c) \/ InnerLoop(c)
             \/ CaptureSleeps(c) \/ NoCallback(c) \/ CallbackAsIs(c) \/ TestMethod(c) \/ InvokeCallback(c)
             \/ CallbackReturns(c) \/ ReleaseCaptureWindow(c) \/ CaptureBroadcasts(c)
    <3>1. UNCHANGED frames
      BY <2>8 DEF CaptureLoop, CaptureArms, ChooseLoop, InnerLoop, CaptureSleeps, NoCallback,
                  CallbackAsIs, TestMethod, InvokeCallback, CallbackReturns, ReleaseCaptureWindow,
                  CaptureBroadcasts
    <3> QED
      BY <1>1, <3>1
  <2> QED
    BY <1>5, <2>1, <2>2, <2>3, <2>4, <2>5, <2>6, <2>7, <2>8 DEF CaptureNext
<1>6. CASE SpuriousWakeup
  BY <1>1, <1>6 DEF SpuriousWakeup
<1>7. CASE UNCHANGED vars
  BY <1>1, <1>7 DEF vars
<1> QED
  BY <1>2, <1>3, <1>4, <1>5, <1>6, <1>7 DEF Next

(* A signal only takes a waiter away.                                       *)
LEMMA SignalCaptureTypes ==
  ASSUME NEW W, W \subseteq CaptureThreads \cup {App}, NEW V \in SignalCapture(W)
  PROVE  V \subseteq W
BY DEF SignalCapture

(* Program counters, the windows and the references keep their types.       *)
LEMMA ControlStep ==
  ASSUME TypeOK, RequestLive, [Next]_vars
  PROVE  ControlOK'
<1> USE DEF ControlOK, flags, windows, refs, app, preview, capture, libuvc,
            AppSteps, PreviewSteps, CaptureSteps, CallbackSteps
<1>0. ControlOK
  BY DEF TypeOK
<1>1. CASE AppNext
  <2> USE <1>0 DEF AppGoes
  <2>1. ASSUME NEW window \in BOOLEAN, SetPreviewDisplay(window) PROVE ControlOK'
    BY <2>1 DEF SetPreviewDisplay
  <2>2. CASE StartPreview \/ CreatePreviewThread
    BY <2>2 DEF StartPreview, CreatePreviewThread
  <2>3. CASE StopPreview \/ StopSignalsPreview
    BY <2>3 DEF StopPreview, StopSignalsPreview
  <2>4. CASE StopSignalsCapture
    BY <2>4, SignalCaptureTypes DEF StopSignalsCapture
  <2>5. CASE JoinCapture \/ JoinPreview
    BY <2>5 DEF JoinCapture, JoinPreview
  <2>6. CASE StopClearsQueue \/ StopReleasesWindows
    BY <2>6 DEF StopClearsQueue, StopReleasesWindows
  <2>7. ASSUME NEW r \in Requests, SetterEnters(r) PROVE ControlOK'
    <3>1. liveRefs' \subseteq Callbacks
      BY <2>7 DEF SetterEnters, Requests, CallbackRequests, DisplayRequests
    <3> QED
      BY <2>7, <3>1 DEF SetterEnters
  <2>8. CASE SetterWaits
    BY <2>8, SignalCaptureTypes DEF SetterWaits
  <2>9. CASE SetterWakes \/ SwapCallback \/ KeepCallback
    BY <2>9 DEF SetterWakes, SwapCallback, KeepCallback
  <2>10. CASE SwapDisplay
    <3>1. request \in DisplayRequests
      BY <2>10 DEF SwapDisplay, Requests, CallbackRequests, DisplayRequests, NoRequest
    <3> QED
      BY <2>10, <3>1 DEF SwapDisplay, DisplayRequests
  <2>11. ASSUME NEW found \in BOOLEAN, AssignCallback(found) PROVE ControlOK'
    <3>1. request.obj \in Callbacks \cup {None}
      BY <2>11 DEF AssignCallback, RequestLive, CallbackRequests
    <3> QED
      BY <2>11, <3>1 DEF AssignCallback
  <2> QED
    BY <1>1, <2>1, <2>2, <2>3, <2>4, <2>5, <2>6, <2>7, <2>8, <2>9, <2>10, <2>11 DEF AppNext
<1>2. CASE CallbackNext
  BY <1>0, <1>2 DEF CallbackNext, CallbackGoes, CallbackEnters, CallbackCopies, AddPreviewFrame,
                    CallbackRecycles
<1>3. CASE PreviewNext
  <2> USE <1>0 DEF PreviewGoes
  <2>1. CASE PreparePreview \/ StartStreaming
    BY <2>1 DEF PreparePreview, StartStreaming
  <2>2. ASSUME NEW c \in CaptureThreads, CreateCaptureThread(c) PROVE ControlOK'
    BY <2>2 DEF CreateCaptureThread
  <2>3. CASE PreviewLoop \/ WaitPreviewFrame \/ PreviewSleeps \/ PreviewWakes
    BY <2>3 DEF PreviewLoop, WaitPreviewFrame, PreviewSleeps, PreviewWakes, TakePreviewFrame
  <2>4. CASE DecodeFrame \/ RecycleMjpeg \/ RecycleUndecoded
    BY <2>4 DEF DecodeFrame, RecycleMjpeg, RecycleUndecoded
  <2>5. CASE ConvertPreview \/ DrawPreview \/ SkipDraw
    BY <2>5 DEF ConvertPreview, DrawPreview, SkipDraw
  <2>6. CASE AddCaptureFrame
    BY <2>6 DEF AddCaptureFrame
  <2>7. CASE PreviewSignalsCapture
    BY <2>7, SignalCaptureTypes DEF PreviewSignalsCapture
  <2>8. CASE StopStreaming \/ StreamStopped
    BY <2>8 DEF StopStreaming, StreamStopped
  <2> QED
    BY <1>3, <2>1, <2>2, <2>3, <2>4, <2>5, <2>6, <2>7, <2>8 DEF PreviewNext
<1>4. ASSUME NEW c \in CaptureThreads, CaptureNext(c) PROVE ControlOK'
  <2> USE <1>0 DEF CaptureGoes
  <2>1. CASE CaptureBegins(c) \/ CaptureLoop(c) \/ CaptureArms(c) \/ ChooseLoop(c) \/ InnerLoop(c)
    BY <2>1 DEF CaptureBegins, CaptureLoop, CaptureArms, ChooseLoop, InnerLoop
  <2>2. CASE WaitCaptureFrame(c) \/ CaptureSleeps(c) \/ CaptureWakes(c) \/ Render(c)
    BY <2>2 DEF WaitCaptureFrame, CaptureSleeps, CaptureWakes, TakeCaptureFrame, Render
  <2>3. CASE NoCallback(c) \/ CallbackAsIs(c) \/ ConvertForCallback(c) \/ RecycleSource(c)
    BY <2>3 DEF NoCallback, CallbackAsIs, ConvertForCallback, RecycleSource
  <2>4. CASE TestMethod(c) \/ InvokeCallback(c) \/ CallbackReturns(c) \/ RecycleCallbackFrame(c)
    BY <2>4 DEF TestMethod, InvokeCallback, CallbackReturns, RecycleCallbackFrame
  <2>5. CASE LeaveSurface(c) \/ ReleaseCaptureWindow(c) \/ CaptureBroadcasts(c)
    BY <2>5 DEF LeaveSurface, ReleaseCaptureWindow, CaptureBroadcasts
  <2> QED
    BY <1>4, <2>1, <2>2, <2>3, <2>4, <2>5 DEF CaptureNext
<1>5. CASE SpuriousWakeup
  BY <1>0, <1>5 DEF SpuriousWakeup
<1>6. CASE UNCHANGED vars
  BY <1>0, <1>6 DEF vars
<1> QED
  BY <1>1, <1>2, <1>3, <1>4, <1>5, <1>6 DEF Next

(* So do the flags.                                                         *)
LEMMA SwitchesStep ==
  ASSUME TypeOK, [Next]_vars
  PROVE  SwitchesOK'
<1> USE DEF SwitchesOK, flags, windows, refs, app, preview
<1>0. SwitchesOK
  BY DEF TypeOK
<1>1. CASE AppNext
  <2> USE <1>0 DEF AppGoes
  <2>1. ASSUME NEW window \in BOOLEAN, SetPreviewDisplay(window) PROVE SwitchesOK'
    BY <2>1 DEF SetPreviewDisplay
  <2>2. CASE StartPreview \/ CreatePreviewThread
    BY <2>2, Zenon DEF StartPreview, CreatePreviewThread
  <2>3. CASE StopPreview \/ StopSignalsPreview \/ StopSignalsCapture
    BY <2>3, Zenon DEF StopPreview, StopSignalsPreview, StopSignalsCapture
  <2>4. CASE JoinCapture \/ JoinPreview \/ StopClearsQueue \/ StopReleasesWindows
    BY <2>4, Zenon DEF JoinCapture, JoinPreview, StopClearsQueue, StopReleasesWindows
  <2>5. ASSUME NEW r \in Requests, SetterEnters(r) PROVE SwitchesOK'
    BY <2>5, Zenon DEF SetterEnters
  <2>6. CASE SetterWaits \/ SetterWakes \/ SwapCallback \/ KeepCallback \/ SwapDisplay
    BY <2>6, Zenon DEF SetterWaits, SetterWakes, SwapCallback, KeepCallback, SwapDisplay
  <2>7. ASSUME NEW found \in BOOLEAN, AssignCallback(found) PROVE SwitchesOK'
    BY <2>7, Zenon DEF AssignCallback
  <2> QED
    BY <1>1, <2>1, <2>2, <2>3, <2>4, <2>5, <2>6, <2>7 DEF AppNext
<1>2. CASE CallbackNext
  BY <1>0, <1>2, Zenon DEF CallbackNext, CallbackEnters, CallbackCopies, AddPreviewFrame,
                           CallbackRecycles
<1>3. CASE PreviewNext
  <2>1. mIsRunning' = mIsRunning /\ mIsCapturing' = mIsCapturing /\ UNCHANGED <<windows, refs, app>>
    BY <1>3 DEF PreviewNext, PreparePreview, StartStreaming, CreateCaptureThread, PreviewLoop,
                WaitPreviewFrame, PreviewSleeps, PreviewWakes, TakePreviewFrame, DecodeFrame,
                RecycleMjpeg, RecycleUndecoded, ConvertPreview, DrawPreview, SkipDraw,
                AddCaptureFrame, PreviewSignalsCapture, StopStreaming, StreamStopped
  <2>2. previewSleeps' = previewSleeps \/ previewSleeps' = TRUE
    BY <1>3 DEF PreviewNext, PreparePreview, StartStreaming, CreateCaptureThread, PreviewLoop,
                WaitPreviewFrame, PreviewSleeps, PreviewWakes, TakePreviewFrame, DecodeFrame,
                RecycleMjpeg, RecycleUndecoded, ConvertPreview, DrawPreview, SkipDraw,
                AddCaptureFrame, PreviewSignalsCapture, StopStreaming, StreamStopped
  <2> QED
    BY <1>0, <2>1, <2>2
<1>4. ASSUME NEW c \in CaptureThreads, CaptureNext(c) PROVE SwitchesOK'
  <2>1. /\ mIsRunning' = mIsRunning
        /\ mIsCapturing' = mIsCapturing \/ mIsCapturing' = TRUE
        /\ mPreviewWindow' = mPreviewWindow /\ UNCHANGED <<refs, app, preview>>
    BY <1>4 DEF CaptureNext, CaptureBegins, CaptureLoop, CaptureArms, ChooseLoop, InnerLoop,
                WaitCaptureFrame, CaptureSleeps, CaptureWakes, TakeCaptureFrame, Render,
                NoCallback, CallbackAsIs, ConvertForCallback, RecycleSource, TestMethod, InvokeCallback,
                CallbackReturns, RecycleCallbackFrame, LeaveSurface, ReleaseCaptureWindow,
                CaptureBroadcasts
  <2> QED
    BY <1>0, <2>1
<1>5. CASE SpuriousWakeup
  BY <1>0, <1>5, Zenon DEF SpuriousWakeup
<1>6. CASE UNCHANGED vars
  BY <1>0, <1>6 DEF vars
<1> QED
  BY <1>1, <1>2, <1>3, <1>4, <1>5, <1>6 DEF Next

(* get_frame fills the local variable and touches no other.                 *)
LEMMA GetFrameHeld ==
  ASSUME FramesOK, NEW slot \in Slots, GetFrame(slot)
  PROVE  held'[slot] # None /\ \A s \in Slots : s # slot => held'[s] = held[s]
BY FramesAssumption DEF GetFrame, FramesOK

(* recycle_frame touches no local variable but the one that is dead.        *)
LEMMA RecycleHeldHeld ==
  ASSUME FramesOK, NEW slot \in Slots, RecycleHeld(slot)
  PROVE  \A s \in Slots : s # slot => held'[s] = held[s]
BY DEF RecycleHeld, FramesOK

(* Every thread keeps the frames it works on until it gives them away.      *)
LEMMA HandsStep ==
  ASSUME TypeOK, HandsFull, [Next]_vars
  PROVE  HandsFull'
<1>0. FramesOK /\ capturePc \in [CaptureThreads -> CaptureSteps]
  BY DEF TypeOK, ControlOK
<1>7. ASSUME UNCHANGED <<held, callbackPc, previewPc, capturePc>>
      PROVE  HandsFull'
  BY <1>7 DEF HandsFull
<1>1. CASE AppNext
  <2>1. CASE JoinCapture
    BY <1>0, <2>1 DEF JoinCapture, HandsFull, frames, preview, libuvc
  <2>2. CASE CreatePreviewThread \/ JoinPreview
    BY <2>2 DEF CreatePreviewThread, JoinPreview, HandsFull, frames, capture, libuvc
  <2>3. CASE ~(JoinCapture \/ CreatePreviewThread \/ JoinPreview)
    <3>1. UNCHANGED <<held, callbackPc, previewPc, capturePc>>
      BY <1>1, <2>3
         DEF AppNext, SetPreviewDisplay, StartPreview, StopPreview, StopSignalsPreview,
             StopSignalsCapture, StopClearsQueue, ClearCaptureFrame, StopReleasesWindows,
             SetterEnters, SetterWaits, SetterWakes, SwapCallback, KeepCallback, SwapDisplay,
             AssignCallback, frames, preview, capture, libuvc
    <3> QED
      BY <1>7, <3>1
  <2> QED
    BY <2>1, <2>2, <2>3
<1>2. CASE CallbackNext
  <2>1. UNCHANGED <<previewPc, capturePc>>
    BY <1>2 DEF CallbackNext, CallbackEnters, CallbackCopies, AddPreviewFrame, CallbackRecycles,
                preview, capture
  <2>2. /\ callbackPc' \in {"add", "recycle"} => held'[Copy] # None
        /\ \A s \in Slots : s # Copy => held'[s] = held[s]
    <3>1. CASE CallbackEnters
      BY <3>1 DEF CallbackEnters, CallbackGoes, frames
    <3>2. CASE CallbackCopies
      BY <1>0, <3>2, GetFrameHeld, SlotsAreDistinct DEF CallbackCopies
    <3>3. CASE AddPreviewFrame
      BY <1>0, <3>3, SlotsAreDistinct DEF AddPreviewFrame, HandsFull, FramesOK
    <3>4. CASE CallbackRecycles
      BY <1>0, <3>4, RecycleHeldHeld, SlotsAreDistinct DEF CallbackRecycles, CallbackGoes
    <3> QED
      BY <1>2, <3>1, <3>2, <3>3, <3>4 DEF CallbackNext
  <2> QED
    BY <2>1, <2>2, SlotsAreDistinct DEF HandsFull
<1>3. CASE PreviewNext
  <2>1. UNCHANGED callbackPc
    BY <1>3 DEF PreviewNext, PreparePreview, StartStreaming, CreateCaptureThread, PreviewLoop,
                WaitPreviewFrame, PreviewSleeps, PreviewWakes, TakePreviewFrame, DecodeFrame,
                RecycleMjpeg, RecycleUndecoded, ConvertPreview, DrawPreview, SkipDraw,
                AddCaptureFrame, PreviewSignalsCapture, StopStreaming, StreamStopped, libuvc
  <2>2. /\ previewPc' = "decode" => held'[FrameMjpeg] # None
        /\ previewPc' \in {"decoded", "draw", "drawn", "offer"} => held'[Frame] # None
        /\ previewPc' = "drawn" => held'[Converted] # None
        /\ \A s \in Slots \ {FrameMjpeg, Frame, Converted} : held'[s] = held[s]
    <3> USE DEF PreviewGoes
    <3>1. CASE WaitPreviewFrame \/ PreviewWakes
      <4>1. PICK from : TakePreviewFrame(from)
        BY <3>1 DEF WaitPreviewFrame, PreviewWakes
      <4>2. previewFrames # <<>> => Head(previewFrames) \in Frames
        BY <1>0 DEF FramesOK
      <4> QED
        BY <1>0, <4>1, <4>2, SlotsAreDistinct, FramesAssumption DEF TakePreviewFrame, FramesOK
    <3>2. CASE DecodeFrame
      BY <1>0, <3>2, GetFrameHeld, SlotsAreDistinct DEF DecodeFrame
    <3>3. CASE RecycleMjpeg
      BY <1>0, <3>3, RecycleHeldHeld, SlotsAreDistinct DEF RecycleMjpeg, HandsFull
    <3>4. CASE RecycleUndecoded
      BY <1>0, <3>4, RecycleHeldHeld, SlotsAreDistinct DEF RecycleUndecoded
    <3>5. CASE ConvertPreview
      BY <1>0, <3>5, GetFrameHeld, SlotsAreDistinct DEF ConvertPreview, HandsFull
    <3>6. CASE DrawPreview
      BY <1>0, <3>6, RecycleHeldHeld, SlotsAreDistinct DEF DrawPreview, HandsFull
    <3>7. CASE AddCaptureFrame
      BY <1>0, <3>7, SlotsAreDistinct DEF AddCaptureFrame, FramesOK
    <3>8. CASE SkipDraw
      BY <3>8 DEF SkipDraw, HandsFull, frames
    <3>9. CASE \/ PreparePreview \/ StartStreaming \/ (\E c \in CaptureThreads : CreateCaptureThread(c))
               \/ PreviewLoop \/ PreviewSleeps
               \/ PreviewSignalsCapture \/ StopStreaming \/ StreamStopped
      BY <3>9 DEF PreparePreview, StartStreaming, CreateCaptureThread, PreviewLoop, PreviewSleeps,
                  PreviewSignalsCapture, StopStreaming, StreamStopped, frames
    <3> QED
      BY <1>3, <3>1, <3>2, <3>3, <3>4, <3>5, <3>6, <3>7, <3>8, <3>9 DEF PreviewNext
  <2>3. \A c \in CaptureThreads : capturePc'[c] = capturePc[c] \/ capturePc'[c] = "begin"
    <3>1. CASE \E c \in CaptureThreads : CreateCaptureThread(c)
      BY <1>0, <3>1 DEF CreateCaptureThread
    <3>2. CASE ~\E c \in CaptureThreads : CreateCaptureThread(c)
      BY <1>3, <3>2
         DEF PreviewNext, PreparePreview, StartStreaming, PreviewLoop, WaitPreviewFrame,
             PreviewSleeps, PreviewWakes, TakePreviewFrame, DecodeFrame, RecycleMjpeg,
             RecycleUndecoded, ConvertPreview, DrawPreview, SkipDraw, AddCaptureFrame,
             PreviewSignalsCapture, StopStreaming, StreamStopped, capture
    <3> QED
      BY <3>1, <3>2
  <2> QED
    BY <2>1, <2>2, <2>3, SlotsAreDistinct DEF HandsFull
<1>4. ASSUME NEW c \in CaptureThreads, CaptureNext(c)
      PROVE  HandsFull'
  <2>0. /\ {CaptureFrame(c), CaptureConverted(c), CallbackFrame(c)} \subseteq Slots
        /\ CaptureFrame(c) # CaptureConverted(c) /\ CaptureFrame(c) # CallbackFrame(c)
        /\ CaptureConverted(c) # CallbackFrame(c)
    BY SlotsAreDistinct
  <2>1. UNCHANGED <<callbackPc, previewPc>>
    BY <1>4 DEF CaptureNext, CaptureBegins, CaptureLoop, CaptureArms, ChooseLoop, InnerLoop,
                WaitCaptureFrame, CaptureSleeps, CaptureWakes, TakeCaptureFrame, Render,
                NoCallback, CallbackAsIs, ConvertForCallback, RecycleSource, TestMethod, InvokeCallback,
                CallbackReturns, RecycleCallbackFrame, LeaveSurface, ReleaseCaptureWindow,
                CaptureBroadcasts, preview, libuvc
  <2>2. \A d \in CaptureThreads \ {c} : capturePc'[d] = capturePc[d]
    BY <1>0, <1>4
       DEF CaptureNext, CaptureBegins, CaptureLoop, CaptureArms, ChooseLoop, InnerLoop,
           WaitCaptureFrame, CaptureSleeps, CaptureWakes, TakeCaptureFrame, Render,
           NoCallback, CallbackAsIs, ConvertForCallback, RecycleSource, TestMethod, InvokeCallback,
           CallbackReturns, RecycleCallbackFrame, LeaveSurface, ReleaseCaptureWindow,
           CaptureBroadcasts, CaptureGoes
  <2>3. /\ capturePc'[c] \in {"render", "callback", "convert"} => held'[CaptureFrame(c)] # None
        /\ capturePc'[c] = "convert" => held'[CallbackFrame(c)] # None
        /\ capturePc'[c] \in {"invoke", "call", "calling", "recycle"} =>
             held'[CaptureFrame(c)] # None \/ held'[CallbackFrame(c)] # None
        /\ \A s \in Slots \ {CaptureFrame(c), CaptureConverted(c), CallbackFrame(c)} : held'[s] = held[s]
    <3> USE DEF CaptureGoes
    <3>1. CASE WaitCaptureFrame(c) \/ CaptureWakes(c)
      <4>1. PICK from : TakeCaptureFrame(c, from)
        BY <3>1 DEF WaitCaptureFrame, CaptureWakes
      <4> QED
        BY <1>0, <2>0, <4>1 DEF TakeCaptureFrame, FramesOK
    <3>2. CASE Render(c)
      BY <1>0, <2>0, <3>2, GetFrameHeld DEF Render, HandsFull
    <3>3. CASE NoCallback(c) \/ CallbackAsIs(c)
      BY <1>0, <3>3 DEF NoCallback, CallbackAsIs, HandsFull, frames
    <3>4. CASE ConvertForCallback(c)
      BY <1>0, <2>0, <3>4, GetFrameHeld DEF ConvertForCallback, HandsFull
    <3>5. CASE RecycleSource(c)
      BY <1>0, <2>0, <3>5, RecycleHeldHeld DEF RecycleSource, HandsFull
    <3>6. CASE TestMethod(c) \/ InvokeCallback(c) \/ CallbackReturns(c)
      BY <1>0, <3>6 DEF TestMethod, InvokeCallback, CallbackReturns, HandsFull, frames
    <3>7. CASE RecycleCallbackFrame(c)
      BY <1>0, <2>0, <3>7, RecycleHeldHeld DEF RecycleCallbackFrame
    <3>8. CASE LeaveSurface(c)
      BY <1>0, <2>0, <3>8, RecycleHeldHeld DEF LeaveSurface, frames
    <3>9. CASE \/ CaptureBegins(c) \/ CaptureLoop(c) \/ CaptureArms(c) \/ ChooseLoop(c)
               \/ InnerLoop(c) \/ CaptureSleeps(c) \/ ReleaseCaptureWindow(c) \/ CaptureBroadcasts(c)
      BY <1>0, <3>9 DEF CaptureBegins, ClearCaptureFrame, CaptureLoop, CaptureArms, ChooseLoop,
                        InnerLoop, CaptureSleeps, ReleaseCaptureWindow, CaptureBroadcasts, frames
    <3> QED
      BY <1>4, <3>1, <3>2, <3>3, <3>4, <3>5, <3>6, <3>7, <3>8, <3>9 DEF CaptureNext
  <2> QED
    BY <2>1, <2>2, <2>3, SlotsAreDistinct DEF HandsFull
<1>5. CASE SpuriousWakeup
  BY <1>7, <1>5 DEF SpuriousWakeup, frames, libuvc
<1>6. CASE UNCHANGED vars
  BY <1>7, <1>6 DEF vars, frames, preview, capture, libuvc
<1> QED
  BY <1>1, <1>2, <1>3, <1>4, <1>5, <1>6 DEF Next

(* The preview thread is created only by a start and gone after the join.   *)
LEMMA PreviewLifeStep ==
  ASSUME PreviewLife, [Next]_vars
  PROVE  PreviewLife'
<1> USE DEF PreviewLife, Joining
<1>1. CASE AppNext
  <2>1. UNCHANGED libuvc
    BY <1>1 DEF AppNext, SetPreviewDisplay, StartPreview, CreatePreviewThread, StopPreview,
                StopSignalsPreview, StopSignalsCapture, JoinCapture, JoinPreview, StopClearsQueue,
                StopReleasesWindows, SetterEnters, SetterWaits, SetterWakes, SwapCallback,
                KeepCallback, SwapDisplay, AssignCallback
  <2>2. CASE StartPreview \/ CreatePreviewThread
    BY <2>1, <2>2 DEF StartPreview, CreatePreviewThread, AppGoes, preview, libuvc
  <2>3. CASE StopPreview \/ StopSignalsPreview \/ StopSignalsCapture \/ JoinCapture
    BY <2>1, <2>3 DEF StopPreview, StopSignalsPreview, StopSignalsCapture, JoinCapture, AppGoes,
                      flags, preview, libuvc
  <2>4. CASE JoinPreview
    BY <2>1, <2>4 DEF JoinPreview, AppGoes, flags, libuvc
  <2>5. CASE ~(StartPreview \/ CreatePreviewThread \/ StopPreview \/ StopSignalsPreview
               \/ StopSignalsCapture \/ JoinCapture \/ JoinPreview)
    <3>1. /\ UNCHANGED <<mIsRunning, previewPc>>
          /\ appPc \notin Joining \cup {"create"}
          /\ appPc' \notin Joining \cup {"create"}
      BY <1>1, <2>5
         DEF AppNext, SetPreviewDisplay, StopClearsQueue, StopReleasesWindows, SetterEnters,
             SetterWaits, SetterWakes, SwapCallback, KeepCallback, SwapDisplay, AssignCallback,
             AppGoes, flags, preview, app
    <3> QED
      BY <2>1, <3>1 DEF libuvc
  <2> QED
    BY <2>2, <2>3, <2>4, <2>5
<1>2. CASE CallbackNext
  <2>1. UNCHANGED <<mIsRunning, appPc, previewPc, streaming>>
    BY <1>2 DEF CallbackNext, CallbackEnters, CallbackCopies, AddPreviewFrame, CallbackRecycles,
                flags, app, preview
  <2>2. callbackPc = "idle" => streaming # "off" \/ callbackPc' = "idle"
    BY <1>2 DEF CallbackNext, CallbackEnters, CallbackCopies, AddPreviewFrame, CallbackRecycles,
                CallbackGoes
  <2> QED
    BY <2>1, <2>2
<1>3. CASE PreviewNext
  <2>1. UNCHANGED <<mIsRunning, appPc, callbackPc>> /\ previewPc # "none" /\ previewPc' # "none"
    BY <1>3
       DEF PreviewNext, PreparePreview, StartStreaming, CreateCaptureThread, PreviewLoop,
                WaitPreviewFrame, PreviewSleeps, PreviewWakes, TakePreviewFrame, DecodeFrame,
                RecycleMjpeg, RecycleUndecoded, ConvertPreview, DrawPreview, SkipDraw,
                AddCaptureFrame, PreviewSignalsCapture, StopStreaming, StreamStopped,
           PreviewGoes, flags, app, libuvc
  <2>2. /\ streaming' # "off" => previewPc' \notin {"none", "prepare", "start", "exited"}
        /\ callbackPc' # "idle" => streaming' # "off"
    BY <1>3
       DEF PreviewNext, PreparePreview, StartStreaming, CreateCaptureThread, PreviewLoop,
                WaitPreviewFrame, PreviewSleeps, PreviewWakes, TakePreviewFrame, DecodeFrame,
                RecycleMjpeg, RecycleUndecoded, ConvertPreview, DrawPreview, SkipDraw,
                AddCaptureFrame, PreviewSignalsCapture, StopStreaming, StreamStopped,
           PreviewGoes, libuvc
  <2> QED
    BY <2>1, <2>2
<1>4. ASSUME NEW c \in CaptureThreads, CaptureNext(c)
      PROVE  PreviewLife'
  <2>1. UNCHANGED <<mIsRunning, app, preview, libuvc>>
    BY <1>4
       DEF CaptureNext, CaptureBegins, CaptureLoop, CaptureArms, ChooseLoop, InnerLoop,
                WaitCaptureFrame, CaptureSleeps, CaptureWakes, TakeCaptureFrame, Render,
                NoCallback, CallbackAsIs, ConvertForCallback, RecycleSource, TestMethod, InvokeCallback,
                CallbackReturns, RecycleCallbackFrame, LeaveSurface, ReleaseCaptureWindow,
                CaptureBroadcasts,
           flags
  <2> QED
    BY <2>1 DEF app, preview, libuvc
<1>5. CASE SpuriousWakeup
  BY <1>5 DEF SpuriousWakeup, flags, app, libuvc
<1>6. CASE UNCHANGED vars
  BY <1>6 DEF vars, flags, app, preview, libuvc
<1> QED
  BY <1>1, <1>2, <1>3, <1>4, <1>5, <1>6 DEF Next

(* Only the setter moves references. *)
LEMMA CallbackStep ==
  ASSUME RequestLive, CallbackFieldValid, [Next]_vars
  PROVE  RequestLive' /\ CallbackFieldValid'
<1> USE DEF RequestLive, CallbackFieldValid
<1>0. ASSUME UNCHANGED <<refs, appPc, request>>
      PROVE  RequestLive' /\ CallbackFieldValid'
  BY <1>0 DEF refs
<1>1. CASE AppNext
  <2> USE DEF AppGoes
  <2>1. ASSUME NEW r \in Requests, SetterEnters(r)
        PROVE  RequestLive' /\ CallbackFieldValid'
    <3>1. r \in CallbackRequests => r.what = "callback"
      BY DEF CallbackRequests
    <3> QED
      BY <2>1, <3>1 DEF SetterEnters
  <2>2. CASE SetterWaits \/ SetterWakes
    BY <2>2 DEF SetterWaits, SetterWakes, refs
  <2>3. CASE SwapCallback
    <3>1. request \in CallbackRequests
      BY <2>3 DEF SwapCallback, Requests, CallbackRequests, DisplayRequests
    <3> QED
      BY <2>3, <3>1 DEF SwapCallback
  <2>4. CASE KeepCallback \/ SwapDisplay
    <3>1. request' \notin CallbackRequests
      BY <2>4 DEF KeepCallback, SwapDisplay, NoRequest, CallbackRequests
    <3> QED
      BY <2>4, <3>1 DEF KeepCallback, SwapDisplay, refs
  <2>5. ASSUME NEW found \in BOOLEAN, AssignCallback(found)
        PROVE  RequestLive' /\ CallbackFieldValid'
    <3>1. request' \notin CallbackRequests
      BY <2>5 DEF AssignCallback, NoRequest, CallbackRequests
    <3> QED
      BY <2>5, <3>1 DEF AssignCallback
  <2>6. CASE ~(\/ \E r \in Requests : SetterEnters(r)
               \/ SetterWaits \/ SetterWakes \/ SwapCallback \/ KeepCallback \/ SwapDisplay
               \/ \E found \in BOOLEAN : AssignCallback(found))
    <3>1. /\ UNCHANGED <<refs, request>>
          /\ appPc \notin {"wait", "asleep", "swap", "assign"}
          /\ appPc' \notin {"wait", "asleep", "swap", "assign"}
      BY <1>1, <2>6
         DEF AppNext, SetPreviewDisplay, StartPreview, CreatePreviewThread, StopPreview,
             StopSignalsPreview, StopSignalsCapture, JoinCapture, JoinPreview, StopClearsQueue,
             StopReleasesWindows, app
    <3> QED
      BY <3>1 DEF refs
  <2> QED
    BY <2>1, <2>2, <2>3, <2>4, <2>5, <2>6
<1>2. CASE CallbackNext
  <2>1. UNCHANGED <<refs, app>>
    BY <1>2 DEF CallbackNext, CallbackEnters, CallbackCopies, AddPreviewFrame, CallbackRecycles
  <2> QED
    BY <1>0, <2>1 DEF app
<1>3. CASE PreviewNext
  <2>1. UNCHANGED <<refs, app>>
    BY <1>3
       DEF PreviewNext, PreparePreview, StartStreaming, CreateCaptureThread, PreviewLoop,
                WaitPreviewFrame, PreviewSleeps, PreviewWakes, TakePreviewFrame, DecodeFrame,
                RecycleMjpeg, RecycleUndecoded, ConvertPreview, DrawPreview, SkipDraw,
                AddCaptureFrame, PreviewSignalsCapture, StopStreaming, StreamStopped
  <2> QED
    BY <1>0, <2>1 DEF app
<1>4. ASSUME NEW c \in CaptureThreads, CaptureNext(c)
      PROVE  RequestLive' /\ CallbackFieldValid'
  <2>1. UNCHANGED <<refs, app>>
    BY <1>4
       DEF CaptureNext, CaptureBegins, CaptureLoop, CaptureArms, ChooseLoop, InnerLoop,
                WaitCaptureFrame, CaptureSleeps, CaptureWakes, TakeCaptureFrame, Render,
                NoCallback, CallbackAsIs, ConvertForCallback, RecycleSource, TestMethod, InvokeCallback,
                CallbackReturns, RecycleCallbackFrame, LeaveSurface, ReleaseCaptureWindow,
                CaptureBroadcasts
  <2> QED
    BY <1>0, <2>1 DEF app
<1>5. CASE SpuriousWakeup
  BY <1>0, <1>5 DEF SpuriousWakeup, app
<1>6. CASE UNCHANGED vars
  BY <1>0, <1>6 DEF vars, app
<1> QED
  BY <1>1, <1>2, <1>3, <1>4, <1>5, <1>6 DEF Next

(* A frame is queued and offered with a signal; a thread goes to sleep only *)
(* when there is none.                                                      *)
LEMMA SleeperStep ==
  ASSUME TypeOK, NoSleeperMissesAFrame, [Next]_vars
  PROVE  NoSleeperMissesAFrame'
<1> USE DEF NoSleeperMissesAFrame
<1>0. captureWaiters \subseteq CaptureThreads \cup {App} /\ App \notin CaptureThreads
  BY ThreadsAssumption DEF TypeOK, ControlOK
<1>1. CASE AppNext
  <2>1. /\ UNCHANGED previewFrames
        /\ captureQueu' = captureQueu \/ captureQueu' = None
        /\ previewSleeps' = previewSleeps \/ ~previewSleeps'
    BY <1>1 DEF AppNext, SetPreviewDisplay, StartPreview, CreatePreviewThread, StopPreview,
                StopSignalsPreview, StopSignalsCapture, JoinCapture, JoinPreview, StopClearsQueue,
                StopReleasesWindows, ClearCaptureFrame, SetterEnters, SetterWaits, SetterWakes,
                SwapCallback, KeepCallback, SwapDisplay, AssignCallback, frames, preview
  <2>2. captureWaiters' \subseteq captureWaiters \cup {App}
    <3>1. CASE StopSignalsCapture \/ SetterWaits
      BY <1>0, <3>1, SignalCaptureTypes DEF StopSignalsCapture, SetterWaits
    <3>2. CASE ~(StopSignalsCapture \/ SetterWaits)
      BY <1>1, <3>2
         DEF AppNext, SetPreviewDisplay, StartPreview, CreatePreviewThread, StopPreview,
             StopSignalsPreview, JoinCapture, JoinPreview, StopClearsQueue, StopReleasesWindows,
             SetterEnters, SetterWakes, SwapCallback, KeepCallback, SwapDisplay, AssignCallback,
             capture
    <3> QED
      BY <3>1, <3>2
  <2> QED
    BY <1>0, <2>1, <2>2
<1>2. CASE CallbackNext
  <2>1. UNCHANGED <<captureQueu, captureWaiters>>
    BY <1>2 DEF CallbackNext, CallbackEnters, CallbackCopies, AddPreviewFrame, CallbackRecycles,
                RecycleHeld, capture, frames
  <2>2. \/ UNCHANGED <<previewFrames, previewSleeps>>
        \/ ~previewSleeps'
    BY <1>2 DEF CallbackNext, CallbackEnters, CallbackCopies, AddPreviewFrame, CallbackRecycles,
                RecycleHeld, preview, frames
  <2> QED
    BY <2>1, <2>2
<1>3. CASE PreviewNext
  <2>1. previewSleeps' => previewFrames' = <<>>
    BY <1>3
       DEF PreviewNext, PreparePreview, StartStreaming, CreateCaptureThread, PreviewLoop,
                WaitPreviewFrame, PreviewSleeps, PreviewWakes, TakePreviewFrame, DecodeFrame,
                RecycleMjpeg, RecycleUndecoded, ConvertPreview, DrawPreview, SkipDraw,
                AddCaptureFrame, PreviewSignalsCapture, StopStreaming, StreamStopped,
           RecycleHeld, frames
  <2>2. captureWaiters' \subseteq captureWaiters /\ (captureWaiters' = {} \/ captureQueu' = captureQueu)
    <3>1. CASE PreviewSignalsCapture
      BY <1>0, <3>1, SignalCaptureTypes DEF PreviewSignalsCapture, frames
    <3>2. CASE ~PreviewSignalsCapture
      BY <1>3, <3>2
         DEF PreviewNext, PreparePreview, StartStreaming, CreateCaptureThread, PreviewLoop,
                WaitPreviewFrame, PreviewSleeps, PreviewWakes, TakePreviewFrame, DecodeFrame,
                RecycleMjpeg, RecycleUndecoded, ConvertPreview, DrawPreview, SkipDraw,
                AddCaptureFrame, StopStreaming, StreamStopped,
             RecycleHeld, capture, frames
    <3> QED
      BY <3>1, <3>2
  <2> QED
    BY <2>1, <2>2
<1>4. ASSUME NEW c \in CaptureThreads, CaptureNext(c)
      PROVE  NoSleeperMissesAFrame'
  <2>1. UNCHANGED <<preview, previewFrames>>
    BY <1>4
       DEF CaptureNext, CaptureBegins, ClearCaptureFrame, CaptureLoop, CaptureArms, ChooseLoop,
                InnerLoop, WaitCaptureFrame, CaptureSleeps, CaptureWakes, TakeCaptureFrame, Render,
                NoCallback, CallbackAsIs, ConvertForCallback, RecycleSource, RecycleHeld,
                TestMethod, InvokeCallback, CallbackReturns, RecycleCallbackFrame, LeaveSurface,
                ReleaseCaptureWindow, CaptureBroadcasts, frames
  <2>2. captureWaiters' \cap CaptureThreads # {} => captureQueu' = None
    BY <1>4
       DEF CaptureNext, CaptureBegins, ClearCaptureFrame, CaptureLoop, CaptureArms, ChooseLoop,
                InnerLoop, WaitCaptureFrame, CaptureSleeps, CaptureWakes, TakeCaptureFrame, Render,
                NoCallback, CallbackAsIs, ConvertForCallback, RecycleSource, RecycleHeld,
                TestMethod, InvokeCallback, CallbackReturns, RecycleCallbackFrame, LeaveSurface,
                ReleaseCaptureWindow, CaptureBroadcasts,
           frames
  <2> QED
    BY <2>1, <2>2 DEF preview
<1>5. CASE SpuriousWakeup
  BY <1>5 DEF SpuriousWakeup, frames
<1>6. CASE UNCHANGED vars
  BY <1>6 DEF vars, frames, preview, capture
<1> QED
  BY <1>1, <1>2, <1>3, <1>4, <1>5, <1>6 DEF Next

-----------------------------------------------------------------------------
(* The inductive invariant.  FrameOwnership alone is not inductive: that a  *)
(* recycled local variable does hold a frame depends on where its thread    *)
(* is, which HandsFull says; StopIsComplete depends on who may start and    *)
(* join threads, which PreviewLife says; and the exchange of the callback   *)
(* on the reference the setter brought, which RequestLive says.             *)
IInv ==
  /\ TypeOK /\ FrameOwnership /\ HandsFull
  /\ PreviewLife
  /\ RequestLive /\ CallbackFieldValid
  /\ NoSleeperMissesAFrame

(* The constructor establishes the invariant.                               *)
LEMMA InitInv == Init => IInv
<1> SUFFICES ASSUME Init PROVE IInv
  OBVIOUS
<1> USE DEF Init
<1>1. SwitchesOK
  BY DEF SwitchesOK
<1>2. ControlOK
  BY DEF ControlOK, AppSteps, PreviewSteps, CaptureSteps, CallbackSteps
<1>3. FramesOK
  BY FS_EmptySet, LimitsAssumption DEF FramesOK
<1>4. FrameOwnership
  BY DEF FrameOwnership, Queued
<1>5. HandsFull
  BY DEF HandsFull
<1>6. PreviewLife
  BY DEF PreviewLife, Joining
<1>7. RequestLive /\ CallbackFieldValid
  BY DEF RequestLive, CallbackFieldValid, NoRequest, CallbackRequests
<1>8. NoSleeperMissesAFrame
  BY DEF NoSleeperMissesAFrame
<1> QED
  BY <1>1, <1>2, <1>3, <1>4, <1>5, <1>6, <1>7, <1>8 DEF IInv, TypeOK

(* Every step of every thread preserves it.                                 *)
LEMMA StepInv == IInv /\ [Next]_vars => IInv'
<1> SUFFICES ASSUME IInv, [Next]_vars PROVE IInv'
  OBVIOUS
<1>1. TypeOK'
  BY ControlStep, SwitchesStep, FramesStep DEF IInv, TypeOK
<1>2. FrameOwnership' /\ HandsFull'
  BY FramesStep, HandsStep DEF IInv
<1>3. PreviewLife' /\ RequestLive' /\ CallbackFieldValid' /\ NoSleeperMissesAFrame'
  BY PreviewLifeStep, CallbackStep, SleeperStep DEF IInv
<1> QED
  BY <1>1, <1>2, <1>3 DEF IInv

(* The inductive invariant holds in every state.                            *)
THEOREM Invariance == Spec => []IInv
BY InitInv, StepInv, PTL DEF Spec

(* Every variable keeps its type, the preview queue never holds more than   *)
(* MAX_FRAME frames and the pool never more than FRAME_POOL_SZ.             *)
THEOREM TypeCorrect == Spec => []TypeOK
<1>1. IInv => TypeOK
  BY DEF IInv
<1> QED
  BY <1>1, Invariance, PTL

(* get_frame never hands out a frame that is queued, offered or in use, and *)
(* recycle_frame never frees one that is.                                   *)
THEOREM OneOwner == Spec => []FrameOwnership
<1>1. IInv => FrameOwnership
  BY DEF IInv
<1> QED
  BY <1>1, Invariance, PTL

(* After stopPreview no preview thread runs and no frame comes from libuvc, *)
(* however many frames were in flight when it was called.                   *)
THEOREM StopCompletes == Spec => []StopIsComplete
<1>1. IInv => StopIsComplete
  BY DEF IInv, PreviewLife, StopIsComplete, Stopped, Joining
<1> QED
  BY <1>1, Invariance, PTL

(* Neither waitPreviewFrame nor waitCaptureFrame sleeps on a frame.         *)
THEOREM NoMissedFrame == Spec => []NoSleeperMissesAFrame
<1>1. IInv => NoSleeperMissesAFrame
  BY DEF IInv
<1> QED
  BY <1>1, Invariance, PTL

(* Outside setFrameCallback's exchange, mFrameCallbackObj holds a live      *)
(* global reference and onFrame matches it.                                 *)
THEOREM CallbackValid == Spec => []CallbackFieldValid
<1>1. IInv => CallbackFieldValid
  BY DEF IInv
<1> QED
  BY <1>1, Invariance, PTL

-----------------------------------------------------------------------------
(* The pipeline and the stream.  The preview thread knows whether libuvc    *)
(* streams: from the start that succeeded to the stop.                      *)
StreamLife ==
  /\ previewPc \in {"createCapture", "loop", "wait", "asleep", "decode", "decoded", "draw",
                    "drawn", "offer", "signal", "stop"} => streaming = "on"
  /\ previewPc = "joinCallback" => streaming = "stopping"

(* Every step preserves StreamLife, since only the preview thread starts    *)
(* and stops the stream.                                                    *)
LEMMA StreamLifeStep ==
  ASSUME StreamLife, [Next]_vars
  PROVE  StreamLife'
<1> USE DEF StreamLife
<1>0. ASSUME UNCHANGED <<previewPc, streaming>> PROVE StreamLife'
  BY <1>0
<1>1. CASE AppNext
  <2>1. CASE CreatePreviewThread
    BY <2>1 DEF CreatePreviewThread, libuvc
  <2>2. CASE JoinPreview
    BY <2>2 DEF JoinPreview, libuvc
  <2>3. CASE ~CreatePreviewThread /\ ~JoinPreview
    <3>1. UNCHANGED <<previewPc, streaming>>
      BY <1>1, <2>3
         DEF AppNext, SetPreviewDisplay, StartPreview, StopPreview, StopSignalsPreview,
             StopSignalsCapture, JoinCapture, StopClearsQueue, StopReleasesWindows, SetterEnters,
             SetterWaits, SetterWakes, SwapCallback, KeepCallback, SwapDisplay, AssignCallback,
             preview, libuvc
    <3> QED
      BY <1>0, <3>1
  <2> QED
    BY <2>1, <2>2, <2>3
<1>2. CASE CallbackNext
  <2>1. UNCHANGED <<previewPc, streaming>>
    BY <1>2 DEF CallbackNext, CallbackEnters, CallbackCopies, AddPreviewFrame, CallbackRecycles,
                preview
  <2> QED
    BY <1>0, <2>1
<1>3. CASE PreviewNext
  <2>1. CASE PreparePreview \/ StartStreaming \/ StopStreaming \/ StreamStopped
    BY <2>1 DEF PreparePreview, StartStreaming, StopStreaming, StreamStopped, PreviewGoes, libuvc
  <2>2. CASE PreviewLoop \/ WaitPreviewFrame \/ PreviewSleeps \/ PreviewWakes
    BY <2>2 DEF PreviewLoop, WaitPreviewFrame, PreviewSleeps, PreviewWakes, TakePreviewFrame,
                PreviewGoes, libuvc
  <2>3. CASE DecodeFrame \/ RecycleMjpeg \/ RecycleUndecoded \/ ConvertPreview
    BY <2>3 DEF DecodeFrame, RecycleMjpeg, RecycleUndecoded, ConvertPreview, PreviewGoes, libuvc
  <2>4. CASE DrawPreview \/ SkipDraw \/ AddCaptureFrame \/ PreviewSignalsCapture
    BY <2>4 DEF DrawPreview, SkipDraw, AddCaptureFrame, PreviewSignalsCapture, PreviewGoes, libuvc
  <2>5. ASSUME NEW c \in CaptureThreads, CreateCaptureThread(c) PROVE StreamLife'
    BY <2>5 DEF CreateCaptureThread, PreviewGoes, libuvc
  <2> QED
    BY <1>3, <2>1, <2>2, <2>3, <2>4, <2>5 DEF PreviewNext
<1>4. ASSUME NEW c \in CaptureThreads, CaptureNext(c) PROVE StreamLife'
  <2>1. UNCHANGED <<previewPc, streaming>>
    BY <1>4
       DEF CaptureNext, CaptureBegins, CaptureLoop, CaptureArms, ChooseLoop, InnerLoop,
           WaitCaptureFrame, CaptureSleeps, CaptureWakes, TakeCaptureFrame, Render, NoCallback,
           CallbackAsIs, ConvertForCallback, RecycleSource, TestMethod, InvokeCallback, CallbackReturns,
           RecycleCallbackFrame, LeaveSurface, ReleaseCaptureWindow, CaptureBroadcasts,
           preview, libuvc
  <2> QED
    BY <1>0, <2>1
<1>5. CASE SpuriousWakeup
  BY <1>5 DEF SpuriousWakeup, libuvc
<1>6. CASE UNCHANGED vars
  BY <1>6 DEF vars, preview, libuvc
<1> QED
  BY <1>1, <1>2, <1>3, <1>4, <1>5, <1>6 DEF Next

(* StreamLife holds in every state.                                         *)
LEMMA StreamLifeAlways == Spec => []StreamLife
<1>1. Init => StreamLife
  BY DEF Init, StreamLife
<1>2. StreamLife /\ [Next]_vars => StreamLife'
  BY StreamLifeStep
<1> QED
  BY <1>1, <1>2, PTL DEF Spec

(* Each step of the pipeline is a step of the service that libuvc promises, *)
(* or none: the pipeline expects no more of the stream than UvcStream is    *)
(* proved to give.                                                          *)
LEMMA ServiceStep ==
  ASSUME PreviewLife, StreamLife, [Next]_vars
  PROVE  [Service!ServiceNext]_Service!serviceVars
<1> USE DEF Service!ServiceNext, Service!serviceVars
<1>0. ASSUME UNCHANGED libuvc PROVE UNCHANGED Service!serviceVars
  BY <1>0 DEF libuvc
<1>1. CASE AppNext
  <2>1. UNCHANGED libuvc
    BY <1>1
       DEF AppNext, SetPreviewDisplay, StartPreview, CreatePreviewThread, StopPreview,
           StopSignalsPreview, StopSignalsCapture, JoinCapture, JoinPreview, StopClearsQueue,
           StopReleasesWindows, SetterEnters, SetterWaits, SetterWakes, SwapCallback,
           KeepCallback, SwapDisplay, AssignCallback
  <2> QED
    BY <1>0, <2>1
<1>2. CASE CallbackNext
  <2>1. CASE CallbackEnters
    BY <2>1 DEF CallbackEnters, CallbackGoes, Service!Deliver
  <2>2. CASE CallbackCopies
    BY <2>2 DEF CallbackCopies, Service!Return
  <2>3. CASE AddPreviewFrame
    BY <2>3 DEF AddPreviewFrame, Service!Return
  <2>4. CASE CallbackRecycles
    BY <2>4 DEF CallbackRecycles, CallbackGoes, Service!Return
  <2> QED
    BY <1>2, <2>1, <2>2, <2>3, <2>4 DEF CallbackNext
<1>3. CASE PreviewNext
  <2>1. CASE StartStreaming
    BY <2>1 DEF StartStreaming, PreviewGoes, PreviewLife, Service!Start
  <2>2. CASE StopStreaming
    BY <2>2 DEF StopStreaming, PreviewGoes, StreamLife, Service!Stop
  <2>3. CASE StreamStopped
    BY <2>3 DEF StreamStopped, PreviewGoes, StreamLife, Service!Stopped
  <2>4. CASE ~StartStreaming /\ ~StopStreaming /\ ~StreamStopped
    <3>1. UNCHANGED libuvc
      BY <1>3, <2>4
         DEF PreviewNext, PreparePreview, CreateCaptureThread, PreviewLoop, WaitPreviewFrame,
             PreviewSleeps, PreviewWakes, TakePreviewFrame, DecodeFrame, RecycleMjpeg,
             RecycleUndecoded, ConvertPreview, DrawPreview, SkipDraw, AddCaptureFrame,
             PreviewSignalsCapture
    <3> QED
      BY <1>0, <3>1
  <2> QED
    BY <2>1, <2>2, <2>3, <2>4
<1>4. ASSUME NEW c \in CaptureThreads, CaptureNext(c) PROVE UNCHANGED Service!serviceVars
  <2>1. UNCHANGED libuvc
    BY <1>4
       DEF CaptureNext, CaptureBegins, CaptureLoop, CaptureArms, ChooseLoop, InnerLoop,
           WaitCaptureFrame, CaptureSleeps, CaptureWakes, TakeCaptureFrame, Render, NoCallback,
           CallbackAsIs, ConvertForCallback, RecycleSource, TestMethod, InvokeCallback, CallbackReturns,
           RecycleCallbackFrame, LeaveSurface, ReleaseCaptureWindow, CaptureBroadcasts
  <2> QED
    BY <1>0, <2>1
<1>5. CASE SpuriousWakeup
  BY <1>5 DEF SpuriousWakeup, libuvc
<1>6. CASE UNCHANGED vars
  BY <1>6 DEF vars, libuvc
<1> QED
  BY <1>1, <1>2, <1>3, <1>4, <1>5, <1>6 DEF Next

(* The pipeline uses the stream as StreamService says: it never starts a    *)
(* stream twice, nor stops one that is off, and takes no frame after it.    *)
THEOREM PipelineKeepsPromise == Spec => StreamAsPromised
<1>1. Init => Service!ServiceInit
  BY DEF Init, Service!ServiceInit
<1>2. IInv /\ StreamLife /\ [Next]_vars => [Service!ServiceNext]_Service!serviceVars
  BY ServiceStep DEF IInv
<1> QED
  BY <1>1, <1>2, Invariance, StreamLifeAlways, PTL DEF Spec, StreamAsPromised, Service!ServiceSpec

=============================================================================
