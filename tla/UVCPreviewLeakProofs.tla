----------------------- MODULE UVCPreviewLeakProofs -----------------------
(***************************************************************************)
(* The proof that the preview pipeline loses memory only at a stop.  It    *)
(* needs what the other proofs do not: a thread never assigns a local      *)
(* frame pointer that still holds a frame.                                 *)
(***************************************************************************)
EXTENDS UVCPreviewProofs

(* A local variable that a thread assigns holds no frame before.            *)
HandsEmpty ==
  /\ callbackPc \notin {"add", "recycle"} => held[Copy] = None
  /\ previewPc \notin {"decode", "decoded"} => held[FrameMjpeg] = None
  /\ previewPc \notin {"decoded", "draw", "drawn", "offer"} => held[Frame] = None
  /\ previewPc # "drawn" => held[Converted] = None
  /\ \A c \in CaptureThreads :
       /\ capturePc[c] \notin {"render", "callback", "convert", "invoke", "call", "calling", "recycle"} =>
            held[CaptureFrame(c)] = None
       /\ capturePc[c] \notin {"convert", "invoke", "call", "calling", "recycle"} =>
            held[CallbackFrame(c)] = None
       /\ capturePc[c] \in {"invoke", "call", "calling", "recycle"} =>
            held[CaptureFrame(c)] = None \/ held[CallbackFrame(c)] = None

(* recycle_frame leaves the local variable empty.                           *)
LEMMA RecycleHeldEmpties ==
  ASSUME FramesOK, NEW slot \in Slots, RecycleHeld(slot)
  PROVE  held'[slot] = None /\ \A s \in Slots : s # slot => held'[s] = held[s]
BY DEF RecycleHeld, FramesOK

(* Every thread empties its hands before it takes the next frame.           *)
LEMMA HandsEmptyStep ==
  ASSUME TypeOK, HandsFull, HandsEmpty, PreviewLife, [Next]_vars
  PROVE  HandsEmpty'
<1>0. FramesOK /\ capturePc \in [CaptureThreads -> CaptureSteps]
  BY DEF TypeOK, ControlOK
<1>7. ASSUME UNCHANGED <<held, callbackPc, previewPc, capturePc>>
      PROVE  HandsEmpty'
  BY <1>7 DEF HandsEmpty
<1>1. CASE AppNext
  <2>1. CASE JoinCapture
    BY <1>0, <2>1 DEF JoinCapture, HandsEmpty, frames, preview, libuvc
  <2>2. CASE CreatePreviewThread
    BY <2>2 DEF CreatePreviewThread, AppGoes, PreviewLife, HandsEmpty, frames, capture, libuvc
  <2>3. CASE JoinPreview
    BY <2>3 DEF JoinPreview, HandsEmpty, frames, capture, libuvc
  <2>4. CASE ~(JoinCapture \/ CreatePreviewThread \/ JoinPreview)
    <3>1. UNCHANGED <<held, callbackPc, previewPc, capturePc>>
      BY <1>1, <2>4
         DEF AppNext, SetPreviewDisplay, StartPreview, StopPreview, StopSignalsPreview,
             StopSignalsCapture, StopClearsQueue, ClearCaptureFrame, StopReleasesWindows,
             SetterEnters, SetterWaits, SetterWakes, SwapCallback, KeepCallback, SwapDisplay,
             AssignCallback, frames, preview, capture, libuvc
    <3> QED
      BY <1>7, <3>1
  <2> QED
    BY <2>1, <2>2, <2>3, <2>4
<1>2. CASE CallbackNext
  <2>1. UNCHANGED <<previewPc, capturePc>>
    BY <1>2 DEF CallbackNext, CallbackEnters, CallbackCopies, AddPreviewFrame, CallbackRecycles,
                preview, capture
  <2>2. /\ callbackPc' \notin {"add", "recycle"} => held'[Copy] = None
        /\ \A s \in Slots : s # Copy => held'[s] = held[s]
    <3>1. CASE CallbackEnters
      BY <3>1 DEF CallbackEnters, CallbackGoes, HandsEmpty, frames
    <3>2. CASE CallbackCopies
      BY <1>0, <3>2, GetFrameHeld, SlotsAreDistinct DEF CallbackCopies, HandsEmpty
    <3>3. CASE AddPreviewFrame
      BY <1>0, <3>3, SlotsAreDistinct DEF AddPreviewFrame, FramesOK
    <3>4. CASE CallbackRecycles
      BY <1>0, <3>4, RecycleHeldEmpties, SlotsAreDistinct DEF CallbackRecycles
    <3> QED
      BY <1>2, <3>1, <3>2, <3>3, <3>4 DEF CallbackNext
  <2> QED
    BY <2>1, <2>2, SlotsAreDistinct DEF HandsEmpty
<1>3. CASE PreviewNext
  <2>1. UNCHANGED callbackPc
    BY <1>3 DEF PreviewNext, PreparePreview, StartStreaming, CreateCaptureThread, PreviewLoop,
                WaitPreviewFrame, PreviewSleeps, PreviewWakes, TakePreviewFrame, DecodeFrame,
                RecycleMjpeg, RecycleUndecoded, ConvertPreview, DrawPreview, SkipDraw,
                AddCaptureFrame, PreviewSignalsCapture, StopStreaming, StreamStopped, libuvc
  <2>2. /\ previewPc' \notin {"decode", "decoded"} => held'[FrameMjpeg] = None
        /\ previewPc' \notin {"decoded", "draw", "drawn", "offer"} => held'[Frame] = None
        /\ previewPc' # "drawn" => held'[Converted] = None
        /\ \A s \in Slots \ {FrameMjpeg, Frame, Converted} : held'[s] = held[s]
    <3> USE DEF PreviewGoes
    <3>1. CASE WaitPreviewFrame \/ PreviewWakes
      <4>1. PICK from \in {"wait", "asleep"} : TakePreviewFrame(from)
        BY <3>1 DEF WaitPreviewFrame, PreviewWakes
      <4> QED
        BY <1>0, <4>1, SlotsAreDistinct DEF TakePreviewFrame, FramesOK, HandsEmpty
    <3>2. CASE DecodeFrame
      BY <1>0, <3>2, GetFrameHeld, SlotsAreDistinct DEF DecodeFrame, HandsEmpty
    <3>3. CASE RecycleMjpeg
      BY <1>0, <3>3, RecycleHeldEmpties, SlotsAreDistinct DEF RecycleMjpeg, HandsEmpty
    <3>4. CASE RecycleUndecoded
      BY <1>0, <3>4, RecycleHeldEmpties, SlotsAreDistinct DEF RecycleUndecoded, HandsEmpty
    <3>5. CASE ConvertPreview
      BY <1>0, <3>5, GetFrameHeld, SlotsAreDistinct DEF ConvertPreview, HandsEmpty
    <3>6. CASE DrawPreview
      BY <1>0, <3>6, RecycleHeldEmpties, SlotsAreDistinct DEF DrawPreview, HandsEmpty
    <3>7. CASE AddCaptureFrame
      BY <1>0, <3>7, SlotsAreDistinct DEF AddCaptureFrame, FramesOK, HandsEmpty
    <3>8. CASE SkipDraw
      BY <3>8 DEF SkipDraw, HandsEmpty, frames
    <3>9. CASE \/ PreparePreview \/ StartStreaming \/ (\E c \in CaptureThreads : CreateCaptureThread(c))
               \/ PreviewLoop \/ PreviewSleeps
               \/ PreviewSignalsCapture \/ StopStreaming \/ StreamStopped
      BY <3>9 DEF PreparePreview, StartStreaming, CreateCaptureThread, PreviewLoop, PreviewSleeps,
                  PreviewSignalsCapture, StopStreaming, StreamStopped, HandsEmpty, frames
    <3> QED
      BY <1>3, <3>1, <3>2, <3>3, <3>4, <3>5, <3>6, <3>7, <3>8, <3>9 DEF PreviewNext
  <2>3. \A c \in CaptureThreads :
          \/ capturePc'[c] = capturePc[c]
          \/ capturePc[c] \in {"none", "exited"} /\ capturePc'[c] = "begin"
    <3>1. CASE \E c \in CaptureThreads : CreateCaptureThread(c)
      BY <1>0, <3>1 DEF CreateCaptureThread
    <3>2. CASE ~\E c \in CaptureThreads : CreateCaptureThread(c)
      BY <1>3, <3>2
         DEF PreviewNext, PreparePreview, StartStreaming, PreviewLoop, WaitPreviewFrame,
             PreviewSleeps, PreviewWakes, TakePreviewFrame, DecodeFrame, RecycleMjpeg,
             RecycleUndecoded, ConvertPreview, DrawPreview, SkipDraw, AddCaptureFrame,
             PreviewSignalsCapture, StopStreaming, StreamStopped, capture
    <3> QED
      BY <3>1, <3>2
  <2>4. \A c \in CaptureThreads :
          /\ held'[CaptureFrame(c)] = held[CaptureFrame(c)]
          /\ held'[CallbackFrame(c)] = held[CallbackFrame(c)]
    BY <2>2, SlotsAreDistinct
  <2>5. held'[Copy] = held[Copy]
    BY <2>2, SlotsAreDistinct
  <2> QED
    BY <2>1, <2>2, <2>3, <2>4, <2>5 DEF HandsEmpty
<1>4. ASSUME NEW c \in CaptureThreads, CaptureNext(c)
      PROVE  HandsEmpty'
  <2>0. /\ {CaptureFrame(c), CaptureConverted(c), CallbackFrame(c)} \subseteq Slots
        /\ CaptureFrame(c) # CaptureConverted(c) /\ CaptureFrame(c) # CallbackFrame(c)
        /\ CaptureConverted(c) # CallbackFrame(c)
    BY SlotsAreDistinct
  <2>1. UNCHANGED <<callbackPc, previewPc>>
    BY <1>4 DEF CaptureNext, CaptureBegins, CaptureLoop, CaptureArms, ChooseLoop, InnerLoop,
                WaitCaptureFrame, CaptureSleeps, CaptureWakes, TakeCaptureFrame, Render,
                NoCallback, CallbackAsIs, ConvertForCallback, RecycleSource, TestMethod, InvokeCallback,
                CallbackReturns, RecycleCallbackFrame, LeaveSurface, ReleaseCaptureWindow,
                CaptureBroadcasts, preview, libuvc
  <2>2. \A d \in CaptureThreads \ {c} : capturePc'[d] = capturePc[d]
    BY <1>0, <1>4
       DEF CaptureNext, CaptureBegins, CaptureLoop, CaptureArms, ChooseLoop, InnerLoop,
           WaitCaptureFrame, CaptureSleeps, CaptureWakes, TakeCaptureFrame, Render,
           NoCallback, CallbackAsIs, ConvertForCallback, RecycleSource, TestMethod, InvokeCallback,
           CallbackReturns, RecycleCallbackFrame, LeaveSurface, ReleaseCaptureWindow,
           CaptureBroadcasts, CaptureGoes
  <2>3. /\ capturePc'[c] \notin {"render", "callback", "convert", "invoke", "call", "calling", "recycle"} =>
             held'[CaptureFrame(c)] = None
        /\ capturePc'[c] \notin {"convert", "invoke", "call", "calling", "recycle"} =>
             held'[CallbackFrame(c)] = None
        /\ capturePc'[c] \in {"invoke", "call", "calling", "recycle"} =>
             held'[CaptureFrame(c)] = None \/ held'[CallbackFrame(c)] = None
        /\ \A s \in Slots \ {CaptureFrame(c), CaptureConverted(c), CallbackFrame(c)} : held'[s] = held[s]
    <3> USE DEF CaptureGoes
    <3>1. CASE WaitCaptureFrame(c) \/ CaptureWakes(c)
      <4>1. PICK from \in {"take", "asleep"} : TakeCaptureFrame(c, from)
        BY <3>1 DEF WaitCaptureFrame, CaptureWakes
      <4> QED
        BY <1>0, <2>0, <4>1 DEF TakeCaptureFrame, FramesOK, HandsEmpty
    <3>2. CASE Render(c)
      BY <1>0, <2>0, <3>2, GetFrameHeld DEF Render, HandsEmpty
    <3>3. CASE NoCallback(c) \/ CallbackAsIs(c)
      BY <1>0, <3>3 DEF NoCallback, CallbackAsIs, HandsEmpty, frames
    <3>4. CASE ConvertForCallback(c)
      BY <1>0, <2>0, <3>4, GetFrameHeld DEF ConvertForCallback, HandsEmpty
    <3>5. CASE RecycleSource(c)
      BY <1>0, <2>0, <3>5, RecycleHeldEmpties DEF RecycleSource, HandsEmpty
    <3>6. CASE TestMethod(c) \/ InvokeCallback(c) \/ CallbackReturns(c)
      BY <1>0, <3>6 DEF TestMethod, InvokeCallback, CallbackReturns, HandsEmpty, frames
    <3>7. CASE RecycleCallbackFrame(c)
      BY <1>0, <2>0, <3>7, RecycleHeldEmpties DEF RecycleCallbackFrame, HandsEmpty
    <3>8. CASE LeaveSurface(c)
      BY <1>0, <2>0, <3>8, RecycleHeldEmpties DEF LeaveSurface, HandsEmpty, frames
    <3>9. CASE \/ CaptureBegins(c) \/ CaptureLoop(c) \/ CaptureArms(c) \/ ChooseLoop(c)
               \/ InnerLoop(c) \/ CaptureSleeps(c) \/ ReleaseCaptureWindow(c) \/ CaptureBroadcasts(c)
      BY <1>0, <3>9 DEF CaptureBegins, ClearCaptureFrame, CaptureLoop, CaptureArms, ChooseLoop,
                        InnerLoop, CaptureSleeps, ReleaseCaptureWindow, CaptureBroadcasts,
                        HandsEmpty, frames
    <3> QED
      BY <1>4, <3>1, <3>2, <3>3, <3>4, <3>5, <3>6, <3>7, <3>8, <3>9 DEF CaptureNext
  <2> QED
    BY <2>1, <2>2, <2>3, SlotsAreDistinct DEF HandsEmpty
<1>5. CASE SpuriousWakeup
  BY <1>7, <1>5 DEF SpuriousWakeup, frames, libuvc
<1>6. CASE UNCHANGED vars
  BY <1>7, <1>6 DEF vars, frames, preview, capture, libuvc
<1> QED
  BY <1>1, <1>2, <1>3, <1>4, <1>5, <1>6 DEF Next

(* What get_frame hands out is in the hand it is given to.                  *)
LEMMA GetFrameLeaksNothing ==
  ASSUME FramesOK, NEW slot \in Slots, held[slot] = None,
         GetFrame(slot), UNCHANGED <<previewFrames, captureQueu>>
  PROVE  Leaked' \subseteq Leaked
<1>1. PICK f \in Frames :
        /\ held' = [held EXCEPT ![slot] = f]
        /\ \/ mFramePool' = mFramePool \ {f} /\ live' = live
           \/ mFramePool' = mFramePool /\ live' = live \cup {f}
  BY DEF GetFrame, FramesOK
<1>2. held'[slot] = f /\ \A t \in Slots : t # slot => held'[t] = held[t]
  BY <1>1 DEF FramesOK
<1>3. SUFFICES ASSUME NEW g \in Leaked', g \notin Leaked PROVE FALSE
  OBVIOUS
<1>4. g # f /\ g \in live /\ g \notin mFramePool /\ g \notin Queued /\ g # captureQueu
  BY <1>1, <1>2, <1>3 DEF Leaked, Queued
<1>5. PICK t \in Slots : g = held[t]
  BY <1>3, <1>4 DEF Leaked
<1>6. t = slot
  BY <1>2, <1>3, <1>5 DEF Leaked
<1>7. live \subseteq Frames
  BY DEF FramesOK
<1> QED
  BY <1>4, <1>5, <1>6, <1>7, FramesAssumption

(* What recycle_frame is given is in the pool afterwards, or freed.         *)
LEMMA RecycleFrameDisposes ==
  ASSUME NEW f, RecycleFrame(f)
  PROVE  live' \subseteq live /\ mFramePool \subseteq mFramePool' /\ (f \in mFramePool' \/ f \notin live')
BY DEF RecycleFrame

(* The frame of a dead local variable goes where recycle_frame puts it.     *)
LEMMA RecycleHeldLeaksNothing ==
  ASSUME FramesOK, NEW slot \in Slots, RecycleHeld(slot)
  PROVE  Leaked' \subseteq Leaked
<1>1. /\ live' \subseteq live /\ mFramePool \subseteq mFramePool'
      /\ held[slot] \in mFramePool' \/ held[slot] \notin live'
  BY RecycleFrameDisposes DEF RecycleHeld
<1>2. \A t \in Slots : t # slot => held'[t] = held[t]
  BY RecycleHeldEmpties
<1>3. Queued' = Queued /\ captureQueu' = captureQueu
  BY DEF RecycleHeld, Queued
<1> QED
  BY <1>1, <1>2, <1>3 DEF Leaked

(* clearCaptureFrame recycles the frame of the slot.                        *)
LEMMA ClearCaptureFrameLeaksNothing ==
  ASSUME FramesOK, ClearCaptureFrame
  PROVE  Leaked' \subseteq Leaked
<1>1. Queued' = Queued /\ held' = held
  BY DEF ClearCaptureFrame, Queued
<1>2. CASE captureQueu = None
  BY <1>1, <1>2 DEF ClearCaptureFrame, Leaked
<1>3. CASE captureQueu # None
  <2>1. /\ live' \subseteq live /\ mFramePool \subseteq mFramePool'
        /\ captureQueu \in mFramePool' \/ captureQueu \notin live'
    BY <1>3, RecycleFrameDisposes DEF ClearCaptureFrame
  <2> QED
    BY <1>1, <2>1 DEF Leaked
<1> QED
  BY <1>2, <1>3

(* addPreviewFrame puts the copy into the queue, or leaves it in the hand.  *)
LEMMA AddPreviewFrameLeaksNothing ==
  ASSUME FramesOK, HandsFull, AddPreviewFrame
  PROVE  Leaked' \subseteq Leaked
<1>0. UNCHANGED <<captureQueu, mFramePool, live>>
  BY DEF AddPreviewFrame
<1>1. CASE UNCHANGED <<previewFrames, held>>
  BY <1>0, <1>1 DEF Leaked, Queued
<1>2. CASE /\ previewFrames' = Append(previewFrames, held[Copy])
           /\ held' = [held EXCEPT ![Copy] = None]
  <2> DEFINE f == held[Copy]
  <2>1. f \in Frames /\ Copy \in Slots
    BY SlotsAreDistinct DEF AddPreviewFrame, HandsFull, FramesOK
  <2>2. previewFrames \in Seq(Frames) /\ Len(previewFrames) \in Nat
    BY DEF FramesOK
  <2> HIDE DEF f
  <2>3. previewFrames' = Append(previewFrames, f)
    BY <1>2 DEF f
  <2>4. /\ \A i \in 1..Len(previewFrames) : previewFrames'[i] = previewFrames[i]
        /\ previewFrames'[Len(previewFrames) + 1] = f
        /\ DOMAIN previewFrames' = 1..(Len(previewFrames) + 1)
        /\ DOMAIN previewFrames = 1..Len(previewFrames)
    BY <2>1, <2>2, <2>3
  <2>5. Queued' = Queued \cup {f}
    BY <2>2, <2>4 DEF Queued
  <2>6. \A t \in Slots : held'[t] = held[t] \/ held[t] = f
    BY <1>2, <2>1 DEF FramesOK, f
  <2> QED
    BY <1>0, <2>5, <2>6 DEF Leaked
<1> QED
  BY <1>1, <1>2 DEF AddPreviewFrame

(* waitPreviewFrame moves the oldest frame from the queue into an empty     *)
(* hand.                                                                    *)
LEMMA TakePreviewFrameLeaksNothing ==
  ASSUME FramesOK, HandsEmpty, NEW from \in {"wait", "asleep"}, TakePreviewFrame(from)
  PROVE  Leaked' \subseteq Leaked
<1>0. UNCHANGED <<captureQueu, mFramePool, live>>
  BY DEF TakePreviewFrame
<1>1. CASE UNCHANGED <<previewFrames, held>>
  BY <1>0, <1>1 DEF Leaked, Queued
<1>2. ASSUME NEW slot \in Slots, held[slot] = None,
             previewFrames # <<>>,
             held' = [held EXCEPT ![slot] = Head(previewFrames)],
             previewFrames' = Tail(previewFrames)
      PROVE  Leaked' \subseteq Leaked
  <2> DEFINE f == Head(previewFrames)
  <2>1. previewFrames \in Seq(Frames) /\ Len(previewFrames) \in Nat /\ Len(previewFrames) > 0
    BY <1>2 DEF FramesOK
  <2>2. /\ \A i \in 1..(Len(previewFrames) - 1) : previewFrames'[i] = previewFrames[i + 1]
        /\ f = previewFrames[1]
        /\ DOMAIN previewFrames = 1..Len(previewFrames)
        /\ DOMAIN previewFrames' = 1..(Len(previewFrames) - 1)
    BY <1>2, <2>1
  <2>3. Queued \subseteq Queued' \cup {f}
    <3>1. SUFFICES ASSUME NEW i \in 1..Len(previewFrames), previewFrames[i] # f
                   PROVE  previewFrames[i] \in Queued'
      BY <2>2 DEF Queued
    <3>2. i - 1 \in 1..(Len(previewFrames) - 1) /\ (i - 1) + 1 = i
      BY <2>1, <2>2, <3>1
    <3>3. previewFrames[i] = previewFrames'[i - 1]
      BY <2>2, <3>2
    <3> QED
      BY <2>2, <3>2, <3>3 DEF Queued
  <2>4. held'[slot] = f /\ \A t \in Slots : t # slot => held'[t] = held[t]
    BY <1>2 DEF FramesOK
  <2>5. None \notin live
    BY FramesAssumption DEF FramesOK
  <2> HIDE DEF f
  <2> QED
    BY <1>0, <1>2, <2>3, <2>4, <2>5 DEF Leaked
<1>3. {FrameMjpeg, Frame} \subseteq Slots
  BY SlotsAreDistinct
<1>4. previewPc = from
  BY DEF TakePreviewFrame, PreviewGoes
<1>5. held[FrameMjpeg] = None /\ held[Frame] = None
  BY <1>4 DEF HandsEmpty
<1> QED
  BY <1>1, <1>2, <1>3, <1>5 DEF TakePreviewFrame

(* waitCaptureFrame moves the frame of the slot into an empty hand.         *)
LEMMA TakeCaptureFrameLeaksNothing ==
  ASSUME FramesOK, HandsEmpty, NEW c \in CaptureThreads, NEW from \in {"take", "asleep"},
         TakeCaptureFrame(c, from)
  PROVE  Leaked' \subseteq Leaked
<1>0. UNCHANGED <<previewFrames, mFramePool, live>> /\ Queued' = Queued
  BY DEF TakeCaptureFrame, Queued
<1>1. CASE UNCHANGED <<captureQueu, held>>
  BY <1>0, <1>1 DEF Leaked
<1>2. CASE held' = [held EXCEPT ![CaptureFrame(c)] = captureQueu]
  <2>1. CaptureFrame(c) \in Slots /\ None \notin live
    BY SlotsAreDistinct, FramesAssumption DEF FramesOK
  <2>2. held[CaptureFrame(c)] = None
    BY DEF TakeCaptureFrame, CaptureGoes, HandsEmpty
  <2>3. /\ held'[CaptureFrame(c)] = captureQueu
        /\ \A t \in Slots : t # CaptureFrame(c) => held'[t] = held[t]
    BY <1>2, <2>1 DEF FramesOK
  <2> QED
    BY <1>0, <2>1, <2>2, <2>3 DEF Leaked
<1> QED
  BY <1>1, <1>2 DEF TakeCaptureFrame

(* addCaptureFrame moves the frame to the slot and recycles the one there;  *)
(* when mIsRunning is down it drops the frame.                              *)
LEMMA AddCaptureFrameLeaks ==
  ASSUME FramesOK, AddCaptureFrame
  PROVE  \A f \in Leaked' \ Leaked : ~mIsRunning /\ previewPc = "offer" /\ f = held[Frame]
<1>0. Queued' = Queued /\ previewPc = "offer" /\ Frame \in Slots
  BY SlotsAreDistinct DEF AddCaptureFrame, PreviewGoes, Queued
<1>1. \A t \in Slots : t # Frame => held'[t] = held[t]
  BY DEF FramesOK, AddCaptureFrame
<1>2. CASE ~mIsRunning
  <2>1. UNCHANGED <<mFramePool, live, captureQueu>>
    BY <1>2 DEF AddCaptureFrame
  <2> QED
    BY <1>0, <1>1, <1>2, <2>1 DEF Leaked
<1>3. CASE mIsRunning
  <2>1. captureQueu' = held[Frame]
    BY <1>3 DEF AddCaptureFrame
  <2>2. /\ live' \subseteq live /\ mFramePool \subseteq mFramePool'
        /\ captureQueu = None \/ captureQueu \in mFramePool' \/ captureQueu \notin live'
    BY <1>3, RecycleFrameDisposes DEF AddCaptureFrame
  <2>3. None \notin live
    BY FramesAssumption DEF FramesOK
  <2> QED
    BY <1>0, <1>1, <2>1, <2>2, <2>3 DEF Leaked
<1> QED
  BY <1>2, <1>3

(* No step but addCaptureFrame's early return loses a frame.                *)
LEMMA LeakStep ==
  ASSUME FramesOK, HandsFull, HandsEmpty, Next
  PROVE  \A f \in Leaked' \ Leaked : ~mIsRunning /\ previewPc = "offer" /\ f = held[Frame]
<1>0. ASSUME UNCHANGED frames PROVE Leaked' \subseteq Leaked
  BY <1>0 DEF frames, Leaked, Queued
<1>1. CASE AppNext
  <2>1. CASE StopClearsQueue
    BY <2>1, ClearCaptureFrameLeaksNothing DEF StopClearsQueue
  <2>2. CASE ~StopClearsQueue
    <3>1. UNCHANGED frames
      BY <1>1, <2>2
         DEF AppNext, SetPreviewDisplay, StartPreview, CreatePreviewThread, StopPreview,
             StopSignalsPreview, StopSignalsCapture, JoinCapture, JoinPreview,
             StopReleasesWindows, SetterEnters, SetterWaits, SetterWakes, SwapCallback,
             KeepCallback, SwapDisplay, AssignCallback
    <3> QED
      BY <1>0, <3>1
  <2> QED
    BY <2>1, <2>2
<1>2. CASE CallbackNext
  <2>1. CASE CallbackEnters
    BY <1>0, <2>1 DEF CallbackEnters
  <2>2. CASE CallbackCopies
    <3>1. CASE UNCHANGED <<mFramePool, live, held>>
      BY <1>0, <2>2, <3>1 DEF CallbackCopies, frames
    <3>2. CASE GetFrame(Copy)
      BY <2>2, <3>2, GetFrameLeaksNothing, SlotsAreDistinct DEF CallbackCopies, HandsEmpty
    <3> QED
      BY <2>2, <3>1, <3>2 DEF CallbackCopies
  <2>3. CASE AddPreviewFrame
    BY <2>3, AddPreviewFrameLeaksNothing
  <2>4. CASE CallbackRecycles
    BY <2>4, RecycleHeldLeaksNothing, SlotsAreDistinct DEF CallbackRecycles
  <2> QED
    BY <1>2, <2>1, <2>2, <2>3, <2>4 DEF CallbackNext
<1>3. CASE PreviewNext
  <2> USE DEF PreviewGoes
  <2>1. CASE WaitPreviewFrame \/ PreviewWakes
    BY <2>1, TakePreviewFrameLeaksNothing DEF WaitPreviewFrame, PreviewWakes
  <2>2. CASE DecodeFrame
    BY <2>2, GetFrameLeaksNothing, SlotsAreDistinct DEF DecodeFrame, HandsEmpty
  <2>3. CASE ConvertPreview
    BY <2>3, GetFrameLeaksNothing, SlotsAreDistinct DEF ConvertPreview, HandsEmpty
  <2>4. CASE RecycleMjpeg \/ RecycleUndecoded \/ DrawPreview
    BY <2>4, RecycleHeldLeaksNothing, SlotsAreDistinct DEF RecycleMjpeg, RecycleUndecoded, DrawPreview
  <2>5. CASE AddCaptureFrame
    BY <2>5, AddCaptureFrameLeaks
  <2>6. CASE \/ PreparePreview \/ StartStreaming \/ (\E c \in CaptureThreads : CreateCaptureThread(c))
             \/ PreviewLoop \/ PreviewSleeps \/ SkipDraw
             \/ PreviewSignalsCapture \/ StopStreaming \/ StreamStopped
    BY <1>0, <2>6
       DEF PreparePreview, StartStreaming, CreateCaptureThread, PreviewLoop, PreviewSleeps,
           SkipDraw, PreviewSignalsCapture, StopStreaming, StreamStopped
  <2> QED
    BY <1>3, <2>1, <2>2, <2>3, <2>4, <2>5, <2>6 DEF PreviewNext
<1>4. ASSUME NEW c \in CaptureThreads, CaptureNext(c) PROVE Leaked' \subseteq Leaked
  <2>0. {CaptureFrame(c), CaptureConverted(c), CallbackFrame(c)} \subseteq Slots
    BY SlotsAreDistinct
  <2>1. CASE WaitCaptureFrame(c) \/ CaptureWakes(c)
    BY <2>1, TakeCaptureFrameLeaksNothing DEF WaitCaptureFrame, CaptureWakes
  <2>2. CASE Render(c)
    <3>1. CASE UNCHANGED <<mFramePool, live, held>>
      BY <1>0, <2>2, <3>1 DEF Render, frames
    <3>2. CASE NeedsConverted(c) /\ GetFrame(CaptureConverted(c))
      BY <2>0, <2>2, <3>2, GetFrameLeaksNothing DEF Render, NeedsConverted
    <3> QED
      BY <2>2, <3>1, <3>2 DEF Render
  <2>3. CASE ConvertForCallback(c)
    <3>1. CASE UNCHANGED <<mFramePool, live, held>>
      BY <1>0, <2>3, <3>1 DEF ConvertForCallback, frames
    <3>2. CASE CaptureGoes(c, "callback", "convert") /\ GetFrame(CallbackFrame(c))
      BY <2>0, <2>3, <3>2, GetFrameLeaksNothing DEF ConvertForCallback, CaptureGoes, HandsEmpty
    <3> QED
      BY <2>3, <3>1, <3>2 DEF ConvertForCallback
  <2>4. CASE RecycleSource(c) \/ RecycleCallbackFrame(c)
    BY <2>0, <2>4, RecycleHeldLeaksNothing DEF RecycleSource, RecycleCallbackFrame
  <2>5. CASE LeaveSurface(c)
    BY <1>0, <2>0, <2>5, RecycleHeldLeaksNothing DEF LeaveSurface
  <2>6. CASE CaptureBegins(c)
    BY <2>6, ClearCaptureFrameLeaksNothing DEF CaptureBegins
  <2>7. CASE \/ CaptureLoop(c) \/ CaptureArms(c) \/ ChooseLoop(c) \/ InnerLoop(c)
             \/ CaptureSleeps(c) \/ NoCallback(c) \/ CallbackAsIs(c) \/ TestMethod(c) \/ InvokeCallback(c)
             \/ CallbackReturns(c) \/ ReleaseCaptureWindow(c) \/ CaptureBroadcasts(c)
    BY <1>0, <2>7
       DEF CaptureLoop, CaptureArms, ChooseLoop, InnerLoop, CaptureSleeps, NoCallback,
           CallbackAsIs, TestMethod, InvokeCallback, CallbackReturns, ReleaseCaptureWindow, CaptureBroadcasts
  <2> QED
    BY <1>4, <2>1, <2>2, <2>3, <2>4, <2>5, <2>6, <2>7 DEF CaptureNext
<1>5. CASE SpuriousWakeup
  BY <1>0, <1>5 DEF SpuriousWakeup
<1> QED
  BY <1>1, <1>2, <1>3, <1>4, <1>5 DEF Next

(* HandsEmpty holds in every state.                                         *)
LEMMA HandsEmptyAlways == Spec => []HandsEmpty
<1>1. Init => HandsEmpty
  BY SlotsAreDistinct DEF Init, HandsEmpty
<1>2. IInv /\ HandsEmpty /\ [Next]_vars => HandsEmpty'
  BY HandsEmptyStep DEF IInv
<1> QED
  BY <1>1, <1>2, Invariance, PTL DEF Spec

(* Memory is lost only at a stop, one frame at a time, by the early return  *)
(* of addCaptureFrame: every other path of every thread gives its frames    *)
(* back, however many threads and frames there are.                         *)
THEOREM LeaksAtStopOnly == Spec => LeaksOnlyAtStop
<1>1. IInv /\ HandsEmpty /\ [Next]_vars =>
        [\A f \in Leaked' \ Leaked : ~mIsRunning /\ previewPc = "offer" /\ f = held[Frame]]_vars
  BY LeakStep DEF IInv, TypeOK
<1> QED
  BY <1>1, Invariance, HandsEmptyAlways, PTL DEF Spec, LeaksOnlyAtStop

=============================================================================
