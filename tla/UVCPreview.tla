----------------------------- MODULE UVCPreview -----------------------------
(***************************************************************************)
(* The preview pipeline of one camera (UVCCamera/UVCPreview.cpp).          *)
(*                                                                         *)
(* Four kinds of threads meet in a UVCPreview object:                      *)
(*   - the application thread, which starts and stops the preview and      *)
(*     replaces the frame callback, the capture surface and the preview    *)
(*     surface;                                                            *)
(*   - libuvc's callback thread, which copies every frame of the camera    *)
(*     into previewFrames;                                                 *)
(*   - the preview thread, which draws the queued frames and offers each   *)
(*     one to the capture thread through captureQueu;                      *)
(*   - the capture thread, which renders and calls the Java callback.      *)
(*                                                                         *)
(* A critical section that neither waits nor can be observed half done is  *)
(* one step.  The reads of the volatile flags mIsRunning and mIsCapturing  *)
(* made outside a section are steps of their own.                          *)
(***************************************************************************)
EXTENDS Integers, Sequences, FiniteSets

CONSTANTS
  Frames,           \* every uvc_frame_t the heap has room for
  CaptureThreads,   \* ids pthread_create gives to capture threads
  Callbacks,        \* Java IFrameCallback objects
  Surfaces,         \* surfaces for capturing
  MaxFrame,         \* MAX_FRAME, the length of the preview queue
  PoolSize,         \* FRAME_POOL_SZ, the number of idle frames kept
  Mjpeg,            \* TRUE: the camera sends MJPEG frames, FALSE: YUYV
  SpuriousWakeups,  \* TRUE: pthread_cond_wait may return without a signal
  App,              \* the application thread, as a waiter
  None              \* the null pointer

ASSUME FramesAssumption == IsFiniteSet(Frames) /\ None \notin Frames
ASSUME ThreadsAssumption == CaptureThreads \cap {App, None, "uvc", "preview"} = {}
ASSUME CallbacksAssumption == None \notin Callbacks \cup Surfaces
ASSUME LimitsAssumption == MaxFrame \in Nat \ {0} /\ PoolSize \in Nat
ASSUME SwitchesAssumption == Mjpeg \in BOOLEAN /\ SpuriousWakeups \in BOOLEAN

VARIABLES
  mIsRunning, mIsCapturing,       \* volatile flags
  mPreviewWindow, mCaptureWindow, \* TRUE: a preview window is set; the capture surface or None
  mFrameCallbackObj,              \* the callback object or None
  onFrame,                        \* TRUE: iframecallback_fields.onFrame is set
  liveRefs,                       \* callback objects with a JNI global reference
  previewFrames, captureQueu,     \* queue to the preview thread, slot to the capture thread
  mFramePool, live,               \* idle frames; frames allocated and not freed
  held,                           \* the frame pointers in the threads' local variables
  appPc, request, captureLock,    \* application thread; captureLock: it holds capture_mutex
  previewPc, previewSleeps,       \* preview thread; previewSleeps: it waits on preview_sync
  capture_thread,                 \* the pthread_t field: the last capture thread created
  capturePc, inSurface,           \* capture threads; those inside do_capture_surface
  captureWaiters,                 \* the threads waiting on capture_sync
  calling,                        \* the reference each capture thread is calling through
  streaming, callbackPc           \* libuvc's stream and its callback thread

flags   == <<mIsRunning, mIsCapturing>>
windows == <<mPreviewWindow, mCaptureWindow>>
refs    == <<mFrameCallbackObj, onFrame, liveRefs>>
frames  == <<previewFrames, captureQueu, mFramePool, live, held>>
app     == <<appPc, request, captureLock>>
preview == <<previewPc, previewSleeps>>
capture == <<capture_thread, capturePc, inSurface, captureWaiters, calling>>
libuvc  == <<streaming, callbackPc>>

vars == <<flags, windows, refs, frames, app, preview, capture, libuvc>>

(* The local frame pointers: copy in the libuvc callback; frame_mjpeg, frame *)
(* and converted in the preview thread; frame, converted and callback_frame  *)
(* in a capture thread.                                                      *)
UvcSlots     == {"uvc"} \X {"copy"}
PreviewSlots == {"preview"} \X {"frame_mjpeg", "frame", "converted"}
CaptureSlots == CaptureThreads \X {"frame", "converted", "callback_frame"}
Slots        == UvcSlots \cup PreviewSlots \cup CaptureSlots

Copy       == <<"uvc", "copy">>
FrameMjpeg == <<"preview", "frame_mjpeg">>
Frame      == <<"preview", "frame">>
Converted  == <<"preview", "converted">>
CaptureFrame(c)     == <<c, "frame">>
CaptureConverted(c) == <<c, "converted">>
CallbackFrame(c)    == <<c, "callback_frame">>

(* What setFrameCallback and setCaptureDisplay are asked to install. *)
CallbackRequests == [what : {"callback"}, obj : Callbacks \cup {None}]
DisplayRequests  == [what : {"display"}, window : Surfaces \cup {None}]
Requests         == CallbackRequests \cup DisplayRequests
NoRequest        == [what |-> "none"]

AppSteps == {"idle", "create", "signalPreview", "signalCapture", "joinCapture",
             "joinPreview", "clear", "release", "wait", "asleep", "swap", "assign"}
PreviewSteps == {"none", "prepare", "start", "createCapture", "loop", "wait", "asleep",
                 "decode", "decoded", "draw", "drawn", "offer", "signal", "stop",
                 "joinCallback", "exited"}
CaptureSteps == {"none", "begin", "outer", "arm", "choose", "inner", "take", "asleep",
                 "render", "callback", "convert", "invoke", "call", "calling", "recycle",
                 "leave", "release", "broadcast", "exited"}
CallbackSteps == {"idle", "copy", "add", "recycle"}

FramesOK ==
  /\ previewFrames \in Seq(Frames) /\ Len(previewFrames) <= MaxFrame
  /\ captureQueu \in Frames \cup {None}
  /\ live \subseteq Frames
  /\ mFramePool \subseteq Frames /\ Cardinality(mFramePool) <= PoolSize
  /\ held \in [Slots -> Frames \cup {None}]

SwitchesOK ==
  /\ mIsRunning \in BOOLEAN /\ mIsCapturing \in BOOLEAN
  /\ mPreviewWindow \in BOOLEAN /\ onFrame \in BOOLEAN
  /\ captureLock \in BOOLEAN /\ previewSleeps \in BOOLEAN

ControlOK ==
  /\ mCaptureWindow \in Surfaces \cup {None}
  /\ mFrameCallbackObj \in Callbacks \cup {None} /\ liveRefs \subseteq Callbacks
  /\ appPc \in AppSteps /\ request \in Requests \cup {NoRequest}
  /\ previewPc \in PreviewSteps
  /\ capture_thread \in CaptureThreads \cup {None}
  /\ capturePc \in [CaptureThreads -> CaptureSteps]
  /\ inSurface \subseteq CaptureThreads
  /\ captureWaiters \subseteq CaptureThreads \cup {App}
  /\ calling \in [CaptureThreads -> Callbacks \cup {None}]
  /\ streaming \in {"off", "on", "stopping"} /\ callbackPc \in CallbackSteps

(* Both queues and the pool keep their limits, and every variable its type. *)
TypeOK == SwitchesOK /\ ControlOK /\ FramesOK

Init ==
  /\ mIsRunning = FALSE /\ mIsCapturing = FALSE
  /\ mPreviewWindow = FALSE /\ mCaptureWindow = None
  /\ mFrameCallbackObj = None /\ onFrame = FALSE /\ liveRefs = {}
  /\ previewFrames = <<>> /\ captureQueu = None
  /\ mFramePool = {} /\ live = {}
  /\ held = [s \in Slots |-> None]
  /\ appPc = "idle" /\ request = NoRequest /\ captureLock = FALSE
  /\ previewPc = "none" /\ previewSleeps = FALSE
  /\ capture_thread = None
  /\ capturePc = [c \in CaptureThreads |-> "none"]
  /\ inSurface = {} /\ captureWaiters = {}
  /\ calling = [c \in CaptureThreads |-> None]
  /\ streaming = "off" /\ callbackPc = "idle"

-----------------------------------------------------------------------------
(* The frame pool.  Which idle frame is handed out does not matter, its     *)
(* content is overwritten: the pool is a set.                               *)

(* get_frame into a local variable: an idle frame, else a new one. *)
GetFrame(slot) ==
  \/ \E f \in mFramePool :
       /\ mFramePool' = mFramePool \ {f}
       /\ held' = [held EXCEPT ![slot] = f]
       /\ UNCHANGED live
  \/ \E f \in Frames \ live :
       /\ mFramePool = {}
       /\ live' = live \cup {f}
       /\ held' = [held EXCEPT ![slot] = f]
       /\ UNCHANGED mFramePool

(* get_frame returns NULL: the pool is empty and the heap is exhausted. *)
OutOfMemory == mFramePool = {} /\ live = Frames

(* recycle_frame: keep the frame while the pool has room, else free it. *)
RecycleFrame(f) ==
  \/ /\ Cardinality(mFramePool) < PoolSize
     /\ mFramePool' = mFramePool \cup {f}
     /\ UNCHANGED live
  \/ /\ Cardinality(mFramePool) >= PoolSize
     /\ live' = live \ {f}
     /\ UNCHANGED mFramePool

(* recycle_frame of a local variable that is dead afterwards. *)
RecycleHeld(slot) ==
  /\ RecycleFrame(held[slot])
  /\ held' = [held EXCEPT ![slot] = None]
  /\ UNCHANGED <<previewFrames, captureQueu>>

(* pthread_cond_signal and pthread_cond_broadcast on capture_sync. *)
SignalCapture(waiters) ==
  IF waiters = {} THEN {waiters} ELSE {waiters \ {w} : w \in waiters}

-----------------------------------------------------------------------------
(* The application thread.                                                  *)

AppGoes(from, to) == appPc = from /\ appPc' = to

(* setPreviewDisplay: a Surface, or none. *)
SetPreviewDisplay(window) ==
  /\ appPc = "idle"
  /\ mPreviewWindow' = window
  /\ UNCHANGED <<flags, mCaptureWindow, refs, frames, app, preview, capture, libuvc>>

(* startPreview, unless running: raise the flag, then create the thread. *)
StartPreview ==
  /\ AppGoes("idle", "create")
  /\ ~mIsRunning
  /\ mIsRunning' = TRUE
  /\ UNCHANGED <<mIsCapturing, windows, refs, frames, request, captureLock, preview, capture, libuvc>>

(* The section under preview_mutex: without a window, or when               *)
(* pthread_create fails, the flag is lowered again.                         *)
CreatePreviewThread ==
  /\ AppGoes("create", "idle")
  /\ \/ /\ mPreviewWindow
        /\ previewPc' = "prepare"
        /\ UNCHANGED <<mIsRunning, previewSleeps>>
     \/ /\ mIsRunning' = FALSE
        /\ previewSleeps' = FALSE
        /\ UNCHANGED previewPc
  /\ UNCHANGED <<mIsCapturing, windows, refs, frames, request, captureLock, capture, libuvc>>

(* stopPreview: lower the flag, signal both conditions without their mutex, *)
(* join the capture thread, then the preview thread.                        *)
StopPreview ==
  /\ IF mIsRunning THEN AppGoes("idle", "signalPreview") ELSE AppGoes("idle", "clear")
  /\ mIsRunning' = FALSE
  /\ UNCHANGED <<mIsCapturing, windows, refs, frames, request, captureLock, preview, capture, libuvc>>

StopSignalsPreview ==
  /\ AppGoes("signalPreview", "signalCapture")
  /\ previewSleeps' = FALSE
  /\ UNCHANGED <<flags, windows, refs, frames, request, captureLock, previewPc, capture, libuvc>>

StopSignalsCapture ==
  /\ AppGoes("signalCapture", "joinCapture")
  /\ captureWaiters' \in SignalCapture(captureWaiters)
  /\ UNCHANGED <<flags, windows, refs, frames, request, captureLock, preview, capture_thread,
                 capturePc, inSurface, calling, libuvc>>

(* pthread_join(capture_thread): a field that names no thread (never        *)
(* created, or already joined) is an error the code only logs.              *)
JoinCapture ==
  /\ AppGoes("joinCapture", "joinPreview")
  /\ \/ /\ capture_thread \in CaptureThreads
        /\ capturePc[capture_thread] = "exited"
        /\ capturePc' = [capturePc EXCEPT ![capture_thread] = "none"]
     \/ /\ capture_thread \in CaptureThreads => capturePc[capture_thread] = "none"
        /\ UNCHANGED capturePc
  /\ UNCHANGED <<flags, windows, refs, frames, request, captureLock, preview, capture_thread,
                 inSurface, captureWaiters, calling, libuvc>>

(* Mutant: the preview thread is not joined. *)
JoinPreviewNot ==
  /\ AppGoes("joinPreview", "clear")
  /\ UNCHANGED <<flags, windows, refs, frames, request, captureLock, preview, capture, libuvc>>

JoinPreview ==
  /\ AppGoes("joinPreview", "clear")
  /\ previewPc = "exited"
  /\ previewPc' = "none"
  /\ UNCHANGED <<flags, windows, refs, frames, request, captureLock, previewSleeps, capture, libuvc>>

(* clearPreviewFrame, whose body is commented out, and clearCaptureFrame. *)
ClearCaptureFrame ==
  /\ IF captureQueu = None THEN UNCHANGED <<mFramePool, live>> ELSE RecycleFrame(captureQueu)
  /\ captureQueu' = None
  /\ UNCHANGED <<previewFrames, held>>

StopClearsQueue ==
  /\ AppGoes("clear", "release")
  /\ ClearCaptureFrame
  /\ UNCHANGED <<flags, windows, refs, request, captureLock, preview, capture, libuvc>>

StopReleasesWindows ==
  /\ AppGoes("release", "idle")
  /\ mPreviewWindow' = FALSE /\ mCaptureWindow' = None
  /\ UNCHANGED <<flags, refs, frames, request, captureLock, preview, capture, libuvc>>

(* setFrameCallback and setCaptureDisplay take capture_mutex and, while the *)
(* capture thread runs, lower mIsCapturing and wait for it to finish the    *)
(* frame in hand if there is something to replace.                          *)
ToReplace(r) == IF r.what = "callback" THEN mFrameCallbackObj # None ELSE mCaptureWindow # None

SetterEnters(r) ==
  /\ IF mIsRunning /\ mIsCapturing /\ ToReplace(r) THEN AppGoes("idle", "wait")
                                                   ELSE AppGoes("idle", "swap")
  /\ mIsCapturing' = (mIsCapturing /\ ~mIsRunning)
  /\ request' = r
  /\ captureLock' = TRUE
  /\ liveRefs' = liveRefs \cup (IF r.what = "callback" THEN {r.obj} \ {None} ELSE {})
  /\ UNCHANGED <<mIsRunning, windows, mFrameCallbackObj, onFrame, frames, preview, capture, libuvc>>

(* pthread_cond_signal, then pthread_cond_wait: the mutex is released. *)
SetterWaits ==
  /\ AppGoes("wait", "asleep")
  /\ \E waiters \in SignalCapture(captureWaiters) : captureWaiters' = waiters \cup {App}
  /\ captureLock' = FALSE
  /\ UNCHANGED <<flags, windows, refs, frames, request, preview, capture_thread, capturePc,
                 inSurface, calling, libuvc>>

SetterWakes ==
  /\ AppGoes("asleep", "swap")
  /\ App \notin captureWaiters
  /\ captureLock' = TRUE
  /\ UNCHANGED <<flags, windows, refs, frames, request, preview, capture, libuvc>>

(* setFrameCallback: the method id and the old global reference go before   *)
(* the field is assigned.                                                   *)
SwapCallback ==
  /\ request.what = "callback"
  /\ mFrameCallbackObj # request.obj
  /\ AppGoes("swap", "assign")
  /\ onFrame' = FALSE
  /\ liveRefs' = liveRefs \ {mFrameCallbackObj}
  /\ UNCHANGED <<flags, windows, mFrameCallbackObj, frames, request, captureLock, preview, capture, libuvc>>

(* Mutant: returns without pthread_mutex_unlock. *)
KeepCallbackLocked ==
  /\ request.what = "callback"
  /\ mFrameCallbackObj = request.obj
  /\ AppGoes("swap", "idle")
  /\ request' = NoRequest
  /\ UNCHANGED <<flags, windows, refs, frames, captureLock, preview, capture, libuvc>>

KeepCallback ==
  /\ request.what = "callback"
  /\ mFrameCallbackObj = request.obj
  /\ AppGoes("swap", "idle")
  /\ request' = NoRequest /\ captureLock' = FALSE
  /\ UNCHANGED <<flags, windows, refs, frames, preview, capture, libuvc>>

(* Mutant: a callback without onFrame method is stored all the same. *)
AssignCallbackUnfound(found) ==
  /\ AppGoes("assign", "idle")
  /\ request.obj = None => ~found
  /\ onFrame' = found
  /\ mFrameCallbackObj' = request.obj
  /\ liveRefs' = IF found THEN liveRefs ELSE liveRefs \ {request.obj}
  /\ request' = NoRequest /\ captureLock' = FALSE
  /\ UNCHANGED <<flags, windows, frames, preview, capture, libuvc>>

(* The class may have no onFrame method: then the callback is dropped. *)
AssignCallback(found) ==
  /\ AppGoes("assign", "idle")
  /\ request.obj = None => ~found
  /\ onFrame' = found
  /\ mFrameCallbackObj' = IF found THEN request.obj ELSE None
  /\ liveRefs' = IF found THEN liveRefs ELSE liveRefs \ {request.obj}
  /\ request' = NoRequest /\ captureLock' = FALSE
  /\ UNCHANGED <<flags, windows, frames, preview, capture, libuvc>>

SwapDisplay ==
  /\ request.what = "display"
  /\ AppGoes("swap", "idle")
  /\ mCaptureWindow' = request.window
  /\ request' = NoRequest /\ captureLock' = FALSE
  /\ UNCHANGED <<flags, mPreviewWindow, refs, frames, preview, capture, libuvc>>

AppNext ==
  \/ \E window \in BOOLEAN : SetPreviewDisplay(window)
  \/ StartPreview \/ CreatePreviewThread
  \/ StopPreview \/ StopSignalsPreview \/ StopSignalsCapture
  \/ JoinCapture \/ JoinPreview \/ StopClearsQueue \/ StopReleasesWindows
  \/ \E r \in Requests : SetterEnters(r)
  \/ SetterWaits \/ SetterWakes
  \/ SwapCallback \/ KeepCallback \/ SwapDisplay
  \/ \E found \in BOOLEAN : AssignCallback(found)

-----------------------------------------------------------------------------
(* libuvc's callback thread: uvc_preview_frame_callback.                    *)

CallbackGoes(from, to) == callbackPc = from /\ callbackPc' = to

(* A frame of the negotiated size arrives while the preview runs; broken    *)
(* frames, and frames after the stop, return at once.                       *)
CallbackEnters ==
  /\ streaming # "off"
  /\ CallbackGoes("idle", "copy")
  /\ mIsRunning
  /\ UNCHANGED <<flags, windows, refs, frames, app, preview, capture, streaming>>

(* isRunning is read again; get_frame; uvc_duplicate_frame, which may fail. *)
CallbackCopies ==
  /\ callbackPc = "copy"
  /\ \/ /\ mIsRunning
        /\ GetFrame(Copy)
        /\ callbackPc' \in {"add", "recycle"}
     \/ /\ ~mIsRunning \/ OutOfMemory
        /\ callbackPc' = "idle"
        /\ UNCHANGED <<mFramePool, live, held>>
  /\ UNCHANGED <<flags, windows, refs, previewFrames, captureQueu, app, preview, capture, streaming>>

(* Mutant: the queue may be one frame longer. *)
AddPreviewFrameOver ==
  /\ callbackPc = "add" /\ mIsRunning
  /\ Len(previewFrames) <= MaxFrame
  /\ previewFrames' = Append(previewFrames, held[Copy])
  /\ held' = [held EXCEPT ![Copy] = None]
  /\ previewSleeps' = FALSE
  /\ callbackPc' = "idle"
  /\ UNCHANGED <<flags, windows, refs, captureQueu, mFramePool, live, app, previewPc, capture, streaming>>

(* addPreviewFrame: queue the copy and signal, or leave it to be recycled. *)
AddPreviewFrame ==
  /\ callbackPc = "add"
  /\ \/ /\ mIsRunning /\ Len(previewFrames) < MaxFrame
        /\ previewFrames' = Append(previewFrames, held[Copy])
        /\ held' = [held EXCEPT ![Copy] = None]
        /\ previewSleeps' = FALSE
        /\ callbackPc' = "idle"
     \/ /\ ~mIsRunning \/ Len(previewFrames) >= MaxFrame
        /\ callbackPc' = "recycle"
        /\ UNCHANGED <<previewFrames, held, previewSleeps>>
  /\ UNCHANGED <<flags, windows, refs, captureQueu, mFramePool, live, app, previewPc, capture, streaming>>

(* Mutant: a copy that finds the queue full is forgotten. *)
CallbackForgets ==
  /\ CallbackGoes("recycle", "idle")
  /\ held' = [held EXCEPT ![Copy] = None]
  /\ UNCHANGED <<flags, windows, refs, previewFrames, captureQueu, mFramePool, live, app, preview,
                 capture, streaming>>

CallbackRecycles ==
  /\ CallbackGoes("recycle", "idle")
  /\ RecycleHeld(Copy)
  /\ UNCHANGED <<flags, windows, refs, app, preview, capture, streaming>>

CallbackNext == CallbackEnters \/ CallbackCopies \/ AddPreviewFrame \/ CallbackRecycles

-----------------------------------------------------------------------------
(* The preview thread: prepare_preview and do_preview.                      *)

PreviewGoes(from, to) == previewPc = from /\ previewPc' = to

(* prepare_preview: the negotiation may fail, and then the thread exits     *)
(* while mIsRunning stays up.                                               *)
PreparePreview ==
  /\ previewPc = "prepare"
  /\ previewPc' \in {"start", "exited"}
  /\ UNCHANGED <<flags, windows, refs, frames, app, previewSleeps, capture, libuvc>>

(* uvc_start_streaming_bandwidth, which may fail. *)
StartStreaming ==
  /\ \/ PreviewGoes("start", "createCapture") /\ streaming' = "on"
     \/ PreviewGoes("start", "exited") /\ UNCHANGED streaming
  /\ UNCHANGED <<flags, windows, refs, frames, app, previewSleeps, capture, callbackPc>>

(* pthread_create(&capture_thread, ...) with an id that is not in use. *)
CreateCaptureThread(c) ==
  /\ PreviewGoes("createCapture", "loop")
  /\ capturePc[c] \in {"none", "exited"}
  /\ capture_thread' = c
  /\ capturePc' = [capturePc EXCEPT ![c] = "begin"]
  /\ UNCHANGED <<flags, windows, refs, frames, app, previewSleeps, inSurface, captureWaiters,
                 calling, libuvc>>

(* for ( ; isRunning() ; ) *)
PreviewLoop ==
  /\ PreviewGoes("loop", IF mIsRunning THEN "wait" ELSE "signal")
  /\ UNCHANGED <<flags, windows, refs, frames, app, previewSleeps, capture, libuvc>>

(* The end of waitPreviewFrame: the oldest frame, if running. *)
TakePreviewFrame(from) ==
  /\ \/ /\ mIsRunning /\ previewFrames # <<>>
        /\ held' = [held EXCEPT ![IF Mjpeg THEN FrameMjpeg ELSE Frame] = Head(previewFrames)]
        /\ previewFrames' = Tail(previewFrames)
        /\ PreviewGoes(from, IF Mjpeg THEN "decode" ELSE "draw")
     \/ /\ ~mIsRunning \/ previewFrames = <<>>
        /\ PreviewGoes(from, "loop")
        /\ UNCHANGED <<held, previewFrames>>
  /\ UNCHANGED <<flags, windows, refs, captureQueu, mFramePool, live, app, previewSleeps, capture, libuvc>>

(* waitPreviewFrame tests the queue, not mIsRunning, and waits once. *)
WaitPreviewFrame == previewFrames # <<>> /\ TakePreviewFrame("wait")

PreviewSleeps ==
  /\ PreviewGoes("wait", "asleep")
  /\ previewFrames = <<>>
  /\ previewSleeps' = TRUE
  /\ UNCHANGED <<flags, windows, refs, frames, app, capture, libuvc>>

PreviewWakes == ~previewSleeps /\ TakePreviewFrame("asleep")

(* MJPEG only: get_frame, whose result is not tested (without memory the    *)
(* code goes on with NULL, the model stops), and uvc_mjpeg2yuyv, ...        *)
DecodeFrame ==
  /\ PreviewGoes("decode", "decoded")
  /\ GetFrame(Frame)
  /\ UNCHANGED <<flags, windows, refs, previewFrames, captureQueu, app, previewSleeps, capture, libuvc>>

(* Mutant: frame_mjpeg is recycled and kept. *)
RecycleMjpegKept ==
  /\ previewPc = "decoded"
  /\ held[FrameMjpeg] # None
  /\ RecycleFrame(held[FrameMjpeg])
  /\ previewPc' \in {"draw", "decoded"}
  /\ UNCHANGED <<flags, windows, refs, previewFrames, captureQueu, held, app, previewSleeps,
                 capture, libuvc>>

(* ... then recycle_frame(frame_mjpeg); a frame that failed to decode is    *)
(* recycled next.                                                           *)
RecycleMjpeg ==
  /\ previewPc = "decoded"
  /\ held[FrameMjpeg] # None
  /\ RecycleHeld(FrameMjpeg)
  /\ previewPc' \in {"draw", "decoded"}
  /\ UNCHANGED <<flags, windows, refs, app, previewSleeps, capture, libuvc>>

RecycleUndecoded ==
  /\ PreviewGoes("decoded", "loop")
  /\ held[FrameMjpeg] = None
  /\ RecycleHeld(Frame)
  /\ UNCHANGED <<flags, windows, refs, app, previewSleeps, capture, libuvc>>

(* draw_preview_one: with a window and memory for the RGBX copy, ... *)
ConvertPreview ==
  /\ PreviewGoes("draw", "drawn")
  /\ mPreviewWindow
  /\ GetFrame(Converted)
  /\ UNCHANGED <<flags, windows, refs, previewFrames, captureQueu, app, previewSleeps, capture, libuvc>>

(* ... copyToSurface under preview_mutex and recycle the copy. *)
DrawPreview ==
  /\ PreviewGoes("drawn", "offer")
  /\ RecycleHeld(Converted)
  /\ UNCHANGED <<flags, windows, refs, app, previewSleeps, capture, libuvc>>

SkipDraw ==
  /\ PreviewGoes("draw", "offer")
  /\ ~mPreviewWindow \/ OutOfMemory
  /\ UNCHANGED <<flags, windows, refs, frames, app, previewSleeps, capture, libuvc>>

(* Mutant: pthread_cond_signal in place of pthread_cond_broadcast. *)
AddCaptureFrameSignal ==
  /\ PreviewGoes("offer", "loop")
  /\ ~captureLock
  /\ held' = [held EXCEPT ![Frame] = None]
  /\ \/ /\ mIsRunning
        /\ IF captureQueu = None THEN UNCHANGED <<mFramePool, live>> ELSE RecycleFrame(captureQueu)
        /\ captureQueu' = held[Frame]
        /\ captureWaiters' \in SignalCapture(captureWaiters)
     \/ /\ ~mIsRunning
        /\ UNCHANGED <<mFramePool, live, captureQueu, captureWaiters>>
  /\ UNCHANGED <<flags, windows, refs, previewFrames, app, previewSleeps, capture_thread,
                 capturePc, inSurface, calling, libuvc>>

(* addCaptureFrame: the latest frame replaces the one not yet taken, and    *)
(* every waiter wakes up.  Once stopped the frame is dropped without being  *)
(* recycled.                                                                *)
AddCaptureFrame ==
  /\ PreviewGoes("offer", "loop")
  /\ ~captureLock
  /\ held' = [held EXCEPT ![Frame] = None]
  /\ \/ /\ mIsRunning
        /\ IF captureQueu = None THEN UNCHANGED <<mFramePool, live>> ELSE RecycleFrame(captureQueu)
        /\ captureQueu' = held[Frame]
        /\ captureWaiters' = {}
     \/ /\ ~mIsRunning
        /\ UNCHANGED <<mFramePool, live, captureQueu, captureWaiters>>
  /\ UNCHANGED <<flags, windows, refs, previewFrames, app, previewSleeps, capture_thread,
                 capturePc, inSurface, calling, libuvc>>

(* After the loop: signal the capture thread, uvc_stop_streaming. *)
PreviewSignalsCapture ==
  /\ PreviewGoes("signal", "stop")
  /\ captureWaiters' \in SignalCapture(captureWaiters)
  /\ UNCHANGED <<flags, windows, refs, frames, app, previewSleeps, capture_thread, capturePc,
                 inSurface, calling, libuvc>>

StopStreaming ==
  /\ PreviewGoes("stop", "joinCallback")
  /\ streaming' = "stopping"
  /\ UNCHANGED <<flags, windows, refs, frames, app, previewSleeps, capture, callbackPc>>

(* Mutant: uvc_stop_streaming does not wait for the callback. *)
StreamStoppedEarly ==
  /\ PreviewGoes("joinCallback", "exited")
  /\ streaming' = "off"
  /\ UNCHANGED <<flags, windows, refs, frames, app, previewSleeps, capture, callbackPc>>

(* uvc_stop_streaming returns when the callback in progress has. *)
StreamStopped ==
  /\ PreviewGoes("joinCallback", "exited")
  /\ callbackPc = "idle"
  /\ streaming' = "off"
  /\ UNCHANGED <<flags, windows, refs, frames, app, previewSleeps, capture, callbackPc>>

PreviewNext ==
  \/ PreparePreview \/ StartStreaming
  \/ \E c \in CaptureThreads : CreateCaptureThread(c)
  \/ PreviewLoop \/ WaitPreviewFrame \/ PreviewSleeps \/ PreviewWakes
  \/ DecodeFrame \/ RecycleMjpeg \/ RecycleUndecoded
  \/ ConvertPreview \/ DrawPreview \/ SkipDraw \/ AddCaptureFrame
  \/ PreviewSignalsCapture \/ StopStreaming \/ StreamStopped

-----------------------------------------------------------------------------
(* A capture thread c: do_capture.                                          *)

CaptureGoes(c, from, to) ==
  /\ capturePc[c] = from
  /\ capturePc' = [capturePc EXCEPT ![c] = to]

(* clearCaptureFrame; callbackPixelFormatChanged recomputes what the setter *)
(* computed.                                                                *)
CaptureBegins(c) ==
  /\ CaptureGoes(c, "begin", "outer")
  /\ ~captureLock
  /\ ClearCaptureFrame
  /\ UNCHANGED <<flags, windows, refs, app, preview, capture_thread, inSurface, captureWaiters,
                 calling, libuvc>>

(* for (; isRunning() ;) *)
CaptureLoop(c) ==
  /\ CaptureGoes(c, "outer", IF mIsRunning THEN "arm" ELSE "exited")
  /\ UNCHANGED <<flags, windows, refs, frames, app, preview, capture_thread, inSurface,
                 captureWaiters, calling, libuvc>>

CaptureArms(c) ==
  /\ CaptureGoes(c, "arm", "choose")
  /\ mIsCapturing' = TRUE
  /\ UNCHANGED <<mIsRunning, windows, refs, frames, app, preview, capture_thread, inSurface,
                 captureWaiters, calling, libuvc>>

(* mCaptureWindow, read without the mutex, chooses do_capture_surface or    *)
(* do_capture_idle_loop.                                                    *)
ChooseLoop(c) ==
  /\ CaptureGoes(c, "choose", "inner")
  /\ inSurface' = IF mCaptureWindow # None THEN inSurface \cup {c} ELSE inSurface \ {c}
  /\ UNCHANGED <<flags, windows, refs, frames, app, preview, capture_thread, captureWaiters,
                 calling, libuvc>>

(* for (; isRunning() && isCapturing() ;) *)
InnerLoop(c) ==
  /\ \/ mIsRunning /\ mIsCapturing /\ CaptureGoes(c, "inner", "take")
     \/ ~(mIsRunning /\ mIsCapturing) /\ c \in inSurface /\ CaptureGoes(c, "inner", "leave")
     \/ ~(mIsRunning /\ mIsCapturing) /\ c \notin inSurface /\ CaptureGoes(c, "inner", "broadcast")
  /\ UNCHANGED <<flags, windows, refs, frames, app, preview, capture_thread, inSurface,
                 captureWaiters, calling, libuvc>>

(* The end of waitCaptureFrame: the frame in the slot, if running. *)
TakeCaptureFrame(c, from) ==
  /\ ~captureLock
  /\ \/ /\ mIsRunning /\ captureQueu # None
        /\ held' = [held EXCEPT ![CaptureFrame(c)] = captureQueu]
        /\ captureQueu' = None
        /\ CaptureGoes(c, from, IF c \in inSurface THEN "render" ELSE "callback")
     \/ /\ ~mIsRunning \/ captureQueu = None
        /\ CaptureGoes(c, from, "inner")
        /\ UNCHANGED <<held, captureQueu>>
  /\ UNCHANGED <<flags, windows, refs, previewFrames, mFramePool, live, app, preview,
                 capture_thread, inSurface, captureWaiters, calling, libuvc>>

WaitCaptureFrame(c) == captureQueu # None /\ TakeCaptureFrame(c, "take")

CaptureSleeps(c) ==
  /\ CaptureGoes(c, "take", "asleep")
  /\ ~captureLock
  /\ captureQueu = None
  /\ captureWaiters' = captureWaiters \cup {c}
  /\ UNCHANGED <<flags, windows, refs, frames, app, preview, capture_thread, inSurface, calling, libuvc>>

CaptureWakes(c) == c \notin captureWaiters /\ TakeCaptureFrame(c, "asleep")

(* do_capture_surface: one RGBX frame, taken on first use, receives every   *)
(* frame on its way to the surface.                                         *)
NeedsConverted(c) == mIsCapturing /\ held[CaptureConverted(c)] = None

Render(c) ==
  /\ CaptureGoes(c, "render", "callback")
  /\ \/ NeedsConverted(c) /\ GetFrame(CaptureConverted(c))
     \/ /\ ~NeedsConverted(c) \/ OutOfMemory
        /\ UNCHANGED <<mFramePool, live, held>>
  /\ UNCHANGED <<flags, windows, refs, previewFrames, captureQueu, app, preview, capture_thread,
                 inSurface, captureWaiters, calling, libuvc>>

(* do_capture_callback reads mFrameCallbackObj without the mutex; the pixel *)
(* format decides whether the frame is converted first.                     *)
NoCallback(c) ==
  /\ CaptureGoes(c, "callback", "recycle")
  /\ mFrameCallbackObj = None
  /\ UNCHANGED <<flags, windows, refs, frames, app, preview, capture_thread, inSurface,
                 captureWaiters, calling, libuvc>>

CallbackAsIs(c) ==
  /\ CaptureGoes(c, "callback", "invoke")
  /\ mFrameCallbackObj # None
  /\ UNCHANGED <<flags, windows, refs, frames, app, preview, capture_thread, inSurface,
                 captureWaiters, calling, libuvc>>

ConvertForCallback(c) ==
  /\ mFrameCallbackObj # None
  /\ \/ CaptureGoes(c, "callback", "convert") /\ GetFrame(CallbackFrame(c))
     \/ OutOfMemory /\ CaptureGoes(c, "callback", "recycle") /\ UNCHANGED <<mFramePool, live, held>>
  /\ UNCHANGED <<flags, windows, refs, previewFrames, captureQueu, app, preview, capture_thread,
                 inSurface, captureWaiters, calling, libuvc>>

(* The source frame is recycled; a failed conversion skips the call. *)
RecycleSource(c) ==
  /\ CaptureGoes(c, "convert", "invoke") \/ CaptureGoes(c, "convert", "recycle")
  /\ RecycleHeld(CaptureFrame(c))
  /\ UNCHANGED <<flags, windows, refs, app, preview, capture_thread, inSurface, captureWaiters,
                 calling, libuvc>>

(* The method id is tested without the mutex, ...                           *)
TestMethod(c) ==
  /\ CaptureGoes(c, "invoke", IF onFrame THEN "call" ELSE "recycle")
  /\ UNCHANGED <<flags, windows, refs, frames, app, preview, capture_thread, inSurface,
                 captureWaiters, calling, libuvc>>

(* ... and the field is read again for CallVoidMethod: a setter may have    *)
(* exchanged it since, and what is called may be None or be deleted.        *)
InvokeCallback(c) ==
  /\ CaptureGoes(c, "call", "calling")
  /\ calling' = [calling EXCEPT ![c] = mFrameCallbackObj]
  /\ UNCHANGED <<flags, windows, refs, frames, app, preview, capture_thread, inSurface,
                 captureWaiters, libuvc>>

CallbackReturns(c) ==
  /\ CaptureGoes(c, "calling", "recycle")
  /\ calling' = [calling EXCEPT ![c] = None]
  /\ UNCHANGED <<flags, windows, refs, frames, app, preview, capture_thread, inSurface,
                 captureWaiters, libuvc>>

(* SKIP: recycle callback_frame, which is the source frame itself when      *)
(* nothing was converted.                                                   *)
RecycleCallbackFrame(c) ==
  /\ CaptureGoes(c, "recycle", "inner")
  /\ RecycleHeld(IF held[CallbackFrame(c)] # None THEN CallbackFrame(c) ELSE CaptureFrame(c))
  /\ UNCHANGED <<flags, windows, refs, app, preview, capture_thread, inSurface, captureWaiters,
                 calling, libuvc>>

(* The end of do_capture_surface: recycle the RGBX frame, ... *)
LeaveSurface(c) ==
  /\ CaptureGoes(c, "leave", "release")
  /\ \/ held[CaptureConverted(c)] # None /\ RecycleHeld(CaptureConverted(c))
     \/ held[CaptureConverted(c)] = None /\ UNCHANGED frames
  /\ UNCHANGED <<flags, windows, refs, app, preview, capture_thread, inSurface, captureWaiters,
                 calling, libuvc>>

(* ... and release whatever window is set now, without the mutex. *)
ReleaseCaptureWindow(c) ==
  /\ CaptureGoes(c, "release", "broadcast")
  /\ mCaptureWindow' = None
  /\ UNCHANGED <<flags, mPreviewWindow, refs, frames, app, preview, capture_thread, inSurface,
                 captureWaiters, calling, libuvc>>

(* pthread_cond_broadcast(&capture_sync), without the mutex. *)
CaptureBroadcasts(c) ==
  /\ CaptureGoes(c, "broadcast", "outer")
  /\ captureWaiters' = {}
  /\ UNCHANGED <<flags, windows, refs, frames, app, preview, capture_thread, inSurface, calling, libuvc>>

CaptureNext(c) ==
  \/ CaptureBegins(c) \/ CaptureLoop(c) \/ CaptureArms(c) \/ ChooseLoop(c) \/ InnerLoop(c)
  \/ WaitCaptureFrame(c) \/ CaptureSleeps(c) \/ CaptureWakes(c) \/ Render(c)
  \/ NoCallback(c) \/ CallbackAsIs(c) \/ ConvertForCallback(c) \/ RecycleSource(c)
  \/ TestMethod(c) \/ InvokeCallback(c) \/ CallbackReturns(c) \/ RecycleCallbackFrame(c)
  \/ LeaveSurface(c) \/ ReleaseCaptureWindow(c) \/ CaptureBroadcasts(c)

-----------------------------------------------------------------------------
(* POSIX lets a wait return without a signal. *)
SpuriousWakeup ==
  /\ SpuriousWakeups
  /\ \/ /\ previewSleeps
        /\ previewSleeps' = FALSE
        /\ UNCHANGED captureWaiters
     \/ \E w \in captureWaiters :
          /\ captureWaiters' = captureWaiters \ {w}
          /\ UNCHANGED previewSleeps
  /\ UNCHANGED <<flags, windows, refs, frames, app, previewPc, capture_thread, capturePc,
                 inSurface, calling, libuvc>>

Next ==
  \/ AppNext \/ CallbackNext \/ PreviewNext
  \/ \E c \in CaptureThreads : CaptureNext(c)
  \/ SpuriousWakeup

Spec == Init /\ [][Next]_vars

(* Threads that can run do run.  The application need not make a call, but  *)
(* one it made goes on; the camera need not send frames.                    *)
AppContinues ==
  \/ CreatePreviewThread \/ StopSignalsPreview \/ StopSignalsCapture
  \/ JoinCapture \/ JoinPreview \/ StopClearsQueue \/ StopReleasesWindows
  \/ SetterWaits \/ SetterWakes \/ SwapCallback \/ KeepCallback \/ SwapDisplay
  \/ \E found \in BOOLEAN : AssignCallback(found)

Fairness ==
  /\ WF_vars(AppContinues)
  /\ WF_vars(CallbackCopies \/ AddPreviewFrame \/ CallbackRecycles)
  /\ WF_vars(PreviewNext)
  /\ \A c \in CaptureThreads : WF_vars(CaptureNext(c))

FairSpec == Spec /\ Fairness

-----------------------------------------------------------------------------
(* Properties.                                                              *)

Queued == {previewFrames[i] : i \in DOMAIN previewFrames}

(* Every frame has one owner.  A uvc_frame_t that is idle in the pool,      *)
(* queued for the preview thread, in the capture slot or in a thread's hand *)
(* is in none of the other places, and none of them refers to a frame that  *)
(* recycle_frame has freed.                                                 *)
FrameOwnership ==
  /\ mFramePool \subseteq live
  /\ Queued \subseteq live \ mFramePool
  /\ \A i, j \in DOMAIN previewFrames : i # j => previewFrames[i] # previewFrames[j]
  /\ captureQueu # None => captureQueu \in live \ (mFramePool \cup Queued)
  /\ \A s \in Slots : held[s] # None =>
       /\ held[s] \in live \ (mFramePool \cup Queued)
       /\ held[s] # captureQueu
       /\ \A t \in Slots \ {s} : held[t] # held[s]

(* A thread has the frames its program counter says it works on. *)
HandsFull ==
  /\ callbackPc \in {"add", "recycle"} => held[Copy] # None
  /\ previewPc = "decode" => held[FrameMjpeg] # None
  /\ previewPc \in {"decoded", "draw", "drawn", "offer"} => held[Frame] # None
  /\ previewPc = "drawn" => held[Converted] # None
  /\ \A c \in CaptureThreads :
       /\ capturePc[c] \in {"render", "callback", "convert"} => held[CaptureFrame(c)] # None
       /\ capturePc[c] = "convert" => held[CallbackFrame(c)] # None
       /\ capturePc[c] \in {"invoke", "call", "calling", "recycle"} =>
            held[CaptureFrame(c)] # None \/ held[CallbackFrame(c)] # None

(* The life of the preview thread and of the stream, seen from the          *)
(* application thread: what makes StopIsComplete inductive.                 *)
Joining == {"signalPreview", "signalCapture", "joinCapture", "joinPreview"}

PreviewLife ==
  /\ appPc \in Joining => ~mIsRunning
  /\ previewPc # "none" => mIsRunning \/ appPc \in Joining
  /\ appPc = "create" => mIsRunning /\ previewPc = "none"
  /\ streaming # "off" => previewPc \notin {"none", "prepare", "start", "exited"}
  /\ callbackPc # "idle" => streaming # "off"

(* The reference a setter brings is live until the setter has stored it. *)
RequestLive ==
  /\ appPc \in {"wait", "asleep", "swap"} => request \in Requests
  /\ appPc = "assign" => request \in CallbackRequests
  /\ (request \in CallbackRequests /\ request.obj # None) => request.obj \in liveRefs

(* A frame that is allocated and that nothing refers to any more is leaked. *)
Leaked == live \ (mFramePool \cup Queued \cup {captureQueu} \cup {held[s] : s \in Slots})

(* The pipeline loses memory only at a stop, and then only the frame the    *)
(* preview thread was about to offer: addCaptureFrame does not recycle it   *)
(* when mIsRunning is already down.                                         *)
LeaksOnlyAtStop ==
  [][\A f \in Leaked' \ Leaked : ~mIsRunning /\ previewPc = "offer" /\ f = held[Frame]]_vars

(* When stopPreview has joined its threads, and as long as the preview is   *)
(* not started again, there is no preview thread, the stream is stopped and *)
(* no libuvc callback is in progress: the device may be closed.             *)
Stopped == ~mIsRunning /\ appPc \in {"idle", "clear", "release", "swap", "assign"}

StopIsComplete ==
  Stopped => previewPc = "none" /\ streaming = "off" /\ callbackPc = "idle"

(* No thread sleeps while there is a frame for it, although both waits are  *)
(* guarded by an if and not by a loop: a frame is queued, and offered,      *)
(* under the mutex and with a signal.                                       *)
NoSleeperMissesAFrame ==
  /\ previewSleeps => previewFrames = <<>>
  /\ captureWaiters \cap CaptureThreads # {} => captureQueu = None

(* Except while setFrameCallback is exchanging it under capture_mutex, the  *)
(* object the capture thread calls holds a JNI global reference, and the    *)
(* method id is set exactly when there is an object.                        *)
CallbackFieldValid ==
  appPc # "assign" => /\ mFrameCallbackObj # None => mFrameCallbackObj \in liveRefs
                      /\ onFrame <=> mFrameCallbackObj # None

(* stopPreview returns, unless a thread slept through its signals: lowering *)
(* mIsRunning and signalling without the mutex loses the wakeup of a thread *)
(* that has tested the flag and does not wait yet.  Nothing else can make   *)
(* stopPreview hang.                                                        *)
Stopping == appPc \in {"signalPreview", "signalCapture", "joinCapture", "joinPreview",
                       "clear", "release"}
SleepsThroughStop == ~mIsRunning /\ (previewSleeps \/ captureWaiters \cap CaptureThreads # {})

StopHangsOnlyByLostWakeup ==
  \/ <>[]SleepsThroughStop
  \/ Stopping ~> appPc = "idle"

(* A setter that waits for the capture thread goes on as long as frames     *)
(* keep being offered: every offered frame wakes it.                        *)
SetterReturnsWhileFramesCome ==
  []<>(previewPc = "offer" /\ mIsRunning) => (appPc = "asleep" ~> appPc # "asleep")

(* The comment at the wait in setFrameCallback: "wait finishing capturing". *)
(* When the setter wakes up and goes on to replace the callback, no capture *)
(* thread is calling it.                                                    *)
SetterWaitsForCapture ==
  [][appPc = "asleep" /\ appPc' = "swap" => \A c \in CaptureThreads : calling[c] = None]_vars

(* The pipeline uses the stream as libuvc promises it: its streaming and    *)
(* its callback thread are a behaviour of StreamService, which UvcStream    *)
(* implements.                                                              *)
Service == INSTANCE StreamService WITH
  stream <- streaming, delivering <- callbackPc # "idle"

StreamAsPromised == Service!ServiceSpec

=============================================================================
