---------------------------- MODULE CameraHandler ----------------------------
(***************************************************************************)
(* The camera thread and the calls that other threads make to it           *)
(* (usb/common/AbstractUVCCameraHandler.java).                             *)
(*                                                                         *)
(* Any thread may call the handler: the user interface, the handler thread *)
(* of USBMonitor, the thread UVCCameraHelper starts for a delayed preview. *)
(* A call sends messages to the camera thread, whose looper handles them   *)
(* one after the other; stopPreview also waits, on mSync, until the camera *)
(* thread notifies.  Only the camera thread calls the UVCCamera.           *)
(*                                                                         *)
(* A synchronized section is one step.  So is a handler between two writes *)
(* that a caller can see.                                                  *)
(***************************************************************************)
EXTENDS Integers, Sequences, FiniteSets

CONSTANTS
  Callers,   \* the threads that use the handler
  Cameras,   \* UVCCamera objects; one that is closed may come again
  MaxQueue,  \* bound: a call is made only while fewer messages are queued
  None

ASSUME CallersAssumption == IsFiniteSet(Callers) /\ None \notin Callers \cup Cameras
ASSUME MaxQueueAssumption == MaxQueue \in Nat \ {0}

VARIABLES
  messages,          \* the message queue of the looper
  looping,           \* FALSE: the looper has quit
  mReleased,
  mUVCCamera,        \* a camera or None
  mIsPreviewing,
  mH264Consumer,     \* TRUE: there is a consumer, its thread runs
  opened,            \* cameras connected and not destroyed
  previewing,        \* cameras whose preview has been started and not stopped
  handling, camera,  \* camera thread: where it is, and the local variable
  pc, call, message, \* callers: where they are, in which call, what they send
  waiters            \* callers in mSync.wait()

looper  == <<messages, looping, mReleased>>
thread  == <<handling, camera>>
fields  == <<mUVCCamera, mIsPreviewing, mH264Consumer>>
devices == <<opened, previewing>>
callers == <<pc, call, message, waiters>>

vars == <<looper, thread, fields, devices, callers>>

Messages == {"OPEN", "CLOSE", "PREVIEW_START", "PREVIEW_STOP",
             "CAPTURE_START", "CAPTURE_STOP", "RELEASE"}
Calls    == {"none", "stopPreview", "close", "release"}
CallerSteps   == {"idle", "send", "close", "removeStart", "isRecording", "isPreviewing", "stop",
                  "waiting", "sendClose", "sendRelease"}
HandlingSteps == {"next", "opening", "started", "stopped", "closing", "closingToOpen",
                  "closingToQuit", "quit", "ending", "ended"}

FieldsOK ==
  /\ looping \in BOOLEAN /\ mReleased \in BOOLEAN
  /\ mUVCCamera \in Cameras \cup {None}
  /\ mIsPreviewing \in BOOLEAN /\ mH264Consumer \in BOOLEAN
  /\ opened \subseteq Cameras /\ previewing \subseteq Cameras
  /\ handling \in HandlingSteps /\ camera \in Cameras \cup {None}
  /\ pc \in [Callers -> CallerSteps]
  /\ call \in [Callers -> Calls]
  /\ message \in [Callers -> Messages \cup {None}]
  /\ waiters \subseteq Callers

TypeOK == FieldsOK /\ messages \in Seq(Messages)

Init ==
  /\ messages = <<>> /\ looping = TRUE /\ mReleased = FALSE
  /\ mUVCCamera = None /\ mIsPreviewing = FALSE /\ mH264Consumer = FALSE
  /\ opened = {} /\ previewing = {}
  /\ handling = "next" /\ camera = None
  /\ pc = [c \in Callers |-> "idle"]
  /\ call = [c \in Callers |-> "none"]
  /\ message = [c \in Callers |-> None]
  /\ waiters = {}

-----------------------------------------------------------------------------
(* The callers.                                                             *)

CallerGoes(c, from, to) == pc[c] = from /\ pc' = [pc EXCEPT ![c] = to]

(* sendMessage: a looper that has quit drops the message. *)
Enqueue(m) == messages' = IF looping THEN Append(messages, m) ELSE messages

(* open, startPreview, startRecording: checkReleased, then send. *)
Request(c, m) ==
  /\ ~mReleased
  /\ Len(messages) < MaxQueue
  /\ CallerGoes(c, "idle", "send")
  /\ call' = [call EXCEPT ![c] = "none"]
  /\ message' = [message EXCEPT ![c] = m]
  /\ UNCHANGED <<looper, thread, fields, devices, waiters>>

Send(c) ==
  /\ CallerGoes(c, "send", "idle")
  /\ Enqueue(message[c])
  /\ message' = [message EXCEPT ![c] = None]
  /\ UNCHANGED <<looping, mReleased, thread, fields, devices, call, waiters>>

(* stopRecording does not check. *)
StopRecording(c) ==
  /\ pc[c] = "idle"
  /\ Len(messages) < MaxQueue
  /\ Enqueue("CAPTURE_STOP")
  /\ UNCHANGED <<looping, mReleased, thread, fields, devices, callers>>

StopPreview(c) ==
  /\ Len(messages) < MaxQueue
  /\ CallerGoes(c, "idle", "removeStart")
  /\ call' = [call EXCEPT ![c] = "stopPreview"]
  /\ UNCHANGED <<looper, thread, fields, devices, message, waiters>>

Close(c) ==
  /\ Len(messages) < MaxQueue
  /\ CallerGoes(c, "idle", "close")
  /\ call' = [call EXCEPT ![c] = "close"]
  /\ UNCHANGED <<looper, thread, fields, devices, message, waiters>>

Release(c) ==
  /\ Len(messages) < MaxQueue
  /\ CallerGoes(c, "idle", "close")
  /\ call' = [call EXCEPT ![c] = "release"]
  /\ mReleased' = TRUE
  /\ UNCHANGED <<messages, looping, thread, fields, devices, message, waiters>>

(* Where a call goes on after its stopPreview, and after its close. *)
AfterStop(c) == IF call[c] = "stopPreview" THEN "idle" ELSE "sendClose"
AfterClose(c) == IF call[c] = "release" THEN "sendRelease" ELSE "idle"

(* close: if the camera is open, stopPreview. *)
CloseIfOpened(c) ==
  /\ CallerGoes(c, "close", IF mUVCCamera # None THEN "removeStart" ELSE AfterClose(c))
  /\ UNCHANGED <<looper, thread, fields, devices, call, message, waiters>>

(* removeMessages(MSG_PREVIEW_START) *)
RemoveStart(c) ==
  /\ CallerGoes(c, "removeStart", "isRecording")
  /\ messages' = SelectSeq(messages, LAMBDA m : m # "PREVIEW_START")
  /\ UNCHANGED <<looping, mReleased, thread, fields, devices, call, message, waiters>>

StopIfRecording(c) ==
  /\ CallerGoes(c, "isRecording", "isPreviewing")
  /\ IF mUVCCamera # None /\ mH264Consumer THEN Enqueue("CAPTURE_STOP") ELSE UNCHANGED messages
  /\ UNCHANGED <<looping, mReleased, thread, fields, devices, call, message, waiters>>

CheckPreviewing(c) ==
  /\ CallerGoes(c, "isPreviewing",
                IF mUVCCamera # None /\ mIsPreviewing THEN "stop" ELSE AfterStop(c))
  /\ UNCHANGED <<looper, thread, fields, devices, call, message, waiters>>

(* synchronized: send MSG_PREVIEW_STOP and wait. *)
SendStopAndWait(c) ==
  /\ CallerGoes(c, "stop", "waiting")
  /\ Enqueue("PREVIEW_STOP")
  /\ waiters' = waiters \cup {c}
  /\ UNCHANGED <<looping, mReleased, thread, fields, devices, call, message>>

StopReturns(c) ==
  /\ c \notin waiters
  /\ CallerGoes(c, "waiting", AfterStop(c))
  /\ UNCHANGED <<looper, thread, fields, devices, call, message, waiters>>

SendClose(c) ==
  /\ CallerGoes(c, "sendClose", AfterClose(c))
  /\ Enqueue("CLOSE")
  /\ UNCHANGED <<looping, mReleased, thread, fields, devices, call, message, waiters>>

SendRelease(c) ==
  /\ CallerGoes(c, "sendRelease", "idle")
  /\ Enqueue("RELEASE")
  /\ UNCHANGED <<looping, mReleased, thread, fields, devices, call, message, waiters>>

CallerContinues(c) ==
  \/ Send(c) \/ CloseIfOpened(c) \/ RemoveStart(c) \/ StopIfRecording(c) \/ CheckPreviewing(c)
  \/ SendStopAndWait(c) \/ StopReturns(c) \/ SendClose(c) \/ SendRelease(c)

CallerNext(c) ==
  \/ \E m \in {"OPEN", "PREVIEW_START", "CAPTURE_START"} : Request(c, m)
  \/ StopRecording(c) \/ StopPreview(c) \/ Close(c) \/ Release(c)
  \/ CallerContinues(c)

-----------------------------------------------------------------------------
(* The camera thread.                                                       *)

HandlingGoes(from, to) == handling = from /\ handling' = to

(* handleMessage takes the first message. *)
Handle(m) ==
  /\ handling = "next"
  /\ looping
  /\ messages # <<>> /\ Head(messages) = m
  /\ messages' = Tail(messages)
  /\ UNCHANGED <<looping, mReleased>>

(* handleStopPusher joins the consumers, ...  *)
StopPusher == mH264Consumer' = FALSE

(* ... handleClose does that first, then takes mUVCCamera away, ... *)
DetachCamera ==
  /\ StopPusher
  /\ camera' = mUVCCamera
  /\ mUVCCamera' = None
  /\ UNCHANGED mIsPreviewing

(* ... and destroys it.  mIsPreviewing stays as it is. *)
DestroyCamera ==
  /\ opened' = opened \ {camera}
  /\ previewing' = previewing \ {camera}
  /\ camera' = None

(* Mutant: handleOpen does not close the camera that is open. *)
HandleOpenOver ==
  /\ Handle("OPEN")
  /\ handling' = "opening"
  /\ UNCHANGED <<camera, fields, devices, callers>>

HandleOpen ==
  /\ Handle("OPEN")
  /\ handling' = "closingToOpen"
  /\ DetachCamera
  /\ UNCHANGED <<devices, callers>>

(* Mutant: a close is ignored while mIsPreviewing is up. *)
HandleCloseUnlessPreviewing ==
  /\ Handle("CLOSE")
  /\ IF mIsPreviewing
     THEN UNCHANGED <<thread, fields>>
     ELSE handling' = "closing" /\ DetachCamera
  /\ UNCHANGED <<devices, callers>>

HandleClose ==
  /\ Handle("CLOSE")
  /\ handling' = "closing"
  /\ DetachCamera
  /\ UNCHANGED <<devices, callers>>

(* Mutant: handleRelease quits without handleClose. *)
HandleReleaseAtOnce ==
  /\ Handle("RELEASE")
  /\ handling' = "quit"
  /\ UNCHANGED <<camera, fields, devices, callers>>

HandleRelease ==
  /\ Handle("RELEASE")
  /\ handling' = "closingToQuit"
  /\ DetachCamera
  /\ UNCHANGED <<devices, callers>>

CameraClosed ==
  /\ \/ HandlingGoes("closing", "next") \/ HandlingGoes("closingToOpen", "opening")
     \/ HandlingGoes("closingToQuit", "quit")
  /\ DestroyCamera
  /\ UNCHANGED <<looper, fields, callers>>

(* new UVCCamera, open: which fails with an exception, or not. *)
CameraOpened ==
  /\ HandlingGoes("opening", "next")
  /\ \/ \E new \in Cameras \ opened :
          /\ opened' = opened \cup {new}
          /\ mUVCCamera' = new
     \/ UNCHANGED <<opened, mUVCCamera>>
  /\ UNCHANGED <<looper, camera, mIsPreviewing, mH264Consumer, previewing, callers>>

(* handleStartPreview: ignored without a camera, or when previewing; the    *)
(* size may be refused; the flag is raised after the preview was started.   *)
HandleStartPreview ==
  /\ Handle("PREVIEW_START")
  /\ \/ /\ mUVCCamera # None /\ ~mIsPreviewing
        /\ previewing' = previewing \cup {mUVCCamera}
        /\ handling' = "started"
     \/ UNCHANGED <<previewing, handling>>
  /\ UNCHANGED <<camera, fields, opened, callers>>

PreviewStarted ==
  /\ HandlingGoes("started", "next")
  /\ mIsPreviewing' = TRUE
  /\ UNCHANGED <<looper, camera, mUVCCamera, mH264Consumer, devices, callers>>

(* Mutant: the camera is not told to stop. *)
HandleStopPreviewNot ==
  /\ Handle("PREVIEW_STOP")
  /\ handling' = IF mIsPreviewing THEN "stopped" ELSE "next"
  /\ UNCHANGED <<camera, fields, devices, callers>>

(* handleStopPreview: nothing at all unless previewing; then stop the       *)
(* camera, lower the flag and notify.                                       *)
HandleStopPreview ==
  /\ Handle("PREVIEW_STOP")
  /\ handling' = IF mIsPreviewing THEN "stopped" ELSE "next"
  /\ previewing' = IF mIsPreviewing THEN previewing \ {mUVCCamera} ELSE previewing
  /\ UNCHANGED <<camera, fields, opened, callers>>

(* Mutant: the waiting callers are not notified. *)
PreviewStoppedSilent ==
  /\ HandlingGoes("stopped", "next")
  /\ mIsPreviewing' = FALSE
  /\ UNCHANGED <<looper, camera, mUVCCamera, mH264Consumer, devices, callers>>

PreviewStopped ==
  /\ HandlingGoes("stopped", "next")
  /\ mIsPreviewing' = FALSE
  /\ waiters' = {}
  /\ UNCHANGED <<looper, camera, mUVCCamera, mH264Consumer, devices, pc, call, message>>

HandleStartPusher ==
  /\ Handle("CAPTURE_START")
  /\ mH264Consumer' = (mH264Consumer \/ mUVCCamera # None)
  /\ UNCHANGED <<thread, mUVCCamera, mIsPreviewing, devices, callers>>

HandleStopPusher ==
  /\ Handle("CAPTURE_STOP")
  /\ StopPusher
  /\ UNCHANGED <<thread, mUVCCamera, mIsPreviewing, devices, callers>>

(* Looper.quit drops every message; ... *)
Quit ==
  /\ HandlingGoes("quit", "ending")
  /\ mReleased' = TRUE
  /\ looping' = FALSE
  /\ messages' = <<>>
  /\ UNCHANGED <<camera, fields, devices, callers>>

(* ... run ends with a notifyAll. *)
RunEnds ==
  /\ HandlingGoes("ending", "ended")
  /\ waiters' = {}
  /\ UNCHANGED <<looper, camera, fields, devices, pc, call, message>>

CameraThread ==
  \/ HandleOpen \/ HandleClose \/ HandleRelease \/ CameraClosed \/ CameraOpened
  \/ HandleStartPreview \/ PreviewStarted \/ HandleStopPreview \/ PreviewStopped
  \/ HandleStartPusher \/ HandleStopPusher \/ Quit \/ RunEnds

-----------------------------------------------------------------------------
Next == CameraThread \/ \E c \in Callers : CallerNext(c)

Spec == Init /\ [][Next]_vars

(* The looper goes on while it has messages, and a call that was made goes  *)
(* on; nobody need make one.                                                *)
Fairness == WF_vars(CameraThread) /\ \A c \in Callers : WF_vars(CallerContinues(c))

FairSpec == Spec /\ Fairness

-----------------------------------------------------------------------------
(* Properties.                                                              *)

(* handleStopPreview and the end of the thread notify; whoever they wake    *)
(* finds no preview running, however many threads start, stop, open and     *)
(* close at the same time.                                                  *)
NotifiedWhenStopped ==
  [][\A c \in waiters \ waiters' : previewing' = {}]_vars

(* Whenever the camera thread is at rest, a preview that runs is that of    *)
(* mUVCCamera, and mIsPreviewing is up, so that stopPreview does stop it.   *)
(* (The converse fails: handleClose leaves mIsPreviewing up, and the next   *)
(* camera inherits it.)                                                     *)
RunningPreviewIsKnown ==
  handling = "next" /\ previewing # {} => previewing = {mUVCCamera} /\ mIsPreviewing

(* No camera stays connected that the camera thread does not know any more: *)
(* opening one closes the one before.                                       *)
NoCameraForgotten == opened \subseteq {mUVCCamera, camera}

(* When the thread has ended, whatever was queued at the time of the        *)
(* release, no camera is open, no preview runs and no consumer.             *)
EndReleasesAll ==
  handling \in {"ending", "ended"} => opened = {} /\ previewing = {} /\ ~mH264Consumer

(* stopPreview "wait[s] for actually preview stopped to avoid releasing     *)
(* Surface/SurfaceTexture while preview is still running".  It returns at    *)
(* once while one is running only if the camera thread is between the start *)
(* of the preview and its flag, or is destroying the camera.                *)
StopMissesOnlyAStart ==
  [][\A c \in Callers :
       pc[c] = "isPreviewing" /\ pc'[c] \notin {"isPreviewing", "stop"} /\ previewing # {}
         => handling = "started" \/ camera # None]_vars

(* A caller that waits in stopPreview returns, if its message finds a       *)
(* preview: whatever is queued before, and whoever else stops, closes or    *)
(* releases.                                                                *)
StopIsNotified ==
  \A c \in Callers :
    (c \in waiters /\ mIsPreviewing /\ (\E i \in DOMAIN messages : messages[i] = "PREVIEW_STOP"))
      ~> c \notin waiters

(* A close that finds a camera open has it closed, and a release ends the   *)
(* thread, whatever was queued before, unless the caller hangs in the       *)
(* stopPreview that comes first.                                            *)
Hangs(c) == <>[](c \in waiters)

CallsTakeEffect ==
  \A c \in Callers :
    \/ Hangs(c)
    \/ /\ (call[c] = "close" /\ pc[c] = "removeStart") ~> mUVCCamera = None
       /\ (call[c] = "release" /\ pc[c] = "close") ~> handling = "ended"
=============================================================================
