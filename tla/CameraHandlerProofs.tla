------------------------- MODULE CameraHandlerProofs -------------------------
(***************************************************************************)
(* Proofs about CameraHandler, for any number of callers and cameras and   *)
(* messages of any number in the queue.                                    *)
(***************************************************************************)
EXTENDS CameraHandler, TLAPS

Closing == {"closing", "closingToOpen", "closingToQuit"}

(* What the camera thread knows at each of its steps.  mUVCCamera is given  *)
(* up before the camera is destroyed, and the local variable keeps it.      *)
CameraLife ==
  /\ mUVCCamera \in Cameras \cup {None} /\ camera \in Cameras \cup {None}
  /\ opened \subseteq Cameras /\ previewing \subseteq opened
  /\ opened \subseteq {mUVCCamera, camera}
  /\ mUVCCamera # None => mUVCCamera \in opened
  /\ mUVCCamera = None => mH264Consumer = FALSE
  /\ handling \notin Closing => camera = None
  /\ handling \in Closing \cup {"opening", "quit", "ending", "ended"} => mUVCCamera = None

(* mIsPreviewing is up whenever a preview runs, except between the two      *)
(* writes of handleStartPreview; and what the two handlers in between know. *)
FlagLife ==
  /\ mIsPreviewing \in BOOLEAN
  /\ handling \notin Closing /\ previewing # {} => mIsPreviewing = TRUE \/ handling = "started"
  /\ handling = "stopped" => previewing = {}

IInv == CameraLife /\ FlagLife

(* The constructor of the thread establishes the invariant.                 *)
LEMMA InitInv == Init => IInv
BY DEF Init, IInv, CameraLife, FlagLife, Closing

(* Only the camera thread writes what the invariant is about.               *)
LEMMA CallerKeeps ==
  ASSUME NEW c \in Callers, CallerNext(c)
  PROVE  UNCHANGED <<thread, fields, devices>>
BY DEF CallerNext, CallerContinues, Request, Send, StopRecording, StopPreview, Close, Release,
       CloseIfOpened, RemoveStart, StopIfRecording, CheckPreviewing, SendStopAndWait, StopReturns,
       SendClose, SendRelease, thread, fields, devices, callers

(* Every handler of the camera thread preserves the invariant.              *)
LEMMA ThreadStep ==
  ASSUME IInv, CameraThread
  PROVE  IInv'
<1> USE CallersAssumption
    DEF IInv, CameraLife, FlagLife, Closing, Handle, HandlingGoes, thread, fields, devices, callers
<1>1. CASE HandleOpen
  BY <1>1 DEF HandleOpen, DetachCamera, StopPusher
<1>2. CASE HandleClose
  BY <1>2 DEF HandleClose, DetachCamera, StopPusher
<1>3. CASE HandleRelease
  BY <1>3 DEF HandleRelease, DetachCamera, StopPusher
<1>4. CASE CameraClosed
  BY <1>4 DEF CameraClosed, DestroyCamera
<1>5. CASE CameraOpened
  BY <1>5 DEF CameraOpened
<1>6. CASE HandleStartPreview
  BY <1>6 DEF HandleStartPreview
<1>7. CASE PreviewStarted
  BY <1>7 DEF PreviewStarted
<1>8. CASE HandleStopPreview
  BY <1>8 DEF HandleStopPreview
<1>9. CASE PreviewStopped
  BY <1>9 DEF PreviewStopped
<1>10. CASE HandleStartPusher
  BY <1>10 DEF HandleStartPusher
<1>11. CASE HandleStopPusher
  BY <1>11 DEF HandleStopPusher, StopPusher
<1>12. CASE Quit \/ RunEnds
  BY <1>12 DEF Quit, RunEnds
<1> QED
  BY <1>1, <1>2, <1>3, <1>4, <1>5, <1>6, <1>7, <1>8, <1>9, <1>10, <1>11, <1>12 DEF CameraThread

(* Every step preserves the invariant.                                      *)
LEMMA StepInv == IInv /\ [Next]_vars => IInv'
<1> SUFFICES ASSUME IInv, [Next]_vars PROVE IInv'
  OBVIOUS
<1>1. CASE UNCHANGED <<thread, fields, devices>>
  BY <1>1 DEF IInv, CameraLife, FlagLife, thread, fields, devices
<1> QED
  BY <1>1, CallerKeeps, ThreadStep DEF Next, vars

(* The inductive invariant holds in every state.                            *)
THEOREM Invariance == Spec => []IInv
BY InitInv, StepInv, PTL DEF Spec

(* Opening a camera closes the one before, and closing destroys the one     *)
(* that was open: no connected camera is ever lost sight of.                *)
THEOREM NoneForgotten == Spec => []NoCameraForgotten
<1>1. IInv => NoCameraForgotten
  BY DEF IInv, CameraLife, NoCameraForgotten
<1> QED
  BY <1>1, Invariance, PTL

(* At rest, a running preview is that of mUVCCamera and mIsPreviewing tells. *)
THEOREM PreviewKnown == Spec => []RunningPreviewIsKnown
<1>1. IInv => RunningPreviewIsKnown
  BY CallersAssumption DEF IInv, CameraLife, FlagLife, Closing, RunningPreviewIsKnown
<1> QED
  BY <1>1, Invariance, PTL

(* After the end of the thread nothing is left open or running.             *)
THEOREM EndReleases == Spec => []EndReleasesAll
<1>1. IInv => EndReleasesAll
  BY CallersAssumption DEF IInv, CameraLife, Closing, EndReleasesAll
<1> QED
  BY <1>1, Invariance, PTL

(* Whoever is notified in stopPreview finds no preview running, for any     *)
(* number of callers.                                                       *)
THEOREM NotifiedStopped == Spec => NotifiedWhenStopped
<1>1. IInv /\ [Next]_vars => [\A c \in waiters \ waiters' : previewing' = {}]_vars
  <2> SUFFICES ASSUME IInv, Next, NEW c \in waiters \ waiters' PROVE previewing' = {}
    OBVIOUS
  <2>1. ASSUME NEW d \in Callers, CallerNext(d) PROVE FALSE
    BY <2>1 DEF CallerNext, CallerContinues, Request, Send, StopRecording, StopPreview, Close,
                Release, CloseIfOpened, RemoveStart, StopIfRecording, CheckPreviewing,
                SendStopAndWait, StopReturns, SendClose, SendRelease, callers
  <2>2. PreviewStopped \/ RunEnds
    BY <2>1 DEF Next, CameraThread, HandleOpen, HandleClose, HandleRelease, CameraClosed,
                CameraOpened, HandleStartPreview, PreviewStarted, HandleStopPreview,
                HandleStartPusher, HandleStopPusher, Quit, callers
  <2> QED
    BY <2>2, CallersAssumption
    DEF IInv, CameraLife, FlagLife, Closing, PreviewStopped, RunEnds, HandlingGoes, devices
<1> QED
  BY <1>1, Invariance, PTL DEF Spec, NotifiedWhenStopped

(* Every field, program counter and local variable keeps its type.          *)
THEOREM FieldsTyped == Spec => []FieldsOK
<1> USE DEF FieldsOK, CallerSteps, HandlingSteps, Calls, Messages, looper, thread, fields, devices,
            callers
<1>1. Init => FieldsOK
  BY DEF Init
<1>2. FieldsOK /\ [Next]_vars => FieldsOK'
  <2> SUFFICES ASSUME FieldsOK, [Next]_vars PROVE FieldsOK'
    OBVIOUS
  <2>1. ASSUME NEW c \in Callers, CallerNext(c) PROVE FieldsOK'
    <3> USE DEF CallerGoes, AfterStop, AfterClose
    <3>1. ASSUME NEW m \in Messages, Request(c, m) PROVE FieldsOK'
      BY <3>1 DEF Request
    <3>2. CASE Send(c) \/ StopRecording(c)
      BY <3>2 DEF Send, StopRecording
    <3>3. CASE StopPreview(c) \/ Close(c) \/ Release(c)
      BY <3>3 DEF StopPreview, Close, Release
    <3>4. CASE CloseIfOpened(c) \/ RemoveStart(c) \/ StopIfRecording(c) \/ CheckPreviewing(c)
      BY <3>4 DEF CloseIfOpened, RemoveStart, StopIfRecording, CheckPreviewing
    <3>5. CASE SendStopAndWait(c) \/ StopReturns(c) \/ SendClose(c) \/ SendRelease(c)
      BY <3>5 DEF SendStopAndWait, StopReturns, SendClose, SendRelease
    <3> QED
      BY <2>1, <3>1, <3>2, <3>3, <3>4, <3>5 DEF CallerNext, CallerContinues
  <2>2. CASE CameraThread
    <3> USE DEF Handle, HandlingGoes
    <3>1. CASE HandleOpen \/ HandleClose \/ HandleRelease
      BY <3>1 DEF HandleOpen, HandleClose, HandleRelease, DetachCamera, StopPusher
    <3>2. CASE CameraClosed \/ CameraOpened
      BY <3>2 DEF CameraClosed, DestroyCamera, CameraOpened
    <3>3. CASE PreviewStarted \/ HandleStopPreview \/ PreviewStopped
      BY <3>3 DEF PreviewStarted, HandleStopPreview, PreviewStopped
    <3>4. CASE HandleStartPreview
      BY <3>4 DEF HandleStartPreview
    <3>5. CASE HandleStopPusher \/ Quit \/ RunEnds
      BY <3>5 DEF HandleStopPusher, StopPusher, Quit, RunEnds
    <3>6. CASE HandleStartPusher
      BY <3>6 DEF HandleStartPusher
    <3> QED
      BY <2>2, <3>1, <3>2, <3>3, <3>4, <3>5, <3>6 DEF CameraThread
  <2>3. CASE UNCHANGED vars
    BY <2>3 DEF vars
  <2> QED
    BY <2>1, <2>2, <2>3 DEF Next
<1> QED
  BY <1>1, <1>2, PTL DEF Spec

(* stopPreview takes a running preview for none only while the camera thread *)
(* starts it or destroys its camera, for any number of callers.             *)
THEOREM StopMisses == Spec => StopMissesOnlyAStart
<1>1. IInv /\ FieldsOK /\ [Next]_vars =>
      [\A c \in Callers :
         pc[c] = "isPreviewing" /\ pc'[c] \notin {"isPreviewing", "stop"} /\ previewing # {}
           => handling = "started" \/ camera # None]_vars
  <2> SUFFICES ASSUME IInv, FieldsOK, Next, NEW c \in Callers,
                      pc[c] = "isPreviewing", pc'[c] \notin {"isPreviewing", "stop"}, previewing # {}
               PROVE  handling = "started" \/ camera # None
    OBVIOUS
  <2>1. ~CameraThread
    BY DEF CameraThread, HandleOpen, HandleClose, HandleRelease, CameraClosed, CameraOpened,
           HandleStartPreview, PreviewStarted, HandleStopPreview, PreviewStopped,
           HandleStartPusher, HandleStopPusher, Quit, RunEnds, callers
  <2>2. PICK d \in Callers : CallerNext(d)
    BY <2>1 DEF Next
  <2>3. CheckPreviewing(c)
    BY <2>2 DEF FieldsOK, CallerNext, CallerContinues, Request, Send, StopRecording, StopPreview,
                Close, Release, CloseIfOpened, RemoveStart, StopIfRecording, CheckPreviewing,
                SendStopAndWait, StopReturns, SendClose, SendRelease, CallerGoes, callers
  <2>4. mUVCCamera = None \/ ~mIsPreviewing
    BY <2>3 DEF CheckPreviewing, CallerGoes, FieldsOK
  <2> QED
    BY <2>4, CallersAssumption DEF IInv, CameraLife, FlagLife, Closing
<1> QED
  BY <1>1, Invariance, FieldsTyped, PTL DEF Spec, StopMissesOnlyAStart

=============================================================================
