------------------------------ MODULE UvcDevice ------------------------------
(***************************************************************************)
(* Opening and closing a camera: UVCCamera::connect and release            *)
(* (UVCCamera/UVCCamera.cpp), uvc_open, uvc_close and the status transfer  *)
(* (libuvc/src/device.c), and the context with its event thread            *)
(* (libuvc/src/init.c), on top of the event handling of libusb.            *)
(*                                                                         *)
(* Client, one of the callers, connects, releases and destroys; calls of   *)
(* UVCCamera are synchronized in UVCCamera.java.  The other callers are    *)
(* threads that release joins first (the preview thread).                  *)
(***************************************************************************)
EXTENDS LibusbEvents

CONSTANT Client

ASSUME ClientAssumption == Client \in Callers

VARIABLES
  context,             \* mContext is there
  kill_handler_thread,
  open_devices,        \* TRUE: the list of the context holds the handle
  devh,                \* TRUE: the uvc_device_handle is allocated
  usb_devh,            \* TRUE: the libusb_device_handle is open
  ref,                 \* the references to the uvc_device; 0: freed
  callbacks,           \* TRUE: mStatusCallback and mButtonCallback are there
  status_cb,           \* TRUE: devh->status_cb and button_cb are set
  clientPc,            \* where Client is in connect, release or destroy
  mUsbFs, mFd,         \* TRUE: mUsbFs is a string, mFd the duplicate, not 0
  duplicates,          \* duplicates of the descriptor that are open
  result,              \* what connect returned last
  zero_closed          \* TRUE: release has closed descriptor 0, since connect

handle == <<open_devices, devh, usb_devh, ref>>
client == <<context, kill_handler_thread, clientPc>>
object == <<callbacks, status_cb>>
files  == <<mUsbFs, mFd, duplicates, result, zero_closed>>
device == <<handle, client, object, files>>
vars   == <<eventVars, device>>

ClientSteps ==
  {"idle", "find", "open", "claim", "undo", "unref", "thread", "register",
   "delete", "kill", "close", "lock", "doClose", "modified", "unlockEvents", "wake",
   "join", "free", "unrefDevice", "closeFile"}

TypeOK ==
  /\ EventsTypeOK
  /\ context \in BOOLEAN /\ kill_handler_thread \in BOOLEAN /\ open_devices \in BOOLEAN
  /\ devh \in BOOLEAN /\ usb_devh \in BOOLEAN /\ callbacks \in BOOLEAN /\ status_cb \in BOOLEAN
  /\ mUsbFs \in BOOLEAN /\ mFd \in BOOLEAN /\ zero_closed \in BOOLEAN
  /\ ref \in 0..2 /\ duplicates \in 0..2
  /\ clientPc \in ClientSteps /\ result \in {"none", "ok", "error"}

Init ==
  /\ EventsInit
  /\ context = FALSE /\ kill_handler_thread = FALSE
  /\ open_devices = FALSE /\ devh = FALSE /\ usb_devh = FALSE /\ ref = 0
  /\ callbacks = FALSE /\ status_cb = FALSE
  /\ clientPc = "idle"
  /\ mUsbFs = FALSE /\ mFd = FALSE /\ duplicates = 0 /\ result = "none" /\ zero_closed = FALSE

ClientGoes(from, to) == clientPc = from /\ clientPc' = to

(* mDeviceHandle is set between the calls of connect and release. *)
Open == open_devices
Idle == clientPc = "idle" /\ \A c \in Callers : pc[c] = "idle"

(* A status callback runs between these steps of the thread that reports it. *)
InStatusCallback == \E t \in Threads : pc[t] \in {"status", "notify", "resubmit"}
StatusMutexFree  == \A t \in Threads : pc[t] # "notify"

-----------------------------------------------------------------------------
(* UVCCamera::connect: uvc_init2 unless there is a context, ... *)
Connect(ok) ==
  /\ Idle /\ ~Open
  /\ mUsbFs' = TRUE
  /\ ok \in {TRUE, context}
  /\ context' = ok
  /\ ClientGoes("idle", IF ok THEN "find" ELSE "idle")
  /\ result' = IF ok THEN result ELSE "error"
  /\ duplicates' = IF ok THEN duplicates + 1 ELSE duplicates
  /\ zero_closed' = FALSE
  /\ UNCHANGED <<eventVars, handle, kill_handler_thread, object, mFd>>

(* ... uvc_get_device_with_fd, ... *)
FindDevice ==
  /\ ClientGoes("find", "open")
  /\ ref' = 1
  /\ UNCHANGED <<eventVars, open_devices, devh, usb_devh, context, kill_handler_thread, object, files>>

NoDevice ==
  /\ ClientGoes("find", "idle")
  /\ duplicates' = duplicates - 1 /\ result' = "error"
  /\ UNCHANGED <<eventVars, handle, context, kill_handler_thread, object, mUsbFs, mFd, zero_closed>>

(* ... uvc_open: libusb_open, ... *)
OpenDevice ==
  /\ ClientGoes("open", "claim")
  /\ attached
  /\ usb_devh' = TRUE /\ pollfd' = TRUE
  /\ devh' = TRUE /\ status_cb' = FALSE
  /\ ref' = ref + 1
  /\ UNCHANGED <<locks, waiters, pc, queue, attached, open_devices, context, kill_handler_thread,
                 callbacks, files>>

OpenFails ==
  /\ ClientGoes("open", "unref")
  /\ UNCHANGED <<eventVars, handle, context, kill_handler_thread, object, files>>

(* ... uvc_get_device_info, uvc_claim_if and the submission of the status   *)
(* transfer, if the camera has a status endpoint; ...                       *)
ClaimInterface(statusEndpoint) ==
  /\ ClientGoes("claim", "thread")
  /\ flying' = IF statusEndpoint THEN flying \cup {Status} ELSE flying
  /\ submitted' = IF statusEndpoint THEN 1 ELSE 0
  /\ UNCHANGED <<locks, waiters, pc, urbs, completed, bus, handle, context, kill_handler_thread,
                 object, files>>

(* ... when one of them fails uvc_open closes the device with libusb_close. *)
ClaimFails ==
  /\ ClientGoes("claim", "close")
  /\ UNCHANGED <<eventVars, handle, context, kill_handler_thread, object, files>>

(* The event thread is started for the first open device of the context. *)
StartHandlerThread ==
  /\ ClientGoes("thread", "register")
  /\ IF open_devices THEN UNCHANGED pc ELSE Goes(Handler, "check")
  /\ open_devices' = TRUE
  /\ UNCHANGED <<locks, waiters, queue, bus, devh, usb_devh, ref, context, kill_handler_thread,
                 object, files>>

(* The callback objects register themselves under devh->status_mutex. *)
RegisterCallbacks ==
  /\ ClientGoes("register", "idle")
  /\ StatusMutexFree
  /\ callbacks' = TRUE /\ status_cb' = TRUE
  /\ mFd' = TRUE /\ result' = "ok"
  /\ UNCHANGED <<eventVars, handle, context, kill_handler_thread, mUsbFs, duplicates, zero_closed>>

(* Mutant: the duplicate is not closed. *)
UnrefOnly ==
  /\ ClientGoes("unref", "idle")
  /\ ref' = ref - 1 /\ result' = "error"
  /\ UNCHANGED <<eventVars, open_devices, devh, usb_devh, context, kill_handler_thread, object,
                 mUsbFs, mFd, duplicates, zero_closed>>

(* connect after a failed uvc_open: uvc_unref_device and close(fd). *)
UnrefAfterFailure ==
  /\ ClientGoes("unref", "idle")
  /\ ref' = ref - 1
  /\ duplicates' = duplicates - 1 /\ result' = "error"
  /\ UNCHANGED <<eventVars, open_devices, devh, usb_devh, context, kill_handler_thread, object,
                 mUsbFs, mFd, zero_closed>>

-----------------------------------------------------------------------------
(* UVCCamera::release, once the preview is stopped. *)
Release ==
  /\ Idle
  /\ ClientGoes("idle", IF Open THEN "delete" ELSE "unrefDevice")
  /\ UNCHANGED <<eventVars, handle, context, kill_handler_thread, object, files>>

(* The callback objects are deleted, and stay registered. *)
DeleteCallbacks ==
  /\ ClientGoes("delete", "kill")
  /\ callbacks' = FALSE
  /\ UNCHANGED <<eventVars, handle, context, kill_handler_thread, status_cb, files>>

(* Mutant: the flag is not set. *)
KillNobody ==
  /\ ClientGoes("kill", "close")
  /\ UNCHANGED <<eventVars, handle, context, kill_handler_thread, object, files>>

(* uvc_close: the event thread of the last device shall end. *)
KillHandlerThread ==
  /\ ClientGoes("kill", "close")
  /\ kill_handler_thread' = TRUE
  /\ UNCHANGED <<eventVars, handle, context, object, files>>

(* libusb_close: interrupt whoever polls, ... *)
InterruptHandlers ==
  /\ ClientGoes("close", "lock")
  /\ pollfd_modify' = 1 /\ ctrl_pipe' = 1
  /\ UNCHANGED <<events_lock, event_handler_active, waiters, pc, queue, bus,
                 handle, context, kill_handler_thread, object, files>>

(* Mutant: without the lock. *)
LockForCloseWithout ==
  /\ ClientGoes("lock", "doClose")
  /\ UNCHANGED <<eventVars, handle, context, kill_handler_thread, object, files>>

(* ... take events_lock, ... *)
LockForClose ==
  /\ ClientGoes("lock", "doClose")
  /\ events_lock = None
  /\ events_lock' = Client /\ event_handler_active' = TRUE
  /\ UNCHANGED <<pollfd_modify, ctrl_pipe, waiters, pc, queue, bus,
                 handle, context, kill_handler_thread, object, files>>

(* ... drop the transfers in flight and close the handle (do_close, whose   *)
(* own unlocking wakes the waiting threads), ...                            *)
DoClose ==
  /\ ClientGoes("doClose", "modified")
  /\ ctrl_pipe' = 0
  /\ flying' = {} /\ urbs' = <<>> /\ pollfd' = FALSE /\ usb_devh' = FALSE
  /\ event_handler_active' = FALSE
  /\ WakeAll(None, "idle")
  /\ UNCHANGED <<pollfd_modify, events_lock, completed, submitted, attached,
                 open_devices, devh, ref, context, kill_handler_thread, object, files>>

(* ... and let the threads handle events again. *)
CloseModified ==
  /\ ClientGoes("modified", "unlockEvents")
  /\ pollfd_modify' = 0
  /\ UNCHANGED <<ctrl_pipe, events_lock, event_handler_active, waiters, pc, queue, bus,
                 handle, context, kill_handler_thread, object, files>>

UnlockAfterClose ==
  /\ ClientGoes("unlockEvents", "wake")
  /\ events_lock' = None /\ event_handler_active' = FALSE
  /\ UNCHANGED <<pollfd_modify, ctrl_pipe, waiters, pc, queue, bus,
                 handle, context, kill_handler_thread, object, files>>

(* Mutant: do_close has woken them, so they are not woken again. *)
WakeNobody ==
  /\ ClientGoes("wake", "join")
  /\ UNCHANGED <<eventVars, handle, context, kill_handler_thread, object, files>>

WakeAfterClose ==
  /\ ClientGoes("wake", "join")
  /\ WakeAll(None, "idle")
  /\ UNCHANGED <<locks, queue, bus, handle, context, kill_handler_thread, object, files>>

(* Back in uvc_close: pthread_join, if it has asked the thread to end. *)
JoinHandlerThread ==
  /\ ClientGoes("join", "free")
  /\ open_devices => pc[Handler] = "exited"
  /\ UNCHANGED <<eventVars, handle, context, kill_handler_thread, object, files>>

(* uvc_unref_device and uvc_free_devh, in uvc_close or where uvc_open fails. *)
FreeHandle ==
  /\ ClientGoes("free", IF open_devices THEN "unrefDevice" ELSE "unref")
  /\ open_devices' = FALSE /\ devh' = FALSE
  /\ ref' = ref - 1
  /\ UNCHANGED <<eventVars, usb_devh, context, kill_handler_thread, object, files>>

(* UVCCamera::release: unref mDevice, if any, ... *)
ReleaseDevice ==
  /\ ClientGoes("unrefDevice", "closeFile")
  /\ ref' = IF ref > 0 THEN ref - 1 ELSE 0
  /\ UNCHANGED <<eventVars, open_devices, devh, usb_devh, context, kill_handler_thread, object, files>>

(* ... and close mFd, which is 0 when connect has failed, if mUsbFs is set. *)
CloseFile ==
  /\ ClientGoes("closeFile", "idle")
  /\ zero_closed' = IF mUsbFs /\ ~mFd THEN TRUE ELSE zero_closed
  /\ duplicates' = IF mUsbFs /\ mFd THEN duplicates - 1 ELSE duplicates
  /\ mUsbFs' = FALSE /\ mFd' = FALSE
  /\ UNCHANGED <<eventVars, handle, context, kill_handler_thread, object, result>>

(* The destructor: after release, uvc_exit with no open device and free.    *)
(* The next camera is another object.                                       *)
Destroy ==
  /\ Idle /\ ~Open /\ ~mUsbFs
  /\ context
  /\ context' = FALSE /\ kill_handler_thread' = FALSE
  /\ Goes(Handler, "idle")
  /\ result' = "none" /\ zero_closed' = FALSE
  /\ UNCHANGED <<locks, waiters, queue, bus, handle, clientPc, object, mUsbFs, mFd, duplicates>>

-----------------------------------------------------------------------------
(* The status transfer, reported by thread t: with a bad status it is not   *)
(* submitted again; uvc_process_status_xfer calls status_cb or button_cb,   *)
(* if set, under status_mutex, or nothing when the report is for neither.   *)
StatusFails(t) ==
  /\ pc[t] = "status"
  /\ Goes(t, "reap")
  /\ UNCHANGED <<locks, waiters, queue, bus, device>>

NotifyStatus(t) ==
  /\ pc[t] = "status"
  /\ status_cb /\ StatusMutexFree
  /\ Goes(t, "notify")
  /\ UNCHANGED <<locks, waiters, queue, bus, device>>

ReturnStatus(t) ==
  /\ pc[t] \in {"status", "notify"}
  /\ Goes(t, "resubmit")
  /\ UNCHANGED <<locks, waiters, queue, bus, device>>

ResubmitStatus(t) ==
  /\ pc[t] = "resubmit"
  /\ (attached /\ Submit(Status)) \/ UNCHANGED <<flying, submitted>>
  /\ Goes(t, "reap")
  /\ UNCHANGED <<locks, waiters, urbs, completed, bus, device>>

(* _uvc_handle_events tests kill_handler_thread before every round. *)
HandlerLoop ==
  /\ pc[Handler] = "check"
  /\ Goes(Handler, IF kill_handler_thread THEN "exited" ELSE "try")
  /\ UNCHANGED <<locks, waiters, queue, bus, device>>

(* A control transfer on an open device, for Client between other calls. *)
ControlTransfer(c) ==
  /\ open_devices
  /\ clientPc = "idle"
  /\ SubmitControl(c)
  /\ UNCHANGED device

(* Another camera is plugged in. *)
Plug ==
  /\ Idle /\ ~Open
  /\ ~attached
  /\ attached' = TRUE
  /\ UNCHANGED <<locks, waiters, pc, queue, pollfd, device>>

ConnectSteps ==
  \/ FindDevice \/ NoDevice \/ OpenDevice \/ OpenFails
  \/ (\E e \in BOOLEAN : ClaimInterface(e)) \/ ClaimFails
  \/ StartHandlerThread \/ RegisterCallbacks \/ UnrefAfterFailure

CloseSteps ==
  \/ DeleteCallbacks \/ KillHandlerThread
  \/ InterruptHandlers \/ LockForClose \/ DoClose \/ CloseModified
  \/ UnlockAfterClose \/ WakeAfterClose \/ JoinHandlerThread
  \/ FreeHandle \/ ReleaseDevice \/ CloseFile

StatusSteps(t) == StatusFails(t) \/ NotifyStatus(t) \/ ReturnStatus(t) \/ ResubmitStatus(t)

ThreadStep(t) ==
  \/ HandleEvents(t) /\ UNCHANGED device
  \/ StatusSteps(t)
  \/ t = Handler /\ HandlerLoop

Next ==
  \/ (\E ok \in BOOLEAN : Connect(ok)) \/ ConnectSteps
  \/ Release \/ CloseSteps \/ Destroy
  \/ \E c \in Callers : ControlTransfer(c)
  \/ \E t \in Threads : ThreadStep(t)
  \/ \E t \in Threads : (PollTimeout(t) \/ WaitTimeout(t)) /\ UNCHANGED device
  \/ (\E x \in Transfers : Finish(x)) /\ UNCHANGED device
  \/ Unplug /\ UNCHANGED device
  \/ Plug

(* The threads run; poll returns after 60 seconds at the latest; the camera *)
(* answers a control request as long as it is plugged in.  Nothing is       *)
(* assumed of the timeout of a sleeping thread.                             *)
Fairness ==
  /\ WF_vars(ConnectSteps \/ CloseSteps)
  /\ \A t \in Threads :
       /\ WF_vars(ThreadStep(t))
       /\ WF_vars(PollTimeout(t) /\ UNCHANGED device)
  /\ \A c \in Callers : WF_vars(Finish(c) /\ UNCHANGED device)

Spec == Init /\ [][Next]_vars /\ Fairness

-----------------------------------------------------------------------------
(* Properties.                                                              *)

(* The pre-condition of uvc_free_devh, and more: while a thread reports the *)
(* status transfer the handle of libuvc and that of libusb are both there.  *)
(* Nothing cancels the transfer: what protects the handles is events_lock,  *)
(* and that do_close drops the transfers that have not been reported.       *)
(* release deletes the callback objects and leaves them registered, so a    *)
(* thread may run a callback of a deleted object; but only until            *)
(* libusb_close has the lock, never later and never in another session.     *)
CallbacksEndAtClose ==
  /\ InStatusCallback => devh /\ usb_devh
  /\ ~StatusMutexFree /\ ~callbacks => clientPc \in {"kill", "close", "lock"}

(* A thread sleeps in libusb_wait_for_event only while a step that wakes it *)
(* is still to come: somebody holds the lock, or is about to broadcast.     *)
SleepersAreWoken ==
  waiters # {} => \/ event_handler_active \/ pollfd_modify > 0
                  \/ clientPc \in {"unlockEvents", "wake"}
                  \/ \E t \in Threads : pc[t] = "broadcast"

(* Whatever step of connect fails, and after every release, no reference,   *)
(* no handle and no duplicate of the descriptor is left; and release closes *)
(* descriptor 0, which is not its own, only after a connect that failed.    *)
NothingIsLeft ==
  /\ clientPc = "idle" /\ ~Open => ref = 0 /\ ~devh /\ ~usb_devh /\ duplicates = 0
  /\ zero_closed => result = "error"

(* Every control transfer returns, whoever handles the events meanwhile,    *)
(* with the event thread gone or the camera unplugged too.                  *)
ControlReturns == \A c \in Callers : pc[c] # "idle" ~> pc[c] = "idle"

(* release, and so the join of the event thread, always ends.               *)
ReleaseReturns == clientPc = "delete" ~> clientPc = "idle"
=============================================================================
