--------------------------- MODULE UvcDeviceProofs ---------------------------
(***************************************************************************)
(* Proofs about UvcDevice, for any number of calling threads and of        *)
(* transfers.                                                              *)
(*                                                                         *)
(* The argument: nobody reports a transfer without events_lock.  While the *)
(* client connects or releases, no other thread but that of                *)
(* _uvc_handle_events is in libusb; libusb_close takes the lock from it    *)
(* before the handle goes, and the device is no longer polled when it      *)
(* gives the lock back.                                                    *)
(***************************************************************************)
EXTENDS UvcDevice, TLAPS

(* The steps at which a thread has events_lock, and reports transfers. *)
Inside    == {"locked", "poll", "reap", "status", "notify", "resubmit", "unlock"}
Reporting == {"reap", "status", "notify", "resubmit"}

(* The steps of libusb_close, before and after the handle is closed. *)
Closing == {"close", "lock", "doClose"}
Closed  == {"modified", "unlockEvents", "wake", "join", "free"}

(* Who is in libusb, who has the lock, who sleeps. *)
ThreadLife ==
  /\ clientPc # "idle" \/ ~open_devices => \A c \in Callers : pc[c] = "idle"
  /\ clientPc = "free" \/ ~open_devices => pc[Handler] \in {"idle", "exited"}
  /\ \A t \in Threads : pc[t] \in Inside => events_lock = t
  /\ clientPc \in {"doClose", "modified", "unlockEvents"} => events_lock = Client
  /\ \A t \in Threads : t \in waiters <=> pc[t] = "asleep"

(* What there is of a session, at each step of the client. *)
SessionLife ==
  /\ usb_devh <=> \/ clientPc \in {"claim", "thread", "register", "delete", "kill"} \cup Closing
                  \/ clientPc = "idle" /\ open_devices
  /\ devh <=> usb_devh \/ clientPc \in Closed
  /\ open_devices => clientPc \in {"idle", "register", "delete", "kill"} \cup Closing \cup Closed
  /\ clientPc \in {"register", "delete", "kill"} => open_devices

(* References to the device and duplicates of the descriptor. *)
FileLife ==
  /\ ref = IF devh THEN 2
           ELSE IF clientPc \in {"open", "unref"} \/ (clientPc = "unrefDevice" /\ mFd) THEN 1 ELSE 0
  /\ duplicates = IF \/ devh \/ clientPc \in {"find", "open", "unref"}
                     \/ clientPc \in {"unrefDevice", "closeFile"} /\ mFd THEN 1 ELSE 0
  /\ clientPc \in {"find", "open", "claim", "thread", "register"} => mUsbFs
  /\ mFd => mUsbFs /\ (open_devices \/ clientPc \in {"unrefDevice", "closeFile"})
  /\ open_devices => (mFd <=> clientPc # "register")
  /\ zero_closed => result = "error" /\ ~open_devices /\ clientPc \in {"idle", "unrefDevice", "closeFile"}
  /\ mUsbFs /\ ~mFd /\ clientPc \in {"idle", "unrefDevice", "closeFile"} => result = "error"

(* Who reports a transfer does it on an open device, before libusb_close    *)
(* has the lock; the objects of the callbacks are there until they are      *)
(* deleted.                                                                 *)
CallbackLife ==
  /\ pollfd => usb_devh
  /\ \A t \in Threads : pc[t] \in Reporting =>
       open_devices /\ clientPc \in {"idle", "register", "delete", "kill", "close", "lock"}
  /\ clientPc \in {"claim", "thread", "register"} => ~status_cb
  /\ open_devices /\ clientPc \in {"idle", "delete"} => callbacks
  /\ \A t \in Threads : pc[t] = "notify" => callbacks \/ clientPc \in {"kill", "close", "lock"}

IInv == TypeOK /\ ThreadLife /\ SessionLife /\ FileLife /\ CallbackLife /\ SleepersAreWoken

(* Nothing is open and no thread is in libusb.                              *)
LEMMA InitInv == Init => IInv
<1> SUFFICES ASSUME Init PROVE IInv
  OBVIOUS
<1> USE ThreadsAssumption, SubmittedAssumption, ClientAssumption DEF Init, EventsInit, Threads
<1>1. EventsTypeOK
  <2>1. pollfd_modify \in 0..1 /\ ctrl_pipe \in 0..1 /\ submitted \in 0..MaxSubmitted
    OBVIOUS
  <2>2. events_lock \in Threads \cup {None} /\ event_handler_active \in BOOLEAN /\ waiters \subseteq Threads
    OBVIOUS
  <2>3. pc \in [Threads -> Steps]
    BY DEF Steps
  <2>4. flying \subseteq Transfers /\ urbs \in Seq(Transfers) /\ completed \subseteq Callers
    OBVIOUS
  <2>5. pollfd \in BOOLEAN /\ attached \in BOOLEAN
    OBVIOUS
  <2> HIDE DEF Init, EventsInit, Threads
  <2> QED
    BY <2>1, <2>2, <2>3, <2>4, <2>5 DEF EventsTypeOK
<1>2. TypeOK
  <2>1. ref \in 0..2 /\ duplicates \in 0..2 /\ clientPc \in ClientSteps /\ result \in {"none", "ok", "error"}
    BY DEF ClientSteps
  <2>2. /\ context \in BOOLEAN /\ kill_handler_thread \in BOOLEAN /\ open_devices \in BOOLEAN
        /\ devh \in BOOLEAN /\ usb_devh \in BOOLEAN /\ callbacks \in BOOLEAN /\ status_cb \in BOOLEAN
        /\ mUsbFs \in BOOLEAN /\ mFd \in BOOLEAN /\ zero_closed \in BOOLEAN
    OBVIOUS
  <2> HIDE DEF Init, EventsInit, Threads
  <2> QED
    BY <1>1, <2>1, <2>2 DEF TypeOK
<1>3. ThreadLife
  BY DEF ThreadLife, Inside
<1>4. SessionLife /\ FileLife
  BY DEF SessionLife, FileLife, Closing, Closed
<1>5. CallbackLife /\ SleepersAreWoken
  BY DEF CallbackLife, SleepersAreWoken, Reporting
<1> QED
  BY <1>2, <1>3, <1>4, <1>5 DEF IInv

(* A step of connect preserves the invariant.                               *)
LEMMA ConnectStep ==
  ASSUME IInv, (\E ok \in BOOLEAN : Connect(ok)) \/ ConnectSteps
  PROVE  IInv'
<1> USE ThreadsAssumption, SubmittedAssumption, ClientAssumption
    DEF IInv, Threads, Transfers, locks, queue, bus, eventVars, handle, client, object, files, device, ClientGoes, Idle, Open, Goes
<1>1. CASE \E ok \in BOOLEAN : Connect(ok)
  <2>1. TypeOK'
    <3>1. mUsbFs' \in BOOLEAN /\ context' \in BOOLEAN /\ zero_closed' \in BOOLEAN
      BY <1>1 DEF Connect
    <3>2. clientPc' \in ClientSteps
      BY <1>1 DEF Connect, ClientSteps
    <3>3. duplicates' \in 0..2
      BY <1>1 DEF Connect, TypeOK, FileLife, SessionLife, Closing, Closed
    <3>4. result' \in {"none", "ok", "error"}
      BY <1>1 DEF Connect, TypeOK
    <3> QED
      BY <1>1, <3>1, <3>2, <3>3, <3>4 DEF Connect, TypeOK, EventsTypeOK
  <2>2. ThreadLife'
    BY <1>1 DEF Connect, TypeOK, EventsTypeOK, ThreadLife, SessionLife, Inside, Closing, Closed
  <2>3. SessionLife'
    BY <1>1 DEF Connect, TypeOK, SessionLife, Closing, Closed
  <2>4. FileLife'
    BY <1>1 DEF Connect, TypeOK, SessionLife, FileLife, Closing, Closed
  <2>5. CallbackLife'
    BY <1>1 DEF Connect, TypeOK, EventsTypeOK, ThreadLife, SessionLife, CallbackLife, Inside, Reporting, Closing, Closed
  <2>6. SleepersAreWoken'
    BY <1>1 DEF Connect, TypeOK, EventsTypeOK, ThreadLife, SleepersAreWoken
  <2> QED
    BY <2>1, <2>2, <2>3, <2>4, <2>5, <2>6
<1>2. CASE FindDevice
  <2>1. TypeOK'
    BY <1>2 DEF FindDevice, TypeOK, EventsTypeOK, Steps, ClientSteps, FileLife
  <2>2. ThreadLife'
    BY <1>2 DEF FindDevice, TypeOK, EventsTypeOK, ThreadLife, SessionLife, Inside, Closing, Closed
  <2>3. SessionLife'
    BY <1>2 DEF FindDevice, TypeOK, SessionLife, Closing, Closed
  <2>4. FileLife'
    BY <1>2 DEF FindDevice, TypeOK, SessionLife, FileLife, Closing, Closed
  <2>5. CallbackLife'
    BY <1>2 DEF FindDevice, TypeOK, EventsTypeOK, ThreadLife, SessionLife, CallbackLife, Inside, Reporting, Closing, Closed
  <2>6. SleepersAreWoken'
    BY <1>2 DEF FindDevice, TypeOK, EventsTypeOK, ThreadLife, SleepersAreWoken
  <2> QED
    BY <2>1, <2>2, <2>3, <2>4, <2>5, <2>6
<1>3. CASE NoDevice
  <2>1. TypeOK'
    BY <1>3 DEF NoDevice, TypeOK, EventsTypeOK, Steps, ClientSteps, FileLife
  <2>2. ThreadLife'
    BY <1>3 DEF NoDevice, TypeOK, EventsTypeOK, ThreadLife, SessionLife, Inside, Closing, Closed
  <2>3. SessionLife'
    BY <1>3 DEF NoDevice, TypeOK, SessionLife, Closing, Closed
  <2>4. FileLife'
    BY <1>3 DEF NoDevice, TypeOK, SessionLife, FileLife, Closing, Closed
  <2>5. CallbackLife'
    BY <1>3 DEF NoDevice, TypeOK, EventsTypeOK, ThreadLife, SessionLife, CallbackLife, Inside, Reporting, Closing, Closed
  <2>6. SleepersAreWoken'
    BY <1>3 DEF NoDevice, TypeOK, EventsTypeOK, ThreadLife, SleepersAreWoken
  <2> QED
    BY <2>1, <2>2, <2>3, <2>4, <2>5, <2>6
<1>4. CASE OpenDevice
  <2>1. TypeOK'
    <3>1. usb_devh' \in BOOLEAN /\ pollfd' \in BOOLEAN /\ devh' \in BOOLEAN /\ status_cb' \in BOOLEAN
      BY <1>4 DEF OpenDevice
    <3>2. clientPc' \in ClientSteps
      BY <1>4 DEF OpenDevice, ClientSteps
    <3>3. ref' \in 0..2
      BY <1>4 DEF OpenDevice, TypeOK, FileLife, SessionLife, Closing, Closed
    <3> QED
      BY <1>4, <3>1, <3>2, <3>3 DEF OpenDevice, TypeOK, EventsTypeOK
  <2>2. ThreadLife'
    BY <1>4 DEF OpenDevice, TypeOK, EventsTypeOK, ThreadLife, SessionLife, Inside, Closing, Closed
  <2>3. SessionLife'
    BY <1>4 DEF OpenDevice, TypeOK, SessionLife, Closing, Closed
  <2>4. FileLife'
    BY <1>4 DEF OpenDevice, TypeOK, SessionLife, FileLife, Closing, Closed
  <2>5. CallbackLife'
    BY <1>4 DEF OpenDevice, TypeOK, EventsTypeOK, ThreadLife, SessionLife, CallbackLife, Inside, Reporting, Closing, Closed
  <2>6. SleepersAreWoken'
    BY <1>4 DEF OpenDevice, TypeOK, EventsTypeOK, ThreadLife, SleepersAreWoken
  <2> QED
    BY <2>1, <2>2, <2>3, <2>4, <2>5, <2>6
<1>5. CASE OpenFails
  <2>1. TypeOK'
    BY <1>5 DEF OpenFails, TypeOK, EventsTypeOK, Steps, ClientSteps, FileLife
  <2>2. ThreadLife'
    BY <1>5 DEF OpenFails, TypeOK, EventsTypeOK, ThreadLife, SessionLife, Inside, Closing, Closed
  <2>3. SessionLife'
    BY <1>5 DEF OpenFails, TypeOK, SessionLife, Closing, Closed
  <2>4. FileLife'
    BY <1>5 DEF OpenFails, TypeOK, SessionLife, FileLife, Closing, Closed
  <2>5. CallbackLife'
    BY <1>5 DEF OpenFails, TypeOK, EventsTypeOK, ThreadLife, SessionLife, CallbackLife, Inside, Reporting, Closing, Closed
  <2>6. SleepersAreWoken'
    BY <1>5 DEF OpenFails, TypeOK, EventsTypeOK, ThreadLife, SleepersAreWoken
  <2> QED
    BY <2>1, <2>2, <2>3, <2>4, <2>5, <2>6
<1>6. CASE \E e \in BOOLEAN : ClaimInterface(e)
  <2>1. TypeOK'
    BY <1>6 DEF ClaimInterface, TypeOK, EventsTypeOK, Steps, ClientSteps, FileLife
  <2>2. ThreadLife'
    BY <1>6 DEF ClaimInterface, TypeOK, EventsTypeOK, ThreadLife, SessionLife, Inside, Closing, Closed
  <2>3. SessionLife'
    BY <1>6 DEF ClaimInterface, TypeOK, SessionLife, Closing, Closed
  <2>4. FileLife'
    BY <1>6 DEF ClaimInterface, TypeOK, SessionLife, FileLife, Closing, Closed
  <2>5. CallbackLife'
    BY <1>6 DEF ClaimInterface, TypeOK, EventsTypeOK, ThreadLife, SessionLife, CallbackLife, Inside, Reporting, Closing, Closed
  <2>6. SleepersAreWoken'
    BY <1>6 DEF ClaimInterface, TypeOK, EventsTypeOK, ThreadLife, SleepersAreWoken
  <2> QED
    BY <2>1, <2>2, <2>3, <2>4, <2>5, <2>6
<1>7. CASE ClaimFails
  <2>1. TypeOK'
    BY <1>7 DEF ClaimFails, TypeOK, EventsTypeOK, Steps, ClientSteps, FileLife
  <2>2. ThreadLife'
    BY <1>7 DEF ClaimFails, TypeOK, EventsTypeOK, ThreadLife, SessionLife, Inside, Closing, Closed
  <2>3. SessionLife'
    BY <1>7 DEF ClaimFails, TypeOK, SessionLife, Closing, Closed
  <2>4. FileLife'
    BY <1>7 DEF ClaimFails, TypeOK, SessionLife, FileLife, Closing, Closed
  <2>5. CallbackLife'
    BY <1>7 DEF ClaimFails, TypeOK, EventsTypeOK, ThreadLife, SessionLife, CallbackLife, Inside, Reporting, Closing, Closed
  <2>6. SleepersAreWoken'
    BY <1>7 DEF ClaimFails, TypeOK, EventsTypeOK, ThreadLife, SleepersAreWoken
  <2> QED
    BY <2>1, <2>2, <2>3, <2>4, <2>5, <2>6
<1>8. CASE StartHandlerThread
  <2>1. TypeOK'
    BY <1>8 DEF StartHandlerThread, TypeOK, EventsTypeOK, Steps, ClientSteps, FileLife
  <2>2. ThreadLife'
    BY <1>8 DEF StartHandlerThread, TypeOK, EventsTypeOK, ThreadLife, SessionLife, Inside, Closing, Closed
  <2>3. SessionLife'
    BY <1>8 DEF StartHandlerThread, TypeOK, SessionLife, Closing, Closed
  <2>4. FileLife'
    BY <1>8 DEF StartHandlerThread, TypeOK, SessionLife, FileLife, Closing, Closed
  <2>5. CallbackLife'
    BY <1>8 DEF StartHandlerThread, TypeOK, EventsTypeOK, ThreadLife, SessionLife, CallbackLife, Inside, Reporting, Closing, Closed
  <2>6. SleepersAreWoken'
    BY <1>8 DEF StartHandlerThread, TypeOK, EventsTypeOK, ThreadLife, SleepersAreWoken
  <2> QED
    BY <2>1, <2>2, <2>3, <2>4, <2>5, <2>6
<1>9. CASE RegisterCallbacks
  <2>1. TypeOK'
    BY <1>9 DEF RegisterCallbacks, StatusMutexFree, TypeOK, EventsTypeOK, Steps, ClientSteps, FileLife
  <2>2. ThreadLife'
    BY <1>9 DEF RegisterCallbacks, StatusMutexFree, TypeOK, EventsTypeOK, ThreadLife, SessionLife, Inside, Closing, Closed
  <2>3. SessionLife'
    BY <1>9 DEF RegisterCallbacks, StatusMutexFree, TypeOK, SessionLife, Closing, Closed
  <2>4. FileLife'
    <3>1. /\ clientPc = "register" /\ clientPc' = "idle" /\ mFd' = TRUE /\ result' = "ok"
          /\ UNCHANGED <<open_devices, devh, ref, mUsbFs, duplicates, zero_closed>>
      BY <1>9 DEF RegisterCallbacks
    <3>2. open_devices /\ devh /\ ref = 2 /\ duplicates = 1 /\ ~zero_closed
      BY <3>1 DEF TypeOK, SessionLife, FileLife
    <3>3. mUsbFs
      BY <3>1 DEF TypeOK, FileLife
    <3> QED
      BY <3>1, <3>2, <3>3 DEF FileLife
  <2>5. CallbackLife'
    BY <1>9 DEF RegisterCallbacks, StatusMutexFree, TypeOK, EventsTypeOK, ThreadLife, SessionLife, CallbackLife, Inside, Reporting, Closing, Closed
  <2>6. SleepersAreWoken'
    BY <1>9 DEF RegisterCallbacks, StatusMutexFree, TypeOK, EventsTypeOK, ThreadLife, SleepersAreWoken
  <2> QED
    BY <2>1, <2>2, <2>3, <2>4, <2>5, <2>6
<1>10. CASE UnrefAfterFailure
  <2>1. TypeOK'
    BY <1>10 DEF UnrefAfterFailure, TypeOK, EventsTypeOK, Steps, ClientSteps, FileLife
  <2>2. ThreadLife'
    BY <1>10 DEF UnrefAfterFailure, TypeOK, EventsTypeOK, ThreadLife, SessionLife, Inside, Closing, Closed
  <2>3. SessionLife'
    BY <1>10 DEF UnrefAfterFailure, TypeOK, SessionLife, Closing, Closed
  <2>4. FileLife'
    BY <1>10 DEF UnrefAfterFailure, TypeOK, SessionLife, FileLife, Closing, Closed
  <2>5. CallbackLife'
    BY <1>10 DEF UnrefAfterFailure, TypeOK, EventsTypeOK, ThreadLife, SessionLife, CallbackLife, Inside, Reporting, Closing, Closed
  <2>6. SleepersAreWoken'
    BY <1>10 DEF UnrefAfterFailure, TypeOK, EventsTypeOK, ThreadLife, SleepersAreWoken
  <2> QED
    BY <2>1, <2>2, <2>3, <2>4, <2>5, <2>6
<1> QED
  BY <1>1, <1>2, <1>3, <1>4, <1>5, <1>6, <1>7, <1>8, <1>9, <1>10 DEF ConnectSteps

(* A step of release, or the end of the object, preserves the invariant.    *)
LEMMA CloseStep ==
  ASSUME IInv, Release \/ CloseSteps \/ Destroy
  PROVE  IInv'
<1> USE ThreadsAssumption, SubmittedAssumption, ClientAssumption
    DEF IInv, Threads, Transfers, locks, queue, bus, eventVars, handle, client, object, files, device, ClientGoes, Idle, Open, Goes
<1>1. CASE Release
  <2>1. TypeOK'
    BY <1>1 DEF Release, TypeOK, EventsTypeOK, Steps, ClientSteps, FileLife
  <2>2. ThreadLife'
    BY <1>1 DEF Release, TypeOK, EventsTypeOK, ThreadLife, SessionLife, Inside, Closing, Closed
  <2>3. SessionLife'
    BY <1>1 DEF Release, TypeOK, SessionLife, Closing, Closed
  <2>4. FileLife'
    BY <1>1 DEF Release, TypeOK, SessionLife, FileLife, Closing, Closed
  <2>5. CallbackLife'
    BY <1>1 DEF Release, TypeOK, EventsTypeOK, ThreadLife, SessionLife, CallbackLife, Inside, Reporting, Closing, Closed
  <2>6. SleepersAreWoken'
    BY <1>1 DEF Release, TypeOK, EventsTypeOK, ThreadLife, SleepersAreWoken
  <2> QED
    BY <2>1, <2>2, <2>3, <2>4, <2>5, <2>6
<1>2. CASE DeleteCallbacks
  <2>1. TypeOK'
    <3>1. callbacks' \in BOOLEAN
      BY <1>2 DEF DeleteCallbacks
    <3>2. clientPc' \in ClientSteps
      BY <1>2 DEF DeleteCallbacks, ClientSteps
    <3> QED
      BY <1>2, <3>1, <3>2 DEF DeleteCallbacks, TypeOK, EventsTypeOK
  <2>2. ThreadLife'
    BY <1>2 DEF DeleteCallbacks, TypeOK, EventsTypeOK, ThreadLife, SessionLife, Inside, Closing, Closed
  <2>3. SessionLife'
    BY <1>2 DEF DeleteCallbacks, TypeOK, SessionLife, Closing, Closed
  <2>4. FileLife'
    BY <1>2 DEF DeleteCallbacks, TypeOK, SessionLife, FileLife, Closing, Closed
  <2>5. CallbackLife'
    BY <1>2 DEF DeleteCallbacks, TypeOK, EventsTypeOK, ThreadLife, SessionLife, CallbackLife, Inside, Reporting, Closing, Closed
  <2>6. SleepersAreWoken'
    BY <1>2 DEF DeleteCallbacks, TypeOK, EventsTypeOK, ThreadLife, SleepersAreWoken
  <2> QED
    BY <2>1, <2>2, <2>3, <2>4, <2>5, <2>6
<1>3. CASE KillHandlerThread
  <2>1. TypeOK'
    BY <1>3 DEF KillHandlerThread, TypeOK, EventsTypeOK, Steps, ClientSteps, FileLife
  <2>2. ThreadLife'
    BY <1>3 DEF KillHandlerThread, TypeOK, EventsTypeOK, ThreadLife, SessionLife, Inside, Closing, Closed
  <2>3. SessionLife'
    BY <1>3 DEF KillHandlerThread, TypeOK, SessionLife, Closing, Closed
  <2>4. FileLife'
    BY <1>3 DEF KillHandlerThread, TypeOK, SessionLife, FileLife, Closing, Closed
  <2>5. CallbackLife'
    BY <1>3 DEF KillHandlerThread, TypeOK, EventsTypeOK, ThreadLife, SessionLife, CallbackLife, Inside, Reporting, Closing, Closed
  <2>6. SleepersAreWoken'
    BY <1>3 DEF KillHandlerThread, TypeOK, EventsTypeOK, ThreadLife, SleepersAreWoken
  <2> QED
    BY <2>1, <2>2, <2>3, <2>4, <2>5, <2>6
<1>4. CASE InterruptHandlers
  <2>1. TypeOK'
    BY <1>4 DEF InterruptHandlers, TypeOK, EventsTypeOK, Steps, ClientSteps, FileLife
  <2>2. ThreadLife'
    BY <1>4 DEF InterruptHandlers, TypeOK, EventsTypeOK, ThreadLife, SessionLife, Inside, Closing, Closed
  <2>3. SessionLife'
    BY <1>4 DEF InterruptHandlers, TypeOK, SessionLife, Closing, Closed
  <2>4. FileLife'
    BY <1>4 DEF InterruptHandlers, TypeOK, SessionLife, FileLife, Closing, Closed
  <2>5. CallbackLife'
    BY <1>4 DEF InterruptHandlers, TypeOK, EventsTypeOK, ThreadLife, SessionLife, CallbackLife, Inside, Reporting, Closing, Closed
  <2>6. SleepersAreWoken'
    BY <1>4 DEF InterruptHandlers, TypeOK, EventsTypeOK, ThreadLife, SleepersAreWoken
  <2> QED
    BY <2>1, <2>2, <2>3, <2>4, <2>5, <2>6
<1>5. CASE LockForClose
  <2>1. TypeOK'
    BY <1>5 DEF LockForClose, TypeOK, EventsTypeOK, Steps, ClientSteps, FileLife
  <2>2. ThreadLife'
    BY <1>5 DEF LockForClose, TypeOK, EventsTypeOK, ThreadLife, SessionLife, Inside, Closing, Closed
  <2>3. SessionLife'
    BY <1>5 DEF LockForClose, TypeOK, SessionLife, Closing, Closed
  <2>4. FileLife'
    BY <1>5 DEF LockForClose, TypeOK, SessionLife, FileLife, Closing, Closed
  <2>5. CallbackLife'
    BY <1>5 DEF LockForClose, TypeOK, EventsTypeOK, ThreadLife, SessionLife, CallbackLife, Inside, Reporting, Closing, Closed
  <2>6. SleepersAreWoken'
    BY <1>5 DEF LockForClose, TypeOK, EventsTypeOK, ThreadLife, SleepersAreWoken
  <2> QED
    BY <2>1, <2>2, <2>3, <2>4, <2>5, <2>6
<1>6. CASE DoClose
  <2>1. TypeOK'
    <3>1. pollfd' \in BOOLEAN /\ usb_devh' \in BOOLEAN /\ event_handler_active' \in BOOLEAN
      BY <1>6 DEF DoClose
    <3>2. clientPc' \in ClientSteps
      BY <1>6 DEF DoClose, ClientSteps
    <3>3. pc' \in [Threads -> Steps] /\ waiters' \subseteq Threads
      BY <1>6 DEF DoClose, WakeAll, TypeOK, EventsTypeOK, Steps
    <3>4. ctrl_pipe' \in 0..1 /\ flying' \subseteq Transfers /\ urbs' \in Seq(Transfers)
      BY <1>6 DEF DoClose
    <3> QED
      BY <1>6, <3>1, <3>2, <3>3, <3>4 DEF DoClose, TypeOK, EventsTypeOK
  <2>2. ThreadLife'
    BY <1>6 DEF DoClose, WakeAll, TypeOK, EventsTypeOK, ThreadLife, SessionLife, Inside, Closing, Closed
  <2>3. SessionLife'
    BY <1>6 DEF DoClose, WakeAll, TypeOK, SessionLife, Closing, Closed
  <2>4. FileLife'
    BY <1>6 DEF DoClose, WakeAll, TypeOK, SessionLife, FileLife, Closing, Closed
  <2>5. CallbackLife'
    BY <1>6 DEF DoClose, WakeAll, TypeOK, EventsTypeOK, ThreadLife, SessionLife, CallbackLife, Inside, Reporting, Closing, Closed
  <2>6. SleepersAreWoken'
    BY <1>6 DEF DoClose, WakeAll, TypeOK, EventsTypeOK, ThreadLife, SleepersAreWoken
  <2> QED
    BY <2>1, <2>2, <2>3, <2>4, <2>5, <2>6
<1>7. CASE CloseModified
  <2>1. TypeOK'
    BY <1>7 DEF CloseModified, TypeOK, EventsTypeOK, Steps, ClientSteps, FileLife
  <2>2. ThreadLife'
    BY <1>7 DEF CloseModified, TypeOK, EventsTypeOK, ThreadLife, SessionLife, Inside, Closing, Closed
  <2>3. SessionLife'
    BY <1>7 DEF CloseModified, TypeOK, SessionLife, Closing, Closed
  <2>4. FileLife'
    BY <1>7 DEF CloseModified, TypeOK, SessionLife, FileLife, Closing, Closed
  <2>5. CallbackLife'
    BY <1>7 DEF CloseModified, TypeOK, EventsTypeOK, ThreadLife, SessionLife, CallbackLife, Inside, Reporting, Closing, Closed
  <2>6. SleepersAreWoken'
    BY <1>7 DEF CloseModified, TypeOK, EventsTypeOK, ThreadLife, SleepersAreWoken
  <2> QED
    BY <2>1, <2>2, <2>3, <2>4, <2>5, <2>6
<1>8. CASE UnlockAfterClose
  <2>1. TypeOK'
    <3>1. event_handler_active' \in BOOLEAN /\ events_lock' \in Threads \cup {None}
      BY <1>8 DEF UnlockAfterClose
    <3>2. clientPc' \in ClientSteps
      BY <1>8 DEF UnlockAfterClose, ClientSteps
    <3> QED
      BY <1>8, <3>1, <3>2 DEF UnlockAfterClose, TypeOK, EventsTypeOK
  <2>2. ThreadLife'
    BY <1>8 DEF UnlockAfterClose, TypeOK, EventsTypeOK, ThreadLife, SessionLife, Inside, Closing, Closed
  <2>3. SessionLife'
    BY <1>8 DEF UnlockAfterClose, TypeOK, SessionLife, Closing, Closed
  <2>4. FileLife'
    BY <1>8 DEF UnlockAfterClose, TypeOK, SessionLife, FileLife, Closing, Closed
  <2>5. CallbackLife'
    BY <1>8 DEF UnlockAfterClose, TypeOK, EventsTypeOK, ThreadLife, SessionLife, CallbackLife, Inside, Reporting, Closing, Closed
  <2>6. SleepersAreWoken'
    BY <1>8 DEF UnlockAfterClose, TypeOK, EventsTypeOK, ThreadLife, SleepersAreWoken
  <2> QED
    BY <2>1, <2>2, <2>3, <2>4, <2>5, <2>6
<1>9. CASE WakeAfterClose
  <2>1. TypeOK'
    BY <1>9 DEF WakeAfterClose, WakeAll, TypeOK, EventsTypeOK, Steps, ClientSteps, FileLife
  <2>2. ThreadLife'
    BY <1>9 DEF WakeAfterClose, WakeAll, TypeOK, EventsTypeOK, ThreadLife, SessionLife, Inside, Closing, Closed
  <2>3. SessionLife'
    BY <1>9 DEF WakeAfterClose, WakeAll, TypeOK, SessionLife, Closing, Closed
  <2>4. FileLife'
    BY <1>9 DEF WakeAfterClose, WakeAll, TypeOK, SessionLife, FileLife, Closing, Closed
  <2>5. CallbackLife'
    BY <1>9 DEF WakeAfterClose, WakeAll, TypeOK, EventsTypeOK, ThreadLife, SessionLife, CallbackLife, Inside, Reporting, Closing, Closed
  <2>6. SleepersAreWoken'
    BY <1>9 DEF WakeAfterClose, WakeAll, TypeOK, EventsTypeOK, ThreadLife, SleepersAreWoken
  <2> QED
    BY <2>1, <2>2, <2>3, <2>4, <2>5, <2>6
<1>10. CASE JoinHandlerThread
  <2>1. TypeOK'
    BY <1>10 DEF JoinHandlerThread, TypeOK, EventsTypeOK, Steps, ClientSteps, FileLife
  <2>2. ThreadLife'
    BY <1>10 DEF JoinHandlerThread, TypeOK, EventsTypeOK, ThreadLife, SessionLife, Inside, Closing, Closed
  <2>3. SessionLife'
    BY <1>10 DEF JoinHandlerThread, TypeOK, SessionLife, Closing, Closed
  <2>4. FileLife'
    BY <1>10 DEF JoinHandlerThread, TypeOK, SessionLife, FileLife, Closing, Closed
  <2>5. CallbackLife'
    BY <1>10 DEF JoinHandlerThread, TypeOK, EventsTypeOK, ThreadLife, SessionLife, CallbackLife, Inside, Reporting, Closing, Closed
  <2>6. SleepersAreWoken'
    BY <1>10 DEF JoinHandlerThread, TypeOK, EventsTypeOK, ThreadLife, SleepersAreWoken
  <2> QED
    BY <2>1, <2>2, <2>3, <2>4, <2>5, <2>6
<1>11. CASE FreeHandle
  <2>1. TypeOK'
    <3>1. open_devices' \in BOOLEAN /\ devh' \in BOOLEAN
      BY <1>11 DEF FreeHandle
    <3>2. clientPc' \in ClientSteps
      BY <1>11 DEF FreeHandle, ClientSteps
    <3>3. ref' \in 0..2
      BY <1>11 DEF FreeHandle, TypeOK, FileLife, SessionLife, Closing, Closed
    <3> QED
      BY <1>11, <3>1, <3>2, <3>3 DEF FreeHandle, TypeOK, EventsTypeOK
  <2>2. ThreadLife'
    BY <1>11 DEF FreeHandle, TypeOK, EventsTypeOK, ThreadLife, SessionLife, Inside, Closing, Closed
  <2>3. SessionLife'
    BY <1>11 DEF FreeHandle, TypeOK, SessionLife, Closing, Closed
  <2>4. FileLife'
    BY <1>11 DEF FreeHandle, TypeOK, SessionLife, FileLife, Closing, Closed
  <2>5. CallbackLife'
    BY <1>11 DEF FreeHandle, TypeOK, EventsTypeOK, ThreadLife, SessionLife, CallbackLife, Inside, Reporting, Closing, Closed
  <2>6. SleepersAreWoken'
    BY <1>11 DEF FreeHandle, TypeOK, EventsTypeOK, ThreadLife, SleepersAreWoken
  <2> QED
    BY <2>1, <2>2, <2>3, <2>4, <2>5, <2>6
<1>12. CASE ReleaseDevice
  <2>1. TypeOK'
    BY <1>12 DEF ReleaseDevice, TypeOK, EventsTypeOK, Steps, ClientSteps, FileLife
  <2>2. ThreadLife'
    BY <1>12 DEF ReleaseDevice, TypeOK, EventsTypeOK, ThreadLife, SessionLife, Inside, Closing, Closed
  <2>3. SessionLife'
    BY <1>12 DEF ReleaseDevice, TypeOK, SessionLife, Closing, Closed
  <2>4. FileLife'
    BY <1>12 DEF ReleaseDevice, TypeOK, SessionLife, FileLife, Closing, Closed
  <2>5. CallbackLife'
    BY <1>12 DEF ReleaseDevice, TypeOK, EventsTypeOK, ThreadLife, SessionLife, CallbackLife, Inside, Reporting, Closing, Closed
  <2>6. SleepersAreWoken'
    BY <1>12 DEF ReleaseDevice, TypeOK, EventsTypeOK, ThreadLife, SleepersAreWoken
  <2> QED
    BY <2>1, <2>2, <2>3, <2>4, <2>5, <2>6
<1>13. CASE CloseFile
  <2>1. TypeOK'
    <3>1. mUsbFs' \in BOOLEAN /\ mFd' \in BOOLEAN
      BY <1>13 DEF CloseFile
    <3>2. zero_closed' \in BOOLEAN
      BY <1>13 DEF CloseFile, TypeOK
    <3>3. clientPc' \in ClientSteps
      BY <1>13 DEF CloseFile, ClientSteps
    <3>4. duplicates' \in 0..2
      BY <1>13 DEF CloseFile, TypeOK, FileLife, SessionLife, Closing, Closed
    <3>5. UNCHANGED <<eventVars, handle, context, kill_handler_thread, object, result>>
      BY <1>13 DEF CloseFile
    <3> QED
      BY <3>1, <3>2, <3>3, <3>4, <3>5 DEF TypeOK, EventsTypeOK
  <2>2. ThreadLife'
    BY <1>13 DEF CloseFile, TypeOK, EventsTypeOK, ThreadLife, SessionLife, Inside, Closing, Closed
  <2>3. SessionLife'
    BY <1>13 DEF CloseFile, TypeOK, SessionLife, Closing, Closed
  <2>4. FileLife'
    BY <1>13 DEF CloseFile, TypeOK, SessionLife, FileLife, Closing, Closed
  <2>5. CallbackLife'
    BY <1>13 DEF CloseFile, TypeOK, EventsTypeOK, ThreadLife, SessionLife, CallbackLife, Inside, Reporting, Closing, Closed
  <2>6. SleepersAreWoken'
    BY <1>13 DEF CloseFile, TypeOK, EventsTypeOK, ThreadLife, SleepersAreWoken
  <2> QED
    BY <2>1, <2>2, <2>3, <2>4, <2>5, <2>6
<1>14. CASE Destroy
  <2>1. TypeOK'
    <3>1. context' \in BOOLEAN /\ kill_handler_thread' \in BOOLEAN /\ zero_closed' \in BOOLEAN
      BY <1>14 DEF Destroy
    <3>2. pc' \in [Threads -> Steps]
      BY <1>14 DEF Destroy, TypeOK, EventsTypeOK, Steps
    <3>3. result' \in {"none", "ok", "error"}
      BY <1>14 DEF Destroy
    <3> QED
      BY <1>14, <3>1, <3>2, <3>3 DEF Destroy, TypeOK, EventsTypeOK
  <2>2. ThreadLife'
    BY <1>14 DEF Destroy, TypeOK, EventsTypeOK, ThreadLife, SessionLife, Inside, Closing, Closed
  <2>3. SessionLife'
    BY <1>14 DEF Destroy, TypeOK, SessionLife, Closing, Closed
  <2>4. FileLife'
    BY <1>14 DEF Destroy, TypeOK, SessionLife, FileLife, Closing, Closed
  <2>5. CallbackLife'
    BY <1>14 DEF Destroy, TypeOK, EventsTypeOK, ThreadLife, SessionLife, CallbackLife, Inside, Reporting, Closing, Closed
  <2>6. SleepersAreWoken'
    BY <1>14 DEF Destroy, TypeOK, EventsTypeOK, ThreadLife, SleepersAreWoken
  <2> QED
    BY <2>1, <2>2, <2>3, <2>4, <2>5, <2>6
<1> QED
  BY <1>1, <1>2, <1>3, <1>4, <1>5, <1>6, <1>7, <1>8, <1>9, <1>10, <1>11, <1>12, <1>13, <1>14 DEF CloseSteps

(* A step of libusb_handle_events preserves the invariant.                  *)
LEMMA EventStep ==
  ASSUME IInv, NEW t \in Threads, HandleEvents(t) \/ PollTimeout(t) \/ WaitTimeout(t), UNCHANGED device
  PROVE  IInv'
<1> USE ThreadsAssumption, SubmittedAssumption, ClientAssumption
    DEF IInv, Threads, Transfers, locks, queue, bus, eventVars, handle, client, object, files, device, ClientGoes, Idle, Open, Goes
<1>1. CASE TryLockEvents(t)
  <2>1. TypeOK'
    BY <1>1 DEF TryLockEvents, TypeOK, EventsTypeOK, Steps, ClientSteps, FileLife
  <2>2. ThreadLife'
    BY <1>1 DEF TryLockEvents, TypeOK, EventsTypeOK, ThreadLife, SessionLife, Inside, Closing, Closed
  <2>3. SessionLife' /\ FileLife'
    BY <1>1 DEF TryLockEvents, SessionLife, FileLife
  <2>4. CallbackLife'
    BY <1>1 DEF TryLockEvents, TypeOK, EventsTypeOK, ThreadLife, SessionLife, CallbackLife, Inside, Reporting, Closing, Closed
  <2>5. SleepersAreWoken'
    BY <1>1 DEF TryLockEvents, TypeOK, EventsTypeOK, ThreadLife, SleepersAreWoken
  <2> QED
    BY <2>1, <2>2, <2>3, <2>4, <2>5
<1>2. CASE TryLock(t)
  <2>1. TypeOK'
    <3>1. event_handler_active' \in BOOLEAN /\ events_lock' \in Threads \cup {None}
      BY <1>2 DEF TryLock, TypeOK, EventsTypeOK
    <3>2. pc' \in [Threads -> Steps]
      BY <1>2 DEF TryLock, TypeOK, EventsTypeOK, Steps
    <3> QED
      BY <1>2, <3>1, <3>2 DEF TryLock, TypeOK, EventsTypeOK
  <2>2. ThreadLife'
    BY <1>2 DEF TryLock, TypeOK, EventsTypeOK, ThreadLife, SessionLife, Inside, Closing, Closed
  <2>3. SessionLife' /\ FileLife'
    BY <1>2 DEF TryLock, SessionLife, FileLife
  <2>4. CallbackLife'
    BY <1>2 DEF TryLock, TypeOK, EventsTypeOK, ThreadLife, SessionLife, CallbackLife, Inside, Reporting, Closing, Closed
  <2>5. SleepersAreWoken'
    BY <1>2 DEF TryLock, TypeOK, EventsTypeOK, ThreadLife, SleepersAreWoken
  <2> QED
    BY <2>1, <2>2, <2>3, <2>4, <2>5
<1>3. CASE LockEvents(t)
  <2>1. TypeOK'
    BY <1>3 DEF LockEvents, TypeOK, EventsTypeOK, Steps, ClientSteps, FileLife
  <2>2. ThreadLife'
    BY <1>3 DEF LockEvents, TypeOK, EventsTypeOK, ThreadLife, SessionLife, Inside, Closing, Closed
  <2>3. SessionLife' /\ FileLife'
    BY <1>3 DEF LockEvents, SessionLife, FileLife
  <2>4. CallbackLife'
    BY <1>3 DEF LockEvents, TypeOK, EventsTypeOK, ThreadLife, SessionLife, CallbackLife, Inside, Reporting, Closing, Closed
  <2>5. SleepersAreWoken'
    BY <1>3 DEF LockEvents, TypeOK, EventsTypeOK, ThreadLife, SleepersAreWoken
  <2> QED
    BY <2>1, <2>2, <2>3, <2>4, <2>5
<1>4. CASE Poll(t)
  <2>1. TypeOK'
    BY <1>4 DEF Poll, TypeOK, EventsTypeOK, Steps, ClientSteps, FileLife
  <2>2. ThreadLife'
    BY <1>4 DEF Poll, TypeOK, EventsTypeOK, ThreadLife, SessionLife, Inside, Closing, Closed
  <2>3. SessionLife' /\ FileLife'
    BY <1>4 DEF Poll, SessionLife, FileLife
  <2>4. CallbackLife'
    BY <1>4 DEF Poll, TypeOK, EventsTypeOK, ThreadLife, SessionLife, CallbackLife, Inside, Reporting, Closing, Closed
  <2>5. SleepersAreWoken'
    BY <1>4 DEF Poll, TypeOK, EventsTypeOK, ThreadLife, SleepersAreWoken
  <2> QED
    BY <2>1, <2>2, <2>3, <2>4, <2>5
<1>5. CASE PollDisconnect(t)
  <2>1. TypeOK'
    <3>1. pollfd' \in BOOLEAN
      BY <1>5 DEF PollDisconnect
    <3>2. pc' \in [Threads -> Steps] /\ waiters' \subseteq Threads
      BY <1>5 DEF PollDisconnect, WakeAll, TypeOK, EventsTypeOK, Steps
    <3>3. completed' \subseteq Callers /\ flying' \subseteq Transfers /\ urbs' \in Seq(Transfers)
      BY <1>5 DEF PollDisconnect, TypeOK, EventsTypeOK
    <3> QED
      BY <1>5, <3>1, <3>2, <3>3 DEF PollDisconnect, TypeOK, EventsTypeOK
  <2>2. ThreadLife'
    BY <1>5 DEF PollDisconnect, WakeAll, TypeOK, EventsTypeOK, ThreadLife, SessionLife, Inside, Closing, Closed
  <2>3. SessionLife' /\ FileLife'
    BY <1>5 DEF PollDisconnect, WakeAll, SessionLife, FileLife
  <2>4. CallbackLife'
    BY <1>5 DEF PollDisconnect, WakeAll, TypeOK, EventsTypeOK, ThreadLife, SessionLife, CallbackLife, Inside, Reporting, Closing, Closed
  <2>5. SleepersAreWoken'
    BY <1>5 DEF PollDisconnect, WakeAll, TypeOK, EventsTypeOK, ThreadLife, SleepersAreWoken
  <2> QED
    BY <2>1, <2>2, <2>3, <2>4, <2>5
<1>6. CASE ReapControl(t)
  <2>1. TypeOK'
    BY <1>6 DEF ReapControl, WakeAll, TypeOK, EventsTypeOK, Steps, ClientSteps, FileLife
  <2>2. ThreadLife'
    BY <1>6 DEF ReapControl, WakeAll, TypeOK, EventsTypeOK, ThreadLife, SessionLife, Inside, Closing, Closed
  <2>3. SessionLife' /\ FileLife'
    BY <1>6 DEF ReapControl, WakeAll, SessionLife, FileLife
  <2>4. CallbackLife'
    BY <1>6 DEF ReapControl, WakeAll, TypeOK, EventsTypeOK, ThreadLife, SessionLife, CallbackLife, Inside, Reporting, Closing, Closed
  <2>5. SleepersAreWoken'
    BY <1>6 DEF ReapControl, WakeAll, TypeOK, EventsTypeOK, ThreadLife, SleepersAreWoken
  <2> QED
    BY <2>1, <2>2, <2>3, <2>4, <2>5
<1>7. CASE ReapStatus(t)
  <2>1. TypeOK'
    BY <1>7 DEF ReapStatus, TypeOK, EventsTypeOK, Steps, ClientSteps, FileLife
  <2>2. ThreadLife'
    BY <1>7 DEF ReapStatus, TypeOK, EventsTypeOK, ThreadLife, SessionLife, Inside, Closing, Closed
  <2>3. SessionLife' /\ FileLife'
    BY <1>7 DEF ReapStatus, SessionLife, FileLife
  <2>4. CallbackLife'
    BY <1>7 DEF ReapStatus, TypeOK, EventsTypeOK, ThreadLife, SessionLife, CallbackLife, Inside, Reporting, Closing, Closed
  <2>5. SleepersAreWoken'
    BY <1>7 DEF ReapStatus, TypeOK, EventsTypeOK, ThreadLife, SleepersAreWoken
  <2> QED
    BY <2>1, <2>2, <2>3, <2>4, <2>5
<1>8. CASE ReapNothing(t)
  <2>1. TypeOK'
    BY <1>8 DEF ReapNothing, TypeOK, EventsTypeOK, Steps, ClientSteps, FileLife
  <2>2. ThreadLife'
    BY <1>8 DEF ReapNothing, TypeOK, EventsTypeOK, ThreadLife, SessionLife, Inside, Closing, Closed
  <2>3. SessionLife' /\ FileLife'
    BY <1>8 DEF ReapNothing, SessionLife, FileLife
  <2>4. CallbackLife'
    BY <1>8 DEF ReapNothing, TypeOK, EventsTypeOK, ThreadLife, SessionLife, CallbackLife, Inside, Reporting, Closing, Closed
  <2>5. SleepersAreWoken'
    BY <1>8 DEF ReapNothing, TypeOK, EventsTypeOK, ThreadLife, SleepersAreWoken
  <2> QED
    BY <2>1, <2>2, <2>3, <2>4, <2>5
<1>9. CASE UnlockEvents(t)
  <2>1. TypeOK'
    <3>1. event_handler_active' \in BOOLEAN /\ events_lock' \in Threads \cup {None}
      BY <1>9 DEF UnlockEvents
    <3>2. pc' \in [Threads -> Steps]
      BY <1>9 DEF UnlockEvents, TypeOK, EventsTypeOK, Steps
    <3> QED
      BY <1>9, <3>1, <3>2 DEF UnlockEvents, TypeOK, EventsTypeOK
  <2>2. ThreadLife'
    BY <1>9 DEF UnlockEvents, TypeOK, EventsTypeOK, ThreadLife, SessionLife, Inside, Closing, Closed
  <2>3. SessionLife' /\ FileLife'
    BY <1>9 DEF UnlockEvents, SessionLife, FileLife
  <2>4. CallbackLife'
    BY <1>9 DEF UnlockEvents, TypeOK, EventsTypeOK, ThreadLife, SessionLife, CallbackLife, Inside, Reporting, Closing, Closed
  <2>5. SleepersAreWoken'
    BY <1>9 DEF UnlockEvents, TypeOK, EventsTypeOK, ThreadLife, SleepersAreWoken
  <2> QED
    BY <2>1, <2>2, <2>3, <2>4, <2>5
<1>10. CASE BroadcastWaiters(t)
  <2>1. TypeOK'
    BY <1>10 DEF BroadcastWaiters, WakeAll, TypeOK, EventsTypeOK, Steps, ClientSteps, FileLife
  <2>2. ThreadLife'
    BY <1>10 DEF BroadcastWaiters, WakeAll, TypeOK, EventsTypeOK, ThreadLife, SessionLife, Inside, Closing, Closed
  <2>3. SessionLife' /\ FileLife'
    BY <1>10 DEF BroadcastWaiters, WakeAll, SessionLife, FileLife
  <2>4. CallbackLife'
    BY <1>10 DEF BroadcastWaiters, WakeAll, TypeOK, EventsTypeOK, ThreadLife, SessionLife, CallbackLife, Inside, Reporting, Closing, Closed
  <2>5. SleepersAreWoken'
    BY <1>10 DEF BroadcastWaiters, WakeAll, TypeOK, EventsTypeOK, ThreadLife, SleepersAreWoken
  <2> QED
    BY <2>1, <2>2, <2>3, <2>4, <2>5
<1>11. CASE WaitForEvent(t)
  <2>1. TypeOK'
    BY <1>11 DEF WaitForEvent, SomebodyHandles, TypeOK, EventsTypeOK, Steps, ClientSteps, FileLife
  <2>2. ThreadLife'
    BY <1>11 DEF WaitForEvent, SomebodyHandles, TypeOK, EventsTypeOK, ThreadLife, SessionLife, Inside, Closing, Closed
  <2>3. SessionLife' /\ FileLife'
    BY <1>11 DEF WaitForEvent, SomebodyHandles, SessionLife, FileLife
  <2>4. CallbackLife'
    BY <1>11 DEF WaitForEvent, SomebodyHandles, TypeOK, EventsTypeOK, ThreadLife, SessionLife, CallbackLife, Inside, Reporting, Closing, Closed
  <2>5. SleepersAreWoken'
    BY <1>11 DEF WaitForEvent, SomebodyHandles, TypeOK, EventsTypeOK, ThreadLife, SleepersAreWoken
  <2> QED
    BY <2>1, <2>2, <2>3, <2>4, <2>5
<1>12. CASE WaitForCompletion(t)
  <2>1. TypeOK'
    BY <1>12 DEF WaitForCompletion, TypeOK, EventsTypeOK, Steps, ClientSteps, FileLife
  <2>2. ThreadLife'
    BY <1>12 DEF WaitForCompletion, TypeOK, EventsTypeOK, ThreadLife, SessionLife, Inside, Closing, Closed
  <2>3. SessionLife' /\ FileLife'
    BY <1>12 DEF WaitForCompletion, SessionLife, FileLife
  <2>4. CallbackLife'
    BY <1>12 DEF WaitForCompletion, TypeOK, EventsTypeOK, ThreadLife, SessionLife, CallbackLife, Inside, Reporting, Closing, Closed
  <2>5. SleepersAreWoken'
    BY <1>12 DEF WaitForCompletion, TypeOK, EventsTypeOK, ThreadLife, SleepersAreWoken
  <2> QED
    BY <2>1, <2>2, <2>3, <2>4, <2>5
<1>13. CASE PollTimeout(t)
  <2>1. TypeOK'
    BY <1>13 DEF PollTimeout, TypeOK, EventsTypeOK, Steps, ClientSteps, FileLife
  <2>2. ThreadLife'
    BY <1>13 DEF PollTimeout, TypeOK, EventsTypeOK, ThreadLife, SessionLife, Inside, Closing, Closed
  <2>3. SessionLife' /\ FileLife'
    BY <1>13 DEF PollTimeout, SessionLife, FileLife
  <2>4. CallbackLife'
    BY <1>13 DEF PollTimeout, TypeOK, EventsTypeOK, ThreadLife, SessionLife, CallbackLife, Inside, Reporting, Closing, Closed
  <2>5. SleepersAreWoken'
    BY <1>13 DEF PollTimeout, TypeOK, EventsTypeOK, ThreadLife, SleepersAreWoken
  <2> QED
    BY <2>1, <2>2, <2>3, <2>4, <2>5
<1>14. CASE WaitTimeout(t)
  <2>1. TypeOK'
    BY <1>14 DEF WaitTimeout, TypeOK, EventsTypeOK, Steps, ClientSteps, FileLife
  <2>2. ThreadLife'
    BY <1>14 DEF WaitTimeout, TypeOK, EventsTypeOK, ThreadLife, SessionLife, Inside, Closing, Closed
  <2>3. SessionLife' /\ FileLife'
    BY <1>14 DEF WaitTimeout, SessionLife, FileLife
  <2>4. CallbackLife'
    BY <1>14 DEF WaitTimeout, TypeOK, EventsTypeOK, ThreadLife, SessionLife, CallbackLife, Inside, Reporting, Closing, Closed
  <2>5. SleepersAreWoken'
    BY <1>14 DEF WaitTimeout, TypeOK, EventsTypeOK, ThreadLife, SleepersAreWoken
  <2> QED
    BY <2>1, <2>2, <2>3, <2>4, <2>5
<1> QED
  BY <1>1, <1>2, <1>3, <1>4, <1>5, <1>6, <1>7, <1>8, <1>9, <1>10, <1>11, <1>12, <1>13, <1>14 DEF HandleEvents

(* Reporting the status transfer preserves the invariant.                   *)
LEMMA StatusStep ==
  ASSUME IInv, NEW t \in Threads, StatusSteps(t) \/ HandlerLoop
  PROVE  IInv'
<1> USE ThreadsAssumption, SubmittedAssumption, ClientAssumption
    DEF IInv, Threads, Transfers, locks, queue, bus, eventVars, handle, client, object, files, device, ClientGoes, Idle, Open, Goes
<1>1. CASE StatusFails(t)
  <2>1. TypeOK'
    BY <1>1 DEF StatusFails, TypeOK, EventsTypeOK, Steps, ClientSteps, FileLife
  <2>2. ThreadLife'
    BY <1>1 DEF StatusFails, TypeOK, EventsTypeOK, ThreadLife, SessionLife, Inside, Closing, Closed
  <2>3. SessionLife' /\ FileLife'
    BY <1>1 DEF StatusFails, SessionLife, FileLife
  <2>4. CallbackLife'
    BY <1>1 DEF StatusFails, TypeOK, EventsTypeOK, ThreadLife, SessionLife, CallbackLife, Inside, Reporting, Closing, Closed
  <2>5. SleepersAreWoken'
    BY <1>1 DEF StatusFails, TypeOK, EventsTypeOK, ThreadLife, SleepersAreWoken
  <2> QED
    BY <2>1, <2>2, <2>3, <2>4, <2>5
<1>2. CASE NotifyStatus(t)
  <2>1. TypeOK'
    BY <1>2 DEF NotifyStatus, StatusMutexFree, TypeOK, EventsTypeOK, Steps, ClientSteps, FileLife
  <2>2. ThreadLife'
    BY <1>2 DEF NotifyStatus, StatusMutexFree, TypeOK, EventsTypeOK, ThreadLife, SessionLife, Inside, Closing, Closed
  <2>3. SessionLife' /\ FileLife'
    BY <1>2 DEF NotifyStatus, StatusMutexFree, SessionLife, FileLife
  <2>4. CallbackLife'
    BY <1>2 DEF NotifyStatus, StatusMutexFree, TypeOK, EventsTypeOK, ThreadLife, SessionLife, CallbackLife, Inside, Reporting, Closing, Closed
  <2>5. SleepersAreWoken'
    BY <1>2 DEF NotifyStatus, StatusMutexFree, TypeOK, EventsTypeOK, ThreadLife, SleepersAreWoken
  <2> QED
    BY <2>1, <2>2, <2>3, <2>4, <2>5
<1>3. CASE ReturnStatus(t)
  <2>1. TypeOK'
    BY <1>3 DEF ReturnStatus, TypeOK, EventsTypeOK, Steps, ClientSteps, FileLife
  <2>2. ThreadLife'
    BY <1>3 DEF ReturnStatus, TypeOK, EventsTypeOK, ThreadLife, SessionLife, Inside, Closing, Closed
  <2>3. SessionLife' /\ FileLife'
    BY <1>3 DEF ReturnStatus, SessionLife, FileLife
  <2>4. CallbackLife'
    BY <1>3 DEF ReturnStatus, TypeOK, EventsTypeOK, ThreadLife, SessionLife, CallbackLife, Inside, Reporting, Closing, Closed
  <2>5. SleepersAreWoken'
    BY <1>3 DEF ReturnStatus, TypeOK, EventsTypeOK, ThreadLife, SleepersAreWoken
  <2> QED
    BY <2>1, <2>2, <2>3, <2>4, <2>5
<1>4. CASE ResubmitStatus(t)
  <2>1. TypeOK'
    BY <1>4 DEF ResubmitStatus, Submit, TypeOK, EventsTypeOK, Steps, ClientSteps, FileLife
  <2>2. ThreadLife'
    BY <1>4 DEF ResubmitStatus, Submit, TypeOK, EventsTypeOK, ThreadLife, SessionLife, Inside, Closing, Closed
  <2>3. SessionLife' /\ FileLife'
    BY <1>4 DEF ResubmitStatus, Submit, SessionLife, FileLife
  <2>4. CallbackLife'
    BY <1>4 DEF ResubmitStatus, Submit, TypeOK, EventsTypeOK, ThreadLife, SessionLife, CallbackLife, Inside, Reporting, Closing, Closed
  <2>5. SleepersAreWoken'
    BY <1>4 DEF ResubmitStatus, Submit, TypeOK, EventsTypeOK, ThreadLife, SleepersAreWoken
  <2> QED
    BY <2>1, <2>2, <2>3, <2>4, <2>5
<1>5. CASE HandlerLoop
  <2>1. TypeOK'
    BY <1>5 DEF HandlerLoop, TypeOK, EventsTypeOK, Steps, ClientSteps, FileLife
  <2>2. ThreadLife'
    BY <1>5 DEF HandlerLoop, TypeOK, EventsTypeOK, ThreadLife, SessionLife, Inside, Closing, Closed
  <2>3. SessionLife' /\ FileLife'
    BY <1>5 DEF HandlerLoop, SessionLife, FileLife
  <2>4. CallbackLife'
    BY <1>5 DEF HandlerLoop, TypeOK, EventsTypeOK, ThreadLife, SessionLife, CallbackLife, Inside, Reporting, Closing, Closed
  <2>5. SleepersAreWoken'
    BY <1>5 DEF HandlerLoop, TypeOK, EventsTypeOK, ThreadLife, SleepersAreWoken
  <2> QED
    BY <2>1, <2>2, <2>3, <2>4, <2>5
<1> QED
  BY <1>1, <1>2, <1>3, <1>4, <1>5 DEF StatusSteps

(* What the camera does, and the callers that ask it something.             *)
CameraSteps ==
  \/ \E c \in Callers : ControlTransfer(c)
  \/ \E x \in Transfers : Finish(x) /\ UNCHANGED device
  \/ Unplug /\ UNCHANGED device
  \/ Plug

(* The camera, and who asks it something, preserve the invariant.           *)
LEMMA CameraStep ==
  ASSUME IInv, CameraSteps
  PROVE  IInv'
<1> USE ThreadsAssumption, SubmittedAssumption, ClientAssumption
    DEF IInv, Threads, Transfers, locks, queue, bus, eventVars, handle, client, object, files, device, ClientGoes, Idle, Open, Goes
<1>1. CASE \E c \in Callers : ControlTransfer(c)
  <2>1. TypeOK'
    BY <1>1 DEF ControlTransfer, SubmitControl, Submit, TypeOK, EventsTypeOK, Steps, ClientSteps, FileLife
  <2>2. ThreadLife'
    BY <1>1 DEF ControlTransfer, SubmitControl, Submit, TypeOK, EventsTypeOK, ThreadLife, SessionLife, Inside, Closing, Closed
  <2>3. SessionLife' /\ FileLife'
    BY <1>1 DEF ControlTransfer, SubmitControl, Submit, SessionLife, FileLife
  <2>4. CallbackLife'
    BY <1>1 DEF ControlTransfer, SubmitControl, Submit, TypeOK, EventsTypeOK, ThreadLife, SessionLife, CallbackLife, Inside, Reporting, Closing, Closed
  <2>5. SleepersAreWoken'
    BY <1>1 DEF ControlTransfer, SubmitControl, Submit, TypeOK, EventsTypeOK, ThreadLife, SleepersAreWoken
  <2> QED
    BY <2>1, <2>2, <2>3, <2>4, <2>5
<1>2. CASE \E x \in Transfers : Finish(x) /\ UNCHANGED device
  <2>1. TypeOK'
    BY <1>2 DEF Finish, TypeOK, EventsTypeOK, Steps, ClientSteps, FileLife
  <2>2. ThreadLife'
    BY <1>2 DEF Finish, TypeOK, EventsTypeOK, ThreadLife, SessionLife, Inside, Closing, Closed
  <2>3. SessionLife' /\ FileLife'
    BY <1>2 DEF Finish, SessionLife, FileLife
  <2>4. CallbackLife'
    BY <1>2 DEF Finish, TypeOK, EventsTypeOK, ThreadLife, SessionLife, CallbackLife, Inside, Reporting, Closing, Closed
  <2>5. SleepersAreWoken'
    BY <1>2 DEF Finish, TypeOK, EventsTypeOK, ThreadLife, SleepersAreWoken
  <2> QED
    BY <2>1, <2>2, <2>3, <2>4, <2>5
<1>3. CASE Unplug /\ UNCHANGED device
  <2>1. TypeOK'
    <3>1. attached' \in BOOLEAN
      BY <1>3 DEF Unplug
    <3> QED
      BY <1>3, <3>1 DEF Unplug, TypeOK, EventsTypeOK
  <2>2. ThreadLife'
    BY <1>3 DEF Unplug, TypeOK, EventsTypeOK, ThreadLife, SessionLife, Inside, Closing, Closed
  <2>3. SessionLife' /\ FileLife'
    BY <1>3 DEF Unplug, SessionLife, FileLife
  <2>4. CallbackLife'
    BY <1>3 DEF Unplug, TypeOK, EventsTypeOK, ThreadLife, SessionLife, CallbackLife, Inside, Reporting, Closing, Closed
  <2>5. SleepersAreWoken'
    BY <1>3 DEF Unplug, TypeOK, EventsTypeOK, ThreadLife, SleepersAreWoken
  <2> QED
    BY <2>1, <2>2, <2>3, <2>4, <2>5
<1>4. CASE Plug
  <2>1. TypeOK'
    BY <1>4 DEF Plug, TypeOK, EventsTypeOK, Steps, ClientSteps, FileLife
  <2>2. ThreadLife'
    BY <1>4 DEF Plug, TypeOK, EventsTypeOK, ThreadLife, SessionLife, Inside, Closing, Closed
  <2>3. SessionLife' /\ FileLife'
    BY <1>4 DEF Plug, SessionLife, FileLife
  <2>4. CallbackLife'
    BY <1>4 DEF Plug, TypeOK, EventsTypeOK, ThreadLife, SessionLife, CallbackLife, Inside, Reporting, Closing, Closed
  <2>5. SleepersAreWoken'
    BY <1>4 DEF Plug, TypeOK, EventsTypeOK, ThreadLife, SleepersAreWoken
  <2> QED
    BY <2>1, <2>2, <2>3, <2>4, <2>5
<1> QED
  BY <1>1, <1>2, <1>3, <1>4 DEF CameraSteps

(* Every step preserves the invariant.                                      *)
LEMMA StepInv == IInv /\ [Next]_vars => IInv'
<1> SUFFICES ASSUME IInv, [Next]_vars PROVE IInv'
  OBVIOUS
<1>1. CASE UNCHANGED vars
  BY <1>1 DEF vars, eventVars, device, locks, queue, bus, handle, client, object, files, IInv, TypeOK, EventsTypeOK,
              ThreadLife, SessionLife, FileLife, CallbackLife, SleepersAreWoken
<1>2. CASE \E t \in Threads : ThreadStep(t)
  BY <1>2, EventStep, StatusStep DEF ThreadStep
<1>3. CASE \E t \in Threads : (PollTimeout(t) \/ WaitTimeout(t)) /\ UNCHANGED device
  BY <1>3, EventStep
<1>4. CASE CameraSteps
  BY <1>4, CameraStep
<1> QED
  BY <1>1, <1>2, <1>3, <1>4, ConnectStep, CloseStep DEF Next, CameraSteps

(* The inductive invariant holds in every state.                            *)
THEOREM Invariance == Spec => []IInv
BY InitInv, StepInv, PTL DEF Spec

(* Every variable keeps its type, for any number of threads and transfers.  *)
THEOREM TypeCorrect == Spec => []TypeOK
<1>1. IInv => TypeOK
  BY DEF IInv
<1> QED
  BY <1>1, Invariance, PTL

(* The handles outlive every report of the status transfer, and no callback *)
(* of a deleted object runs once libusb_close has the lock.                 *)
THEOREM CallbacksEnd == Spec => []CallbacksEndAtClose
<1>1. IInv => CallbacksEndAtClose
  BY DEF IInv, TypeOK, CallbackLife, SessionLife, Reporting, Closing, CallbacksEndAtClose, InStatusCallback, StatusMutexFree
<1> QED
  BY <1>1, Invariance, PTL

(* No thread is left asleep on event_waiters_cond without a step to come    *)
(* that wakes it.                                                           *)
THEOREM SleepersWoken == Spec => []SleepersAreWoken
<1>1. IInv => SleepersAreWoken
  BY DEF IInv
<1> QED
  BY <1>1, Invariance, PTL

(* Neither a connect that fails nor a release leaves anything behind.       *)
THEOREM LeavesNothing == Spec => []NothingIsLeft
<1>1. IInv => NothingIsLeft
  BY DEF IInv, TypeOK, SessionLife, FileLife, Closing, Closed, NothingIsLeft, Open
<1> QED
  BY <1>1, Invariance, PTL
=============================================================================
