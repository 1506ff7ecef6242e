---------------------------- MODULE LibusbEvents ----------------------------
(***************************************************************************)
(* How the threads of one context share the handling of events in libusb   *)
(* (libusb/libusb/io.c, core.c, sync.c, os/android_usbfs.c).               *)
(*                                                                         *)
(* Whoever holds events_lock polls the device's descriptor and the control *)
(* pipe and reports the transfers that have finished; the other threads    *)
(* sleep on event_waiters_cond.  The thread of _uvc_handle_events does     *)
(* nothing else; a thread that makes a control transfer handles events     *)
(* until its own transfer has completed.  UvcDevice adds who opens and     *)
(* closes the device.                                                      *)
(***************************************************************************)
EXTENDS Integers, Sequences, FiniteSets

CONSTANTS
  Handler,      \* the thread of _uvc_handle_events
  Callers,      \* the threads that make control transfers
  Status,       \* the interrupt transfer of uvc_open
  MaxSubmitted, \* bound: transfers submitted in one session
  None

Threads   == Callers \cup {Handler}
Transfers == Callers \cup {Status}   \* a control transfer bears its caller's name

ASSUME ThreadsAssumption ==
  /\ IsFiniteSet(Callers) /\ Handler \notin Callers /\ Status \notin Threads
  /\ None \notin Threads \cup {Status}
ASSUME SubmittedAssumption == MaxSubmitted \in Nat \ {0}

VARIABLES
  pollfd_modify,        \* how many threads change the set of descriptors
  ctrl_pipe,            \* bytes in the control pipe
  events_lock,          \* the thread that holds it, or None
  event_handler_active,
  waiters,              \* the threads asleep on event_waiters_cond
  pc,                   \* where each thread is in libusb_handle_events
  flying,               \* transfers submitted and not finished
  urbs,                 \* transfers the kernel has finished, oldest first
  completed,            \* callers whose control transfer has completed
  pollfd,               \* TRUE: the device's descriptor is polled
  attached,             \* FALSE: the camera is unplugged
  submitted             \* how many transfers were submitted in this session

locks == <<pollfd_modify, ctrl_pipe, events_lock, event_handler_active>>
queue == <<flying, urbs, completed, submitted>>
bus   == <<pollfd, attached>>
eventVars == <<locks, waiters, pc, queue, bus>>

Steps == {"idle", "exited", "check", "try", "trylock", "locked", "poll", "reap",
          "status", "notify", "resubmit", "unlock", "broadcast", "waiters", "asleep"}

EventsTypeOK ==
  /\ pollfd_modify \in 0..1 /\ ctrl_pipe \in 0..1
  /\ events_lock \in Threads \cup {None} /\ event_handler_active \in BOOLEAN
  /\ waiters \subseteq Threads /\ pc \in [Threads -> Steps]
  /\ flying \subseteq Transfers /\ urbs \in Seq(Transfers)
  /\ completed \subseteq Callers
  /\ pollfd \in BOOLEAN /\ attached \in BOOLEAN /\ submitted \in 0..MaxSubmitted

EventsInit ==
  /\ pollfd_modify = 0 /\ ctrl_pipe = 0 /\ events_lock = None /\ event_handler_active = FALSE
  /\ waiters = {} /\ pc = [t \in Threads |-> "idle"]
  /\ flying = {} /\ urbs = <<>> /\ completed = {} /\ submitted = 0
  /\ pollfd = FALSE /\ attached = TRUE

(* libusb_submit_transfer. *)
Submit(x) ==
  /\ submitted < MaxSubmitted /\ submitted' = submitted + 1
  /\ flying' = flying \cup {x}

(* The sleeping threads are woken; t goes to step next. *)
Goes(t, next) == pc' = [pc EXCEPT ![t] = next]
WakeAll(t, next) ==
  /\ pc' = [u \in Threads |-> IF u = t THEN next ELSE IF u \in waiters THEN "check" ELSE pc[u]]
  /\ waiters' = {}

-----------------------------------------------------------------------------
(* libusb_handle_events_timeout_completed, by thread t.                     *)

(* libusb_try_lock_events: not while somebody changes the descriptors, ... *)
TryLockEvents(t) ==
  /\ pc[t] = "try"
  /\ Goes(t, IF pollfd_modify > 0 THEN "waiters" ELSE "trylock")
  /\ UNCHANGED <<locks, waiters, queue, bus>>

(* ... and not while another thread holds the lock. *)
TryLock(t) ==
  /\ pc[t] = "trylock"
  /\ IF events_lock = None
       THEN events_lock' = t /\ event_handler_active' = TRUE /\ Goes(t, "locked")
       ELSE Goes(t, "waiters") /\ UNCHANGED <<events_lock, event_handler_active>>
  /\ UNCHANGED <<pollfd_modify, ctrl_pipe, waiters, queue, bus>>

(* With the lock: a caller whose transfer has completed has nothing to wait for. *)
LockEvents(t) ==
  /\ pc[t] = "locked"
  /\ Goes(t, IF t \in completed THEN "unlock" ELSE "poll")
  /\ UNCHANGED <<locks, waiters, queue, bus>>

(* handle_events: poll returns because the control pipe has a byte, because *)
(* a transfer has finished, or both; ...                                    *)
Poll(t) ==
  /\ pc[t] = "poll"
  /\ \/ pollfd /\ attached /\ urbs # <<>> /\ Goes(t, "reap")
     \/ ctrl_pipe > 0 /\ (pollfd => attached /\ urbs = <<>>) /\ Goes(t, "unlock")
  /\ UNCHANGED <<locks, waiters, queue, bus>>

(* ... or after 60 seconds without any of these; ... *)
PollTimeout(t) ==
  /\ pc[t] = "poll"
  /\ ctrl_pipe = 0 /\ (pollfd => attached /\ urbs = <<>>)
  /\ Goes(t, "unlock")
  /\ UNCHANGED <<locks, waiters, queue, bus>>

(* Mutant: the transfers in flight are forgotten. *)
PollDisconnectForgets(t) ==
  /\ pc[t] = "poll"
  /\ pollfd /\ ~attached
  /\ pollfd' = FALSE
  /\ Goes(t, "unlock")
  /\ UNCHANGED <<locks, waiters, queue, attached>>

(* ... or because the device is gone: usbi_handle_disconnect ends every     *)
(* transfer with LIBUSB_TRANSFER_NO_DEVICE, and none is submitted again.    *)
PollDisconnect(t) ==
  /\ pc[t] = "poll"
  /\ pollfd /\ ~attached
  /\ pollfd' = FALSE
  /\ completed' = completed \cup (Callers \cap (flying \cup {urbs[i] : i \in 1..Len(urbs)}))
  /\ flying' = {} /\ urbs' = <<>>
  /\ WakeAll(t, "unlock")
  /\ UNCHANGED <<locks, submitted, attached>>

(* op_handle_events reports finished transfers as long as there are any.    *)
(* sync_transfer_cb sets completed, and usbi_handle_transfer_completion     *)
(* wakes the waiting threads.                                               *)
ReapControl(t) ==
  /\ pc[t] = "reap"
  /\ urbs # <<>> /\ Head(urbs) # Status
  /\ urbs' = Tail(urbs) /\ completed' = completed \cup {Head(urbs)}
  /\ WakeAll(t, "reap")
  /\ UNCHANGED <<locks, flying, submitted, bus>>

ReapStatus(t) ==
  /\ pc[t] = "reap"
  /\ urbs # <<>> /\ Head(urbs) = Status
  /\ urbs' = Tail(urbs)
  /\ Goes(t, "status")
  /\ UNCHANGED <<locks, waiters, flying, completed, submitted, bus>>

ReapNothing(t) ==
  /\ pc[t] = "reap"
  /\ urbs = <<>>
  /\ Goes(t, "unlock")
  /\ UNCHANGED <<locks, waiters, queue, bus>>

(* libusb_unlock_events, which then wakes the waiting threads. *)
UnlockEvents(t) ==
  /\ pc[t] = "unlock"
  /\ events_lock' = None /\ event_handler_active' = FALSE
  /\ Goes(t, "broadcast")
  /\ UNCHANGED <<pollfd_modify, ctrl_pipe, waiters, queue, bus>>

BroadcastWaiters(t) ==
  /\ pc[t] = "broadcast"
  /\ WakeAll(t, "check")
  /\ UNCHANGED <<locks, queue, bus>>

(* Without the lock, under event_waiters_lock: libusb_event_handler_active, *)
(* and libusb_wait_for_event only if another thread handles events.         *)
SomebodyHandles == pollfd_modify > 0 \/ event_handler_active
WaitForEvent(t) ==
  /\ pc[t] = "waiters"
  /\ IF t \notin completed /\ SomebodyHandles
       THEN waiters' = waiters \cup {t} /\ Goes(t, "asleep")
       ELSE UNCHANGED waiters /\ Goes(t, IF t \in completed THEN "check" ELSE "try")
  /\ UNCHANGED <<locks, queue, bus>>

WaitTimeout(t) ==
  /\ pc[t] = "asleep"
  /\ waiters' = waiters \ {t}
  /\ Goes(t, "check")
  /\ UNCHANGED <<locks, queue, bus>>

-----------------------------------------------------------------------------
(* libusb_control_transfer by caller c, which may fail to submit, ...       *)
SubmitControl(c) ==
  /\ pc[c] = "idle"
  /\ attached
  /\ Submit(c) /\ completed' = completed \ {c}
  /\ Goes(c, "check")
  /\ UNCHANGED <<locks, waiters, urbs, bus>>

(* ... and sync_transfer_wait_for_completion. *)
WaitForCompletion(c) ==
  /\ c \in Callers
  /\ pc[c] = "check"
  /\ Goes(c, IF c \in completed THEN "idle" ELSE "try")
  /\ UNCHANGED <<locks, waiters, queue, bus>>

-----------------------------------------------------------------------------
(* The camera and the kernel finish a transfer, or the camera goes away.    *)
Finish(x) ==
  /\ attached
  /\ x \in flying
  /\ flying' = flying \ {x} /\ urbs' = Append(urbs, x)
  /\ UNCHANGED <<locks, waiters, pc, completed, submitted, bus>>

Unplug ==
  /\ attached
  /\ attached' = FALSE
  /\ UNCHANGED <<locks, waiters, pc, queue, pollfd>>

HandleEvents(t) ==
  \/ TryLockEvents(t) \/ TryLock(t) \/ LockEvents(t)
  \/ Poll(t) \/ PollDisconnect(t)
  \/ ReapControl(t) \/ ReapStatus(t) \/ ReapNothing(t)
  \/ UnlockEvents(t) \/ BroadcastWaiters(t) \/ WaitForEvent(t)
  \/ WaitForCompletion(t)
=============================================================================
