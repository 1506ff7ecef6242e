----------------------------- MODULE UsbMonitor -----------------------------
(***************************************************************************)
(* From the plug to the camera: USBMonitor.java and its UsbControlBlocks,  *)
(* the listeners of UVCCameraHelper.java and MonitorService.java, and      *)
(* UVCCamera.open and close as the camera thread calls them.               *)
(*                                                                         *)
(* Three threads take turns at the connections to the device:              *)
(*   - the UI thread, on which broadcasts arrive and the service ends;     *)
(*   - the looper of mAsyncHandler, which polls the list of devices and    *)
(*     calls onAttach, onDettach and onConnect;                            *)
(*   - the camera thread (CameraHandler), which opens and closes.          *)
(***************************************************************************)
EXTENDS Integers, Sequences, SequencesExt

CONSTANTS
  Devices,   \* bound: the times a camera is plugged in, each a new UsbDevice
  Blocks,    \* bound: UsbControlBlocks that hold a connection or are in use
  None

ASSUME DevicesAssumption == None \notin Devices
ASSUME BlocksAssumption == None \notin Blocks

VARIABLES
  plugged, fresh,   \* the UsbDevice that is plugged in, and those to come
  granted,          \* devices the user has given permission for
  dialogs,          \* permission requests the user has not answered
  broadcasts,       \* what the receiver is to be sent
  registered, destroyed,
  mDeviceCounts, mHasPermissions,
  mCtrlBlocks,      \* the block of each device
  device,           \* the device of each block
  connected,        \* blocks whose mConnection is not null
  async,            \* messages of mAsyncHandler
  requests,         \* delayed calls of requestPermission
  isRequest,        \* of MonitorService
  uiPc, uiBlock,    \* UI thread: in which step, and the block it has closed
  asyncPc, seen,    \* looper: in which step, what it has in hand
  inbox,            \* messages of the camera thread
  cameraPc, given,  \* camera thread: in which step, the block of MSG_OPEN
  hand,             \* ... the clone being opened or closed
  mUVCCamera        \* the clone of the open camera, or None

usb    == <<plugged, fresh, granted, dialogs>>
state  == <<registered, destroyed, mDeviceCounts, mHasPermissions>>
blocks == <<mCtrlBlocks, device, connected>>
ui     == <<uiPc, uiBlock, broadcasts>>
looper == <<asyncPc, seen, async, requests>>
camera == <<inbox, cameraPc, given, hand, mUVCCamera>>
vars   == <<usb, state, blocks, isRequest, ui, looper, camera>>

OptBlocks  == Blocks \cup {None}
OptDevices == Devices \cup {None}
Messages   == {"attach", "dettach", "connect"} \X Devices
Broadcasts == {"granted", "denied", "detached"} \X Devices

TypeOK ==
  /\ plugged \in OptDevices /\ fresh \subseteq Devices
  /\ granted \subseteq Devices /\ dialogs \subseteq Devices
  /\ broadcasts \in Seq(Broadcasts) /\ async \in Seq(Messages) /\ requests \in Seq(Devices)
  /\ registered \in BOOLEAN /\ destroyed \in BOOLEAN /\ isRequest \in BOOLEAN
  /\ mDeviceCounts \in 0..1 /\ mHasPermissions \subseteq Devices
  /\ mCtrlBlocks \in [Devices -> OptBlocks] /\ device \in [Blocks -> OptDevices] /\ connected \subseteq Blocks
  /\ uiPc \in {"idle", "remove", "destroy", "end"} /\ uiBlock \in OptBlocks
  /\ asyncPc \in {"idle", "check", "put"} /\ seen \in [d : OptDevices, b : OptBlocks, more : BOOLEAN]
  /\ inbox \in Seq(OptBlocks) /\ cameraPc \in {"idle", "close", "clone", "connect"}
  /\ given \in OptBlocks /\ hand \in OptBlocks /\ mUVCCamera \in OptBlocks

Nothing == [d |-> None, b |-> None, more |-> FALSE]

Init ==
  /\ plugged = None /\ fresh = Devices /\ granted = {} /\ dialogs = {} /\ broadcasts = <<>>
  /\ registered = TRUE /\ destroyed = FALSE /\ mDeviceCounts = 0 /\ mHasPermissions = {}
  /\ mCtrlBlocks = [d \in Devices |-> None] /\ device = [b \in Blocks |-> None] /\ connected = {}
  /\ async = <<>> /\ requests = <<>> /\ isRequest = FALSE
  /\ uiPc = "idle" /\ uiBlock = None /\ asyncPc = "idle" /\ seen = Nothing
  /\ inbox = <<>> /\ cameraPc = "idle" /\ given = None /\ hand = None /\ mUVCCamera = None

(* Who has a block, and of those who will close it: the map, the looper,    *)
(* which is about to put it there, and the camera thread.                   *)
Known   == {mCtrlBlocks[d] : d \in Devices} \cup {uiBlock, seen.b, given, hand, mUVCCamera} \cup ToSet(inbox)
Closers == {seen.b, hand, mUVCCamera} \cup (IF destroyed THEN {} ELSE {mCtrlBlocks[d] : d \in Devices})
Lost(b) == b \in connected /\ b \notin Closers
Unused  == Blocks \ (connected \cup Known)
AnyUnused == CHOOSE b \in Unused : TRUE

(* A new UsbControlBlock for d: connected, if mUsbManager.openDevice can.    *)
CanOpen(d) == plugged = d /\ d \in granted
NewBlock(b, d) ==
  /\ device' = [device EXCEPT ![b] = d]
  /\ connected' = IF CanOpen(d) THEN connected \cup {b} ELSE connected

-----------------------------------------------------------------------------
(* The camera and the user. *)
Plug ==
  /\ plugged = None /\ fresh # {}
  /\ plugged' = (CHOOSE d \in fresh : TRUE) /\ fresh' = fresh \ {plugged'}
  /\ UNCHANGED <<granted, dialogs, state, blocks, isRequest, ui, looper, camera>>

Unplug ==
  /\ plugged # None
  /\ plugged' = None /\ granted' = granted \ {plugged} /\ dialogs' = dialogs \ {plugged}
  /\ broadcasts' = IF registered THEN Append(broadcasts, <<"detached", plugged>>) ELSE broadcasts
  /\ UNCHANGED <<fresh, state, blocks, isRequest, uiPc, uiBlock, looper, camera>>

Answer(d, yes) ==
  /\ d \in dialogs
  /\ dialogs' = dialogs \ {d}
  /\ granted' = IF yes THEN granted \cup {d} ELSE granted
  /\ broadcasts' = IF ~registered THEN broadcasts
                   ELSE Append(broadcasts, <<IF yes THEN "granted" ELSE "denied", d>>)
  /\ UNCHANGED <<plugged, fresh, state, blocks, isRequest, uiPc, uiBlock, looper, camera>>

-----------------------------------------------------------------------------
(* UVCCameraHelper.closeCamera posts MSG_CLOSE, here None, to a camera that *)
(* is open.  MonitorService.onDisConnectDev calls it whatever the device.   *)
CloseCamera == inbox' = IF mUVCCamera = None \/ ~registered THEN inbox ELSE Append(inbox, None)
OnDisconnect == IF isRequest THEN isRequest' = FALSE /\ CloseCamera ELSE UNCHANGED <<isRequest, inbox>>

(* processConnect and processCancel *)
ProcessConnect(d) ==
  mHasPermissions' = mHasPermissions \cup {d} /\ async' = Append(async, <<"connect", d>>)
ProcessCancel(d) == mHasPermissions' = mHasPermissions \ {d} /\ UNCHANGED async

(* mUsbReceiver: the answer of the user, ... *)
ReceivePermission ==
  /\ uiPc = "idle" /\ broadcasts # <<>> /\ Head(broadcasts)[1] # "detached"
  /\ broadcasts' = Tail(broadcasts)
  /\ LET d == Head(broadcasts)[2]
     IN  IF Head(broadcasts)[1] = "granted" THEN ProcessConnect(d) ELSE ProcessCancel(d)
  /\ UNCHANGED <<usb, registered, destroyed, mDeviceCounts, blocks, isRequest, uiPc, uiBlock,
                 asyncPc, seen, requests, camera>>

(* Mutant: the block is not closed. *)
ReceiveDetachedKeeps ==
  /\ uiPc = "idle" /\ broadcasts # <<>> /\ Head(broadcasts)[1] = "detached"
  /\ mCtrlBlocks' = [mCtrlBlocks EXCEPT ![Head(broadcasts)[2]] = None]
  /\ uiPc' = "remove"
  /\ UNCHANGED <<usb, state, device, connected, isRequest, uiBlock, broadcasts, looper, camera>>

(* ... or that the device is gone: take its block out, close it, ... *)
ReceiveDetached ==
  /\ uiPc = "idle" /\ broadcasts # <<>> /\ Head(broadcasts)[1] = "detached"
  /\ LET d == Head(broadcasts)[2] IN
       /\ uiBlock' = IF mCtrlBlocks[d] \in connected THEN mCtrlBlocks[d] ELSE None
       /\ mCtrlBlocks' = [mCtrlBlocks EXCEPT ![d] = None]
       /\ connected' = connected \ {mCtrlBlocks[d]}
       /\ IF mCtrlBlocks[d] \in connected THEN OnDisconnect ELSE UNCHANGED <<isRequest, inbox>>
  /\ uiPc' = "remove"
  /\ UNCHANGED <<usb, state, device, broadcasts, looper, cameraPc, given, hand, mUVCCamera>>

(* ... whose close has removed the entry of the device once more, if the    *)
(* block was connected, and tell the listener.                              *)
ForgetDetached ==
  /\ uiPc = "remove"
  /\ LET d == Head(broadcasts)[2] IN
       /\ mCtrlBlocks' = IF uiBlock = None THEN mCtrlBlocks ELSE [mCtrlBlocks EXCEPT ![d] = None]
       /\ async' = Append(async, <<"dettach", d>>)
  /\ mDeviceCounts' = 0
  /\ uiPc' = "idle" /\ uiBlock' = None /\ broadcasts' = Tail(broadcasts)
  /\ UNCHANGED <<usb, registered, destroyed, mHasPermissions, device, connected, isRequest, asyncPc,
                 seen, requests, camera>>

(* Mutant: the handler is released as it is closed, if the camera is open. *)
ReleaseHelperIfOpen ==
  /\ uiPc = "idle"
  /\ registered' = FALSE /\ mDeviceCounts' = 0 /\ broadcasts' = <<>>
  /\ uiPc' = "destroy"
  /\ inbox' = IF mUVCCamera = None THEN inbox ELSE Append(inbox, None)
  /\ UNCHANGED <<usb, destroyed, mHasPermissions, blocks, isRequest, uiBlock, looper, cameraPc, given,
                 hand, mUVCCamera>>

(* MonitorService.onDestroy: unregisterUSB, UVCCameraHelper.release, which  *)
(* posts MSG_RELEASE to the camera thread, ...                              *)
ReleaseHelper ==
  /\ uiPc = "idle"
  /\ registered' = FALSE /\ mDeviceCounts' = 0 /\ broadcasts' = <<>>
  /\ uiPc' = "destroy"
  /\ inbox' = Append(inbox, None)
  /\ UNCHANGED <<usb, destroyed, mHasPermissions, blocks, isRequest, uiBlock, looper, cameraPc, given,
                 hand, mUVCCamera>>

(* ... and destroy: close all blocks of the map and quit the looper. *)
DestroyMonitor ==
  /\ uiPc = "destroy"
  /\ destroyed' = TRUE
  /\ connected' = connected \ {mCtrlBlocks[d] : d \in Devices}
  /\ mCtrlBlocks' = [d \in Devices |-> None]
  /\ async' = <<>> /\ requests' = <<>>
  /\ uiPc' = "end"
  /\ UNCHANGED <<usb, registered, mDeviceCounts, mHasPermissions, device, isRequest, uiBlock,
                 broadcasts, asyncPc, seen, camera>>

-----------------------------------------------------------------------------
(* The looper.  mDeviceCheckRunnable reads the list of devices, ... *)
CheckDevices ==
  /\ asyncPc = "idle" /\ registered
  /\ LET permitted == {plugged} \cap granted IN
       /\ seen' = [d |-> plugged, b |-> None, more |-> permitted # {} /\ mHasPermissions = {}]
       /\ mHasPermissions' = permitted
  /\ asyncPc' = "check"
  /\ UNCHANGED <<usb, registered, destroyed, mDeviceCounts, blocks, isRequest, ui, async, requests, camera>>

(* Mutant: only a device with a new permission is announced. *)
AnnounceDevicesPermitted ==
  /\ asyncPc = "check"
  /\ IF seen.more
       THEN /\ mDeviceCounts' = 1
            /\ async' = IF destroyed THEN async ELSE Append(async, <<"attach", seen.d>>)
       ELSE UNCHANGED <<mDeviceCounts, async>>
  /\ asyncPc' = "idle" /\ seen' = Nothing
  /\ UNCHANGED <<usb, registered, destroyed, mHasPermissions, blocks, isRequest, ui, requests, camera>>

(* ... and announces the devices if there are more than it knew, or more    *)
(* with permission.                                                         *)
AnnounceDevices ==
  /\ asyncPc = "check"
  /\ LET n == IF seen.d = None THEN 0 ELSE 1 IN
       IF n > mDeviceCounts \/ seen.more
         THEN /\ mDeviceCounts' = n
              /\ async' = IF n = 0 \/ destroyed THEN async ELSE Append(async, <<"attach", seen.d>>)
         ELSE UNCHANGED <<mDeviceCounts, async>>
  /\ asyncPc' = "idle" /\ seen' = Nothing
  /\ UNCHANGED <<usb, registered, destroyed, mHasPermissions, blocks, isRequest, ui, requests, camera>>

NextMessage(kind) == asyncPc = "idle" /\ async # <<>> /\ Head(async)[1] = kind

(* MonitorService.onAttachDev asks for permission, after a delay; ... *)
OnAttach ==
  /\ NextMessage("attach")
  /\ async' = Tail(async)
  /\ isRequest' = TRUE
  /\ requests' = IF isRequest THEN requests ELSE Append(requests, Head(async)[2])
  /\ UNCHANGED <<usb, state, blocks, ui, asyncPc, seen, camera>>

(* ... requestPermission: connect, or ask the user; an absent device cannot *)
(* be asked for.                                                            *)
RequestPermission ==
  /\ asyncPc = "idle" /\ requests # <<>>
  /\ requests' = Tail(requests)
  /\ LET d == Head(requests) IN
       IF registered /\ CanOpen(d) THEN ProcessConnect(d) /\ UNCHANGED dialogs
       ELSE IF registered /\ plugged = d
       THEN dialogs' = dialogs \cup {d} /\ UNCHANGED <<mHasPermissions, async>>
       ELSE ProcessCancel(d) /\ UNCHANGED dialogs
  /\ UNCHANGED <<plugged, fresh, granted, registered, destroyed, mDeviceCounts, blocks, isRequest, ui,
                 asyncPc, seen, camera>>

(* MonitorService.onDettachDev *)
OnDettach ==
  /\ NextMessage("dettach")
  /\ async' = Tail(async)
  /\ OnDisconnect
  /\ UNCHANGED <<usb, state, blocks, ui, asyncPc, seen, requests, cameraPc, given, hand, mUVCCamera>>

(* The runnable of processConnect makes a block, with a connection if it    *)
(* can have one, ...                                                        *)
CreateBlock ==
  /\ NextMessage("connect")
  /\ Unused # {}
  /\ seen' = [d |-> Head(async)[2], b |-> AnyUnused, more |-> FALSE]
  /\ NewBlock(AnyUnused, Head(async)[2])
  /\ async' = Tail(async)
  /\ asyncPc' = "put"
  /\ UNCHANGED <<usb, state, mCtrlBlocks, isRequest, ui, requests, camera>>

(* ... puts it in the place of the one before, and calls onConnect, which   *)
(* posts MSG_OPEN if the handler is still there.                            *)
PutBlock ==
  /\ asyncPc = "put"
  /\ mCtrlBlocks' = [mCtrlBlocks EXCEPT ![seen.d] = seen.b]
  /\ inbox' = IF registered THEN Append(inbox, seen.b) ELSE inbox
  /\ asyncPc' = "idle" /\ seen' = Nothing
  /\ UNCHANGED <<usb, state, device, connected, isRequest, ui, async, requests, cameraPc, given,
                 hand, mUVCCamera>>

-----------------------------------------------------------------------------
(* The camera thread.  handleOpen and handleClose first take the camera     *)
(* away, ...                                                                *)
TakeMessage ==
  /\ cameraPc = "idle" /\ inbox # <<>>
  /\ inbox' = Tail(inbox) /\ given' = Head(inbox)
  /\ hand' = mUVCCamera /\ mUVCCamera' = None
  /\ cameraPc' = "close"
  /\ UNCHANGED <<usb, state, blocks, isRequest, ui, looper>>

(* Mutant: the camera uses the block of the monitor. *)
UseBlock ==
  /\ cameraPc = "clone"
  /\ hand' = given /\ given' = None
  /\ cameraPc' = IF given \in connected THEN "connect" ELSE "idle"
  /\ UNCHANGED <<usb, state, blocks, isRequest, ui, looper, inbox, mUVCCamera>>

(* ... then destroy it: UVCCamera.close closes the clone, which removes the *)
(* entry of its device from the map, the original's.                        *)
CloseClone ==
  /\ cameraPc = "close"
  /\ IF hand = None
       THEN UNCHANGED <<blocks, isRequest>>
       ELSE /\ mCtrlBlocks' = [mCtrlBlocks EXCEPT ![device[hand]] = None]
            /\ connected' = connected \ {hand}
            /\ isRequest' = FALSE
            /\ UNCHANGED device
  /\ hand' = None
  /\ cameraPc' = IF given = None THEN "idle" ELSE "clone"
  /\ UNCHANGED <<usb, state, ui, looper, inbox, given, mUVCCamera>>

(* UVCCamera.open: clone the block, which needs a connection of its own ... *)
CloneBlock ==
  /\ cameraPc = "clone"
  /\ given' = None
  /\ IF CanOpen(device[given])
       THEN /\ Unused # {}
            /\ hand' = AnyUnused /\ NewBlock(AnyUnused, device[given])
            /\ cameraPc' = "connect"
       ELSE cameraPc' = "idle" /\ UNCHANGED <<hand, device, connected>>
  /\ UNCHANGED <<usb, state, mCtrlBlocks, isRequest, ui, looper, inbox, mUVCCamera>>

(* ... and nativeConnect; a camera that fails is dropped, with its clone. *)
ConnectCamera(ok) ==
  /\ cameraPc = "connect"
  /\ mUVCCamera' = IF ok THEN hand ELSE None
  /\ hand' = None
  /\ cameraPc' = "idle"
  /\ UNCHANGED <<usb, state, blocks, isRequest, ui, looper, inbox, given>>

User == Plug \/ Unplug \/ \E d \in Devices : Answer(d, TRUE) \/ Answer(d, FALSE)
Ui == ReceivePermission \/ ReceiveDetached \/ ForgetDetached \/ DestroyMonitor
Looper == CheckDevices \/ AnnounceDevices \/ OnAttach \/ RequestPermission \/ OnDettach \/ CreateBlock \/ PutBlock
CameraThread == TakeMessage \/ CloseClone \/ CloneBlock \/ \E ok \in BOOLEAN : ConnectCamera(ok)

Next == User \/ Ui \/ ReleaseHelper \/ Looper \/ CameraThread

(* The three threads run, and mDeviceCheckRunnable comes back every 2       *)
(* seconds; nothing is assumed of the user or of the end of the service.    *)
Fairness ==
  /\ WF_vars(Ui) /\ WF_vars(CameraThread)
  /\ WF_vars(AnnounceDevices) /\ SF_vars(CheckDevices)
  /\ WF_vars(OnAttach \/ OnDettach \/ CreateBlock) /\ WF_vars(RequestPermission) /\ WF_vars(PutBlock)

Spec == Init /\ [][Next]_vars /\ Fairness

-----------------------------------------------------------------------------
(* Properties.                                                              *)

(* Whoever closes the monitor's blocks, the connection an open camera works *)
(* on stays: nobody but the camera thread closes the camera's clone.        *)
CameraHasItsConnection == mUVCCamera # None => mUVCCamera \in connected

(* A connection is left open with nobody to close it in four ways only: the *)
(* close of a camera removes the original of its clone from the map, never  *)
(* forgets the clone; a second connect takes the place of the block of the  *)
(* first, or is put in the map after destroy; the receiver removes the      *)
(* entry of a device twice, and the second time it is a new one; the clone  *)
(* of a camera that could not be opened is dropped, against the comment of  *)
(* clone ("you should release it after using it").                          *)
LosesConnectionOnlyBy ==
  [][\A b \in Blocks : ~Lost(b) /\ Lost(b)' =>
       \/ cameraPc = "close" /\ cameraPc' # "close" /\ device[b] = device[hand] /\ b # hand
       \/ asyncPc = "put" /\ asyncPc' = "idle" /\ device[b] = seen.d /\ (b # seen.b \/ destroyed)
       \/ uiPc = "remove" /\ uiPc' = "idle" /\ device[b] = device[uiBlock] /\ b # uiBlock
       \/ cameraPc = "connect" /\ b = hand]_vars

(* The next check announces a camera that has come, unless mDeviceCounts    *)
(* holds the count of an earlier list, written after the receiver reset it. *)
NewCameraIsAnnounced ==
  \A d \in Devices :
    (registered /\ plugged = d /\ mDeviceCounts = 0 /\ asyncPc = "idle")
      ~> (plugged # d \/ ~registered \/ \E i \in 1..Len(async) : async[i] = <<"attach", d>>)

(* When the service ends the camera is closed for good, even one that was   *)
(* being opened.                                                            *)
ReleaseClosesCamera == uiPc = "destroy" ~> [](mUVCCamera = None)
=============================================================================
