--------------------------- MODULE UsbMonitorProofs ---------------------------
(***************************************************************************)
(* Proofs about UsbMonitor, for any number of devices and control blocks.  *)
(*                                                                         *)
(* The argument: the clone that UVCCamera.open makes is known to the        *)
(* camera thread alone until it closes it, so that nobody else, whatever    *)
(* block of the monitor he closes, closes the camera's connection.  For the *)
(* losses of a connection, the origin of each block anybody knows is needed *)
(* as well: a block is dropped only in favour of one of the same device.    *)
(***************************************************************************)
EXTENDS UsbMonitor, TLAPS

(* A block that the camera thread alone knows, with its connection. *)
Own(b) ==
  /\ b \in connected
  /\ b \notin {mCtrlBlocks[d] : d \in Devices} \cup {uiBlock, seen.b, given}
  /\ \A i \in DOMAIN inbox : inbox[i] # b

(* The camera is open between messages only; its clone is the thread's own, *)
(* and so is the one it is connecting.                                      *)
CloneLife ==
  /\ cameraPc # "idle" => mUVCCamera = None
  /\ mUVCCamera # None => Own(mUVCCamera)
  /\ cameraPc = "connect" => hand # None /\ Own(hand)

(* What the threads know in the middle of a handler. *)
HandlerLife ==
  /\ uiPc = "remove" => broadcasts # <<>>
  /\ cameraPc = "clone" => given # None

IInv == TypeOK /\ CloneLife /\ HandlerLife

(* A block that is not in use is nobody's.                                  *)
LEMMA UnusedIsNew ==
  ASSUME Unused # {}
  PROVE  /\ AnyUnused \in Blocks /\ AnyUnused \notin connected
         /\ AnyUnused \notin {mCtrlBlocks[d] : d \in Devices} \cup {uiBlock, seen.b, given, hand, mUVCCamera}
         /\ \A i \in DOMAIN inbox : inbox[i] # AnyUnused
<1>1. AnyUnused \in Unused
  BY DEF AnyUnused
<1> QED
  BY <1>1 DEF Unused, Known, ToSet

(* What a queue holds after a message has been added, or taken out.         *)
LEMMA Appended ==
  ASSUME NEW S, NEW s \in Seq(S), NEW m \in S
  PROVE  /\ Append(s, m) \in Seq(S) /\ Append(s, m) # <<>>
         /\ \A i \in DOMAIN Append(s, m) : Append(s, m)[i] = m \/ \E j \in DOMAIN s : Append(s, m)[i] = s[j]
OBVIOUS

LEMMA AsyncTyped ==
  ASSUME TypeOK, NEW d \in Devices, NEW k \in {"attach", "dettach", "connect"},
         async' \in {async, Append(async, <<k, d>>)}
  PROVE  async' \in Seq(Messages)
<1>1. async \in Seq(Messages) /\ <<k, d>> \in Messages
  BY DEF TypeOK, Messages
<1>2. Append(async, <<k, d>>) \in Seq(Messages)
  BY <1>1, Appended
<1> QED
  BY <1>1, <1>2

LEMMA BroadcastsTyped ==
  ASSUME TypeOK, NEW d \in Devices, NEW k \in {"granted", "denied", "detached"},
         broadcasts' \in {broadcasts, Append(broadcasts, <<k, d>>)}
  PROVE  broadcasts' \in Seq(Broadcasts) /\ (broadcasts # <<>> => broadcasts' # <<>>)
<1>1. broadcasts \in Seq(Broadcasts) /\ <<k, d>> \in Broadcasts
  BY DEF TypeOK, Broadcasts
<1>2. Append(broadcasts, <<k, d>>) \in Seq(Broadcasts) /\ Append(broadcasts, <<k, d>>) # <<>>
  BY <1>1, Appended
<1> QED
  BY <1>1, <1>2

LEMMA InboxTyped ==
  ASSUME TypeOK, NEW b \in OptBlocks, inbox' \in {inbox, Append(inbox, b)}
  PROVE  /\ inbox' \in Seq(OptBlocks)
         /\ \A i \in DOMAIN inbox' : inbox'[i] = b \/ \E j \in DOMAIN inbox : inbox'[i] = inbox[j]
<1>1. inbox \in Seq(OptBlocks)
  BY DEF TypeOK
<1>2. CASE inbox' = inbox
  BY <1>1, <1>2
<1>3. CASE inbox' = Append(inbox, b)
  BY <1>1, <1>3, Appended
<1> QED
  BY <1>2, <1>3

LEMMA Taken ==
  ASSUME NEW S, NEW s \in Seq(S), s # <<>>
  PROVE  Head(s) \in S /\ Tail(s) \in Seq(S)
OBVIOUS

(* The device that a broadcast or a message of the looper is about.         *)
LEMMA About ==
  ASSUME TypeOK
  PROVE  /\ broadcasts # <<>> => Head(broadcasts)[2] \in Devices
         /\ async # <<>> => Head(async)[2] \in Devices
<1>1. \A m \in Broadcasts \cup Messages : m[2] \in Devices
  BY DEF Broadcasts, Messages
<1> QED
  BY <1>1, Taken DEF TypeOK

(* The monitor is registered, with nothing plugged in.                      *)
LEMMA InitInv == Init => IInv
<1> SUFFICES ASSUME Init PROVE IInv
  OBVIOUS
<1> USE DevicesAssumption, BlocksAssumption DEF Init, OptBlocks, OptDevices
<1>1. TypeOK
  <2>1. seen \in [d : OptDevices, b : OptBlocks, more : BOOLEAN]
    BY DEF Nothing
  <2>2. broadcasts \in Seq(Broadcasts) /\ async \in Seq(Messages) /\ requests \in Seq(Devices)
    OBVIOUS
  <2>3. inbox \in Seq(OptBlocks)
    OBVIOUS
  <2>4. mCtrlBlocks \in [Devices -> OptBlocks] /\ device \in [Blocks -> OptDevices]
    OBVIOUS
  <2>5. registered \in BOOLEAN /\ destroyed \in BOOLEAN /\ isRequest \in BOOLEAN
    OBVIOUS
  <2>6. mDeviceCounts \in 0..1
    OBVIOUS
  <2>7. /\ plugged \in OptDevices /\ fresh \subseteq Devices /\ granted \subseteq Devices
        /\ dialogs \subseteq Devices /\ mHasPermissions \subseteq Devices /\ connected \subseteq Blocks
    OBVIOUS
  <2>8. uiPc \in {"idle", "remove", "destroy", "end"} /\ uiBlock \in OptBlocks
    OBVIOUS
  <2>9. /\ asyncPc \in {"idle", "check", "put"} /\ cameraPc \in {"idle", "close", "clone", "connect"}
        /\ given \in OptBlocks /\ hand \in OptBlocks /\ mUVCCamera \in OptBlocks
    OBVIOUS
  <2> HIDE DEF Init
  <2> QED
    BY <2>1, <2>2, <2>3, <2>4, <2>5, <2>6, <2>7, <2>8, <2>9 DEF TypeOK
<1>2. CloneLife /\ HandlerLife
  BY DEF CloneLife, HandlerLife
<1> QED
  BY <1>1, <1>2 DEF IInv

(* The camera and the user touch no block.                                  *)
LEMMA UserStep ==
  ASSUME IInv, User
  PROVE  IInv'
<1> USE DevicesAssumption, BlocksAssumption
    DEF IInv, OptBlocks, OptDevices, usb, state, blocks, ui, looper, camera
<1>1. CASE Plug
  <2>1. TypeOK'
    BY <1>1 DEF Plug, TypeOK, HandlerLife, Messages, Broadcasts, Nothing
  <2>2. CloneLife'
    BY <1>1 DEF Plug, TypeOK, HandlerLife, CloneLife, Own, Nothing
  <2>3. HandlerLife'
    BY <1>1 DEF Plug, TypeOK, HandlerLife, Broadcasts
  <2> QED
    BY <2>1, <2>2, <2>3
<1>2. CASE Unplug
  <2>1. TypeOK'
    BY <1>2 DEF Unplug, TypeOK, HandlerLife, Messages, Broadcasts, Nothing
  <2>2. CloneLife'
    BY <1>2 DEF Unplug, TypeOK, HandlerLife, CloneLife, Own, Nothing
  <2>3. HandlerLife'
    <3>1. plugged \in Devices /\ broadcasts' \in {broadcasts, Append(broadcasts, <<"detached", plugged>>)}
      BY <1>2 DEF Unplug, TypeOK
    <3>2. broadcasts # <<>> => broadcasts' # <<>>
      BY <3>1, BroadcastsTyped
    <3> QED
      BY <1>2, <3>2 DEF Unplug, HandlerLife
  <2> QED
    BY <2>1, <2>2, <2>3
<1>3. CASE \E d \in Devices : Answer(d, TRUE) \/ Answer(d, FALSE)
  <2>1. TypeOK'
    <3> PICK d \in Devices : Answer(d, TRUE) \/ Answer(d, FALSE)
      BY <1>3
    <3>2. broadcasts' \in Seq(Broadcasts)
      <4>1. broadcasts' \in {broadcasts, Append(broadcasts, <<"granted", d>>), Append(broadcasts, <<"denied", d>>)}
        BY DEF Answer
      <4> QED
        BY <4>1, BroadcastsTyped
    <3>3. granted' \subseteq Devices /\ dialogs' \subseteq Devices
      BY DEF Answer, TypeOK
    <3> QED
      BY <3>2, <3>3 DEF Answer, TypeOK, Messages, Broadcasts
  <2>2. CloneLife'
    BY <1>3 DEF Answer, TypeOK, HandlerLife, CloneLife, Own, Nothing
  <2>3. HandlerLife'
    BY <1>3 DEF Answer, TypeOK, HandlerLife, Broadcasts
  <2> QED
    BY <2>1, <2>2, <2>3
<1> QED
  BY <1>1, <1>2, <1>3 DEF User

(* A call of onDisConnect may end the request and post None to the camera   *)
(* thread, and changes nothing else.                                        *)
Closing ==
  /\ isRequest' \in BOOLEAN /\ inbox' \in Seq(OptBlocks)
  /\ \A i \in DOMAIN inbox' : inbox'[i] = None \/ \E j \in DOMAIN inbox : inbox'[i] = inbox[j]

LEMMA Posted ==
  ASSUME TypeOK, OnDisconnect \/ UNCHANGED <<isRequest, inbox>>
  PROVE  Closing
<1>1. CASE inbox' = Append(inbox, None) /\ isRequest' = FALSE
  BY <1>1, InboxTyped DEF Closing, OptBlocks
<1>2. CASE inbox' = inbox /\ isRequest' \in {FALSE, isRequest}
  BY <1>2 DEF Closing, TypeOK
<1> QED
  BY <1>1, <1>2 DEF OnDisconnect, CloseCamera

(* The UI thread closes blocks of the map only.                             *)
LEMMA UiStep ==
  ASSUME IInv, Ui \/ ReleaseHelper
  PROVE  IInv'
<1> USE DevicesAssumption, BlocksAssumption
    DEF IInv, OptBlocks, OptDevices, usb, state, blocks, ui, looper, camera
<1>1. CASE ReceivePermission
  <2>1. TypeOK'
    <3> DEFINE d == Head(broadcasts)[2]
    <3>1. d \in Devices /\ <<"connect", d>> \in Messages
      BY <1>1, About DEF ReceivePermission, Messages
    <3>2. async' \in Seq(Messages)
      <4>1. async' \in {async, Append(async, <<"connect", d>>)}
        BY <1>1 DEF ReceivePermission, ProcessConnect, ProcessCancel
      <4> QED
        BY <3>1, <4>1, AsyncTyped
    <3>3. broadcasts' \in Seq(Broadcasts)
      BY <1>1, Taken DEF ReceivePermission, TypeOK
    <3>4. mHasPermissions' \subseteq Devices
      BY <1>1, <3>1 DEF ReceivePermission, ProcessConnect, ProcessCancel, TypeOK
    <3> QED
      BY <1>1, <3>2, <3>3, <3>4 DEF ReceivePermission, TypeOK, Messages, Broadcasts
  <2>2. CloneLife'
    BY <1>1 DEF ReceivePermission, ProcessConnect, ProcessCancel, TypeOK, HandlerLife, CloneLife, Own, Nothing
  <2>3. HandlerLife'
    BY <1>1 DEF ReceivePermission, ProcessConnect, ProcessCancel, TypeOK, HandlerLife, Broadcasts
  <2> QED
    BY <2>1, <2>2, <2>3
<1>2. CASE ReceiveDetached
  <2> DEFINE d == Head(broadcasts)[2]
  <2>0. d \in Devices /\ mCtrlBlocks[d] \in OptBlocks
    BY <1>2, About DEF ReceiveDetached, TypeOK
  <2>4. Closing
    BY <1>2, Posted DEF ReceiveDetached
  <2>1. TypeOK'
    <3>1. mCtrlBlocks' \in [Devices -> OptBlocks]
      BY <1>2, <2>0 DEF ReceiveDetached, TypeOK
    <3>2. uiBlock' \in OptBlocks /\ connected' \subseteq Blocks
      BY <1>2, <2>0 DEF ReceiveDetached, TypeOK
    <3> QED
      BY <1>2, <2>4, <3>1, <3>2 DEF ReceiveDetached, Closing, TypeOK, Messages, Broadcasts
  <2>2. CloneLife'
    <3>1. ASSUME NEW b \in Blocks, Own(b)
          PROVE  Own(b)'
      BY <1>2, <2>0, <2>4, <3>1 DEF ReceiveDetached, Closing, TypeOK, Own
    <3> QED
      BY <1>2, <3>1 DEF ReceiveDetached, TypeOK, CloneLife
  <2>3. HandlerLife'
    BY <1>2 DEF ReceiveDetached, OnDisconnect, CloseCamera, TypeOK, HandlerLife, Broadcasts
  <2> QED
    BY <2>1, <2>2, <2>3
<1>3. CASE ForgetDetached
  <2>1. TypeOK'
    BY <1>3 DEF ForgetDetached, TypeOK, HandlerLife, Messages, Broadcasts, Nothing
  <2>2. CloneLife'
    BY <1>3 DEF ForgetDetached, TypeOK, HandlerLife, CloneLife, Own, Nothing
  <2>3. HandlerLife'
    BY <1>3 DEF ForgetDetached, TypeOK, HandlerLife, Broadcasts
  <2> QED
    BY <2>1, <2>2, <2>3
<1>4. CASE DestroyMonitor
  <2>1. TypeOK'
    BY <1>4 DEF DestroyMonitor, TypeOK, HandlerLife, Messages, Broadcasts, Nothing
  <2>2. CloneLife'
    BY <1>4 DEF DestroyMonitor, TypeOK, HandlerLife, CloneLife, Own, Nothing
  <2>3. HandlerLife'
    BY <1>4 DEF DestroyMonitor, TypeOK, HandlerLife, Broadcasts
  <2> QED
    BY <2>1, <2>2, <2>3
<1>5. CASE ReleaseHelper
  <2>1. TypeOK'
    <3>1. inbox' \in Seq(OptBlocks)
      BY <1>5, InboxTyped DEF ReleaseHelper
    <3>2. broadcasts' \in Seq(Broadcasts) /\ registered' \in BOOLEAN /\ mDeviceCounts' \in 0..1
      <4>1. broadcasts' = <<>> /\ mDeviceCounts' = 0 /\ registered' = FALSE
        BY <1>5 DEF ReleaseHelper
      <4>2. broadcasts' \in Seq(Broadcasts)
        BY <4>1
      <4>3. registered' \in BOOLEAN
        BY <4>1
      <4> QED
        BY <4>1, <4>2, <4>3
    <3>3. uiPc' \in {"idle", "remove", "destroy", "end"}
      BY <1>5 DEF ReleaseHelper
    <3>4. UNCHANGED <<plugged, fresh, granted, dialogs, async, requests, destroyed, isRequest, mHasPermissions,
                      mCtrlBlocks, device, connected, uiBlock, asyncPc, seen, cameraPc, given, hand, mUVCCamera>>
      BY <1>5 DEF ReleaseHelper
    <3> QED
      BY <3>1, <3>2, <3>3, <3>4 DEF TypeOK, Messages, Broadcasts
  <2>2. CloneLife'
    BY <1>5 DEF ReleaseHelper, TypeOK, HandlerLife, CloneLife, Own, Nothing
  <2>3. HandlerLife'
    BY <1>5 DEF ReleaseHelper, TypeOK, HandlerLife, Broadcasts
  <2> QED
    BY <2>1, <2>2, <2>3
<1> QED
  BY <1>1, <1>2, <1>3, <1>4, <1>5 DEF Ui

(* The looper makes blocks that nobody has.                                 *)
LEMMA LooperStep ==
  ASSUME IInv, Looper
  PROVE  IInv'
<1> USE DevicesAssumption, BlocksAssumption
    DEF IInv, OptBlocks, OptDevices, usb, state, blocks, ui, looper, camera
<1>1. CASE CheckDevices
  <2>1. TypeOK'
    BY <1>1 DEF CheckDevices, TypeOK, HandlerLife, Messages, Broadcasts, Nothing
  <2>2. CloneLife'
    BY <1>1 DEF CheckDevices, TypeOK, HandlerLife, CloneLife, Own, Nothing
  <2>3. HandlerLife'
    BY <1>1 DEF CheckDevices, TypeOK, HandlerLife, Broadcasts
  <2> QED
    BY <2>1, <2>2, <2>3
<1>2. CASE AnnounceDevices
  <2>1. TypeOK'
    <3>1. async' \in Seq(Messages)
      <4>1. CASE seen.d = None
        BY <1>2, <4>1 DEF AnnounceDevices, TypeOK
      <4>2. CASE seen.d # None
        <5>1. seen.d \in Devices
          BY <4>2 DEF TypeOK
        <5>2. async' \in {async, Append(async, <<"attach", seen.d>>)}
          BY <1>2 DEF AnnounceDevices
        <5> QED
          BY <5>1, <5>2, AsyncTyped
      <4> QED
        BY <4>1, <4>2
    <3>2. mDeviceCounts' \in 0..1
      BY <1>2 DEF AnnounceDevices, TypeOK
    <3>3. seen' \in [d : OptDevices, b : OptBlocks, more : BOOLEAN]
      BY <1>2 DEF AnnounceDevices, Nothing
    <3> QED
      BY <1>2, <3>1, <3>2, <3>3 DEF AnnounceDevices, TypeOK, Messages, Broadcasts
  <2>2. CloneLife'
    BY <1>2 DEF AnnounceDevices, TypeOK, HandlerLife, CloneLife, Own, Nothing
  <2>3. HandlerLife'
    BY <1>2 DEF AnnounceDevices, TypeOK, HandlerLife, Broadcasts
  <2> QED
    BY <2>1, <2>2, <2>3
<1>3. CASE OnAttach
  <2>1. TypeOK'
    BY <1>3 DEF OnAttach, NextMessage, TypeOK, HandlerLife, Messages, Broadcasts, Nothing
  <2>2. CloneLife'
    BY <1>3 DEF OnAttach, NextMessage, TypeOK, HandlerLife, CloneLife, Own, Nothing
  <2>3. HandlerLife'
    BY <1>3 DEF OnAttach, NextMessage, TypeOK, HandlerLife, Broadcasts
  <2> QED
    BY <2>1, <2>2, <2>3
<1>4. CASE RequestPermission
  <2>1. TypeOK'
    <3> DEFINE d == Head(requests)
    <3>1. d \in Devices /\ <<"connect", d>> \in Messages /\ requests' \in Seq(Devices)
      BY <1>4, Taken DEF RequestPermission, TypeOK, Messages
    <3>2. async' \in Seq(Messages)
      <4>1. async' \in {async, Append(async, <<"connect", d>>)}
        BY <1>4 DEF RequestPermission, ProcessConnect, ProcessCancel
      <4> QED
        BY <3>1, <4>1, AsyncTyped
    <3>3. mHasPermissions' \subseteq Devices /\ dialogs' \subseteq Devices
      BY <1>4, <3>1 DEF RequestPermission, ProcessConnect, ProcessCancel, TypeOK
    <3> QED
      BY <1>4, <3>1, <3>2, <3>3 DEF RequestPermission, TypeOK, Messages, Broadcasts
  <2>2. CloneLife'
    BY <1>4 DEF RequestPermission, ProcessConnect, ProcessCancel, TypeOK, HandlerLife, CloneLife, Own, Nothing
  <2>3. HandlerLife'
    BY <1>4 DEF RequestPermission, ProcessConnect, ProcessCancel, TypeOK, HandlerLife, Broadcasts
  <2> QED
    BY <2>1, <2>2, <2>3
<1>5. CASE OnDettach
  <2>4. Closing
    BY <1>5, Posted DEF OnDettach
  <2>1. TypeOK'
    <3>1. async' \in Seq(Messages)
      BY <1>5, Taken DEF OnDettach, NextMessage, TypeOK
    <3> QED
      BY <1>5, <2>4, <3>1 DEF OnDettach, Closing, TypeOK, Messages, Broadcasts
  <2>2. CloneLife'
    <3>1. ASSUME NEW b \in Blocks, Own(b)
          PROVE  Own(b)'
      BY <1>5, <2>4, <3>1 DEF OnDettach, Closing, TypeOK, Own
    <3> QED
      BY <1>5, <3>1 DEF OnDettach, TypeOK, CloneLife
  <2>3. HandlerLife'
    BY <1>5 DEF OnDettach, NextMessage, OnDisconnect, CloseCamera, TypeOK, HandlerLife, Broadcasts
  <2> QED
    BY <2>1, <2>2, <2>3
<1>6. CASE CreateBlock
  <2>1. TypeOK'
    BY <1>6, UnusedIsNew DEF CreateBlock, NextMessage, NewBlock, TypeOK, HandlerLife, Messages, Broadcasts, Nothing
  <2>2. CloneLife'
    BY <1>6, UnusedIsNew DEF CreateBlock, NextMessage, NewBlock, TypeOK, HandlerLife, CloneLife, Own, Nothing
  <2>3. HandlerLife'
    BY <1>6 DEF CreateBlock, NextMessage, NewBlock, TypeOK, HandlerLife, Broadcasts
  <2> QED
    BY <2>1, <2>2, <2>3
<1>7. CASE PutBlock
  <2>1. TypeOK'
    <3>1. mCtrlBlocks' \in [Devices -> OptBlocks]
      BY <1>7 DEF PutBlock, TypeOK
    <3>2. inbox' \in Seq(OptBlocks)
      <4>1. seen.b \in OptBlocks /\ inbox' \in {inbox, Append(inbox, seen.b)}
        BY <1>7 DEF PutBlock, TypeOK
      <4> QED
        BY <4>1, InboxTyped
    <3>3. seen' \in [d : OptDevices, b : OptBlocks, more : BOOLEAN]
      BY <1>7 DEF PutBlock, Nothing
    <3> QED
      BY <1>7, <3>1, <3>2, <3>3 DEF PutBlock, TypeOK, Messages, Broadcasts
  <2>2. CloneLife'
    BY <1>7 DEF PutBlock, TypeOK, HandlerLife, CloneLife, Own, Nothing
  <2>3. HandlerLife'
    BY <1>7 DEF PutBlock, TypeOK, HandlerLife, Broadcasts
  <2> QED
    BY <2>1, <2>2, <2>3
<1> QED
  BY <1>1, <1>2, <1>3, <1>4, <1>5, <1>6, <1>7 DEF Looper

(* The camera thread makes the clone and closes it.                         *)
LEMMA CameraStep ==
  ASSUME IInv, CameraThread
  PROVE  IInv'
<1> USE DevicesAssumption, BlocksAssumption
    DEF IInv, OptBlocks, OptDevices, usb, state, blocks, ui, looper, camera
<1>1. CASE TakeMessage
  <2>1. TypeOK'
    BY <1>1 DEF TakeMessage, TypeOK, HandlerLife, Messages, Broadcasts, Nothing
  <2>2. CloneLife'
    BY <1>1 DEF TakeMessage, TypeOK, HandlerLife, CloneLife, Own, Nothing
  <2>3. HandlerLife'
    BY <1>1 DEF TakeMessage, TypeOK, HandlerLife, Broadcasts
  <2> QED
    BY <2>1, <2>2, <2>3
<1>2. CASE CloseClone
  <2>1. TypeOK'
    <3>1. mCtrlBlocks' \in [Devices -> OptBlocks] /\ connected' \subseteq Blocks /\ isRequest' \in BOOLEAN
      <4>1. CASE hand = None
        BY <1>2, <4>1 DEF CloseClone, TypeOK
      <4>2. CASE hand # None
        BY <1>2, <4>2 DEF CloseClone, TypeOK
      <4> QED
        BY <4>1, <4>2
    <3>2. UNCHANGED device /\ hand' = None /\ cameraPc' \in {"idle", "clone"}
      BY <1>2 DEF CloseClone
    <3> QED
      BY <1>2, <3>1, <3>2 DEF CloseClone, TypeOK, Messages, Broadcasts
  <2>2. CloneLife'
    BY <1>2 DEF CloseClone, TypeOK, HandlerLife, CloneLife, Own, Nothing
  <2>3. HandlerLife'
    BY <1>2 DEF CloseClone, TypeOK, HandlerLife, Broadcasts
  <2> QED
    BY <2>1, <2>2, <2>3
<1>3. CASE CloneBlock
  <2>1. TypeOK'
    <3>1. given \in Blocks /\ device[given] \in OptDevices
      BY <1>3 DEF CloneBlock, TypeOK, HandlerLife
    <3>2. device' \in [Blocks -> OptDevices] /\ connected' \subseteq Blocks /\ hand' \in OptBlocks
      <4>1. CASE CanOpen(device[given])
        <5>1. hand' \in Blocks /\ device' = [device EXCEPT ![hand'] = device[given]] /\ connected' = connected \cup {hand'}
          BY <1>3, <4>1, UnusedIsNew DEF CloneBlock, NewBlock
        <5> QED
          BY <3>1, <5>1 DEF TypeOK
      <4>2. CASE ~CanOpen(device[given])
        BY <1>3, <4>2 DEF CloneBlock, TypeOK
      <4> QED
        BY <4>1, <4>2
    <3> QED
      BY <1>3, <3>2 DEF CloneBlock, TypeOK, Messages, Broadcasts
  <2>2. CloneLife'
    BY <1>3, UnusedIsNew DEF CloneBlock, NewBlock, CanOpen, TypeOK, HandlerLife, CloneLife, Own, Nothing
  <2>3. HandlerLife'
    BY <1>3 DEF CloneBlock, NewBlock, CanOpen, TypeOK, HandlerLife, Broadcasts
  <2> QED
    BY <2>1, <2>2, <2>3
<1>4. CASE \E ok \in BOOLEAN : ConnectCamera(ok)
  <2>1. TypeOK'
    BY <1>4 DEF ConnectCamera, TypeOK, HandlerLife, Messages, Broadcasts, Nothing
  <2>2. CloneLife'
    BY <1>4 DEF ConnectCamera, TypeOK, HandlerLife, CloneLife, Own, Nothing
  <2>3. HandlerLife'
    BY <1>4 DEF ConnectCamera, TypeOK, HandlerLife, Broadcasts
  <2> QED
    BY <2>1, <2>2, <2>3
<1> QED
  BY <1>1, <1>2, <1>3, <1>4 DEF CameraThread

(* Every step preserves the invariant.                                      *)
LEMMA StepInv == IInv /\ [Next]_vars => IInv'
<1> SUFFICES ASSUME IInv, [Next]_vars PROVE IInv'
  OBVIOUS
<1>1. CASE UNCHANGED vars
  BY <1>1 DEF vars, usb, state, blocks, ui, looper, camera, IInv, TypeOK, CloneLife, HandlerLife, Own
<1> QED
  BY <1>1, UserStep, UiStep, LooperStep, CameraStep DEF Next

(* The inductive invariant holds in every state.                            *)
THEOREM Invariance == Spec => []IInv
BY InitInv, StepInv, PTL DEF Spec

(* Every variable keeps its type, for any number of devices and blocks.     *)
THEOREM TypeCorrect == Spec => []TypeOK
<1>1. IInv => TypeOK
  BY DEF IInv
<1> QED
  BY <1>1, Invariance, PTL

(* An open camera keeps the connection of its clone: neither the receiver   *)
(* nor destroy nor another connect can close it.                            *)
THEOREM KeepsItsConnection == Spec => []CameraHasItsConnection
<1>1. IInv => CameraHasItsConnection
  BY DEF IInv, CloneLife, Own, CameraHasItsConnection
<1> QED
  BY <1>1, Invariance, PTL

(* Whose a block is while somebody knows it: the map has under each device  *)
(* a block of that device; the looper's new block is of the device it has   *)
(* in hand; the block that the receiver has taken out is closed, and of the *)
(* device that is gone.  Outside a handler nobody has a block in hand.      *)
OriginLife ==
  /\ \A d \in Devices : mCtrlBlocks[d] # None => device[mCtrlBlocks[d]] = d
  /\ IF asyncPc = "put" THEN seen.b \in Blocks /\ seen.d \in Devices /\ device[seen.b] = seen.d ELSE seen.b = None
  /\ uiPc = "remove" /\ uiBlock # None => device[uiBlock] = Head(broadcasts)[2] /\ uiBlock \notin connected
  /\ cameraPc \in {"idle", "clone"} => hand = None

(* At first nobody has a block.                                             *)
LEMMA InitOrigin == Init => OriginLife
BY DEF Init, OriginLife, Nothing

(* The first of the broadcasts stays the first when others come.            *)
LEMMA HeadStays ==
  ASSUME NEW S, NEW s \in Seq(S), s # <<>>, NEW m \in S
  PROVE  Head(Append(s, m)) = Head(s)
OBVIOUS

(* A new block takes the origin of none that is known.                      *)
LEMMA NewBlockKeeps ==
  ASSUME TypeOK, Unused # {}, NEW d \in Devices, NewBlock(AnyUnused, d)
  PROVE  /\ AnyUnused \in Blocks /\ device'[AnyUnused] = d
         /\ \A b \in Blocks : b # AnyUnused => device'[b] = device[b]
         /\ \A b \in Blocks : b # AnyUnused => (b \in connected' <=> b \in connected)
         /\ \A e \in Devices : mCtrlBlocks[e] # AnyUnused
         /\ AnyUnused \notin {uiBlock, seen.b, given, hand, mUVCCamera}
<1>1. \A e \in Devices : mCtrlBlocks[e] # AnyUnused
  BY UnusedIsNew
<1> QED
  BY <1>1, UnusedIsNew DEF NewBlock, TypeOK

(* Every step preserves the origins.                                        *)
LEMMA OriginStep ==
  ASSUME IInv, OriginLife, [Next]_vars
  PROVE  OriginLife'
<1> USE DevicesAssumption, BlocksAssumption
    DEF IInv, OptBlocks, OptDevices, usb, state, blocks, ui, looper, camera, OriginLife
<1>1. CASE UNCHANGED vars
  BY <1>1 DEF vars
<1>2. CASE Plug
  BY <1>2 DEF Plug
<1>3. CASE Unplug
  <2>1. plugged \in Devices /\ <<"detached", plugged>> \in Broadcasts /\ broadcasts \in Seq(Broadcasts)
    BY <1>3 DEF Unplug, TypeOK, Broadcasts
  <2>2. uiPc = "remove" => Head(broadcasts') = Head(broadcasts)
    BY <1>3, <2>1, HeadStays DEF Unplug, HandlerLife
  <2> QED
    BY <1>3, <2>2 DEF Unplug
<1>4. CASE \E d \in Devices : Answer(d, TRUE) \/ Answer(d, FALSE)
  <2> PICK d \in Devices : Answer(d, TRUE) \/ Answer(d, FALSE)
    BY <1>4
  <2>1. <<"granted", d>> \in Broadcasts /\ <<"denied", d>> \in Broadcasts /\ broadcasts \in Seq(Broadcasts)
    BY DEF TypeOK, Broadcasts
  <2>2. broadcasts' \in {broadcasts, Append(broadcasts, <<"granted", d>>), Append(broadcasts, <<"denied", d>>)}
    BY DEF Answer
  <2>3. uiPc = "remove" => Head(broadcasts') = Head(broadcasts)
    BY <2>1, <2>2, HeadStays DEF HandlerLife
  <2> QED
    BY <2>3 DEF Answer
<1>5. CASE ReceivePermission
  BY <1>5 DEF ReceivePermission
<1>6. CASE ReceiveDetached
  <2>1. Head(broadcasts)[2] \in Devices
    BY <1>6, About DEF ReceiveDetached
  <2> QED
    BY <1>6, <2>1 DEF ReceiveDetached, TypeOK
<1>7. CASE ForgetDetached
  BY <1>7 DEF ForgetDetached, TypeOK
<1>8. CASE DestroyMonitor
  BY <1>8 DEF DestroyMonitor
<1>9. CASE ReleaseHelper
  BY <1>9 DEF ReleaseHelper
<1>10. CASE CheckDevices
  BY <1>10 DEF CheckDevices
<1>11. CASE AnnounceDevices
  BY <1>11 DEF AnnounceDevices, Nothing
<1>12. CASE OnAttach
  BY <1>12 DEF OnAttach
<1>13. CASE RequestPermission
  BY <1>13 DEF RequestPermission
<1>14. CASE OnDettach
  BY <1>14 DEF OnDettach
<1>15. CASE CreateBlock
  <2>1. Head(async)[2] \in Devices /\ Unused # {} /\ NewBlock(AnyUnused, Head(async)[2])
    BY <1>15, About DEF CreateBlock, NextMessage
  <2>2. \A d \in Devices : mCtrlBlocks[d] \in OptBlocks
    BY DEF TypeOK
  <2> QED
    BY <1>15, <2>1, <2>2, NewBlockKeeps DEF CreateBlock, TypeOK
<1>16. CASE PutBlock
  BY <1>16 DEF PutBlock, Nothing, TypeOK
<1>17. CASE TakeMessage
  BY <1>17 DEF TakeMessage
<1>18. CASE CloseClone
  BY <1>18 DEF CloseClone, TypeOK
<1>19. CASE CloneBlock
  <2>1. CASE CanOpen(device[given])
    <3>1. device[given] \in Devices /\ Unused # {} /\ NewBlock(AnyUnused, device[given])
      BY <1>19, <2>1 DEF CloneBlock, CanOpen, HandlerLife, TypeOK
    <3>2. \A d \in Devices : mCtrlBlocks[d] \in OptBlocks
      BY DEF TypeOK
    <3> QED
      BY <1>19, <2>1, <3>1, <3>2, NewBlockKeeps DEF CloneBlock, TypeOK
  <2>2. CASE ~CanOpen(device[given])
    BY <1>19, <2>2 DEF CloneBlock
  <2> QED
    BY <2>1, <2>2
<1>20. CASE \E ok \in BOOLEAN : ConnectCamera(ok)
  BY <1>20 DEF ConnectCamera
<1> QED
  BY <1>1, <1>2, <1>3, <1>4, <1>5, <1>6, <1>7, <1>8, <1>9, <1>10, <1>11, <1>12, <1>13, <1>14, <1>15, <1>16,
     <1>17, <1>18, <1>19, <1>20 DEF Next, User, Ui, Looper, CameraThread

(* The origins hold in every state.                                         *)
THEOREM Origins == Spec => []OriginLife
BY InitOrigin, OriginStep, Invariance, PTL DEF Spec

(* The four ways of LosesConnectionOnlyBy, for one block.                   *)
Excused(b) ==
  \/ cameraPc = "close" /\ cameraPc' # "close" /\ device[b] = device[hand] /\ b # hand
  \/ asyncPc = "put" /\ asyncPc' = "idle" /\ device[b] = seen.d /\ (b # seen.b \/ destroyed)
  \/ uiPc = "remove" /\ uiPc' = "idle" /\ device[b] = device[uiBlock] /\ b # uiBlock
  \/ cameraPc = "connect" /\ b = hand

(* A step that loses a block loses it in one of them.                       *)
LEMMA LosesStep ==
  ASSUME IInv, OriginLife, [Next]_vars, NEW b \in Blocks, ~Lost(b), Lost(b)'
  PROVE  Excused(b)
<1> USE DevicesAssumption, BlocksAssumption
    DEF IInv, OptBlocks, OptDevices, usb, state, blocks, ui, looper, camera, OriginLife, Lost, Closers
<1>1. CASE UNCHANGED vars
  BY <1>1 DEF vars
<1>2. CASE User
  BY <1>2 DEF User, Plug, Unplug, Answer
<1>3. CASE ReceivePermission
  BY <1>3 DEF ReceivePermission
<1>4. CASE ReceiveDetached
  BY <1>4 DEF ReceiveDetached, TypeOK
<1>5. CASE ForgetDetached
  <2>1. uiBlock # None /\ b = mCtrlBlocks[Head(broadcasts)[2]] /\ Head(broadcasts)[2] \in Devices
    BY <1>5, About DEF ForgetDetached, HandlerLife, TypeOK
  <2> QED
    BY <1>5, <2>1 DEF ForgetDetached, Excused
<1>6. CASE DestroyMonitor
  BY <1>6 DEF DestroyMonitor
<1>7. CASE ReleaseHelper
  BY <1>7 DEF ReleaseHelper
<1>8. CASE CheckDevices
  BY <1>8 DEF CheckDevices
<1>9. CASE AnnounceDevices
  BY <1>9 DEF AnnounceDevices, Nothing
<1>10. CASE OnAttach \/ RequestPermission \/ OnDettach
  BY <1>10 DEF OnAttach, RequestPermission, OnDettach
<1>11. CASE CreateBlock
  <2>1. Head(async)[2] \in Devices /\ Unused # {} /\ NewBlock(AnyUnused, Head(async)[2])
    BY <1>11, About DEF CreateBlock, NextMessage
  <2>2. seen'.b = AnyUnused /\ seen.b = None
    BY <1>11 DEF CreateBlock, NextMessage
  <2>3. b # AnyUnused /\ b # seen.b
    BY <2>2
  <2>4. b \in connected
    BY <2>1, <2>3, NewBlockKeeps
  <2> QED
    BY <1>11, <2>3, <2>4 DEF CreateBlock
<1>12. CASE PutBlock
  <2>1. seen.b \in Blocks /\ seen'.b = None /\ b \in connected
    BY <1>12 DEF PutBlock, Nothing
  <2>2. b \in {hand, mUVCCamera} => FALSE
    BY <1>12, <2>1 DEF PutBlock
  <2>3. CASE b # seen.b
    <3>1. ~destroyed /\ \E d \in Devices : b = mCtrlBlocks[d]
      BY <2>1, <2>2, <2>3
    <3>2. \A d \in Devices : b # mCtrlBlocks'[d]
      BY <1>12, <3>1 DEF PutBlock
    <3>3. device[b] = seen.d
      BY <1>12, <3>1, <3>2 DEF PutBlock, TypeOK
    <3> QED
      BY <1>12, <2>3, <3>3 DEF PutBlock, Excused
  <2>4. CASE b = seen.b
    <3>1. seen.d \in Devices /\ device[b] = seen.d
      BY <1>12, <2>4 DEF PutBlock
    <3>2. mCtrlBlocks'[seen.d] = b /\ destroyed' = destroyed
      BY <1>12, <2>4, <3>1 DEF PutBlock, TypeOK
    <3>3. b \in {mCtrlBlocks'[d] : d \in Devices}
      BY <3>1, <3>2
    <3>4. destroyed
      BY <3>2, <3>3
    <3> QED
      BY <1>12, <3>1, <3>4 DEF PutBlock, Excused
  <2> QED
    BY <2>3, <2>4
<1>13. CASE TakeMessage
  BY <1>13 DEF TakeMessage
<1>14. CASE CloseClone
  <2>1. hand # None /\ device[hand] \in Devices /\ b = mCtrlBlocks[device[hand]]
    BY <1>14 DEF CloseClone, TypeOK
  <2> QED
    BY <1>14, <2>1 DEF CloseClone, Excused
<1>15. CASE CloneBlock
  <2>1. CASE CanOpen(device[given])
    <3>1. device[given] \in Devices /\ Unused # {} /\ NewBlock(AnyUnused, device[given])
      BY <1>15, <2>1 DEF CloneBlock, CanOpen, HandlerLife, TypeOK
    <3> QED
      BY <1>15, <2>1, <3>1, NewBlockKeeps DEF CloneBlock, TypeOK
  <2>2. CASE ~CanOpen(device[given])
    BY <1>15, <2>2 DEF CloneBlock
  <2> QED
    BY <2>1, <2>2
<1>16. CASE \E ok \in BOOLEAN : ConnectCamera(ok)
  BY <1>16 DEF ConnectCamera, CloneLife, Excused
<1> QED
  BY <1>1, <1>2, <1>3, <1>4, <1>5, <1>6, <1>7, <1>8, <1>9, <1>10, <1>11, <1>12, <1>13, <1>14, <1>15, <1>16
  DEF Next, Ui, Looper, CameraThread

(* A connection is left with nobody to close it in the four ways of the     *)
(* property only: the close of a camera of its device, whose clone it is    *)
(* not; a second connect, or a first one after destroy; a second removal;   *)
(* or a connect that failed.                                                *)
THEOREM LosesOnlyBy == Spec => LosesConnectionOnlyBy
<1>1. IInv /\ OriginLife /\ [Next]_vars =>
        [\A b \in Blocks : ~Lost(b) /\ Lost(b)' =>
           \/ cameraPc = "close" /\ cameraPc' # "close" /\ device[b] = device[hand] /\ b # hand
           \/ asyncPc = "put" /\ asyncPc' = "idle" /\ device[b] = seen.d /\ (b # seen.b \/ destroyed)
           \/ uiPc = "remove" /\ uiPc' = "idle" /\ device[b] = device[uiBlock] /\ b # uiBlock
           \/ cameraPc = "connect" /\ b = hand]_vars
  BY LosesStep DEF Excused
<1> QED
  BY <1>1, Invariance, Origins, PTL DEF Spec, LosesConnectionOnlyBy
=============================================================================
