--------------------------- MODULE UvcStreamProofs ---------------------------
(***************************************************************************)
(* Proofs about UvcStream, for any number of transfers and of frames.      *)
(***************************************************************************)
EXTENDS UvcStream, TLAPS

(* Only the threads that are counted as waiting wait.                       *)
Waiting ==
  /\ "user" \in sleepers => userPc = "asleep"
  /\ "client" \in sleepers => clientPc = "asleep"

(* One buffer is filled while the other is held, and each that is broken is *)
(* marked: the mark travels with the buffer.  So what is copied is whole.   *)
BrokenIsMarked ==
  /\ BuffersOK /\ outbuf # holdbuf
  /\ bfh_err \in BOOLEAN /\ hold_bfh_err \in BOOLEAN
  /\ contents[outbuf] = "broken" => bfh_err
  /\ contents[holdbuf] = "broken" => hold_bfh_err
  /\ frame.data = "whole"

(* The transfer in hand is neither in flight nor deleted.                   *)
InHand == eventPc # "idle" => transfer \in Transfers /\ transfers[transfer] = "reported"

(* While the transfers are being submitted one of them is still to be.      *)
Submitting == clientPc = "submit" => \E t \in Transfers : transfers[t] = "ready"

AllDeleted == \A t \in Transfers : transfers[t] = "null"

(* The life of the handle while nothing fails: running is up until          *)
(* uvc_stream_stop lowers it, and from there the client gets to free only   *)
(* past all transfers and past the user thread.                             *)
HandleLife ==
  /\ clientPc # "idle" => allocated
  /\ allocated => (running <=> clientPc \in {"idle", "submit", "close", "stop"})
  /\ clientPc \in {"join", "free"} \/ ~allocated => AllDeleted
  /\ clientPc = "free" \/ ~allocated => userPc = "none"

IInv ==
  /\ transfers \in [Transfers -> TransferStates]
  /\ clientPc \in ClientSteps
  /\ Waiting /\ InHand /\ Submitting /\ SleepersHaveReason
  /\ ~Disconnects /\ ~StartFails => HandleLife

(* The two ways to say that every transfer is deleted.                      *)
LEMMA DeletedIsNull == InState("null") = Transfers <=> AllDeleted
BY DEF InState, AllDeleted

(* A stream that is not there satisfies the invariant.                      *)
LEMMA InitInv == Init => IInv
BY DEF Init, IInv, TransferStates, ClientSteps, Waiting, NoImage, InHand, Submitting, SleepersHaveReason,
       HandleLife, AllDeleted

(* Every step of the client preserves the invariant.                        *)
LEMMA ClientStep ==
  ASSUME IInv, ClientNext
  PROVE  IInv'
<1> USE DEF IInv, TransferStates, ClientSteps, Waiting, InHand, Submitting, SleepersHaveReason, HandleLife,
            AllDeleted, ClientGoes, usb, received, held, event, user, NoImage, InState
<1>1. CASE StartStreaming
  BY <1>1, TransfersAssumption DEF StartStreaming, InUse
<1>2. ASSUME NEW t \in Transfers, SubmitTransfer(t) PROVE IInv'
  BY <1>2 DEF SubmitTransfer
<1>3. CASE SubmitFails
  BY <1>3 DEF SubmitFails
<1>4. CASE StopStreaming
  BY <1>4 DEF StopStreaming
<1>5. CASE CloseStream \/ StopStream
  BY <1>5 DEF CloseStream, StopStream
<1>6. CASE CancelTransfers
  BY <1>6 DEF CancelTransfers, AwaitTransfers
<1>7. CASE ClientWakes
  BY <1>7 DEF ClientWakes, AwaitTransfers
<1>8. CASE JoinUser \/ FreeStream
  BY <1>8 DEF JoinUser, FreeStream
<1> QED
  BY <1>1, <1>2, <1>3, <1>4, <1>5, <1>6, <1>7, <1>8 DEF ClientNext, ClientContinues

(* So does every step of the event thread.                                  *)
LEMMA EventStep ==
  ASSUME IInv, EventNext
  PROVE  IInv'
<1> USE DEF IInv, TransferStates, ClientSteps, Waiting, InHand, Submitting, SleepersHaveReason, HandleLife,
            AllDeleted, EventGoes, usb, received, held, event, user, InState
<1>0. allocated
  BY DEF EventNext
<1>1. ASSUME NEW t \in Transfers, TransferCompleted(t) \/ TransferTimedOut(t) \/ TransferFailed(t)
      PROVE  IInv'
  BY <1>1 DEF TransferCompleted, TransferTimedOut, TransferFailed, TransferReported
<1>2. ASSUME NEW t \in Transfers, DeviceGone(t) PROVE IInv'
  BY <1>2 DEF DeviceGone, TransferReported
<1>3. CASE BadPayload \/ PayloadsEnd \/ DecideTransfer
  BY <1>3 DEF BadPayload, PayloadsEnd, DecideTransfer, NextPayload
<1>4. ASSUME NEW p \in Payloads, ProcessPayload(p) PROVE IInv'
  BY <1>4 DEF ProcessPayload, SwapBuffers, NextPayload
<1>5. CASE PublishFrame
  BY <1>5 DEF PublishFrame, SwapBuffers, NextPayload
<1>6. CASE ResubmitTransfer
  BY <1>6 DEF ResubmitTransfer
<1>7. CASE DeleteTransfer
  BY <1>7 DEF DeleteTransfer
<1> QED
  BY <1>1, <1>2, <1>3, <1>4, <1>5, <1>6, <1>7 DEF EventNext

(* And every step of the user thread.                                       *)
LEMMA UserStep ==
  ASSUME IInv, UserNext
  PROVE  IInv'
<1> USE DEF IInv, TransferStates, ClientSteps, Waiting, InHand, Submitting, SleepersHaveReason, HandleLife,
            AllDeleted, UserGoes, usb, received, held, event, InState
<1>1. UNCHANGED <<allocated, running, usb, received, held, clientPc, event>> /\ allocated
  BY DEF UserNext
<1>2. ASSUME NEW from \in {"wait", "asleep"}, UserTakes(from), from = "asleep" => "user" \notin sleepers
      PROVE  IInv'
  BY <1>1, <1>2 DEF UserTakes
<1>3. CASE UserChecks \/ UserReturns
  BY <1>1, <1>3 DEF UserChecks, UserReturns
<1> QED
  BY <1>2, <1>3 DEF UserNext, UserWaits, UserWakes

(* The inductive invariant holds in every state.                            *)
THEOREM Invariance == Spec => []IInv
<1>1. IInv /\ UNCHANGED vars => IInv'
  BY DEF IInv, TransferStates, ClientSteps, Waiting, InHand, Submitting, SleepersHaveReason, HandleLife,
         AllDeleted, InState, vars, usb, received, held, event, user
<1>2. IInv /\ [Next]_vars => IInv'
  BY <1>1, ClientStep, EventStep, UserStep DEF Next
<1> QED
  BY <1>2, InitInv, PTL DEF Spec

(* A client step leaves the buffers alone, but for the start of a stream.   *)
LEMMA ClientKeepsMarks ==
  ASSUME BrokenIsMarked, ClientNext
  PROVE  BrokenIsMarked'
<1>1. CASE StartStreaming
  <2>1. bfh_err' = FALSE /\ hold_bfh_err' = FALSE
    BY <1>1, Zenon DEF StartStreaming
  <2> QED
    BY <1>1, <2>1 DEF StartStreaming, BrokenIsMarked, BuffersOK, Buffers, Contents, NoImage
<1>2. ASSUME UNCHANGED <<received, held, contents, frame>>
      PROVE  BrokenIsMarked'
  BY <1>2 DEF received, held, BrokenIsMarked, BuffersOK
<1>3. ASSUME ~StartStreaming
      PROVE  UNCHANGED <<received, held, contents, frame>>
  BY <1>3, Zenon DEF ClientNext, ClientContinues, SubmitTransfer, SubmitFails, StopStreaming,
                     CloseStream, StopStream, CancelTransfers, ClientWakes, JoinUser, FreeStream, user
<1> QED
  BY <1>1, <1>2, <1>3

(* Publishing hands the mark over with the buffer, and the buffer filled    *)
(* next starts whole and unmarked unless the payload spoils it.             *)
LEMMA EventKeepsMarks ==
  ASSUME BrokenIsMarked, EventNext
  PROVE  BrokenIsMarked'
<1>1. CASE BadPayload
  <2>1. bfh_err' = TRUE /\ UNCHANGED <<held, frame>>
    BY <1>1, Zenon DEF BadPayload, user
  <2>2. contents' = [contents EXCEPT ![outbuf] = "broken"]
    BY <1>1, Zenon DEF BadPayload
  <2> QED
    BY <2>1, <2>2 DEF BrokenIsMarked, BuffersOK, Contents, held
<1>2. ASSUME NEW p \in Payloads, ProcessPayload(p) PROVE BrokenIsMarked'
  <2>1. frame' = frame
    BY <1>2, Zenon DEF ProcessPayload, user
  <2>2. CASE Flipped(p)
    <3>1. outbuf' = holdbuf /\ holdbuf' = outbuf /\ hold_bfh_err' = bfh_err
      BY <1>2, <2>2, Zenon DEF ProcessPayload, SwapBuffers
    <3>2. bfh_err' = (p.data = "bogus")
      BY <1>2, <2>2, Zenon DEF ProcessPayload
    <3>3. contents' = [contents EXCEPT ![holdbuf] = IF p.data = "bogus" THEN "broken" ELSE "whole"]
      BY <1>2, <2>2, <3>1 DEF ProcessPayload, BrokenIsMarked, BuffersOK
    <3> QED
      BY <2>1, <3>1, <3>2, <3>3 DEF BrokenIsMarked, BuffersOK, Contents
  <2>3. CASE ~Flipped(p)
    <3>1. outbuf' = outbuf /\ holdbuf' = holdbuf /\ hold_bfh_err' = hold_bfh_err
      BY <1>2, <2>3, Zenon DEF ProcessPayload, held
    <3>2. bfh_err' = (bfh_err \/ p.data = "bogus")
      BY <1>2, <2>3, Zenon DEF ProcessPayload, BrokenIsMarked, BuffersOK
    <3>3. contents' = [contents EXCEPT ![outbuf] = IF p.data = "bogus" THEN "broken" ELSE @]
      BY <1>2, <2>3, <3>1 DEF ProcessPayload, BrokenIsMarked, BuffersOK
    <3> QED
      BY <2>1, <3>1, <3>2, <3>3 DEF BrokenIsMarked, BuffersOK, Contents
  <2> QED
    BY <2>2, <2>3
<1>3. CASE PublishFrame
  <2>1. bfh_err' = FALSE /\ hold_bfh_err' = bfh_err /\ frame' = frame
    BY <1>3, Zenon DEF PublishFrame, SwapBuffers, user
  <2>2. outbuf' = holdbuf /\ holdbuf' = outbuf
    BY <1>3, Zenon DEF PublishFrame, SwapBuffers
  <2>3. contents' = [contents EXCEPT ![holdbuf] = "whole"]
    BY <1>3, <2>2, Zenon DEF PublishFrame
  <2> QED
    BY <2>1, <2>2, <2>3 DEF BrokenIsMarked, BuffersOK, Contents
<1>4. ASSUME UNCHANGED <<received, held, contents, frame>>
      PROVE  BrokenIsMarked'
  BY <1>4 DEF received, held, BrokenIsMarked, BuffersOK
<1>5. ASSUME ~BadPayload, ~PublishFrame, ~\E p \in Payloads : ProcessPayload(p)
      PROVE  UNCHANGED <<received, held, contents, frame>>
  BY <1>5, Zenon DEF EventNext, TransferCompleted, TransferTimedOut, TransferFailed, DeviceGone,
                     TransferReported, PayloadsEnd, DecideTransfer, ResubmitTransfer,
                     DeleteTransfer, user
<1> QED
  BY <1>1, <1>2, <1>3, <1>4, <1>5

(* The user thread copies only what is not marked, hence not broken.        *)
LEMMA UserKeepsMarks ==
  ASSUME BrokenIsMarked, UserNext
  PROVE  BrokenIsMarked'
<1>1. UNCHANGED <<received, held, contents>>
  BY Zenon DEF UserNext
<1>2. frame' = frame \/ (~hold_bfh_err /\ frame' = [seq |-> hold_seq, data |-> contents[holdbuf]])
  BY Zenon DEF UserNext, UserWaits, UserWakes, UserTakes, UserChecks, UserReturns
<1>3. frame'.data = "whole"
  BY <1>2 DEF BrokenIsMarked, BuffersOK, Contents
<1> QED
  BY <1>1, <1>3 DEF BrokenIsMarked, BuffersOK, received, held

(* In every state a broken buffer is marked.                                *)
THEOREM MarksTravel == Spec => []BrokenIsMarked
<1>1. ASSUME Init PROVE BrokenIsMarked
  <2>1. bfh_err = FALSE /\ hold_bfh_err = FALSE
    BY <1>1, Zenon DEF Init
  <2> QED
    BY <1>1, <2>1 DEF Init, BrokenIsMarked, BuffersOK, Buffers, Contents, NoImage
<1>2. BrokenIsMarked /\ UNCHANGED vars => BrokenIsMarked'
  BY DEF BrokenIsMarked, BuffersOK, vars, received, held, user
<1>3. BrokenIsMarked /\ [Next]_vars => BrokenIsMarked'
  BY <1>2, ClientKeepsMarks, EventKeepsMarks, UserKeepsMarks DEF Next
<1> QED
  BY <1>1, <1>3, PTL DEF Spec

(* user_cb never gets broken image data, whatever is unplugged or fails.    *)
THEOREM NoneBroken == Spec => []NoBrokenFrame
<1>1. BrokenIsMarked => NoBrokenFrame
  BY DEF BrokenIsMarked, NoBrokenFrame
<1> QED
  BY <1>1, MarksTravel, PTL

(* Nobody sleeps on cb_cond for nothing, whatever is unplugged or fails.    *)
THEOREM SleepersReason == Spec => []SleepersHaveReason
<1>1. IInv => SleepersHaveReason
  BY DEF IInv
<1> QED
  BY <1>1, Invariance, PTL

(* While nothing fails, the handle is freed when its last user has gone.    *)
THEOREM FreedUnused == Spec => []FreedIsUnused
<1>1. IInv => FreedIsUnused
  BY DEF IInv, HandleLife, InHand, AllDeleted, FreedIsUnused, InUse, InState
<1> QED
  BY <1>1, Invariance, PTL

(* The stream keeps the promise of StreamService, for any number of         *)
(* transfers, unless the camera is unplugged or a first submission fails.   *)
THEOREM Promise ==
  ASSUME ~Disconnects, ~StartFails
  PROVE  Spec => DeliversAsPromised
<1>1. Init => Service!ServiceInit
  BY DEF Init, Service!ServiceInit
<1>2. IInv /\ IInv' /\ [Next]_vars => [Service!ServiceNext]_Service!serviceVars
  <2> SUFFICES ASSUME IInv, IInv', [Next]_vars
               PROVE  [Service!ServiceNext]_Service!serviceVars
    OBVIOUS
  <2> USE DEF IInv, HandleLife, ClientGoes, usb, received, held, event, user,
              Service!ServiceNext, Service!serviceVars
  <2>1. CASE ClientNext
    <3>1. CASE StartStreaming
      BY <2>1, <3>1 DEF StartStreaming, Service!Start
    <3>2. CASE StopStreaming
      BY <3>2 DEF StopStreaming, Service!Stop
    <3>3. CASE FreeStream
      BY <3>3 DEF FreeStream, Service!Stopped
    <3>4. CASE SubmitFails \/ CloseStream \/ StopStream
      BY <3>4 DEF SubmitFails, CloseStream, StopStream
    <3>5. CASE (\E t \in Transfers : SubmitTransfer(t)) \/ CancelTransfers \/ ClientWakes \/ JoinUser
      BY <3>5 DEF SubmitTransfer, CancelTransfers, ClientWakes, AwaitTransfers, JoinUser
    <3> QED
      BY <2>1, <3>1, <3>2, <3>3, <3>4, <3>5 DEF ClientNext, ClientContinues
  <2>2. CASE EventNext
    BY <2>2 DEF EventNext, TransferCompleted, TransferTimedOut, TransferFailed, DeviceGone,
                TransferReported, BadPayload, ProcessPayload, PublishFrame, PayloadsEnd,
                DecideTransfer, ResubmitTransfer, DeleteTransfer
  <2>3. CASE UserNext
    BY <2>3 DEF UserNext, UserWaits, UserWakes, UserTakes, UserChecks, UserReturns, UserGoes,
                Service!Deliver, Service!Return
  <2>4. CASE UNCHANGED vars
    BY <2>4 DEF vars
  <2> QED
    BY <2>1, <2>2, <2>3, <2>4 DEF Next
<1> QED
  BY <1>1, <1>2, Invariance, PTL DEF Spec, DeliversAsPromised, Service!ServiceSpec

(* Every step keeps the types of all but the switches and the frame.        *)
LEMMA StateStep ==
  ASSUME StateOK, [Next]_vars
  PROVE  StateOK'
<1> USE DEF StateOK, TransferStates, ClientSteps, EventSteps, UserSteps,
            usb, received, held, event, user
<1>1. CASE ClientNext
  <2> USE DEF ClientGoes
  <2>1. CASE StartStreaming
    BY <2>1, MaxSeqAssumption DEF StartStreaming
  <2>2. CASE StopStreaming \/ SubmitFails \/ CloseStream \/ StopStream \/ JoinUser \/ FreeStream
    BY <2>2 DEF StopStreaming, SubmitFails, CloseStream, StopStream, JoinUser, FreeStream
  <2>3. CASE CancelTransfers \/ ClientWakes
    BY <2>3 DEF CancelTransfers, ClientWakes, AwaitTransfers, InState
  <2>4. ASSUME NEW t \in Transfers, SubmitTransfer(t) PROVE StateOK'
    BY <2>4 DEF SubmitTransfer
  <2> QED
    BY <1>1, <2>1, <2>2, <2>3, <2>4 DEF ClientNext, ClientContinues
<1>2. CASE EventNext
  <2> USE MaxSeqAssumption DEF EventGoes, NextPayload
  <2>1. ASSUME NEW t \in Transfers,
               TransferCompleted(t) \/ TransferTimedOut(t) \/ TransferFailed(t) \/ DeviceGone(t)
        PROVE  StateOK'
    BY <2>1 DEF TransferCompleted, TransferTimedOut, TransferFailed, DeviceGone, TransferReported
  <2>2. ASSUME NEW p \in Payloads, ProcessPayload(p) PROVE StateOK'
    <3>1. eventPc' \in EventSteps
      BY <2>2 DEF ProcessPayload
    <3>2. seq' \in 0..MaxSeq /\ hold_seq' \in 0..MaxSeq /\ sleepers' \subseteq {"client", "user"}
      <4>1. CASE Flipped(p)
        BY <2>2, <4>1 DEF ProcessPayload, SwapBuffers
      <4>2. CASE ~Flipped(p)
        BY <2>2, <4>2 DEF ProcessPayload
      <4> QED
        BY <4>1, <4>2
    <3> QED
      BY <2>2, <3>1, <3>2 DEF ProcessPayload
  <2>3. CASE BadPayload
    BY <2>3 DEF BadPayload
  <2>4. CASE PublishFrame
    <3>1. eventPc' \in EventSteps
      BY <2>4 DEF PublishFrame
    <3>2. seq' \in 0..MaxSeq /\ hold_seq' \in 0..MaxSeq /\ sleepers' = {}
      BY <2>4 DEF PublishFrame, SwapBuffers
    <3> QED
      BY <2>4, <3>1, <3>2 DEF PublishFrame
  <2>5. CASE PayloadsEnd \/ DecideTransfer
    BY <2>5 DEF PayloadsEnd, DecideTransfer
  <2>6. CASE ResubmitTransfer
    BY <2>6 DEF ResubmitTransfer
  <2>7. CASE DeleteTransfer
    BY <2>7 DEF DeleteTransfer
  <2> QED
    BY <1>2, <2>1, <2>2, <2>3, <2>4, <2>5, <2>6, <2>7, Zenon DEF EventNext
<1>3. CASE UserNext
  BY <1>3 DEF UserNext, UserWaits, UserWakes, UserTakes, UserChecks, UserReturns, UserGoes
<1>4. CASE UNCHANGED vars
  BY <1>4 DEF vars
<1> QED
  BY <1>1, <1>2, <1>3, <1>4 DEF Next

(* Every step keeps the types of the switches and of the frame.             *)
LEMMA SwitchesStep ==
  ASSUME StateOK, SwitchesOK, BuffersOK, frame \in Images, [Next]_vars
  PROVE  SwitchesOK' /\ (frame \in Images)'
<1> USE DEF SwitchesOK, usb, received, held, event, user
<1>1. CASE ClientNext
  <2>1. CASE StartStreaming
    <3>1. SwitchesOK'
      BY <2>1, Zenon DEF StartStreaming
    <3>2. (frame \in Images)'
      BY <2>1, MaxSeqAssumption DEF StartStreaming, NoImage, Images, Contents
    <3> QED
      BY <3>1, <3>2
  <2>2. CASE StopStreaming \/ SubmitFails \/ CloseStream \/ StopStream \/ JoinUser \/ FreeStream
    BY <2>2, Zenon DEF StopStreaming, SubmitFails, CloseStream, StopStream, JoinUser, FreeStream
  <2>3. CASE CancelTransfers \/ ClientWakes
    BY <2>3, Zenon DEF CancelTransfers, ClientWakes
  <2>4. ASSUME NEW t \in Transfers, SubmitTransfer(t) PROVE SwitchesOK' /\ (frame \in Images)'
    BY <2>4, Zenon DEF SubmitTransfer
  <2> QED
    BY <1>1, <2>1, <2>2, <2>3, <2>4 DEF ClientNext, ClientContinues
<1>2. CASE EventNext
  <2>1. ASSUME NEW t \in Transfers,
               TransferCompleted(t) \/ TransferTimedOut(t) \/ TransferFailed(t) \/ DeviceGone(t)
        PROVE  SwitchesOK' /\ (frame \in Images)'
    BY <2>1, Zenon DEF TransferCompleted, TransferTimedOut, TransferFailed, DeviceGone,
                       TransferReported
  <2>2. ASSUME NEW p \in Payloads, ProcessPayload(p) PROVE SwitchesOK' /\ (frame \in Images)'
    <3>1. p.fid \in BOOLEAN
      BY DEF Payloads
    <3>2. hold_bfh_err' \in BOOLEAN
      BY <2>2, Zenon DEF ProcessPayload, SwapBuffers
    <3>3. got_bytes' \in BOOLEAN /\ bfh_err' \in BOOLEAN /\ fid' \in BOOLEAN
      BY <2>2, <3>1, Zenon DEF ProcessPayload
    <3> QED
      BY <2>2, <3>2, <3>3, Zenon DEF ProcessPayload
  <2>3. CASE BadPayload \/ PayloadsEnd \/ DecideTransfer \/ ResubmitTransfer \/ DeleteTransfer
    BY <2>3, Zenon DEF BadPayload, PayloadsEnd, DecideTransfer, ResubmitTransfer, DeleteTransfer
  <2>4. CASE PublishFrame
    BY <2>4, Zenon DEF PublishFrame, SwapBuffers
  <2> QED
    BY <1>2, <2>1, <2>2, <2>3, <2>4 DEF EventNext
<1>3. CASE UserNext
  <2>1. SwitchesOK'
    BY <1>3, Zenon DEF UserNext
  <2>2. (frame \in Images)'
    BY <1>3 DEF UserNext, UserWaits, UserWakes, UserTakes, UserChecks, UserReturns,
                StateOK, BuffersOK, Images
  <2> QED
    BY <2>1, <2>2
<1>4. CASE UNCHANGED vars
  BY <1>4, Zenon DEF vars
<1> QED
  BY <1>1, <1>2, <1>3, <1>4 DEF Next

(* Every variable keeps its type, and seq its bound.                        *)
THEOREM TypeCorrect == Spec => []TypeOK
<1>1. ASSUME Init PROVE StateOK /\ SwitchesOK /\ frame \in Images
  <2>1. SwitchesOK
    BY <1>1, Zenon DEF Init, SwitchesOK
  <2>2. StateOK
    BY <1>1, MaxSeqAssumption
       DEF Init, StateOK, TransferStates, ClientSteps, EventSteps, UserSteps
  <2>3. frame \in Images
    BY <1>1, MaxSeqAssumption DEF Init, NoImage, Images, Contents
  <2> QED
    BY <2>1, <2>2, <2>3
<1>2. StateOK /\ SwitchesOK /\ frame \in Images /\ BrokenIsMarked /\ [Next]_vars
        => (StateOK /\ SwitchesOK /\ frame \in Images)'
  BY StateStep, SwitchesStep DEF BrokenIsMarked
<1>3. StateOK /\ SwitchesOK /\ frame \in Images /\ BrokenIsMarked => TypeOK
  BY DEF BrokenIsMarked, TypeOK
<1> QED
  BY <1>1, <1>2, <1>3, MarksTravel, PTL DEF Spec

=============================================================================
