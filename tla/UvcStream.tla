------------------------------ MODULE UvcStream ------------------------------
(***************************************************************************)
(* One video stream of libuvc (libuvc/src/stream.c).                       *)
(*                                                                         *)
(* Three threads share a uvc_stream_handle:                                *)
(*   - the client, which calls uvc_start_streaming_bandwidth and           *)
(*     uvc_stop_streaming (in this program the preview thread);            *)
(*   - the event thread, on which libusb reports every finished transfer   *)
(*     to _uvc_stream_callback;                                            *)
(*   - the user thread, _uvc_user_caller, which hands frames to user_cb.   *)
(*                                                                         *)
(* A section under cb_mutex is one step: it waits only where it releases   *)
(* the mutex.  What the threads read or write outside a section is a step  *)
(* of its own, unless no other thread touches it.                          *)
(***************************************************************************)
EXTENDS Integers, FiniteSets

CONSTANTS
  Transfers,      \* the LIBUVC_NUM_TRANSFER_BUFS transfers of a stream
  MaxSeq,         \* bound: frames published in one session
  Bulk,           \* TRUE: bulk transfers of one payload, FALSE: isochronous
  Disconnects,    \* TRUE: the camera may be unplugged
  StartFails,     \* TRUE: libusb_submit_transfer may fail in uvc_stream_start
  ResubmitFails,  \* TRUE: and in _uvc_stream_callback
  None

ASSUME TransfersAssumption == IsFiniteSet(Transfers) /\ Transfers # {}
ASSUME MaxSeqAssumption == MaxSeq \in Nat /\ None \notin Transfers
ASSUME SwitchesAssumption == {Bulk, Disconnects, StartFails, ResubmitFails} \subseteq BOOLEAN

VARIABLES
  allocated,                      \* TRUE: strmh is allocated
  running,
  transfers,                      \* the state of each entry of strmh->transfers
  cancelled,                      \* transfers in flight that are being cancelled
  fid, got_bytes, bfh_err, seq,   \* the frame being received (event thread)
  hold_bfh_err, hold_seq,         \* the frame last published
  outbuf, holdbuf, contents,      \* the buffers of these two frames, and what is in them
  frame,                          \* strmh->frame, which user_cb receives
  sleepers,                       \* the threads waiting on cb_cond
  clientPc,
  eventPc, transfer,              \* event thread: the transfer in hand
  userPc, last_seq                \* user thread

received == <<fid, got_bytes, bfh_err, seq>>
held     == <<hold_bfh_err, hold_seq, outbuf, holdbuf>>
event    == <<eventPc, transfer>>
user     == <<userPc, last_seq, frame>>
usb      == <<transfers, cancelled>>

vars == <<allocated, running, usb, received, held, contents, sleepers, clientPc, event, user>>

(* A transfer is not there (NULL), allocated and not yet submitted, in      *)
(* flight, reported to the callback, or neither submitted nor freed.        *)
TransferStates == {"null", "ready", "inFlight", "reported", "lost"}

(* What a payload tells the code that collects it: the frame id bit, the EOF *)
(* bit, and whether it brings data, none, or data that cannot be kept.  The  *)
(* error bit marks nothing, its consequences are commented out: a bulk       *)
(* payload that has it is one of these like any other; an isochronous packet *)
(* that has it is passed over like an empty one, which changes nothing.      *)
Payloads == [fid : BOOLEAN, data : {"none", "some", "bogus"}, eof : BOOLEAN]

(* The two buffers of a stream.  What is in one is broken once a payload of  *)
(* its frame failed, or had data that could not be kept.                     *)
Buffers  == {"first", "second"}
Contents == {"whole", "broken"}

Images  == [seq : 0..MaxSeq, data : Contents]
NoImage == [seq |-> 0, data |-> "whole"]  \* frame.data is NULL

ClientSteps == {"idle", "submit", "close", "stop", "cancel", "asleep", "join", "free"}
EventSteps  == {"idle", "payload", "eof", "decide", "submit", "delete"}
UserSteps   == {"none", "wait", "asleep", "check", "calling", "exited"}

SwitchesOK ==
  /\ allocated \in BOOLEAN /\ running \in BOOLEAN
  /\ fid \in BOOLEAN /\ got_bytes \in BOOLEAN /\ bfh_err \in BOOLEAN /\ hold_bfh_err \in BOOLEAN

StateOK ==
  /\ transfers \in [Transfers -> TransferStates] /\ cancelled \subseteq Transfers
  /\ seq \in 0..MaxSeq /\ hold_seq \in 0..MaxSeq
  /\ sleepers \subseteq {"client", "user"}
  /\ clientPc \in ClientSteps
  /\ eventPc \in EventSteps /\ transfer \in Transfers \cup {None}
  /\ userPc \in UserSteps /\ last_seq \in 0..MaxSeq

BuffersOK == outbuf \in Buffers /\ holdbuf \in Buffers /\ contents \in [Buffers -> Contents]

TypeOK == SwitchesOK /\ StateOK /\ BuffersOK /\ frame \in Images

Init ==
  /\ allocated = FALSE /\ running = FALSE
  /\ transfers = [t \in Transfers |-> "null"] /\ cancelled = {}
  /\ fid = FALSE /\ got_bytes = FALSE /\ bfh_err = FALSE /\ seq = 0
  /\ hold_bfh_err = FALSE /\ hold_seq = 0
  /\ outbuf = "first" /\ holdbuf = "second" /\ contents = [b \in Buffers |-> "whole"]
  /\ frame = NoImage
  /\ sleepers = {}
  /\ clientPc = "idle"
  /\ eventPc = "idle" /\ transfer = None
  /\ userPc = "none" /\ last_seq = 0

InState(state) == {t \in Transfers : transfers[t] = state}

(* Once the handle is freed, what a thread that still uses it does is       *)
(* undefined: the model says that it is used, and goes no further.          *)
InUse == userPc \notin {"none", "exited"} \/ eventPc # "idle" \/ InState("inFlight") # {}

-----------------------------------------------------------------------------
(* The client.                                                              *)

ClientGoes(from, to) == clientPc = from /\ clientPc' = to

(* uvc_start_streaming_bandwidth: uvc_stream_open_ctrl allocates the handle *)
(* with zeroes, uvc_stream_start_bandwidth allocates the transfers and      *)
(* creates the user thread.  When something fails before that, the handle   *)
(* is closed again and nothing has happened.                                *)
StartStreaming ==
  /\ ClientGoes("idle", "submit")
  /\ ~allocated /\ ~InUse
  /\ allocated' = TRUE /\ running' = TRUE
  /\ transfers' = [t \in Transfers |-> "ready"]
  /\ fid' = FALSE /\ got_bytes' = FALSE /\ bfh_err' = FALSE /\ seq' = 0
  /\ hold_bfh_err' = FALSE /\ hold_seq' = 0
  /\ outbuf' = "first" /\ holdbuf' = "second" /\ contents' = [b \in Buffers |-> "whole"]
  /\ userPc' = "wait" /\ last_seq' = 0 /\ frame' = NoImage
  /\ UNCHANGED <<cancelled, sleepers, event>>

(* Submit the transfers, one after the other; ... *)
SubmitTransfer(t) ==
  /\ clientPc = "submit"
  /\ transfers[t] = "ready"
  /\ transfers' = [transfers EXCEPT ![t] = "inFlight"]
  /\ clientPc' = IF InState("ready") = {t} THEN "idle" ELSE "submit"
  /\ UNCHANGED <<allocated, running, cancelled, received, held, contents, sleepers, event, user>>

(* ... at a failure lower running and close the stream. *)
SubmitFails ==
  /\ StartFails
  /\ ClientGoes("submit", "close")
  /\ running' = FALSE
  /\ UNCHANGED <<allocated, usb, received, held, contents, sleepers, event, user>>

(* uvc_stop_streaming, uvc_stream_close: stop the stream, if running. *)
StopStreaming ==
  /\ ClientGoes("idle", "close")
  /\ allocated
  /\ UNCHANGED <<allocated, running, usb, received, held, contents, sleepers, event, user>>

CloseStream ==
  /\ ClientGoes("close", IF running THEN "stop" ELSE "free")
  /\ UNCHANGED <<allocated, running, usb, received, held, contents, sleepers, event, user>>

(* uvc_stream_stop, which tests running once more. *)
StopStream ==
  /\ ClientGoes("stop", IF running THEN "cancel" ELSE "free")
  /\ running' = FALSE
  /\ UNCHANGED <<allocated, usb, received, held, contents, sleepers, event, user>>

(* Mutant: pthread_cond_broadcast is left out. *)
AwaitTransfersSilent(from) ==
  \/ /\ InState("null") = Transfers
     /\ ClientGoes(from, "join")
     /\ UNCHANGED sleepers
  \/ /\ InState("null") # Transfers
     /\ ClientGoes(from, "asleep")
     /\ sleepers' = sleepers \cup {"client"}

(* Until every transfer has been deleted, wait. *)
AwaitTransfers(from) ==
  \/ /\ InState("null") = Transfers
     /\ ClientGoes(from, "join")
     /\ sleepers' = {}
  \/ /\ InState("null") # Transfers
     /\ ClientGoes(from, "asleep")
     /\ sleepers' = sleepers \cup {"client"}

CancelTransfers ==
  /\ cancelled' = cancelled \cup InState("inFlight")
  /\ AwaitTransfers("cancel")
  /\ UNCHANGED <<allocated, running, transfers, received, held, contents, event, user>>

(* Mutant: after one wakeup the transfers are not looked at again. *)
ClientWakesOnce ==
  /\ "client" \notin sleepers
  /\ ClientGoes("asleep", "join")
  /\ sleepers' = {}
  /\ UNCHANGED <<allocated, running, usb, received, held, contents, event, user>>

ClientWakes ==
  /\ "client" \notin sleepers
  /\ AwaitTransfers("asleep")
  /\ UNCHANGED <<allocated, running, usb, received, held, contents, event, user>>

(* Mutant: the user thread is not joined. *)
JoinUserNot ==
  /\ ClientGoes("join", "free")
  /\ UNCHANGED <<allocated, running, usb, received, held, contents, sleepers, event, user>>

JoinUser ==
  /\ ClientGoes("join", "free")
  /\ userPc = "exited"
  /\ userPc' = "none"
  /\ UNCHANGED <<allocated, running, usb, received, held, contents, sleepers, event, last_seq, frame>>

FreeStream ==
  /\ ClientGoes("free", "idle")
  /\ allocated' = FALSE
  /\ UNCHANGED <<running, usb, received, held, contents, sleepers, event, user>>

ClientContinues ==
  \/ \E t \in Transfers : SubmitTransfer(t)
  \/ CloseStream \/ StopStream \/ CancelTransfers \/ ClientWakes \/ JoinUser \/ FreeStream

ClientNext == StartStreaming \/ StopStreaming \/ SubmitFails \/ ClientContinues

-----------------------------------------------------------------------------
(* The event thread: _uvc_stream_callback.                                  *)

EventGoes(from, to) == eventPc = from /\ eventPc' = to

(* libusb reports a transfer in flight.  One that brought data is           *)
(* processed; after a timeout, a stall or an overflow it is used again;     *)
(* after an error, a cancellation or the loss of the device it is deleted.  *)
TransferReported(t, next) ==
  /\ allocated
  /\ transfers[t] = "inFlight"
  /\ EventGoes("idle", next)
  /\ transfers' = [transfers EXCEPT ![t] = "reported"]
  /\ cancelled' = cancelled \ {t}
  /\ transfer' = t
  /\ UNCHANGED <<allocated, received, held, contents, sleepers, clientPc, user>>

TransferCompleted(t) == TransferReported(t, "payload") /\ UNCHANGED running

TransferTimedOut(t) == TransferReported(t, "decide") /\ UNCHANGED running

TransferFailed(t) == TransferReported(t, "delete") /\ UNCHANGED running

DeviceGone(t) == Disconnects /\ TransferReported(t, "delete") /\ running' = FALSE

(* A bulk transfer has one payload, an isochronous one a payload per packet. *)
NextPayload == IF Bulk THEN "decide" ELSE "payload"

(* Mutant: _uvc_swap_buffers does not notify. *)
SwapBuffersSilent ==
  /\ seq < MaxSeq
  /\ holdbuf' = outbuf /\ outbuf' = holdbuf
  /\ hold_bfh_err' = bfh_err /\ hold_seq' = seq
  /\ seq' = seq + 1
  /\ UNCHANGED sleepers

(* Mutant: the next frame is received into the buffer just published. *)
SwapBuffersHalf ==
  /\ seq < MaxSeq
  /\ holdbuf' = outbuf /\ UNCHANGED outbuf
  /\ hold_bfh_err' = bfh_err /\ hold_seq' = seq
  /\ seq' = seq + 1
  /\ sleepers' = {}

(* _uvc_swap_buffers, up to the fields that only the event thread uses: the *)
(* frame received is published with its mark and its number, and the buffer *)
(* of the one published before is filled next, from its beginning.          *)
SwapBuffers ==
  /\ seq < MaxSeq
  /\ holdbuf' = outbuf /\ outbuf' = holdbuf
  /\ hold_bfh_err' = bfh_err /\ hold_seq' = seq
  /\ seq' = seq + 1
  /\ sleepers' = {}

(* _uvc_process_payload, _uvc_process_payload_iso: a packet that failed or  *)
(* has no buffer, or a bulk payload shorter than its header, marks the      *)
(* frame; ...                                                               *)
BadPayload ==
  /\ EventGoes("payload", NextPayload)
  /\ bfh_err' = TRUE /\ contents' = [contents EXCEPT ![outbuf] = "broken"]
  /\ UNCHANGED <<allocated, running, usb, fid, got_bytes, seq, held, sleepers, clientPc,
                 transfer, user>>

(* ... in any other a flipped frame id publishes what has been received,    *)
(* then the data is collected, and EOF publishes the frame, ...             *)
Flipped(p) == fid # p.fid /\ got_bytes

EndsFrame(p) ==
  /\ p.eof
  /\ IF Bulk THEN p.data # "none"
             ELSE p.data = "some" \/ (p.data = "none" /\ got_bytes /\ ~Flipped(p))

ProcessPayload(p) ==
  /\ Flipped(p) \/ EndsFrame(p) => seq + 2 <= MaxSeq
  /\ EventGoes("payload", IF EndsFrame(p) THEN "eof" ELSE NextPayload)
  /\ fid' = p.fid
  /\ IF Flipped(p) THEN SwapBuffers ELSE UNCHANGED <<held, seq, sleepers>>
  /\ got_bytes' = ((got_bytes /\ ~Flipped(p)) \/ p.data = "some")
  /\ bfh_err' = ((bfh_err /\ ~Flipped(p)) \/ p.data = "bogus")
  /\ contents' = [contents EXCEPT ![outbuf'] = IF p.data = "bogus" THEN "broken"
                                               ELSE IF Flipped(p) THEN "whole" ELSE @]
  /\ UNCHANGED <<allocated, running, usb, clientPc, transfer, user>>

PublishFrame ==
  /\ EventGoes("eof", NextPayload)
  /\ SwapBuffers
  /\ got_bytes' = FALSE /\ bfh_err' = FALSE
  /\ contents' = [contents EXCEPT ![outbuf'] = "whole"]
  /\ UNCHANGED <<allocated, running, usb, fid, clientPc, transfer, user>>

(* ... until the last packet. *)
PayloadsEnd ==
  /\ EventGoes("payload", "decide")
  /\ UNCHANGED <<allocated, running, usb, received, held, contents, sleepers, clientPc, transfer, user>>

(* if (running && resubmit) *)
DecideTransfer ==
  /\ EventGoes("decide", IF running THEN "submit" ELSE "delete")
  /\ UNCHANGED <<allocated, running, usb, received, held, contents, sleepers, clientPc, transfer, user>>

(* The result of libusb_submit_transfer is not looked at. *)
ResubmitTransfer ==
  /\ EventGoes("submit", "idle")
  /\ \/ transfers' = [transfers EXCEPT ![transfer] = "inFlight"]
     \/ ResubmitFails /\ transfers' = [transfers EXCEPT ![transfer] = "lost"]
  /\ transfer' = None
  /\ UNCHANGED <<allocated, running, cancelled, received, held, contents, sleepers, clientPc, user>>

(* _uvc_delete_transfer *)
DeleteTransfer ==
  /\ EventGoes("delete", "idle")
  /\ transfers' = [transfers EXCEPT ![transfer] = "null"]
  /\ transfer' = None
  /\ sleepers' = {}
  /\ UNCHANGED <<allocated, running, cancelled, received, held, contents, clientPc, user>>

EventNext ==
  /\ allocated
  /\ \/ \E t \in Transfers :
          \/ TransferCompleted(t) \/ TransferTimedOut(t) \/ TransferFailed(t) \/ DeviceGone(t)
     \/ BadPayload \/ (\E p \in Payloads : ProcessPayload(p)) \/ PublishFrame \/ PayloadsEnd
     \/ DecideTransfer \/ ResubmitTransfer \/ DeleteTransfer

-----------------------------------------------------------------------------
(* The user thread: _uvc_user_caller.                                       *)

UserGoes(from, to) == userPc = from /\ userPc' = to

(* The section: wait for a frame not seen before; stop when running is      *)
(* down; else take the frame, and copy it (_uvc_populate_frame) unless it   *)
(* is marked.                                                               *)
UserTakes(from) ==
  \/ /\ running /\ last_seq = hold_seq
     /\ UserGoes(from, "asleep")
     /\ sleepers' = sleepers \cup {"user"}
     /\ UNCHANGED <<last_seq, frame>>
  \/ /\ ~running
     /\ UserGoes(from, "exited")
     /\ UNCHANGED <<sleepers, last_seq, frame>>
  \/ /\ running /\ last_seq # hold_seq
     /\ UserGoes(from, "check")
     /\ last_seq' = hold_seq
     /\ frame' = IF hold_bfh_err THEN frame ELSE [seq |-> hold_seq, data |-> contents[holdbuf]]
     /\ UNCHANGED sleepers

UserWaits == UserTakes("wait")

UserWakes == "user" \notin sleepers /\ UserTakes("asleep")

(* hold_bfh_err is read again, after the section. *)
UserChecks ==
  /\ UserGoes("check", IF hold_bfh_err THEN "wait" ELSE "calling")
  /\ UNCHANGED <<last_seq, frame, sleepers>>

UserReturns ==
  /\ UserGoes("calling", "wait")
  /\ UNCHANGED <<last_seq, frame, sleepers>>

UserNext ==
  /\ allocated
  /\ UserWaits \/ UserWakes \/ UserChecks \/ UserReturns
  /\ UNCHANGED <<allocated, running, usb, received, held, contents, clientPc, event>>

-----------------------------------------------------------------------------
Next == ClientNext \/ EventNext \/ UserNext

Spec == Init /\ [][Next]_vars

(* A call of the client goes on, libusb reports every transfer (it times    *)
(* out after 5000 ms at the latest), a transfer has finitely many packets,  *)
(* and user_cb returns.  The camera need not send anything, and a transfer  *)
(* may time out for ever.                                                   *)
Fairness ==
  /\ WF_vars(ClientContinues)
  /\ WF_vars(EventNext) /\ SF_vars(PayloadsEnd)
  /\ WF_vars(UserNext)

FairSpec == Spec /\ Fairness

-----------------------------------------------------------------------------
(* Properties.                                                              *)

(* Without faults nothing uses the handle after uvc_stream_close has freed  *)
(* it: the user thread has ended, and no transfer can be reported any more. *)
FreedIsUnused == ~allocated /\ ~Disconnects /\ ~StartFails => ~InUse

(* user_cb never gets image data that is broken: the mark reaches the user  *)
(* thread with the buffer it is about, across the swaps, the copy and the   *)
(* second reading of hold_bfh_err outside the section, by then perhaps that *)
(* of another frame.  What is lost without a mark (a packet passed over for *)
(* its error bit, a transfer that timed out) the promise does not cover.    *)
NoBrokenFrame == userPc = "calling" => frame.data = "whole"

(* No thread sleeps on cb_cond with its reason to wait gone: the client     *)
(* while every transfer is deleted, the user thread while there is a frame  *)
(* it has not seen, or after running went down when every transfer has been *)
(* deleted, or the client deleted none and is about to broadcast.           *)
SleepersHaveReason ==
  allocated =>
    /\ "client" \in sleepers => InState("null") # Transfers
    /\ "user" \in sleepers /\ running => last_seq = hold_seq
    /\ "user" \in sleepers /\ ~running => InState("null") # Transfers \/ clientPc = "cancel"

(* uvc_stop_streaming returns, unless a transfer was lost because its       *)
(* resubmission failed: that one is never deleted.                          *)
StopHangsOnlyByLostTransfer ==
  \/ <>[](InState("lost") # {})
  \/ clientPc = "close" ~> clientPc = "idle"

(* As long as the stream runs, a published frame is taken by the user       *)
(* thread, if no later one takes its place; except the first one, whose     *)
(* number is the one last_seq starts with.                                  *)
PublishedIsTaken == (running /\ last_seq # hold_seq) ~> (last_seq = hold_seq \/ ~running)

(* "Closes all streams, ends threads and cancels pollers": when             *)
(* uvc_stop_streaming returns, the user thread has ended.                   *)
StopEndsThreads == ~allocated => userPc \in {"none", "exited"}

(* The promise to the caller. *)
Service == INSTANCE StreamService WITH
  stream     <- IF ~allocated THEN "off"
                ELSE IF clientPc \in {"idle", "submit"} THEN "on" ELSE "stopping",
  delivering <- userPc = "calling"

DeliversAsPromised == Service!ServiceSpec

=============================================================================
