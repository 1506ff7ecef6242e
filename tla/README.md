# A verification of usbcameralib in TLA+

`usbcameralib` lets an Android program use a UVC camera: it starts and stops a
preview, draws the frames, hands them to a Java callback and records them.
This directory holds TLA+ models of the parts of it in which threads meet,
the TLC configurations that check them, and TLAPS proofs about them.
Paths below are relative to `src/libcamera/src/main/`; `UVC` is
`jni/UVCCamera/`, `LUVC` is `jni/libuvc/src/`, `LUSB` is `jni/libusb/libusb/`, `USB`
is `java/com/serenegiant/usb/`, `APP` is `java/com/jiangdg/usbcamera/`.

## The system

Top to bottom, with the threads that enter each part.

| Component | Source | State it keeps | Operations | Threads |
|---|---|---|---|---|
| Helper, services | `APP/*` | the monitor, the handler, the last control block | initUSBMonitor, startPreview, closeCamera, ... | UI |
| USB monitor | `USB/USBMonitor.java` | permitted devices, control blocks, their connections | register, requestPermission, openDevice, close, destroy | UI, a handler thread, a polling task |
| Camera handler | `USB/common/AbstractUVCCameraHandler.java` | the camera, `mIsPreviewing`, `mIsRecording`, the recorder | open, close, startPreview, stopPreview, startPusher, stopPusher, captureStill, release, each a message to one thread | any caller, the camera thread |
| Encoders, muxer | `USB/encoder/Media*.java` | requested frames, the flags for capturing and the end of the stream, tracks started | prepare, startRecording, frameAvailableSoon, encode, stopRecording | one thread per encoder, the feeders |
| Recording by consumers | `USB/encoder/biz/*` | the codec, the recorder, whether to exit | setRawYuv, run, exit | a video and an audio consumer, the capture thread |
| Camera (Java, JNI, native) | `USB/UVCCamera.java`, `UVC/serenegiant_usb_UVCCamera.cpp`, `UVC/UVCCamera.cpp` | the device handle, the preview, the status and button callbacks | connect, release, startPreview, stopPreview, controls | any caller, libuvc's event thread |
| Preview pipeline | `UVC/UVCPreview.cpp` | the pool of frames, the preview queue, the capture slot, the callback object, two surfaces | startPreview, stopPreview, setPreviewDisplay, setFrameCallback, setCaptureDisplay | application, libuvc callback, preview, capture |
| libuvc stream | `LUVC/stream.c` | transfers, the frame being received, the frame last published | start_streaming, stop_streaming, the transfer callback, the user thread | client, event, user |
| libuvc device | `LUVC/device.c`, `LUVC/init.c` | open devices, reference counts, claimed interfaces, the event thread | open, close, claim, release, exit | client, event |
| libuvc controls | `LUVC/ctrl.c` | none | one control transfer per function | client |
| Time stamps | `src/yuvosd/` | the numerals, one array for all recordings | initOsd, addOsd, releaseOsd, rotate and convert a picture | the video consumer, the capture thread |
| Database, views | `USB/mydb/`, `USB/widget/` | | | UI |
| libusb | `LUSB/io.c`, `core.c`, `sync.c`, `os/android_usbfs.c` | who handles events, who waits, transfers in flight | handle_events, control_transfer, close | event, client, preview |
| Other vendored | `jni/libjpeg-turbo-1.5.0`, `jni/rapidjson` | | | |

How they interact: libusb reports transfers on the event thread to
`_uvc_stream_callback`, which collects payloads into a frame and publishes it;
the stream's user thread copies it and calls `uvc_preview_frame_callback`; that
copies it once more, into a frame of the pool, and queues it; the preview
thread takes it from the queue, decodes it, draws it and offers it to the
capture thread through a slot that keeps the latest; the capture thread renders
it and calls the Java callback, which gives it to the encoders. Stopping goes
the other way: the application lowers a flag, signals, joins the capture thread
and the preview thread; the latter stops the stream, which cancels its
transfers, waits for them and joins the user thread.

Around that pipeline: `USBMonitor` sees the camera come, asks for permission and
makes a control block, which the service hands to the camera thread as an open;
the camera thread clones the block, connects and later closes; the device is
opened and closed while the event thread reports status transfers and while
other threads make control transfers, all of which take turns at libusb's
event handling. A recording adds two consumer threads, which the capture thread
feeds and the camera thread joins.

What makes it hard: five threads share one pool of frames under three mutexes;
flags are volatile and written without a mutex; one condition variable serves
two purposes; waits are guarded by `if`; objects are deleted after a join that
may be for the wrong thread; a camera may be unplugged at any moment. The file
`PROJECT.json` lists these hazards one by one, each at its line.

What makes each component correct:

- Preview pipeline: a frame has one owner and is given back on every path; when
  `stopPreview` returns nothing runs any more; it does return; no thread sleeps
  on work; the Java reference is valid when it is used; the setter waits for
  the frame in hand.
- Stream: the image of a frame marked as broken is never delivered; `uvc_stop_streaming` returns, and
  then nothing uses the handle; a published frame is taken; at most one callback
  is in progress, and none after the stop.
- Device: no callback runs on a handle that was freed; whatever step of a connect
  fails, and after every release, nothing is left; a release and a control
  transfer return, whoever handles the events.
- Camera handler: `mIsPreviewing` agrees with the camera; a caller that waits is
  notified; open and close take effect in the order of the calls.
- Encoders and muxer: an encoder that was asked to stop comes to its end, the
  muxer stops with the last of them and not before, and no sample is written to a
  track that is not there.
- Recording by consumers: nothing of a recording outlives it; a frame is lost
  on it only while it stops; the time stamp's numerals belong to one recording.
- USB monitor: an open camera keeps its connection; a connection is not left
  with nobody to close it; a camera that has come is announced; the end of the
  service closes the camera.

## The modules

| Module | What it is |
|---|---|
| `UVCPreview` | the preview pipeline, `UVC/UVCPreview.cpp` |
| `UvcStream` | a video stream of libuvc, `LUVC/stream.c` |
| `StreamService` | the abstract specification between the two: what `uvc_start_streaming_bandwidth` and `uvc_stop_streaming` promise |
| `CameraHandler` | the camera thread and its callers, `USB/common/AbstractUVCCameraHandler.java` |
| `LibusbEvents` | how threads share the handling of events, `LUSB/io.c`, `sync.c`, `core.c`, `os/android_usbfs.c` |
| `UvcDevice` | connect, release and destroy of `UVC/UVCCamera.cpp`, the device and the context of `LUVC/device.c` and `init.c`; extends `LibusbEvents` |
| `UsbMonitor` | `USB/USBMonitor.java` with its listeners in `APP/` and the open and close of `USB/UVCCamera.java` |
| `MediaRecording` | `USB/encoder/MediaEncoder.java` and `MediaMuxerWrapper.java` |
| `Pusher` | the recording by consumers, `USB/encoder/biz/`, started and stopped by the handler |
| `*MC` | the instances for TLC; one `.cfg` per run |
| `*Proofs` | the theorems |

`StreamService` is where two components meet. `UvcStream` implements it
(`DeliversAsPromised`, with `stream` read off `allocated` and the client's
place, `delivering` off the user thread's), and `UVCPreview` is written against
it: its `streaming` and `callbackPc` are a behaviour of `StreamService`
(`StreamAsPromised`). So the pipeline assumes nothing of libuvc that the stream
does not give, as long as the camera is not unplugged and the start does not
fail half way; with those faults the stream breaks the promise, and the run
`stream_unplugged` shows how.

In every module a section under a mutex (a `synchronized` block) is one step,
cut where it waits, because nothing it writes can be seen in between by a thread
that respects the mutex; reads and writes that the code makes without the mutex
are steps of their own. A definition marked "Mutant" is a plausible mistake in
the one after it: putting it in that one's place must break a property, and
`PROJECT.json` says which.

### UVCPreview

| Model | Code |
|---|---|
| `mIsRunning`, `mIsCapturing` | the volatile flags, read and written one at a time |
| `previewFrames`, `captureQueu` | the queue under `preview_mutex`, the slot under `capture_mutex` |
| `mFramePool`, `live` | the idle frames, the frames allocated |
| `held` | the `uvc_frame_t *` local variables of `uvc_preview_frame_callback`, `do_preview`, `draw_preview_one`, `do_capture_*` |
| `appPc` and the actions `StartPreview` ... `StopReleasesWindows` | `startPreview`, `stopPreview`: lower the flag, signal twice, join twice, clear, release the windows |
| `SetterEnters` ... `AssignCallback`, `SwapDisplay` | `setFrameCallback` and `setCaptureDisplay`, which share their beginning; `captureLock`: the setter holds `capture_mutex` across steps |
| `liveRefs`, `mFrameCallbackObj`, `onFrame`, `calling` | JNI global references, the field and its method id, and the reference that `CallVoidMethod` was given |
| `CallbackNext` | `uvc_preview_frame_callback`, `addPreviewFrame` |
| `PreviewNext` | `prepare_preview`, `do_preview`, `waitPreviewFrame`, `draw_preview_one`, `addCaptureFrame` |
| `CaptureNext(c)` | `do_capture`, its two loops, `waitCaptureFrame`, `do_capture_callback`; there may be several capture threads |

The content of a frame is not modelled, only which frame is where. The pool is a
set, since the content of an idle frame is overwritten. `pthread_join` of an id
that names no thread is an error that the code logs. `do_capture_callback` tests the
method id (line 868) and reads the field again for the call (line 869), without the
mutex: `TestMethod` and `InvokeCallback` are two steps, and a setter may come in
between. What is then called may be null or deleted; `CallbackFieldValid` is about
the fields alone and says nothing of it, `SetterWaitsForCapture` (violated, see
below) is about its cause. There is one application
thread, because only the camera thread calls the object. Where the code would go on with undefined
behaviour (`DecodeFrame` with no memory) the model stops.

### UvcStream

| Model | Code |
|---|---|
| `transfers` | `strmh->transfers`: `null` deleted, `ready` allocated, `inFlight`, `reported` being processed, `lost` neither in flight nor deleted |
| `fid`, `got_bytes`, `bfh_err`, `seq` | the frame being received; sizes are reduced to whether there are bytes |
| `hold_bfh_err`, `hold_seq` | the frame last published |
| `outbuf`, `holdbuf`, `contents` | the buffers of these two frames, which `_uvc_swap_buffers` exchanges, and whether what is in each is broken: one of its packets failed or could not be kept |
| `frame`, `last_seq` | what the user thread copied and the number it took; a copy has its own content, whatever becomes of the buffer |
| `ClientNext` | `uvc_stream_open_ctrl`, `uvc_stream_start_bandwidth`, `uvc_stop_streaming`, `uvc_stream_stop`, `uvc_stream_close` |
| `EventNext` | `_uvc_stream_callback`, `_uvc_process_payload(_iso)`, `_uvc_swap_buffers`, `_uvc_delete_transfer` |
| `UserNext` | `_uvc_user_caller` |

What libusb reports is nondeterministic: a completed transfer, a time-out, an
error, the loss of the device. `Disconnects`, `StartFails` and `ResubmitFails`
switch the faults on; `Bulk` chooses between one payload per transfer and
many. `bfh_err` is set for a packet that failed, one without a buffer, one with a
bogus length and a bulk payload shorter than its header. It is not set for the
error bit of a payload header, where the assignment is commented out
(`stream.c:727`, `867`): in bulk such a payload is collected like any other, and
an isochronous packet is passed over. Nor is it set when a transfer times out. So
`broken` means what the code takes for broken. After the handle is freed, its use is undefined: the model lets no thread
go on, and `InUse` says that some thread would.

### CameraHandler

| Model | Code |
|---|---|
| `messages`, `looping` | the queue of the looper of `CameraThread` |
| `mUVCCamera`, `mIsPreviewing`, `mH264Consumer`, `mReleased` | the fields |
| `opened`, `previewing` | what the `UVCCamera` objects themselves are doing |
| `pc[c]`, `call[c]` | a calling thread: `open`, `startPreview`, `startRecording` (`Request`, `Send`), `stopRecording`, `stopPreview`, `close`, `release`, each with the calls it makes |
| `waiters` | the callers in `mSync.wait()` (line 223) |
| `handling`, `camera` and `CameraThread` | `handleMessage` and its handlers, cut where a caller can see between two writes |

`setOnPreviewFrameListener` sends the same message as `startRecording`. Left out
are calls made on the camera thread itself, which do not wait, spurious wakeups
of `mSync.wait()`, the start of the thread, messages that change no state of the
handler (still picture, focus, media update), and `mIsRecording`, which nothing
that `handleMessage` calls sets. The preview is started on a `Surface` or a
`SurfaceTexture`: with a `SurfaceHolder`, line 599 casts to the wrong class.

### LibusbEvents and UvcDevice

| Model | Code |
|---|---|
| `events_lock`, `event_handler_active`, `pollfd_modify`, `ctrl_pipe` | the fields of `libusb_context`; `events_lock` is recursive (`io.c:1115`), so that `do_close` may take it again |
| `waiters` | the threads in `libusb_wait_for_event` |
| `pc[t]` | where thread `t` is in `libusb_handle_events_timeout_completed`; `idle` is outside |
| `flying`, `urbs`, `completed` | transfers in flight, those the kernel has finished and nobody has reaped, control transfers whose `completed` is 1 |
| `pollfd`, `attached` | the descriptor of the device is polled; the camera is plugged in |
| `TryLockEvents` ... `UnlockEvents`, `WaitForEvent` | the lock, the poll, reaping, the broadcast, and the way of a thread that finds another at it |
| `SubmitControl`, `WaitForCompletion` | `libusb_control_transfer` |
| `clientPc` and `Connect` ... `RegisterCallbacks` | `UVCCamera::connect`, `uvc_open`, with a failure at each step |
| `Release` ... `CloseFile`, `Destroy` | `UVCCamera::release`, `uvc_close`, `libusb_close`, the destructor |
| `StatusFails` ... `ResubmitStatus` | `_uvc_status_callback`, under `status_mutex` while a callback runs |
| `HandlerLoop` | `_uvc_handle_events` |
| `ref`, `duplicates`, `zero_closed` | references to the `uvc_device`, open duplicates of the descriptor, and whether release has closed descriptor 0 |

`open` and `close` of `UVCCamera.java` are synchronized, so one thread at a time
connects and releases; the other caller is the preview thread, which release
joins first. libuvc's stream is not part of this module: its transfers are reaped
like the status transfer, and `UvcStream` has shown that a stop waits for them.

### UsbMonitor

| Model | Code |
|---|---|
| `Devices` | `UsbDevice` objects: each time a camera is plugged in it is another one |
| `mCtrlBlocks`, `device`, `connected` | the map, the device of each `UsbControlBlock`, and whether `mConnection` is there |
| `ReceivePermission`, `ReceiveDetached`, `ForgetDetached` | `mUsbReceiver`, on the UI thread; what another thread may see between the two halves of a detach |
| `CheckDevices`, `AnnounceDevices` | `mDeviceCheckRunnable`, which reads the list, and later writes `mDeviceCounts` |
| `OnAttach`, `OnDettach`, `RequestPermission`, `OnDisconnect`, `isRequest` | the listener of `MonitorService`, through `UVCCameraHelper` |
| `CreateBlock`, `PutBlock` | `processConnect` on the looper |
| `TakeMessage`, `CloseClone`, `CloneBlock`, `ConnectCamera` | `handleOpen` and `handleClose` of the camera thread, down to `UVCCamera.open` and `close`; the open message carries a block, close and release none |
| `ReleaseHelper`, `DestroyMonitor` | `MonitorService.onDestroy` |

The camera thread of this module is an abstraction of `CameraHandler`: opens and
closes in the order they were posted, without the preview.

### MediaRecording

| Model | Code |
|---|---|
| `pc[e]`, `stopping` | the thread of an encoder in `run` and `drain`, and its local copy of the request |
| `mRequestDrain`, `mRequestStop`, `mIsCapturing` | the fields; `asleep` is `mSync.wait()` |
| `silent`, `EncoderCount` | the voice is off, and the recording has no audio encoder (`AbstractUVCCameraHandler.java:683`); `mEncoderCount` |
| `constructing` | the constructor waits until its thread has begun |
| `codec[e]` | the codec: is there one (none may be found), frames given and not drained, and whether its format was reported |
| `feeder[e]` | who calls `encode` and `frameAvailableSoon`: the audio thread, or the capture thread with a picture |
| `mMediaMuxer`, `mIsStarted`, `mStatredCount`, `mIndex` | the wrapper; `mIndex` are its two track indices, `mTrackIndex` the encoders' own |
| `WriteSampleAndSplit` | the new file after a minute |
| `WriteSampleAndSplitFails`, `...Nowhere` | the muxer for it cannot be made or started, which is caught, and the recording goes on with none; there is no name for it, because the card is out, which is not caught |
| `TakeCard`, `ReturnCard` | the SD card; `failed`: an exception that nobody catches |

No encoder ever queues the end of the stream: `encode` does nothing for a length
of 0 (`MediaEncoder.java:265`), so that the branch for it is never reached. After
a split `mAudioTrackIndex` is -1 for good and `writeSampleData` drops all samples,
those of the video too. A recording of this kind is reached through the library's
classes only: `handleMessage` calls `handleStartPusher` in its place. The constructor
waits for its thread without a guard (`MediaEncoder.java:101`). It holds the lock
that the thread needs, so that the notification cannot come too early; that the wait
ends by itself, as Java permits, is not modelled: `run` might then wipe out a request
that came before it. A codec that is there throws no exception of its own.

### Pusher

| Model | Code |
|---|---|
| `client`, `joining` | the camera thread in `handleStartPusher` and `handleStopPusher` |
| `pc[c]`, `apc[c]` | the threads of the video and the audio consumer of recording `c` |
| `isExit`, `isEncoderStart`, `codec`, `recorder` | the consumers' fields |
| `numerals` | `mNumArrays` of `YuvOsdUtils.c`, by whose recording they are |
| `frame`, `seen` | `onFrame` on the capture thread, cut at each read of a field that another thread writes |
| `lost` | consumers a frame could not be handed to: an exception, or no numerals |
| `mAudioEncoder` | the audio consumers whose codec is not null |
| `mic`, `avc`, `aac` | whether the phone has a free microphone, a video encoder and an audio encoder |
| `thrown` | where an uncaught exception has ended the program: `create` (a codec that could not be created), `encode`, `read`, `stop` |

The flags are neither volatile nor locked in Java; a write is taken to be seen at
once. The frame callback is set at the start and never removed. `Mp4MediaMuxer` is
never constructed (`mMuxer` is null). A consumer that fails to get its microphone or its
codec goes on without: `InitOsd`, `StartMediaCodec`, `InitAudioRecord`,
`InitMediaCodec`, `ReadAudio` and `StopAudio` say where that ends. The video consumer
without a codec only catches its exceptions and asks again.

## What the runs check

| Run | Instance | Properties | Shows |
|---|---|---|---|
| `preview` | 2 frames, 1 capture thread, a callback, a surface, queue and pool of 1, YUYV; 948 000 states | `TypeOK`, `StopIsComplete`, `CallbackFieldValid`, `LeaksOnlyAtStop` | all operations in every order |
| `preview_overlap` | 2 frames, 2 capture threads, queue of 2, MJPEG, spurious wakeups; 597 000 | `FrameOwnership`, `NoSleeperMissesAFrame`, `StreamAsPromised` | decoding, and the capture thread of an early stop beside the next one |
| `preview_stop` | 2 frames, 1 capture thread, a callback; 343 000 | `StopHangsOnlyByLostWakeup`, `SetterReturnsWhileFramesCome` | liveness |
| `preview_setter` | the same | `SetterWaitsForCapture` | violated, see below |
| `stream` | 2 transfers, 3 frames, isochronous, resubmission may fail; 70 000 | `FreedIsUnused`, `DeliversAsPromised`, `StopHangsOnlyByLostTransfer`, `PublishedIsTaken` | the stream while the camera stays |
| `stream_faults` | 3 transfers, 4 frames, bulk, every fault; 439 000 | `NoBrokenFrame`, `SleepersHaveReason` | what user_cb gets and who sleeps, whatever fails |
| `stream_unplugged` | 2 transfers, 4 frames | `StopEndsThreads` | violated, see below |
| `handler` | 2 callers, 2 cameras, calls are made while the queue is empty; 60 000 | `RunningPreviewIsKnown`, `NoCameraForgotten`, `EndReleasesAll`, `NotifiedWhenStopped`, `StopMissesOnlyAStart`, `StopIsNotified`, `CallsTakeEffect` | safety and liveness of the calls |
| `device` | the client, the preview thread and the event thread, 3 submissions in a session; 102 000 | `CallbacksEndAtClose`, `SleepersAreWoken`, `NothingIsLeft`, `ControlReturns`, `ReleaseReturns` | opening and closing under events |
| `monitor` | 2 devices, 4 blocks; 81 000 | `CameraHasItsConnection`, `LosesConnectionOnlyBy`, `NewCameraIsAnnounced`, `ReleaseClosesCamera` | who closes which connection, and that a camera is found and closed |
| `recorder` | 3 pictures, 1 sound, with a voice and without, with each codec and without, the card taken out once; 436 000 | `WritesSucceed`, `StopsWithTheLast`, `RequestsAreHeeded`, `StopEndsTheThread` | one or two encoders and one muxer |
| `pusher` | 3 recordings, each with and without a voice, on a phone with and without each codec and a microphone; 313 000 | `FramesAreLostOnlyInAStop`, `NumeralsHaveOneOwner`, `NothingIsLeft`, `ThrowsOnlyFor`, `StopPusherReturns` | consumers, frames and numerals |

`TypeOK` of the other modules has been checked on the same instances, but says
little that the properties do not.

Deadlock is checked in `device`, where there is always something left to do. It is
not checked in the runs that may really stop: the pipeline hangs after a
lost wakeup, a stream after a lost transfer or once its bound on frames is
reached, the handler after its thread has ended, the monitor once the service has
ended, the recorders once the recordings are over.

### The bounds

- Two frames already make the pool run empty, a queue overflow, and a frame be
  recycled and handed out again while another thread holds its neighbour; that
  `get_frame` fails (`OutOfMemory`) happens as well. `MAX_FRAME` is 4 in the
  code and 1 or 2 here; the limits matter by being reached. The theorems cover
  every number.
- Two capture threads: a third would need two early stops, each of which leaves
  one thread behind; the second finds the same states as the first.
- Two transfers: one in flight while another is being processed, which is what
  stopping depends on; three in `stream_faults`, so that a failed submission has
  some before and some after it.
- Three or four published frames: one being delivered, one published, one being
  received, and the first one, whose number equals the initial `last_seq`. At
  the bound (`MaxSeq`) a payload that would publish one more is not processed;
  in the liveness run the transfer then ends with `PayloadsEnd`, which a camera
  may always do.
- `MaxQueue` bounds when a call may begin, not the length of the queue: two
  callers that begin together queue up to four messages each while they wait
  for one another.
- `MaxSubmitted` is 3: the status transfer and a control transfer of each caller,
  or the status transfer reported and submitted again beside one of them. It bounds
  a session, not the run: devices are opened and closed without end.
- Two `UsbDevice` objects: one being taken away while the next has come. Four
  blocks: one in the map, one about to replace it, the clone of an open camera
  and one being made. A thread that needs a fifth waits, which a leak of four
  connections alone can bring about.
- Three pictures and one sound: the format of each, the samples before and after
  a split, one of them after the first encoder has left. The card is out once.
- Three recordings: one that has ended, one that is ending and one that starts.

### Fairness

Weak fairness of each thread as long as it can run: the scheduler of the system
gives every thread its turn, and mutexes are held for bounded sections. Nothing
is asked of the environment that it need not do: no call of the application and
no frame of the camera is fair. In `UvcStream`, libusb reports every transfer,
since each is submitted with a time-out, and strong fairness of `PayloadsEnd`
says that a transfer has finitely many packets. In `UVCPreview`,
`SetterReturnsWhileFramesCome` states its need of frames in the property
itself. In `CameraHandler` a call that was made goes on; no call need be made.

In `UvcDevice` `poll` returns after its 60 seconds (`PollTimeout`), and the camera
answers a control request as long as it is plugged in, because the code gives
control transfers a timeout of 0, which is none. Nothing is assumed of
`WaitTimeout`: a waiting thread must be woken. In `UsbMonitor` the polling task
comes back every 2 seconds however often it is preceded by other messages (strong
fairness of `CheckDevices`); the user need never answer. In `MediaRecording` and
`Pusher` the threads run, calls to a codec return in their time, and no
recording need be started or stopped; a stop that has begun goes on.

### What the liveness runs had to concede

`stopPreview` does not always return: `UVCPreview.cpp:357-360` lowers
`mIsRunning` and signals without holding the mutexes, so that a thread that has
tested the flag and not begun to wait misses the signal. `Stopping ~> appPc =
"idle"` alone is violated; `StopHangsOnlyByLostWakeup` says that there is no other
way to hang. In the same manner `StopHangsOnlyByLostTransfer` excepts a transfer
whose resubmission failed (`stream.c:1003` ignores the result),
`PublishedIsTaken` the first frame of a stream, and `CallsTakeEffect` a caller that
hangs in the `stopPreview` before.

The other properties say in their comments what they except, and each exception
is a place where the code may go another way than one would wish:

- `StopMissesOnlyAStart`: a `stopPreview` called between `mUVCCamera.startPreview()`
  and `mIsPreviewing = true` (`AbstractUVCCameraHandler.java:601-604`) returns with the preview
  running. `StopIsNotified` is about a message that finds a preview: of two threads
  in `stopPreview` the second may wait until some other preview is stopped (line 611).
- `NoBrokenFrame`: `_uvc_user_caller` reads `hold_bfh_err` after unlocking
  (`stream.c:1655`, against `libuvc_internal.h:264-265`), and may deliver another
  frame than the one it took, or one twice, but no image of a marked frame. What the
  code does not mark (above) it does not promise.
- `ReleaseReturns` needs `PollTimeout`: the event thread may test
  `kill_handler_thread` before it is set and poll after `libusb_close` is done, and
  the join then takes up to 60 seconds.
- `CallbacksEndAtClose`: a status callback may run on a deleted object until
  `libusb_close` has the lock. `NothingIsLeft`: a release after a connect that failed
  closes descriptor 0 (`UVCCamera.cpp:213`). `ControlReturns` holds although
  `kill_handler_thread` is never reset, so that a second open in one context has no
  event thread.
- `LosesConnectionOnlyBy` lists four ways in which a connection is left open, and
  says whose it is in each; it does not say that none is lost. The fourth
  contradicts the comment of `clone`: `UVCCamera.open` clones the control block, which
  opens a connection, and throws when the camera cannot be opened
  (`UVCCamera.java:193`, `213`); `handleOpen` catches that and drops the camera, and nobody
  closes the clone, "you should release it after using it" (`USBMonitor.java:1028`). `NewCameraIsAnnounced` begins with
  `mDeviceCounts` at 0: when `mDeviceCheckRunnable` writes the count of an earlier
  list after the receiver has reset it, a camera is missed, in the model too.
- `RequestsAreHeeded`: an encoder that has looked and not yet begun to wait
  misses what is asked of it (`MediaEncoder.java:162`). `StopEndsTheThread` speaks of an
  encoder that has its track: one that waits for the other's stays there if that
  never comes, or if the card is taken out meanwhile. `WritesSucceed` and the first
  half of `StopsWithTheLast` except a recording whose card was taken out: a sample for
  the muxer that was then released ends the program.
- `FramesAreLostOnlyInAStop`: while a recording stops, a frame may meet a null
  consumer, a released codec or freed numerals. `ThrowsOnlyFor`: a codec that cannot
  be created (`AACEncodeConsumer.java:267`, `H264EncodeConsumer.java:272`), sound
  without an encoder for it (`AACEncodeConsumer.java:138`) and `AudioRecord.stop` on a
  recorder that never was initialised (line 288) end the program.

## Findings

Each is shown by a run that violates one property.

1. `preview_setter`: `setFrameCallback` waits on the condition that
   `addCaptureFrame` broadcasts for every frame (`UVCPreview.cpp:709`). It goes
   on and deletes the old global reference while the capture thread may be
   calling through it, although the comment at line 218 says "wait finishing
   capturing".
2. `stream_unplugged`: after `LIBUSB_TRANSFER_NO_DEVICE` has lowered `running`
   (`stream.c:985`), `uvc_stream_close` skips `uvc_stream_stop` (line 1867) and
   frees the handle while the user thread runs and transfers are in flight;
   line 1776 promises "Closes all streams, ends threads and cancels pollers".

## What is proved

All theorems hold for every value of the constants that satisfies the named
assumptions (the sets of frames and transfers are finite, `None` is no member of
them, limits are natural numbers).

`UVCPreviewProofs`: `TypeOK`, `FrameOwnership`, `StopIsComplete`,
`NoSleeperMissesAFrame` and `CallbackFieldValid` are invariants, for any number of
frames, capture threads and callbacks, with MJPEG or YUYV, with or without
spurious wakeups. The inductive invariant `IInv` adds to them
 - `HandsFull`: the local pointer a thread is about to recycle or queue does hold
   a frame. Without it a step of `FrameOwnership` could put `None` into the
   queue.
 - `PreviewLife`: who may create and join the preview thread, and that a stream
   is on only between its start and its stop. `StopIsComplete` looks at a state
   after the join and says nothing of how one gets there.
 - `RequestLive`: the reference that a setter brings stays live until it is
   stored.

The lemmas about the pool (`GetFrameKeeps`, `RecycleHeldKeeps`, ...) are stated
once and cited by every thread. `PipelineKeepsPromise` proves `StreamAsPromised`:
every step of the pipeline is a step of `StreamService` or none, with the further
invariant `StreamLife`.

`UVCPreviewLeakProofs`: `LeaksOnlyAtStop`. `HandsEmpty` (a thread never assigns a
local frame pointer that still holds a frame) makes every `get_frame` and every
take from a queue lose nothing; one lemma per way to move a frame, and
`addCaptureFrame` is the only one with an exception.

`UvcStreamProofs`: `TypeOK`, `NoBrokenFrame`, `SleepersHaveReason`,
`FreedIsUnused` and, for a stream without disconnection and failed start,
`DeliversAsPromised`. `InHand` (the transfer in hand is neither in flight nor
deleted) and `HandleLife` (`running` is up until `uvc_stream_stop` lowers it, and
the client reaches the free only past all transfers and past the user thread)
are what the induction needs. `NoBrokenFrame` rests on `BrokenIsMarked`, which is a
theorem too (`MarksTravel`): a buffer whose content is broken has its mark with it,
`bfh_err` while it is being filled and `hold_bfh_err` once it is published. Each step
that swaps, fills or clears a buffer must do the same with its mark, and the two
buffers must never be one (the mutant). The user thread copies only what is not
marked, hence not broken, and keeps its copy; so the second, unlocked read can only
skip frames or repeat one. There is one lemma for each of the three threads.

`CameraHandlerProofs`: `NoCameraForgotten`, `RunningPreviewIsKnown`,
`EndReleasesAll`, `NotifiedWhenStopped`, `StopMissesOnlyAStart` and the types of the
fields, for any number of callers and cameras and any queue. `CameraLife` follows the camera from
`mUVCCamera` into the local variable of `handleClose` to its destruction,
`FlagLife` the flag between the two writes of a handler; callers change none of
it (`CallerKeeps`).

`UsbMonitorProofs`: `TypeOK` and `CameraHasItsConnection`, for any number of
devices and control blocks. By itself the property says nothing of the blocks the
UI thread and the looper are about to close; `CloneLife` adds that the clone
`UVCCamera.open` makes, from `nativeConnect` on, is neither in `mCtrlBlocks` nor in
the hands of the receiver or of `processConnect` nor in a message (`Own`). What
`destroy`, the receiver and a second connect close or replace is therefore never
the clone of an open camera.

`PusherProofs`: `TypeOK`, `FramesAreLostOnlyInAStop`, `NumeralsHaveOneOwner`,
`NothingIsLeft` and `ThrowsOnlyFor`, for any number of recordings, with and without a
microphone and the codecs.
`VideoLife` and `AudioLife` say which consumers may have a thread: that of the
handler's field, and the one `handleStopPusher` has taken from the field and is
joining. So at most one recording has threads, and the next one finds the global
numerals free. `CaptureLife` says what the capture thread may rely on between two
unlocked reads: the consumer it saw is that of the handler or was told to exit, and
an encoder it has seen open stays open until then. For `ThrowsOnlyFor`, `AudioLife` says
that the recorder of a thread that reads is there, and is on or useless as the
microphone is, and that its encoder is there if the phone has one: nothing that
`handleStopPusher` does reaches them.

`LosesConnectionOnlyBy` is proved from one more invariant, `OriginLife`: under each
device the map has a block of that device, the looper's new block is of the device
it has in hand, what the receiver has taken out is closed, and outside a handler
the looper and the camera thread have no block in hand. One lemma then goes through
the steps: nine of them move blocks, and only those the property names can drop
one that is connected. That the block lost in a close is not the clone just closed, and
that the one lost in a connect is not the block put in the map unless `destroy` was
called, is a part of the statement.

`UvcDeviceProofs`: `TypeOK`, `CallbacksEndAtClose`, `SleepersAreWoken` and
`NothingIsLeft`, for any number of calling threads and of transfers.
 - `ThreadLife`: nobody is between the lock and the unlock of the events without
   `events_lock`; no caller is in libusb while the client connects or releases; after
   the join the event thread is gone. So whoever holds the lock at `libusb_close` is
   the client or the event thread.
 - `SessionLife` and `FileLife` are a table: which of the two handles, how many
   references and how many descriptors there are at each step of the client, on the
   way in, on the way out and on the way back after a failure.
   `NothingIsLeft` only reads off the last line. That descriptor 0 is closed only after
   an error needs `mUsbFs` and `mFd` of the connects before.
 - `CallbackLife`: a thread that reports a transfer does so on an open device and
   before the client has passed `lock`, and once the handle is closed the
   descriptor is polled no more, so that a thread that gets the lock later finds
   nothing to report.

`SleepersAreWoken` is inductive together with `ThreadLife`: a thread may begin to wait
only after it has found a handler or a closing client, under the lock of the
waiters that the broadcast takes.

`MediaRecordingProofs`: `TypeOK`, `WritesSucceed`, `StopsWithTheLast` and
`RequestsAreHeeded`, for any number of pictures, sounds, splits and removals of the
card, with one encoder or two, with and without their codecs. `SilentAudio` keeps the
audio encoder out of a recording whose voice is off.
 - `ClientLife`: nothing is asked of an encoder before `startRecording`, and by then its
   thread has begun, because the constructor waits for it. The assignments with which
   `run` begins, `mRequestStop = false` among them, therefore wipe out no request;
   this is the first half of `RequestsAreHeeded`.
 - `MuxerLife`: `mStatredCount` is the number of encoders that have called `start` and
   not left, and none gets past `start` until all of the recording have called it. The muxer is
   thus ready until then, and stops when the count comes to 0.
 - `TrackLife`: the tracks of the muxer are those of the encoders that have added one,
   at the index they remember, until a new file; from then on
   `mAudioTrackIndex` is -1 and no sample is written.
 - `CardLife`: with the card in its place only the last encoder stops the muxer.
   `removals = 0` is a part of the two properties and no assumption of the theorems.

Model-checked only: everything under fairness, which is beyond the prover
(`StopHangsOnlyByLostWakeup`, `SetterReturnsWhileFramesCome`, `StopHangsOnlyByLostTransfer`,
`PublishedIsTaken`, `StopIsNotified`, `CallsTakeEffect`, `ControlReturns`,
`ReleaseReturns`, `NewCameraIsAnnounced`, `ReleaseClosesCamera`, `StopEndsTheThread`,
`StopPusherReturns`); the two violations; and the type of the handler's queue, since
`SelectSeq`, which `RemoveStart` uses, is defined by recursion over the sequence. Every
safety invariant and every safety action property of a passing run is a theorem.

## What is not modelled, and the plan

`PROJECT.json` lists every component with its state. Most of the repository's
native lines are third-party code (libusb for other systems, libjpeg-turbo,
rapidjson), tables and arithmetic on pictures: sequential code on data, in which no
two threads meet and a model would only repeat the program. Not modelled for that
reason: the controls of `LUVC/ctrl.c` (one control transfer each), the scan of
the descriptors, the conversions of `LUVC/frame.c` and `src/yuvosd`, the JNI table,
the views, the database, the image pipeline (not built). Inside the modelled
components: pixel formats, negotiation of formats, several streams or devices in
one context, `uvc_stream_get_frame`, `clearDisplay`, still pictures, the
near copy `MonitorService2`, and the references to a `libusb_device`.

Next, in this order:

1. Inside `UVCPreview`: the conversion function as a variable
   (`callbackPixelFormatChanged`), and the session of a queued frame.
2. `CameraHandler` over an abstract device, in place of `opened` and
   `previewing`, with `UvcDevice` as its implementation.
3. The camera thread of `UsbMonitor` as an abstraction that `CameraHandler`
   implements, with its proof.
