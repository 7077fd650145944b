# CarTracker: a TLA+ model of the recorder

CarTracker (`src/CarTracker1.0`) turns an Android phone with USB cameras into a
dashboard recorder. Native code grabs pictures; a camera thread splits them into
up to four channels and puts the frames into one buffer per channel; one recorder
thread per channel writes the buffer into video files and is replaced by a new one
every 20 minutes ("file switch"); a cleaner deletes the oldest files when the SD
card is full. Everything is tied together by Android broadcasts, which the main
thread delivers.

All Java paths below are relative to
`src/CarTracker1.0/src/com/cartracker/mobile/android/`.

## 1. Inventory

| Component | State | Operations | Hard behaviour | What makes it correct |
|---|---|---|---|---|
| Frame buffer `util/BitMapHolder.java` | a `LinkedBlockingQueue`, and a plain `long size` beside it | `add`, `get`, `getSize` | `size++`/`size--` by several threads; test and put not atomic; `take` blocks for ever | counter = length, bounded buffer |
| Recorder `util/VideoCapture.java`, `VideoRecordStopListener` | `switcher`, `video_record_flag`, receiver, listener, the slot `VariableKeeper.videoCaptures[x]`, the file | constructor, `start`, thread loop, drain, `Stop`, restart by broadcast or exception | instances overlap; constructed by three kinds of thread; exceptions in three places | frames once and in order; one active recorder; stop reaches it; files get their final name |
| Camera thread `data/UsbCameraData.java` | `thread_flag`, `cameraUtil`, frame arrays, `videoCaptures[]` | `run`, stop receiver | the receiver closes the camera and nulls what the thread uses | the thread works on live memory, and ends |
| Camera driver `jni/mycamera/mycamera.c`, `com/usb/camera/android/CameraUtil.java` | per card: descriptor, mapped buffers, `n_buffers`, `rgb` (static variables) | prepare, take, stop | called from two threads; every system call may fail; pointers are freed and kept | unmapped and freed once; released by a stop |
| Single camera preview `jni/singlecamera/singlecamera.c`, `com/usb/camera/android/SingleCameraPreview.java` | the same for one camera; `shouldStop`, `cameraExists` | surface created and destroyed, the thread's loop | a polling handshake between two threads; the camera is pulled out | the two threads are never in the driver together |
| Preview `ui/VideoPreview/CameraPreview.java`, `VideoPreviewActivity.java` | display modules, bitmaps shown last, the listener `VariableKeeper.videoFrameListener` | surface callbacks, restart, switch of channels, `onVideoFrame` | two threads draw, recycle and replace; Android orders the callbacks of two activities | a picture is recycled once nobody draws it; the camera thread survives |
| HTTP pool `util/http/impl/HttpProviderWrapper.java` | four `Vector`s, teams of worker threads and their flags | add, cancel, stop | flags read without the lock; teams overlap | no request lost or sent twice; the post queue is drained |
| SD cleaner `SDCardLowerSizeCleaner`, `SDCardSizeMonitorHandler`, `VideoFileBeanComparator` | free space as last measured, `isCleaningNow`, `filelists` | measure, request, clean, announce | several cleaner threads on one object; stale measurement; exceptions | oldest first; not too much; the flag is reset |
| Record manager `util/RecordManager.java` | completion receiver | record, wait, refuse | completion arrives later | recording starts once there is space |
| Recording commands `ui/FeaturesFragment`, `RecordManager`, `BatteryLevelRcvr`, `fileSwitchTimerAction` | last switch time | record, stop, switch, exit | arrive at any time, also twice | - |
| Broadcast wiring `util/appBroadcast/*` | tables of receivers | register, deliver | order, delivery to a receiver that has just been unregistered | - |
| Timer and monitors `TimerManager`, `MyAppMonitor`, `SystemUtil.MyGC` | times of the last action | one pulse every 3 s | clock arithmetic (`MyGC` subtracts the wrong way round and never runs) | each action at its interval |
| USB registry `SystemGlobalUsbVideoDevicesHandler` | `extendedUsbCameraDevices[]`, maps | attach, query, clean | threads share the receiver's fields | one slot per device |
| Emergency messages `ui/EmergencyActivity`, `SmsBroadcastRcv` | numbers, on/off | add, delete, switch on | - | never on without a number |
| JSON library, screens, shell helpers, vendored libusb/libjpeg | - | - | - | not modelled, see section 7 |

Shared state and calls: the camera thread constructs a channel's first recorder;
later ones are constructed on the main thread (broadcast FILE_SWITCH) or on a dying
recorder's own thread (exception). `videoCaptures[x]` is read and written by all
three without a lock. "Stop" broadcasts CAMERA.ALL.STOP to the camera threads and
marks the recorder in the slot directly; the camera thread's receiver stops the
native camera on the main thread. The camera thread hands its pictures to the view
in `videoFrameListener`, which the main thread sets and clears.

## 2. Modules

| Module | Models | How it corresponds to the code |
|---|---|---|
| `FrameQueue` | `BitMapHolder` | `holders` is the queue, `size` the counter. `add` is `AddDrops`, or `AddAccepts`, `Put`, `IncLoad`, `IncStore`; `get` is `Take`, `DecLoad`, `DecStore`. `op`, `hand` and `reg` are where a thread is in its call, its frame and the value it has loaded. `lost` is a history variable: by how much stores of `size` have overwritten those of other threads. |
| `FrameLog` | - | abstract: what recording promises about frames (each in at most one file, in order). |
| `Recorder` | one channel: `VideoCapture`, `UsbCameraData`, the main thread | `inst[v]` and `cam[c]` are the objects with the step their thread is at; `slot` is `videoCaptures[x]`; `mk[t]` is the construction a thread is in (constructor, slot, listener, start are separate steps); `mpc`, `mv`, `looper` are the main thread and the broadcasts; `raw` and `kept` are files by name and by final name; `logged` is the file of each frame. Contains an instance of `FrameQueue`; refines `FrameLog`. |
| `FileOrder` | `VideoFileBeanComparator`, `Collections.sort` | the int cast wraps at `HalfInt`; a sort may return every order whose neighbours the comparator accepts. |
| `SdCleaner` | cleaner, size monitor, `RecordManager`'s waiting | one step per access to the shared flag, list and measurement: `refreshFileList` adds its files one by one (`AddLoad`, `AddStore`: an `ArrayList.add` is not atomic), `deleteOldFile` logs, sorts a copy and writes it back, iterates; `clear`, `null` and `new` are three steps. `heap` holds the lists, since a thread may go on with one that the field has left; `own[k]` are a thread's locals; `broken` are the threads whose list has changed under their iterator. |
| `V4l2` | the kernel's video device (external) | open files, mapped buffers, the one owner of the buffer queue; a file lives until its descriptor is closed and its buffers are unmapped. |
| `UsbCamera` | `mycamera.c`, `CameraUtil`, `UsbCameraData` | `card[i]` are the static variables of a camera with its device and heap; each C function is an operator from a card to its possible results, one failure of each system call among them (`Failures`). `obj[s]` are the `UsbCameraData` objects with their threads; descriptors and memory carry the number of the object that made them, so reuse and leaks can be told. `undefined` collects undefined behaviour, `strayed` the ways the use has left the intended one. |
| `SingleCamera` | `singlecamera.c`, `SingleCameraPreview` | in the same manner; the thread's turn is split where it calls the driver; `Unplug` takes the camera away. |
| `HttpPool` | `HttpProviderWrapper` | `wpc` is the step of a worker; `Test` (reading the flags) and `Take`/`Wait` (under the lock) are separate steps, as are the critical sections of `stop()`. |
| `Preview` | `CameraPreview`, the feeding part of `UsbCameraData` | `cpc` and `mpc` are the steps of the camera and the main thread through `onVideoFrame` and `showVideoFrame`, whose test for a bitmap (`Looked`) and drawing (`Drawn`) are two; `view[v]` is the view of one activity with its lock, its channel, its first display module (`first`, with the bitmap `own` of the view's own `VideoFrame`) and the three others (`modules`). |
| `*_proof` | - | theorems, section 5. |
| `MC*` | - | constants for TLC. |

Definitions whose comment begins with "Mutant" are bugs put in for comparison: each
changes one action, and each property is violated by at least one of them. No
specification uses them.

Details of the translation:

* The four channels run the same code and share only the camera thread, its stop
  broadcast and FILE_SWITCH, so one channel is modelled in `Recorder`; `Preview` treats
  the four bitmaps of a turn, which the code handles alike in loops, as one.
* Android delivers ordinary broadcasts to a process in the order sent, each to the
  receivers registered when it was sent; a receiver unregistered meanwhile is
  skipped. `Deliver`/`SkipStop` and `looper` are that.
* A `long` may also tear into halves on a 32-bit machine, and the compiler may keep
  a field that is not volatile in a register: not modelled; the loads and stores are
  interleaved as written.
* Exceptions: of `recorder.start()`, `record()` and `stop()`, at most `MaxFaults`;
  a null listener and a closed camera throw whenever they are used.
* `Construct` is the constructor up to the test of the slot; the store into the
  slot is a step of its own (`TakeSlot`).
* The C functions: `EINTR` (which `xioctl` repeats), failed ioctls whose result the code
  treats like its neighbours' and a failed `malloc` of the picture memory are left out. The
  main thread's call of `prepareCamera` is atomic per camera, which is sound because the
  thread of the object being constructed does not run yet; with an older thread still
  running, that use is marked "overlap".
* The single camera's `rgb` and `ybuf` are allocated and freed together and are one.
* `Preview`: one preview is open at a time (no double tap on the menu); Android does not take a
  surface away while its canvas is locked; the menu is not used before the first drawing;
  a module without a picture gets the test picture, but that the test picture is recycled itself when
  the surface goes (`CameraPreview.java:194-197`) is left out. A draw that throws is recorded in `stale` and the thread
  goes on, so that the windows of `DrawsLive` and of `OutlivesPreview` are told apart.
* `SdCleaner`: the growth of an `ArrayList`'s array is left out; an iterator behaves as Android's does (it throws when it has
  elements left and the list has been modified; `clear()` of an empty list modifies nothing).
* `HttpPool`: a request has one of the two priorities that are defined (`INetRequest.java:18-19`; another one would be dropped by the
  switches without a default, `HttpProviderWrapper.java:99-132`); sending with its retries is the one step `Send`; spurious wakeups of `wait()`
  are left out; a queue no request uses is not given threads.

## 3. Runs

Properties marked * are action or temporal properties.

| Run | Bounds | Shows |
|---|---|---|
| `frame_queue` | 2 camera and 2 recorder threads, maximum 1, 5 frames | `SizeIsLength`, `BufferBound`: the counter is the length of the queue up to the updates under way and those that have been overwritten, and with it the bound. |
| `recorder_switch` | 1 camera, 3 recorders, 1 frame, 1 switch, 1 stop, 1 exception at any call of FFmpeg, names may collide, `Calm` | until the exception `UniqueActive`, `OneHeir`, `SwitchKeepsReader`, `StopReachesAll`*; throughout `FileFinalised`, `Quiesce`* (liveness). |
| `recorder_frames` | 1 camera, 3 recorders, 2 frames, 1 switch, 1 stop, at any moment (not `Calm`) | `FramesOnceInOrder`* (refinement of `FrameLog`), `StrandedIsFirst`, `DrainLeavesFew`*. |
| `recorder_stop_hang` | fairness | violated `StopLetsThreadExit`*: a stopped recorder waits in `take()` for ever. |
| `sd_cleaner` | 2 cleaner threads, 3 files on a card of 3 that holds nothing but 2 of them at the start (`OnlyVideosSpec`), others free or take space once; a directory lists its files in order of creation, the setting is not taken back (`SmallSteps`) | `OvershootBounded`*, with every interleaving of filling, sorting, iterating and clearing, and every exception of it. |
| `sd_cleaner_order` | 1 cleaner thread, 2 files more than `HalfInt` apart | violated `OldestFirst`*: the newer file is deleted first. |
| `sd_cleaner_flag` | 1 cleaner thread | violated `FlagReset`: after a request that turns out to be unnecessary no cleaning ever happens again. |
| `usb_camera` | 2 cameras, 2 buffers, every step may fail, 2 presses of record, 2 of stop | `UnmapsOnce` always; `ThreadHasCamera` while record is pressed only after stop; `FreedOnce`, `LiveImage`, `StopReleases`, `StopEndsThread`* (liveness) outside the excuses each names. |
| `usb_camera_twice` | no failure, 2 presses of record, 1 of stop | violated `StopClosesCard`: the camera of the first press is never closed. |
| `single_camera` | 4 buffers, every step may fail, `DQBUF` at any time, 3 surfaces, the camera may be pulled out | `AloneWithCamera`, `MemorySafe`, `DestroyReleases`; `StopAnswered`* (liveness) while the camera is there and streams, or could not be opened at all. |
| `http_pool` | 2 image, 1 text, 3 post or 2 chat requests, 2 teams, stops and cancels at any time | `OnePlace`, `NoneSleeps`, `PostThreadEnds`*, `PostDrains`* (liveness). |
| `preview` | 2 previews, 1 return, 2 changes of the channel, 3 pictures | `ShownIsFed`, `NoneDropped`, `DrawsLive`, `OutlivesPreview`. |

Why the bounds are enough. `Recorder`: one switch and one exception give three recorders, and two switches do; three is the least number
in which a recorder that has been switched off can meet the successor of its successor;
two frames are the least that can be out of order, and with `BitMapHolderMax` 1 the
buffer also fills; one stop before, between and after covers the orders
of stop and switch. Two switches with one exception (2.2 million states, without liveness) and two switches
without (0.3 million) were run once and add nothing; two presses of record are
covered by the theorems. `SdCleaner`: two threads are the least that share a list, and three files the least with which
one thread can delete past the target while the other fills its list. `UsbCamera`: two cameras are
what the library has (`CAMERANUM`), and the number of buffers only matters as zero, one (refused) or
more; two presses and two stops contain record, stop, record, stop with a failure at each
place, which is the shortest sequence that meets state left over from before.
`SingleCamera`: three surfaces contain a good preparation, one that fails, and one that meets
what both have left. `HttpPool`: a stop between two teams is the least in which workers of
one meet requests of the other; each queue is run with as many requests as can wait while its
workers are all busy. `Preview`: two previews can meet in the life cycle of Android; two changes of
the channel reach a single channel and four again; of three pictures, one can be drawn, one shown before it and one
already recycled. Four pictures with one return and one change (2.8 million states) were run once and add nothing; the theorems have no bound.

The exceptions named in a property (`strayed`, `faults`, `Calm`, `lost`, and the conditions on the
camera in `StopAnswered`) are histories or states, and each was
taken away once: TLC then finds the property violated, so each is needed. What it finds is
listed in section 4.

`Calm` (TRUE in `recorder_switch` and `recorder_stop_hang`): the user does nothing, and no broadcast is
pending, between the press of "record" and the start of the channel's first recorder, a
window of a few frames. `recorder_frames` has no such restriction, and what it checks holds at every moment.

Fairness (`FairSpec`): weak fairness of the main thread's pending work, of each camera,
recorder, preview and HTTP thread, which is what the kernel's scheduler gives; none for the
camera (`Grab`: a picture may never come; `SingleCamera` is told by `select` that none came),
the user, failures or exceptions. A worker of the pool is fair as a whole; it may be any of the
waiting ones that a notification wakes.

Deadlock checking is off in every run: the system rests when the bounded commands are used up.

## 4. What the runs and the translation found

Besides the four violated runs, the models show these disagreements of code and comment:

* `VideoCapture.java:106`: a file switch delivered between the constructor and `start()` stops an
  instance that then starts; no later switch reaches it, against line 74 (*"后续即使有脉冲信号过来也不再重启自身
  完全停掉刻录机"*), and two recorders are active. `StrandedIsFirst` says that this is the only way: with every command at every moment, only
  the first recorder of a camera thread can be stranded, never one that a switch has made. A stop in that window finds an empty slot, and a first
  file switch there gives the successor a null listener, so its file keeps the raw name. Under `Calm` none of them happens.
* `VideoCapture.java:150`: a recorder constructed in the same second as the one it replaces has the same file name, so that the rename of
  the old one may take the new one's file while it is being written; so does the rename after an exception of `record()` (line 184).
* `UsbCameraData.java:57-59`: the stop receiver waits a second, not for the thread, whatever its log line says;
  a turn that takes longer copies from freed memory or runs into the null `cameraUtil` (`"late"`).
* `VideoFileBeanComparator.java:13`: of two files 2^31 ms (24.8 days) apart the newer is taken for the older
  (run `sd_cleaner_order`, theorem `CompareFlips`), against "the oldest" of `SDCardLowerSizeCleaner.java:69`. Two cleaner threads may
  delete a newer file first without that, by the partial list one of them finds.
* `BitMapHolder.java:27` tests `size > BitMapHolderMax`, so the buffer holds one more than
  "the largest number" (`VariableKeeper.java:114`).
* `VideoCapture.java:139` leaves the drain loop while the camera thread is between `put` and
  `size++`, or by a counter that has lost updates: frames stay behind, against line 135. `DrainLeavesFew` bounds them.
* `VideoCapture.java:166-167`: `Stop()` neither unregisters the receiver nor sets the mark, so
  a recorder that dies of an exception does restart itself, and answers the next file switch too.
* `SDCardLowerSizeCleaner.java:39-40`: test and set without a lock, so two cleanings do happen,
  against line 21 (`sd_cleaner` contains them).
* `RecordManager.java:37` unregisters null, which throws before `record()` of line 38; the
  exception ends the main thread (`DeliverComplete`).
* `SDCardLowerSizeCleaner.java:55` announces the end of the cleaning however little it made free.
* `mycamera.c:531`: a camera that fails after its buffers have been mapped keeps them until a later
  stop unmaps them, and for ever if another preparation overwrites the table (`"half"`, `"lost"`).
* `singlecamera.c:249`: `readframeonce` repeats `select` and `DQBUF` until a picture comes. With a camera that has been pulled out, or that is open and
  does not stream (`prepareCamera` failed at `STREAMON` with `cameraExists` still set from before), `select` is ready at once, `DQBUF` fails,
  and it goes round for ever; the main thread waits for it in `surfaceDestroyed`.
* `singlecamera.c:470`: `rgb` is replaced only when the streaming is on; a preparation that fails to start
  leaves the freed pointer to the next `stopCamera`.
* `HttpProviderWrapper.java:252` and `:264`: a stopped worker can take the notification meant for
  another team, or read the two flags as false between lines 212 and 213, and a request is left until the next one
  comes, against `INetProvider.java:8` ("add one request into the pool and then execute it.").
  The program never uses the pool: its only caller, `HttpRequestProvider.java:23`, is commented out.
* `CameraPreview.java:199`: after it has lost its surface once, a view is not told again, so that
  when it is finally left it stays the listener, against `VariableKeeper.java:76` (*"退出CameraPreview后自动将自己移除"*);
  and an old surface that goes late removes the listener of the new preview, whose screen stays still.
* `UsbCameraData.java:117-123`, `CameraPreview.java:94`: the camera thread, and with it the recording, dies of a
  NullPointerException if the listener goes between the test and the call, or a view has no display modules,
  or only some of them, when it is called (`"left"`, `"blank"`, `"busy"`).
* `CameraPreview.java:164`: a view that kept its surface while another app was in front may draw a recycled
  bitmap when it is returned to for the second time (`"kept"`). With a single channel chosen, that draw also stores the old bitmap in the first
  module (lines 151-152) after the camera thread has fed it, and recycles it while the camera thread draws it (`"kept"` and `"single"`).
* `CameraPreview.java:121` and `:141`: the camera thread tests for a bitmap and draws it under `threadLocker`, but a change of the channel
  (lines 272-306) does not take that lock and replaces the module in between: the camera thread draws null, and dies (`"switch"`).

## 5. Proofs

Proved with TLAPS for every value of the constants that satisfies the named assumptions:
`QueueAssumption` (finite disjoint sets of threads, natural bounds), `RecorderAssumption`
(the same, the main thread is another thread, `NameSteps` is a subset of {0, 1}),
`OrderAssumption` (`HalfInt` positive, dates natural numbers in order of creation),
`CleanerAssumption`, `CameraAssumption`, `SingleAssumption` and `PreviewAssumption` (natural numbers; the
driver grants at least two buffers, as the code demands), `PoolAssumption` (a natural number
of teams, each request is for one of the four queues, and the mark `None` is no request). There is no bound on threads, frames, switches, stops,
cameras, surfaces, previews, requests, teams or exceptions beyond those constants. `Calm` may be either value except where
a theorem assumes it.

| Theorem | Says |
|---|---|
| `FrameQueue_proof!QTypeCorrect` | types of the buffer |
| `FrameQueue_proof!SizeCorrect` | `size` differs from the length of the queue, up to the updates under way, by no more than what overlapping stores have lost |
| `FrameQueue_proof!BufferBounded` | the buffer exceeds its maximum by at most one frame per camera thread and one per lost update |
| `Recorder_proof!QueueRefined` | every step of the program is a step of `FrameQueue` or leaves the buffer alone |
| `Recorder_proof!BufferInProgram` | so the three facts above hold inside the program |
| `Recorder_proof!TypeCorrect` | types of a channel |
| `Recorder_proof!FramesCorrect` | `Recorder` implements `FrameLog`: a frame goes to at most one file; with one camera thread the frames of a file are in order |
| `RecorderControl_proof!FinalisedAlways` | assuming `Calm`: a recorder that has ended has renamed its file, exceptions included |
| `RecorderControl_proof!UniqueActiveAlways`, `KeepsReaderAlways`, `StopReachesAllAlways`, `OneHeirAlways` | assuming `Calm` (the last also one camera thread), and until the first exception: one recorder is told to record, a switch leaves a reader, stop reaches all, one answers a switch |
| `RecorderControl_proof!StrandedAlways` | assuming nothing, and until the first exception: a recorder that records and that no switch reaches is the first one of a camera thread |
| `RecorderControl_proof!DrainAlways` | assuming nothing: the drain loop leaves no more frames than are put and not counted, and updates that are lost |
| `SdCleaner_proof!SortedByDate` | files less than `HalfInt` ms apart are sorted by date, however many there are |
| `SdCleaner_proof!CompareFlips` | of two files exactly `HalfInt` apart the younger is taken for the older |
| `SdCleaner_proof!SdTypeCorrect`, `OvershootAlways` | types; any number of cleaner threads overshoots by at most one file each, however they interleave on the list |
| `UsbCamera_proof!UnmapsOnceAlways` | buffers are unmapped, and their array freed, once, whatever is pressed and fails |
| `UsbCamera_proof!ThreadHasCameraAlways` | as long as record is pressed only after stop: all cameras prepared for an object stream for it until it is stopped |
| `UsbCamera_proof!FreedOnceAlways`, `LiveImageAlways` | memory of the recorder, outside the excuses the properties name |
| `UsbCamera_proof!TypeCorrect`, `StopReleasesAlways` | types; when everything is stopped no camera is open and no memory held, if record is pressed only after stop, no camera failed with its buffers mapped (`"half"`), and none failed after it had been prepared (`"lost"`) |
| `SingleCamera_proof!SingleTypeCorrect`, `AloneAlways`, `MemorySafeAlways`, `DestroyReleasesAlways` | the handshake, and memory, for any number of surfaces and buffers |
| `Preview_proof!PreviewsAreFed`, `BitmapsAreRecycled`, `DrawnBitmapsAreLive`, `CameraOutlivesPreviews`, `TypeCorrect` | all properties of the run `preview`, for any number of previews, returns, changes and pictures, with the excuses the properties name |
| `HttpPool_proof!TypeCorrect`, `OnePlaceAlways`, `NoneSleepsAlways` | types; a request is queued once, or with one thread, or done with; no thread sleeps beside a request of the first team or of the post queue; for any requests and any number of teams |

The arguments:

* The buffer. `SizeIsLength` counts the threads that are between the queue operation and the
  store (`Uncounted`, `Overcounted`); a store that hits a changed counter moves both
  sides of the claim, since `lost` grows by exactly the distance between what it has loaded and what it overwrites, so with the types it is inductive. `BufferBound` is not inductive: it
  forgets frames that have passed the test of `add()` and are not in the queue yet.
  `Committed` bounds both together, and a new frame is let in only when the counter, hence
  by `SizeIsLength` the queue up to `lost`, is at the maximum or below.
* The program. `QueueRefined` needs no invariant, so everything about the buffer carries
  over. `TypeOK` is not inductive: `Start` would not know that the instance it starts has
  never run. `Lifecycle` adds it: only constructed instances run, a recorder constructs only
  while it replaces itself, and no two threads construct the same instance. `IInv` is the
  two together.
* The frames. A frame that is produced and in no file is `Pending`. `FrameInv` says that
  whatever is in the buffer, in the hand of a camera thread or in the hand of a recorder is
  pending (`AllPending`), in one place only (`InOnePlace`) and, with one camera thread,
  ordered: files, recorders' hands, buffer, camera's hand (`InOrder`). `FramesOnceInOrder`
  alone cannot be carried from step to step because it says nothing of frames on their way.
  `FrameStep` shows that each step keeps `FrameInv` and is a step of `FrameLog` (`Grab` is
  `Produce`, `RecordFrame` is `Log`) or leaves the log alone.
* The order of files. `CastFits` is the arithmetic of the cast; the neighbours of a sorted
  list are then in order, and the first place that comes after a later date would come
  directly after one (well-foundedness of the natural numbers, no induction).

* Who records. Under `Calm` only one camera thread at a time is between its press of "record" and
  its first recorder, and the main thread is idle then (`Undisturbed`); a camera thread constructs for its
  first frame only, the main thread only between the halves of a file switch (`Makers`). `CalmInv` adds that every
  instance has its listener and that a file with its raw name belongs to a recorder that still runs, which
  is `FinalisedAlways`. Until the first exception no recorder replaces itself, so every instance that is told to record
  or registered is in the slot, or is the one being made or being switched off (`ControlInv`); the four properties
  are its consequences. `UniqueActive` alone is not inductive: it forgets the instance that is constructed and not started.
* Who is stranded. Without `Calm` none of that is true, but `Made` is: a camera thread constructs only for its first frame, and what the main
  thread is constructing is registered. A camera thread's `Start` is then the only step that can turn an unregistered instance on.
* What a drain leaves. `DrainAlways` follows from `SizeIsLength` at the moment the counter is read as 0.
* The cleaner. A thread is `Armed` while it may still delete without measuring again. `Room` says that while threads are
  armed the free space and one file for each of them stay within the target, the number of threads and what others have
  freed; to arm a thread (`Decide`, `Measure`) the measurement must be below the target, and `Measured` bounds the free
  space by that measurement and the threads that have not measured since they deleted. The
  lists need only their types (`ListOK`): every entry that is stored is a file or a null, whatever two threads that add, sort and clear make of one array, so
  that `Delete` removes at most one file. A list in between may be partial or hold a file twice; that the oldest file goes first is therefore neither claimed nor true.
* The preview. `Listening` says who may be the listener: views are opened in turn and only one is shown or stopped at a time,
  so a view that registers takes over from none that is still shown. `Modules` adds what the display modules hold: a view without a surface has none (`Virgin`),
  they are incomplete only while the main thread fills them (`Partly`), and the listener lacks them only between its surface
  and its first canvas (`Prepared`). `Bitmaps` says where the newest bitmap is: neither recycled nor shown last while the
  camera thread holds it (`Fresh`), and recycled or shown last by the time it takes another (`Left`). `FirstShow` is why the
  main thread draws no recycled bitmap: at the first show there are no modules yet (`Unset`), and if the camera thread feeds them before
  they are drawn it waits for the lock that the main thread has (`Held`), with its bitmap still fresh. `Shots` says what the camera thread is going to draw: its own
  newest bitmap or the test picture, from the test to the drawing, unless the channel is changed in between; a stored bitmap (`OwnShot`) is older only
  if the main thread has stored it, which it does for a single channel (`Four`) and a view returned to.
* The drivers. Lemmas state what each C function makes of a card: what `opendevice`, `initmmap` and their callers leave
  behind when they fail, and that `stopped` clears all of it. In `UsbCamera` the invariant says that outside the
  named exceptions (`Calm` there: no "overlap", no "lost") the cameras belong to the one object that is registered, or to none, and that a thread in `takeImage` is
  the one they belong to. `ThreadHasCamera` allows failures of every kind and needs one more (`CInv`): while record is pressed only after stop at most one object is
  registered, and none while one is being prepared (`Alone`), so the cameras that carry its number (`Named`: no number is given twice) stream for it (`Streaming`). That a stop releases everything needs a second invariant on top of it: in the intended use a camera
  holds nothing at all or everything (`Clean`), `prepare` and the stop receiver go through the cameras in order and leave the ones they have passed
  full or empty (`Tidy`), and nothing fills one when no object is registered; `Sent` says that the broadcast of the stop
  goes to objects that exist. In `SingleCamera` it says whose turn it is (`Turns`): the threads of all surfaces but the last have ended,
  the last one is in its loop only while the surface is there or the main thread waits, so that everything the driver holds is
  what its variables point to (`Tidy`), and nothing between two surfaces (`Empty`).
* The pool. `QueuesHold`, `WorkersHold` and `Over` say that what is in one place is in no other, `Kept` that what has been added is in one of them;
  the count of `OnePlace` follows. Which threads there are (`Started`), and that those of the last team go on until a stop (`Working`), is needed to know that there is
  somebody to wake. The post queue is safe in every team because a post thread that is retired does not wait and is told to finish before it
  reads its queue again (`RetiredEnd`): the only one that `notify()` can reach is the one of the team that is there (`PostAwake`). The threads of the other
  queues do wait after a stop, so that for them this holds in the first team only (`FirstAwake`).

The invariants were first checked with TLC on the instances of section 3.

## 6. Only model-checked

Liveness (`Quiesce`, `StopLetsThreadExit`, `StopEndsThread`, `StopAnswered`, `PostThreadEnds`, `PostDrains`) is beyond
the prover. Every invariant and every action property that a passing run checks is proved, under the
assumptions named in section 5. What the runs of `Recorder` show with one camera thread the theorems say for any number, except `OneHeir` and the order of
`FramesOnceInOrder`, which a second camera thread breaks.

## 7. Not modelled

* Exit (`stopApp`): the process is killed, and nothing repairs or looks at the files at the next start, so there is no
  recovery to state a property of.
* Timer and monitors: one thread that compares clock readings; what it starts happens at any time in the modules above.
* USB registry: the first video device ends its thread with a null reference (`SystemGlobalUsbVideoDevicesHandler.java:167`),
  and nothing else reads the registry.
* `CameraConnect`: reached from the developer's test screen only; it drives the same native functions.
* Emergency messages: one thread, one call at a time. JSON library: sequential. Screens: layout and navigation.
  Shell commands on the rooted phone: pure I/O. Dead code: `BitMapHolderInit`, `CameraConnectbak`, `processimage_jpg`.
* The colours: `yuv422_to_rgb` and the pixel loops of both drivers are arithmetic on data no property looks at.
* The vendored libraries. Of the C code in the repository (69,010 lines) libjpeg, libusb and their headers are about 67,000,
  and the program's own, `mycamera`, `singlecamera` and `mylibusb` with their headers, about 1,600 (`avcamera.c` is empty). The program does not call libjpeg
  when it runs, and libusb only to print a list of devices from the developer's test screen. The models cover the control of the program's own drivers and
  nothing of the libraries; a third of the C code is therefore out of reach without modelling what the program does not execute.
