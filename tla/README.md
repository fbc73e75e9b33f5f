# twincam in TLA+

twincam shows the picture of a camera as early as possible while a machine
boots: libcamera captures, a frame sink (DRM/KMS, SDL or a file) displays, a
libevent loop ties the two together. A second program, first-frame, measures
the same with plain V4L2. This directory holds a model of both, the TLC
configurations that check it on small instances, and TLAPS proofs of what
matters most. Paths below are relative to `src/` of the repository.

    tlc -config Session.cfg MCCameraSession      # one run; see "Runs"
    tlapm KMSSinkProofs.tla                      # one proof module

## Inventory

| Component | State | Operations | Talks to |
|---|---|---|---|
| Event loop `event_loop.cpp` | `calls_`, `events_`, libevent's active events and `event_break` | `callLater`, `addFdEvent`, `addTimerEvent`, `exec`, `exit`, `dispatchCall`, `Event::dispatch` | every thread (through `callLater`), the sinks (through events), signal handlers (through `exit`) |
| KMS sink `kms_sink.cpp` | `buffers_`, `pending_`, `queued_`, `active_` | `configure`, `mapBuffer`, `start`, `processRequest`, `requestComplete`, `stop` | DRM (commits, flip events), the session (signal `requestProcessed`) |
| DRM device `drm.cpp` | objects, frame buffers, the descriptor | `init`, `getResources`, `createFrameBuffer`, `AtomicRequest::commit`, `drmEvent` | kernel, event loop |
| SDL sink `sdl_sink.cpp` | window, renderer, texture, `init_` | `start`, `stop`, `processRequest`, `processSDLEvents` | SDL, event loop (timer, `exit`) |
| File sink `file_sink.cpp` | mapped images | `processRequest` | file system |
| Frame sink contract `frame_sink.cpp` | - | the documented rule of ownership | the session |
| Camera session `camera_session.cpp` | `camera_`, `config_`, `requests_`, `sink_`, `allocator_` | `init`, `start`, `startCapture`, `requestComplete`, `processRequest`, `sinkRelease`, `stop` | libcamera's thread, event loop, sink |
| Application `twincam.cpp`, `twncm_fnctl.cpp` | the pid file, signal handlers | `processArgs`, `init`, `run`, handlers; `twincam -k`, `-n` | other processes |
| first-frame `first_frame.c` | buffers, the frame counter | `init_device`, `start_capturing`, `mainloop`, `stop_capturing` | V4L2 driver |
| Image, SDL textures, JPEG, printing, packaging | - | pixels, text, scripts | - |

The behaviours that are hard to test, and what makes each component correct:

- *Event loop.* A closure and its wake-up are two separate steps of
  `callLater()`, on any thread, and nothing ties one to the other. Correct:
  no wake-up finds an empty list, no closure is left without one, `exit()` ends
  a running loop.
- *KMS sink.* Three cells, an asynchronous commit whose result is ignored, and
  a flip event that carries a pointer. Correct: the assert on the event cannot
  fire, no commit is early, what is given back is never what the screen shows.
- *Camera session.* Requests move between libcamera's thread, the list of
  deferred calls, the sink and back; start-up may fail at each step; tear-down
  has two orders. Correct: one owner per request, none lost, nothing freed is
  used, frames shown in order, every session ends.
- *Application.* Processes that meet in a file and by signals, during boot.
  Correct: the file is one daemon's pid, a signal reaches that daemon and does
  what its option says (both of which the code misses), a root that moves takes
  the working directory along, the waiting ends.
- *first-frame.* Driver and program pass buffers under a clock. Correct: only
  the driver's buffers are streamed, all are accounted for, as many images as asked for, an end.
- *Camera selection.* Another process holds cameras, and the list of cameras
  changes between two looks at it. Correct: a session holds one camera, the one
  its destructor releases; it fails only when no camera would do.
- *Display pipeline.* Three kinds of masks and lists are combined in nested
  loops; placement is unsigned. Correct: what is chosen works, something is
  chosen when anything works, the picture is on the screen.
- *Buffers of the sinks.* Imports and maps that fail half way, memory shared by
  planes and buffers, short writes. Correct: nothing stays open, no handle is
  another buffer's, what is read is mapped, the file holds the last frame.

`PROJECT.json` lists each such hazard at its line with the properties aimed at
it.

## Modules

| Module | What it is |
|---|---|
| `EventLoop` | `event_loop.cpp` over libevent |
| `EventLoopProofs` | its safety, proved |
| `FrameSink` | abstract: the contract of `frame_sink.cpp` |
| `KMSSink` | `kms_sink.cpp` with the commits and events of `drm.cpp`; implements `FrameSink` |
| `KMSSinkProofs` | its safety and the implementation of `FrameSink`, proved |
| `Viewfinder` | abstract: what a user sees of the whole program |
| `SDLSink` | what `sdl_sink.cpp` makes and gives up |
| `CameraSession` | one session: composes `EventLoop`, `KMSSink` and `SDLSink` with libcamera and `CamApp::run()`; implements `Viewfinder` |
| `CameraSessionProofs` | its safety, and the implementation of `Viewfinder`, proved |
| `CameraSelect` | how sessions of several processes get and give up a camera |
| `CameraSelectProofs` | its safety and that it passes over no camera, proved |
| `DrmPipeline` | which connector, CRTC and plane show the picture, and where |
| `DrmPipelineProofs` | that what is chosen is the documented connector, works and is found, proved |
| `DrmFrameBuffer` | frame buffers and GEM handles of `drm.cpp` |
| `Image` | the mapping of a buffer, `image.cpp` |
| `FileSink` | the writing of frames, `file_sink.cpp` |
| `SinkBuffers` | composes the last three: the sinks' buffers from first import to last release |
| `SinkBuffersProofs` | that no GEM handle stays or is mistaken, planes are mapped and bytes in place, proved |
| `CamApp` | the processes: daemons and tools |
| `CamAppProofs` | that the pid file is whole and no daemon is outside its root, proved |
| `FirstFrame` | first-frame with its driver |
| `FirstFrameProofs` | where its buffers are and how many images it writes, proved |
| `MC...` | values of the constants for TLC |

`TypeOK` of `CameraSession`, `CamApp` and `FirstFrame` is a theorem (`TypeCorrect` of their
proof modules); the runs spend their properties on what could go wrong.

Definitions with a comment "Mutant of X" are plausible bugs of X;
with X replaced by one of them TLC finds the property that watches over X
violated (`PROJECT.json`, "mutants").

### EventLoop

`calls_` and `events_` are the members of the class. `armed` counts the
once-events libevent has yet to run, `arming` holds the threads between the two
halves of `callLater()`, `mainAt` says where the main thread is, `call` is the
local closure of `dispatchCall()`. `PushCallList` and `EventBaseOnce` are the
halves of `callLater()` (lines 49-57); `PopCallList` and `InvokeCall` the steps
of `dispatchCall()` (104-124); `Return` is `event_base_loop()` seeing
`event_break`. `Exec` clears that flag, which is what libevent does when the
loop is entered. Failures: `"once"` and `"event"`, both ignored by the code, the
second in two ways: an event that `event_add()` refuses is forgotten (`AddEvent`), one
that `event_new()` could not make takes the program with it, because `~Event()`
hands its null pointer to `event_del()` (`AddEventCrashes`, lines 129-132).

### KMSSink

A request is named by its buffer; `pending_`, `queued_`, `active_` hold one or
`None`. The kernel keeps at most one outstanding commit (`flip`), the buffer on
the screen (`scanout`) and unread events. `Commit` may fail, because a flip is
outstanding or for its content (`"commit"`), and `processRequest()` and
`requestComplete()` go on as if it had not, as lines 264-282 and 290-300 do.
`Dropped` is the early return of lines 229-240. The assert of line 287 is a
guard of `RequestComplete`, so that it must be shown never to block: that is
`FlipMatchesQueued`. `Stop` has the failing branch of line 215: `stop()` then
returns before it has released anything, against `frame_sink.cpp:56-57`. The
contract `FrameSink` therefore holds where that commit does not fail (fault
`"stopCommit"`), and `CameraSession`, which admits it, shows that the session ends
all the same and that nothing freed is used.

### CameraSession

`pc` walks through `CamApp::run()`: `start()`, the two loops of
`startCapture()`, `exec()`, `stop()`, or the path of a failed `start()`, where
the destructor frees buffers before the sink (the reverse order of the
members; `ok` remembers which). `camQueue` is what libcamera holds. The camera
thread takes `CameraComplete` and `CameraDeferred` between any two steps of the
main thread; `Interrupt` may come at any time. The sink is a KMS sink, the
instance of `KMSSink`, or a synchronous one, SDL or file. Of SDL, `SDLSink` says
what exists (`live`): `configure()` and each of the four steps of `start()` may
fail, `stop()` is called by the session, by the destructor or by both. A buffer
that cannot be mapped ends the program at the assert of `mapBuffer()` (`"abort"`).
libcamera may refuse a request (`"queue"`) or cancel it (`"cancel"`); the code
forgets such a request, and the ghost variable `lost` remembers it, so that
`AllAccounted`, `AllReturn` and `CaptureContinues` can say that nothing else is
ever forgotten. `camera_->stop()` may fail (`"stop"`), which `stop()` prints and the failed
start at line 275 does not even look at: both go on to free requests and buffers.
`StopCamera` then leaves the camera as it is, and the ghost variable `unstopped`
remembers it. `BuffersAlive` excuses the camera, and nothing else, in that case: what
the code leaves undefined is that the camera fills freed buffers, and a completion
of a freed request may go unnoticed (`CameraComplete`) or end the program
(`CameraCrash`). In the end `"crash"` nothing happens any more; that the handler of
SIGSEGV returns to the instruction that faulted (`twincam.cpp:427-433`) is left out.

### CameraSelect

A session is a process. `list` is what its `CameraManager` has; `Size` and `Index`
are the two looks of lines 42-43 (and 48-49), between which libcamera's thread may
`Plug` or `Unplug`. An index that has become too large is undefined behaviour:
the model stops there (`"overrun"`), and `IndexInRange` shows that only an
unplugged camera leads to it. `Acquire` fails for a camera another process holds or
that is gone, and may fail for one that is free (`denied` remembers it, `Denied` bounds
it), as when libcamera cannot lock the devices behind it. It leaves the camera in
`camera_`, as line 64 does; `GiveUp` is the release of lines 73 and 89.

### DrmPipeline

Everything `getResources()` can report, within the instance, is the initial state;
then `findRequestedConnector()`, `configure()` and `selectPipeline()` run, one loop turn a
step. The turns of the three nested loops that are still to come are the set `todo`,
the next one is the first of them in the order of the code's lists (`NotAfter`). `Shows` is the reference: a statement about the hardware that
does not mention the loops. `Offset` is lines 127-128 with unsigned arithmetic: a
picture larger than the mode is placed wholly off the screen, where the commit
fails, which is `PictureCentred`'s second half. A connector without modes
(`modes[0]` of none) is undefined behaviour where the model stops (`"noMode"`).

### SinkBuffers

A KMS sink imports up to three buffers and destroys them, one handle a step; the
kernel part of `DrmFrameBuffer` (`PrimeHandle`) gives one handle to one dmabuf and the lowest
free number to a new one. A file sink checks and maps the planes of a buffer and
writes frames from them; the dmabuf has any of three lengths, sums are four
bits wide, writes may be short. `SpansInside` pins down the two cases that
`image.cpp` lets through: a plane ends outside its map exactly when `offset + length`
wrapped (lines 51 and 61), and a map outside its dmabuf only when `lseek()` failed (line
45). `HandlesMatch` is about a hazard that does not
bite: handles are closed by number, and numbers are used again, but a frame
buffer is never half made while another one is destroyed.

### CamApp

A daemon is at `start`, `opened` (between `open(O_TRUNC)` and `write()`),
`init`, `exec`, `killed` or `ended`. `Poll` is one turn of a waiting
loop of `init()`; a device that never comes is reported and the next loop
begins, as the code does. The pid is a sequence of digits, because a short pid
written over a long one is what `PidFileWhole` is about.

A tool runs at any time, before there is a pid too, and takes three steps: `TwncmOpenRead`,
`PidRead`, `Kill`, each of which ignores the failure of the one before. The buffer of
`pid_read()` is neither initialised nor terminated: what `atoi()` makes of it (`Aimed`) is any
pid that begins with the digits that were read, or some other number (`Stranger`).
That a tool signals a daemon is therefore no property of the code; the run
`app_kill` shows it violated. `Deliver` gives a signal the disposition it has at that
moment: SIGUSR1 has a handler only once `main()` is past `init()`, SIGTERM never.
`ChrootThis` is that handler, with the three calls that may each end it, as far as
they got; how deep the root and the working directory are is what `InsideRoot` compares.
SIGINT, whose handler ends `exec()`, is modelled in `CameraSession`.

### FirstFrame

`at` walks through `main()`; the driver owns `incoming` (queued to be filled)
and `outgoing` (filled). `Wanted` holds the difference between `init_mmap()`,
which follows the driver, and `init_userp()`, which queues four buffers
whatever the driver agreed to: `VIDIOC_QBUF` refuses an index that is not the driver's,
and may refuse any other (`QueueBuffer`), which ends the program before it
streams (`StreamsAgreed`). `SelectError` is an interrupted `select()`, called again with
a new timeout, or a failing one. `count` is unsigned, `Width` bits wide: a count
of -1 becomes the largest. `exit()` leaves everything as it is.

## Runs

| Run | Instance | Shows |
|---|---|---|
| `event_loop` | 2 threads, 2 closures, list of 3 | wake-ups and closures match; closures run; `exit()` ends the loop |
| `kms_sink` | 4 buffers, configure, map and commit fail | assert, timing of commits, the screen's buffer, contract `FrameSink` |
| `session` | 1 to 4 buffers, all three sinks, every call may fail | one owner, none lost but what libcamera refuses or cancels, no use after free but by a camera that failed to stop, no write to the screen's buffer, order of frames, SDL given up; each request returns, capture goes on, each session ends |
| `camera_select` | 2 processes, 3 cameras of any kind, any camera or the second, 2 changes, one process denied free cameras | one holder, released; found if there is one; `init()` returns |
| `drm_pipeline` | 2 CRTCs, 2 of each other object in all combinations, 6 bits | the pipeline works, is found, is the documented one, the picture is centred |
| `sink_buffers` | 3 buffers, 4 descriptors of 3 dmabufs, 1 or 2 planes, 4 bits, 2 frames, every call may fail | handles, which planes are mapped, file |
| `app` | 2 daemons, 2 tools, 2 waits of 2 looks each, every call may fail | pid file, roots, end of waiting |
| `first_frame` | 3 bits, counts -1, 0, 1, 5, drivers of 1, 2, 4 and 5 buffers | streaming with agreed buffers, accounting of buffers and images, end |
| `kms_sink_commit_lost` | a commit fails | *violated*: requests held for ever |
| `session_interrupt` | SIGINT after the message | *violated*: interrupt forgotten |
| `app_kill` | `-k` before there is a pid | *violated*: a stranger is signalled |
| `app_new_root` | `-n` while the daemon waits | *violated*: the daemon dies |

The four violated runs each check one sentence of a comment, a message or the
help text against what the code does; "findings" in `PROJECT.json` quotes them.

### Why the bounds are enough

- Two threads show every interleaving of the two halves of `callLater()` with
  each other and with the loop; the proofs then hold for any number.
- The sink has three cells: four buffers fill all of them and leave one to be
  dropped. `session` takes every number of buffers from one, with which nothing
  can be exchanged on the screen, over two, the fewest a KMS session can go on
  with, to four, which outnumber what the sink withholds.
- Two sessions are a holder and one that finds its camera held; three cameras are
  one for each answer, or two that do for two sessions; two changes let a camera go and
  another come during one walk. That one process is denied free cameras is enough
  to see the other meet what it leaves behind; the proofs put no bound on it.
- Two of each display object give every order of a suitable and an unsuitable one
  in each of the nested loops. Six bits wrap like 32.
- Of three buffers, two can share memory while the third has its own; four
  descriptors of three dmabufs include a buffer whose two descriptors name the
  same memory. Two frames leave an older one under a newer one.
- Two daemons with pids of different length let one pid be written over
  another; two looks are a first and a last; two waits are one before
  `CameraManager::start()` and the one after it (`Waits` stands for the four to
  six loops of the code, `Attempts` for its 400). With two tools a daemon may get a
  second SIGUSR1 after a handler that failed half way.
- A counter of three bits wraps like one of 32. Drivers that agree to fewer than
  two buffers, fewer than four, four and more cover the branches of
  `init_mmap()` and `init_userp()`.

Deadlock is checked in `event_loop` and all runs of `CameraSession`,
`CameraSelect`, `DrmPipeline` and `SinkBuffers` (whose end is the explicit step
`Done`). The other systems stop for good in normal operation:
a destroyed sink, ended processes.

### Fairness

- *Event loop.* A thread inside `callLater()` finishes it: only two short locks
  are in its way. A running loop chooses some event. Nothing makes a thread
  call anything.
- *Sink.* The display refreshes; the loop reads the device until `stop()`.
- *Session.* As above, and the camera completes what is queued to it. Flip
  events need strong fairness: with deferred calls arriving all the time the
  loop leaves its `"poll"` state again and again, but libevent runs every active
  callback of a round before it polls anew, so a readable device is not passed
  over for ever. No fairness on `Interrupt`, `CloseWindow` or failures.
- *Camera selection.* `init()` runs; how long a session keeps its camera is up to
  its user, so that nothing makes it end.
- *Application.* A process that has started runs. No device need appear.
- *first-frame.* The program runs, the driver fills what it was given, time
  passes. `Ends` excludes only a driver that answers EAGAIN, and signals that
  interrupt `select()`, for ever.

## Proofs

`EventLoopProofs`, from `EventLoopAssumption` (a finite set of threads, `None` no
closure). `WakeupsHaveCalls`, armed and promised wake-ups are no more than the
closures on the list, is inductive with the types: a push adds a closure and a
promise, the second half turns the promise into a wake-up or loses it, a pop
takes one of each. From it, `dispatchCall()` always finds a closure
(`NeverEmpty`). When `event_base_once()` cannot fail the inequality is an
equality (`NeverStranded`).

`KMSSinkProofs`, from `None \notin Requests`. None of the four properties is
inductive: they do not say how cells and kernel are related. `IInv` does. The
sink is always in one of four phases of showing its queued request:

- `Idle`: nothing is committed (or the commit failed), the screen shows `active_`;
- `Committed`: the queued request waits for the refresh, the screen shows `active_`;
- `Shown`: the queued request is on the screen, its event unread;
- `Off`: `stop()` succeeded.

`Accept` leads from Idle to Committed or, if the commit fails, stays; `Vblank`
to Shown; `RequestComplete` is only possible in Shown and leads back to Idle or
Committed. `CellsOK` (the cells fill in order and differ) is what makes a give-
back the release of the oldest. With it follow the assert (`AssertHolds`), that
no commit is early (`CommitsInTime`), that the screen's buffer is held
(`ScreenSafe`), and, when the commit of `stop()` succeeds, that `KMSSink`
implements `FrameSink` (`Refinement`): initial states map to initial states and
each operation is a step of the contract or a stutter. That last assumption is
needed: without it `stop()` returns at line 219 with the three cells full.

`CameraSessionProofs`, from `CameraSessionAssumption`, is about the whole program, for any
number of buffers, any sink and every failure. `SingleOwner` is not inductive: a
request may only move on if the step that takes it finds it at one place. The
invariant has two halves. `Sink!IInv` is that of `KMSSinkProofs`; each step of the
session is shown to be a step of the sink or to leave it alone (`SinkStep`), for which
the session must start, commit and stop when the sink expects it (`SinkSteps`). `OInv`
is the session's: the four places of a request, libcamera's queue, the list of
deferred calls, `dispatchCall()` and the cells of the sink, exclude each other and hold
it once (`Apart`); the sink is empty and dark outside `exec()` and the tear-down after it
(`QuietOK`); only created requests are anywhere, those of the loop that queues them
being below its index (`CreatedOK`); and a request is somewhere, or refused (`Kept`).
`OneOwner`, `ScreenSafe`, `NoUseAfterFree`, `NoneLost` and `SDLGivenUp` follow. None of it assumes
that `camera_->stop()` succeeds: a camera that has requests outside the capture is one that
did not stop (`CreatedOK`), and its use of freed buffers the one that `BuffersAlive` allows. So do
`SinkWellUsed` and `LoopWellUsed`: a behaviour of the program is, seen from the sink, one of
`KMSSink`, and, seen from the loop, one of `EventLoop`. What those modules' proofs show
therefore holds here, with the assert of the flip event (`AssertHolds`) and the closure of
`dispatchCall()` (`NeverEmpty`) as examples. `ImplementsViewfinder` goes
through the steps one by one: the frames in flight of the abstract program are those of
the requests in the cells, in `dispatchCall()` and on the list, in this order, its screen
is `scanout`. The camera thread's push is `Capture`, a refresh `Show`, a flip event or a request
that the sink drops `Return`, `stop()` and the sink's destructor `Off`; all else is a stutter.

`CameraSelectProofs`, from `CameraSelectAssumption`. `HoldsCurrent` says what a held
camera implies, not what the steps of `init()` need; the invariant adds
`HeldWhenNeeded`: from `acquire()` on, `camera_` is a camera and the session holds it.
Every step either lets go of what `camera_` names (`LetGo`), or moves between labels
at which nothing is held (`Idle`), or is one of the three that acquire and keep. With
it a ready session holds its camera alone (`ReadySound`) and nothing else is ever
held (`NothingElseHeld`). `NoOverrun` needs one more conjunct, `InRange`: between the
two looks the index is below the length, unless a camera went. `NoneSkipped` is a
statement about the past: a valid camera that `s` passed was another session's, which
may be gone and leave no trace of what it had. `Excused` keeps what can be known:
*there is* an assignment of the valid cameras passed to sessions other than `s`, no two
to the same, each of which has its camera or is gone. It lasts because a session with
a valid camera never gives it up for another (`HasKept`), and grows with each valid camera
`s` is refused (`ExcuseMade`). At the end of the list it is an injection of the valid
cameras into the other sessions.

`DrmPipelineProofs`, from `DrmPipelineAssumption` (masks and lists name what may exist,
the kernel reports no format 0, a width does not use the two highest bits).
`Searching` is what the loop over connectors has seen, `Looking` that no turn of the
three nested loops that is over found a plane that suits. That the lists of
encoders, CRTCs and planes mean what the hardware means (`CandidateShows`,
`ShownIsCandidate`) makes of them `ChosenWorks` and `NoneOverlooked`. `CentredOrOff` is the
arithmetic of lines 127-128 at any width (`Centred`).

`SinkBuffersProofs`, from `SinkBuffersAssumption` (the device has a handle for each
dmabuf; offsets and lengths are unsigned ints, an image has a plane, `image.cpp:25`; lengths
are not negative). `NoHandleLeft` is kept by each step once `planes_` is known to be total
(`Owned`). `HandlesMatch` is the harder one: a frame buffer that is destroyed closes
handles by number, which another may be using. The invariant shows why this is
harmless: the handles of the current frame buffer are those of its memory
(`OwnMemory`), later ones have none (`Fresh`), and no other is destroyed meanwhile.
That an import finds a free handle at all is a pigeonhole argument over `OneHandle`.
`PlanesMapped` follows the two loops of `image.cpp`: after the first, `reach` is at least
the end of each plane seen so far, as the wrapping sum has it, below 2^`Width` and no more than
what `lseek()` said (`Reached`); during the second, what has a span has a map (`Mapped`). An end
that wraps is thus never reached, one that does not always is. `BytesInPlace` needs to know where writing stands
(`Writing`): the byte that is due is the one at the file's position, so that a short write
ends the frame but shifts nothing, and what lies behind is an older frame's (`Placed`).

`FirstFrameProofs`, from `FirstFrameAssumption`. `BuffersAccounted` speaks of the
moments at which the program waits; the invariant adds the others: before streaming
nothing is filled (`Early`), in `read_frame()` all buffers but the one in its hands are
with the driver (`InHands`), and the driver has none twice (`Once`), from which the
count of filled buffers follows by a bijection. `StreamedBuffersAgreed` needs what the
two methods have in common when `VIDIOC_STREAMON` is reached (`Agreed`): each buffer
was accepted by a driver that refuses those it does not have, so that the four
of `init_userp()` are four of the driver's. `AsManyAsAsked` needs `Counted`: images
written, frames still due and the one in work add up to the count asked for, as unsigned;
that 2^`Width` is a positive number at all is proved by counting sets of bits.

`CamAppProofs`, from `CamAppAssumption` (daemons have pids of their own, none of them
empty) and `Ordered`. `pid_write()` at offset 0 mixes two pids only if it finds an old
one; a daemon about to write finds the file empty (`Truncated`), being the only one
there (`OneWriter`). `WorkInsideRoot` and `TypeCorrect` need no `Ordered`: in any order
a daemon that writes finds a file of digits (`Opened`), and `chrootThis()` moves the working
directory first and the root only to where that is.

Every invariant that a run checks is thus a theorem, and so is each of the two
refinements. Only model-checked: all liveness (`CallsRun`, `ExitEndsLoop`, `AllReturn`,
`CaptureContinues`, `SessionEnds`, `InitReturns`, `InitEnds`, `Ends`), which needs fairness
and `ENABLED` and is out of the prover's reach, and the absence of deadlock. The four
violated properties need no proof: their counterexamples are behaviours.

## Not modelled

- What SDL textures and libjpeg do with pixels: calls into libraries that keep no
  state of this program beyond the texture pointer, which `SDLSink` has.
- The accessors of `Image`: `data()` asserts `plane <= size()`, one too many, but both
  callers count to the number of planes.
- libevent's own lock, which a signal handler may find taken
  (`twincam.cpp:421`): whether it may be taken twice is up to libevent. Reuse of pids
  by the kernel; handlers of SIGSEGV and the like that return to the faulting
  instruction.
- Properties and blobs of DRM objects, the strides of a frame buffer, frame
  rates, messages, build, installation and boot scripts. That no daemon opens the
  pid file while another is between `open()` and `write()` is the constant `Ordered` of
  `CamApp`, an assumption about the boot: the units that start `twincam -d` belong to
  different stages of it, but nothing in the code guards against two at a time, and
  without it two pids do get mixed. What tools do is not restricted:
  `twincam-quit.service` comes after `twincam.service`, but a service of `Type=simple`
  counts as started before it has written anything.

## Plan

Written in this order, the most important behaviour first: `EventLoop`,
`KMSSink` with its contract, `CameraSession`, `CamApp`, `FirstFrame`; then
`CameraSelect`, `SDLSink`, `DrmPipeline`, and `SinkBuffers` with its three parts; then their
proofs, from the parts to the whole. What is left: steps
towards liveness that the provers can take, namely what each state of the session offers to
do next, stated as predicates of states that do not mention ENABLED; and sharper
assumptions, such as how much of `FrameSink` remains when `stop()` fails.
