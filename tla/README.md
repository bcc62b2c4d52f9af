# Verification of the observatory control software

TLA+ models of the concurrent core of `src/control`, the software that runs an
observatory: it takes images, guides and focuses a telescope, processes what it
took, and executes queued tasks on the devices, behind an ICE server
(`snowstar`). All the code is C++ with threads, mutexes and condition variables;
most of its hard behaviour is in how these threads meet, and that is what the
models keep.

| Module | Models | Checked by | Proved in |
|---|---|---|---|
| `TaskLifecycle` | what the task queue promises (abstract) | `Implements` of `queue_race` | `TaskLifecycleProofs` |
| `TaskQueue` | `lib/task`: queue, executors, task table, ICE servant | `MCTaskQueue` | `TaskQueueProofs`, `TaskLifecycleProofs` |
| `ExposureTask` | `lib/task`: the works of the executors and their waits, with the simulated camera | `MCExposureTask` | `ExposureTaskProofs` |
| `ImageStream` | `lib/device/ImageStream*`, `ImageQueue`, what they use of `Ccd`, and `CcdI`/`CcdSink` of the server | `MCImageStream` | `ImageStreamProofs` |
| `FocusProcess` | `lib/focusing/FocusProcessBase` and its element queue | `MCFocusProcess` | `FocusProcessProofs` |
| `Guider` | `lib/guiding`: state machine, calibrations, guiding, acquisitions and their threads | `MCGuider` | `GuiderProofs` |
| `Guideport` | `lib/device/BasicGuideport` with the actions that use it | `MCGuideport` | `GuideportProofs` |
| `NetworkParser` | `lib/processing`: building the graph of steps from its description | `MCProcessorNetwork` | `ProcessorNetworkProofs` |
| `ProcessorNetwork` | `lib/processing`: processing that graph, extends `NetworkParser` | `MCProcessorNetwork` | `ProcessorNetworkProofs` |

Paths below are relative to `src/control`. `PROJECT.json` holds, for every
definition, the lines it models, and the full list of hazards.

## 1. Inventory

**Task queue** (`lib/task/TaskQueue.cpp`, `TaskExecutor.cpp`,
`TaskQueueEntry.cpp`, `ice/server/TaskQueueI.cpp`). State: the queue state
(idle, launching, stopping, stopped), the map of executors, the cleanup queue,
the queue thread, and the task table in the database, which survives the
process. Operations: start, stop, submit, resubmit, cancel (one, all), remove,
wait, shutdown, recovery after a crash, destruction. One thread runs the queue,
one thread runs each executing task, and every ICE call has a thread.
Correct means: no two tasks use a common device; each task is launched once and
its executor reaped once; final states are final; a stopped queue is quiet; a
queue asked to stop does stop; a crash leaves no task executing.

**Image stream and CCD** (`lib/device/ImageStream.cpp`, `ImageStreamThread.cpp`,
`ImageQueue.cpp`, `Ccd.cpp`, `ice/server/CcdI.cpp`, `CcdSink.cpp`). State: the
thread of the stream, the exposure settings, a bounded queue, the state of the
camera (idle, exposing, exposed), a pointer to a sink. Operations: register a
sink, start, update, stop, read the queue. Correct means: nothing is delivered
after stop; images carry the settings they were taken with; the queue counts
what it drops; stop returns; a stream goes on.

**Focusing process** (`lib/focusing/FocusProcessBase.cpp`,
`FocusElementQueue.cpp`). State: a status, a flag, a queue of focus elements,
two threads. Operations: start, stop, wait. Correct means: only one thread moves
the focuser; FOCUSED means a focuser at a position computed from all images;
every wait ends; a process that has ended can be started again.

**Guider** (`lib/guiding/Guider.cpp`, `GuiderStateMachine.cpp`, `GuiderCal.cpp`,
`GuiderImages.cpp`, `GuiderBacklash.cpp`) and its **processes**
(`TrackingProcess.cpp`, `ControlDeviceBase.cpp`, `GPCalibrationProcess.cpp`).
State: the state machine (idle, calibrating, calibrated, guiding and four
acquisitions), the calibration and the calibration process of each device, the
tracking process. Operations: start, cancel, use and forget a calibration, start
and stop guiding, acquire darks, flats, images and backlash data, and `state()`,
a query that changes the state. Callbacks from the threads change it too. Correct
means: no state outlives the thread that is to end it; a late result of one
activity does not end another; a failed calibration is not a calibration.

**Guide port** (`lib/device/BasicGuideport.cpp`, `lib/guiding/GuidePortAction.cpp`,
`lib/utils/AsynchronousAction.cpp`): a thread that switches four outputs off at
their deadlines, and actions that send pulses to it, one action at a time.
Correct means: a pulse begins and has its length, nothing stays on, opposite
outputs are never on together, and stop returns.

**Image processing network** (`lib/processing/ProcessorParser.cpp`,
`ParserSteps.cpp`, `ProcessorNetwork.cpp`, `ProcessingStep.cpp` and the classes
of steps): a graph of steps read from an XML description; the status of a step
follows from its precursors, or from its file; the network works until nothing
is left to do. Correct means: the graph is what the description says; a step runs
after its precursors; what is complete is made from what is complete; the loop
ends, and only when everything that can be built is built.

**Task works** (`lib/task/CancellableWork.cpp`, `ExposureWork.cpp`,
`SleepWork.cpp`, `DitherWork.cpp`) on the **simulated camera**
(`drivers/simulator/SimCcd.cpp`). State: the flag that cancels a work, what the
work waits for and until when, the state of the camera and the thread that builds
its image. Operations: run, cancel, the two timed waits, start and cancel an
exposure, get the image. Correct means: a cancellation and the end of an exposure
are noticed soon, an exposure saves its own image, the camera is free when its
task has ended, and every work ends.

**Thread helpers** (`lib/utils/ThreadBase.cpp`, `Barrier.cpp`): start, stop and
join of threads under the components above, which take them as single steps.

The rest is listed, with the reason why it is left out, in section 10.

How they meet: the server's servants call the library objects; a task executor
drives camera, cooler, filter wheel and focuser; guider and focusing process
drive imagers; the tracking process of the guider sends its corrections to the
guide port through actions; every component sends callbacks to clients. Locks
are per object, so that the interactions are calls from one object's thread into
another, some under the lock of the caller. The models follow that: a component
is modelled with the threads it owns and with its callers as clients that may
call at any time, and what it calls is reduced to what may come back.

## 2. Task queue

### Correspondence

| Code | Model |
|---|---|
| task table (rows, state, file name) | `rstate`, `rjob`, `rfile` |
| `TaskQueue::_state`, `_thread`, `_idqueue`, `executors` | `qstate`, `joinable`, `idqueue`, `inmap` |
| an executor: its thread, its copy of the entry, the cancel flag of its work | `xpc`, `xstate`/`xjob`, `xcancel` |
| `TaskQueue::main`, its list of pending ids | `mpc`, `todo`, actions `Main...` |
| `TaskExecutor::main` with the `post` calls | `PostExecuting`, `RunEnds`, `PostEnded`, `PostFaults` |
| a call of a client | the actions named after the method, `cpc`, `cid` |
| the process | `proc`, `Crash`, `Restart`; `Die` resets everything but the table |

One action is one tenure of `queue_mutex`. It is cut where other threads see or
change state without the mutex: `cancel(id)` reads the row, decides, and only
then writes or looks for the executor; `remove(id)` looks for the executor first;
executors write the state of their entry without it. The queue thread holds the
mutex from `MainAcquire` to `MainWait`, and `LockFree` keeps out the others.
Condition variables are the values `waiting` and `woken`, with spurious wakeups.
`Job` keeps of a task its kind and its devices; `Outcome` says how each kind of
work can end, since sleep and dither work catch the cancellation themselves.
Undefined behaviour (a call on an erased executor) has both outcomes, no effect
and the end of the process.

Left out: `wait(id)` and the read-only calls, callbacks to clients, and the texts
of causes. The barrier between launcher and executor is taken to work.

### Runs

| Run | Asks | Bounds |
|---|---|---|
| `queue_race` | all safety properties but `QuietWhenStopped` and `EndedIsFinal`, and refinement of `TaskLifecycle`, clients starting, stopping, submitting and cancelling against each other, with crashes | 2 clients, 2 ids, a task with all devices and one with a camera of its own |
| `queue_faults` | every method, database errors and crashes: is a stopped queue quiet all the same? | 1 client, 2 ids, an exposure and a focus task of one camera |
| `queue_live` | liveness | 2 clients, 2 ids, four jobs that share camera, cooler or filter wheel |
| `lost_cancel` | is a final state final? (violated) | 1 client, 1 job |

Two ids are enough for two tasks in conflict or not, for a launch pass that looks
at one id while the other's executor ends, and, with removal, for an id used
again. Two clients are enough for a call overtaken by another; a third client
would repeat one of the two. The properties:

- `ResourceExclusion`: no two executors that may use devices share one.
- `QuietWhenStopped`: idle or stopped means that no executor exists.
- `ExecutingHasExecutor`: a row says executing only while its executor works.
- `CleanupOnce`: the cleanup queue is exactly the executors that have ended.
- `NoDoubleLaunch`: the queue thread never launches an id that has an executor.
- `ThreadMatchesState`: a queue that is not idle has its thread.
- `ReapedIsFinal`: what was reaped changes only by removal or by a late cancel.
- `StoppingEnds`, `ExecutorsReaped`, `WaitReturns`, `ShutdownReturns`: what must
  happen does happen.
- `PendingLaunched`: a task does not stay pending in a launching queue, unless the
  launch pass goes on launching others past it. `launch()` skips a blocked task and
  does not reserve its devices, so two later tasks that share one device each with
  it, and overlap, can starve it. With two ids and no removal nothing can overtake
  for ever, so the run never needs the exception; an instance with a third id and
  `remove()` has the starvation, and is beyond the bounds of the run.
- `Implements`: every step is a step of `TaskLifecycle` or leaves it alone.
  `TaskLifecycle` has no mutex, condition variable, launch pass or cleanup: a task
  claims its devices, works, releases them and gets its result into the table. A
  cancellation by id is two steps there, since the row may have moved on between
  them (`Ask`, `Cancel`), and work that begins or ends writes over it; a
  cancellation of all reaches only tasks that have claimed and not begun. When
  tasks are removed or the table fails, the row may be out of step with the work
  (`Shows`), and nothing else becomes possible.

`queue_race` has no database errors and no `remove()`; with these
`CleanupOnce`, `NoDoubleLaunch` and `ExecutingHasExecutor` do fail, for the
reasons given with the hazards (a final post that throws, a row removed between
launch and post). `queue_faults` shows which promise holds all the same; it also
is the run in which the model is never stuck (deadlock is checked: what remains
possible is a crash and a restart).

### Fairness

`WF(Main)`: the queue thread runs when it can; nothing disables its steps but its
own, as it holds the mutex during them. `SF(Executor(i))`: work ends, since every
wait in a work has a timeout, and an executor that needs the mutex gets it,
although it is taken again and again. `SF(Continue(c))`: the same for a client
within a call. Clients need not call, crashes need not happen, and a restart
need not follow a crash.

### Proofs

`TaskQueueProofs`, for every set of ids, jobs and clients, every set of
methods, with or without crashes and database errors:

- `TypeCorrect`: `Spec => []TypeOK`.
- `ResourcesExclusive`: `Spec => []ResourceExclusion`.
- `StoppedIsQuiet`: `Spec => []QuietWhenStopped`.

The last two rest on one inductive invariant, `SafeInv`:

- `Exclusive`: executors that have not failed or been cancelled have jobs without
  conflict. `ResourceExclusion` is about the executors that use devices now; it
  is not inductive, because `launch()` compares a job with more than these.
- `LaunchPass`: ids are left to be looked at only during a launch pass of a
  launching queue. Without it a launch into a stopped queue is not excluded.
- `QuietWhenStopped` and `TypeOK`.

`TaskLifecycleProofs` follows an executor from its launch to its cleanup, on top
of `SafeInv`:

| Theorem | Property | Assumption on the constants |
|---|---|---|
| `ReapedStays` | `ReapedIsFinal` | none |
| `ThreadIsThere` | `ThreadMatchesState` | no database errors |
| `CleanupJoins` | `JoinsAtOnce`: cleanup never waits for a thread that needs the mutex | none |
| `CleanedUpOnce` | `CleanupOnce` | no database errors |
| `LaunchedOnce` | `NoDoubleLaunch` | no database errors, nobody calls `remove()` |
| `ExecutingIsExecuted` | `ExecutingHasExecutor` | the same |
| `QueueImplements` | `Implements` | none |
| `LifecycleKeeps` | (of `TaskLifecycle`) `Exclusive`, `Truthful` | none |

- `TableInv`: an executor has a thread if and only if it is in the map
  (`Attached`), the ids left to a launch pass are still pending (`PassPending`),
  and a process that has ended has no threads (`Down`).
- `CleanInv` is `CleanupOnce` with its parts apart: what is queued has exited and
  is there once (`Queued`) in every case, what has exited is queued (`Handed`)
  unless a final post throws. It adds that an executor which has ended has a
  final state (`EndedFinal`): `post()` looks at that state to hand it on.
- `RowInv` ties the row to the executor: by `Launched` the row of an executor is
  there, names its job, and is pending at most until the executor has posted; so
  a launch pass that comes upon a launched id finds it blocked by its own
  executor. A removed row breaks it, hence the assumption.
- `LifeInv` is the invariant of the refinement: `SafeInv`, `TableInv`, `CleanInv`,
  `Calls` (only calls of the clients are under way, and none after a crash) and
  `OrderInv`. It holds for all constants, since the part that needs an orderly
  table, `OrderInv`, is an implication: if nothing is removed and the database
  works, `RowInv` holds and the row of an executor shows its phase or a late
  cancellation (`Phases`). In the other case `TaskLifecycle` does not tie the row
  to the work either.

`QueueImplements` maps the program counter of an executor to a stage of the work
(`Stage`), the executors between launch and end of work to the holders of devices
(`Using`), and the clients inside `cancel(id)` that saw a pending row to `asked`.
There is one lemma for each kind of actor (`MapMain`, `MapExecutor`, `MapCall`,
`MapContinue`, `MapProcess`); it names the abstract action of each step, or shows
that nothing the life cycle knows of changes. Two steps of the code are many
abstract changes at once: `cancel()` of all is one `CancelSome`, and where it ends
the process at a focus task, one `Crash`.
`LifecycleKeeps` then is about `TaskLifecycle` alone, instantiated as the refinement
does: what the abstraction promises follows from it, not from the queue.

One lemma per kind of actor (queue thread, executor, call, rest of a call,
process) shows that its steps keep the invariant; frame lemmas say which steps
cannot touch a part. The assumptions are the four named ones in `TaskQueue`, and
TLC evaluates them in every run.

### Task works

`ExposureTask` models what runs inside an executor, which `TaskQueue` takes as work
that ends somehow.

| Code | Model |
|---|---|
| `_cancelled`, `cancel()` | `cancelled`, `Cancel` |
| `wait(t, condition)`, `wait(t)`: `final`, `next` | `at`; `until`, `ahead`, both relative to now; `Look`, `Doze`, `Wake`, `Woken`, `WakeEarly` |
| `ExposureWork::run`, between two waits | `stage`: `Begin`, `Met`, `GivesUp`, `StartExposure`, `Gateway`, `Fetch` |
| its handling of `CancelException` | `Thrown`, `Safe` |
| `SleepWork::run`, `DitherWork::run` | the stages `pause` and `dither` |
| the end of `TaskExecutor::main` | `Ends`, `outcome` |
| `SimCcd`: state, `_thread`, `_image` | `ccd`; `builder`, `left`, `shot`; `picture` |
| a second client of the camera | `OtherClient` |
| filter wheel, cooler, the clock | `settled`, `Settle`; `Tick` |

`cancel()` notifies without the lock, so that a notification between `Look` and the
sleep (`Doze`) is lost. Nothing notifies a work of its condition: it looks once a
second, and `next` counts on from where it was when the thread wakes up for no
reason. The loop ends without a last look. No time passes while the thread has
something to do. Tasks follow each other, as `ResourceExclusion` of the queue says;
another client may fetch the image or cancel the exposure, but starts none.
`unseen`, `early` and `abandoned` are history variables.

`exposure_task` (three tasks of all kinds, with and without wheel and cooler; ticks
of half a second; waits of half a second, which end without a second look, and of
three seconds, which have several; exposures that are over before the wait for
them begins and others that are not; one early wakeup per wait; 355 647 states)
shows:

- `LooksOften`: no wait but that of a sleep overlooks a cancellation, or what it
  waits for, for more than two seconds, and one more for each early wakeup. The
  code says one second (`CancellableWork.cpp:97`); the first look after the start
  of a wait is two seconds away.
- `CameraLeft`: a complete exposure has saved the image of its own exposure and
  left the camera idle, with its thread joined; otherwise the camera is only left
  exposing by a work that gave up its wait.
- `WorkEnds`: every work ends, unless the server is ended under it. Three tasks
  are enough for a cancelled one, one that meets what it left behind, and one
  after that.

Fairness: the thread of the work is scheduled, and the clock goes on; nothing is
asked of the camera, the devices, or the clients.

`ExposureTaskProofs` proves `TypeCorrect`, `WaitsLookOften` and `CameraIsLeft` for
all kinds of tasks, devices, times and bounds. `Often` bounds the time to the next
look together with what has been overlooked, for each place of the thread in the
wait: an early wakeup adds a second because `next` counts on. `Camera` says that
an exposing camera has a work that waits for it or was left behind, that an image
that can be fetched is that of the last exposure, and that this is the task's own
from its start to its fetch.

## 3. Image stream

| Code | Model |
|---|---|
| `ImageStream::_mutex`, `private_data`, `_streamexposure`, `_imagesink` | `owner`, `stream`, `sexp`, `sink` |
| `ImageStreamThread::run` | `tpc` and the actions `Thread...` |
| `Ccd` state and exposure | `ccd`, `cexp` |
| `SimCcd::_thread`, `ThreadCcd::_thread` and `_running` | `builder`, `crunning`: `ThreadLaunch`, `ExposureEnds`, `Cancel` |
| `ImageQueue` | `queue`, `processed`, `dropped`, `sequence` |
| `CcdI` calls, and a program that uses the library directly | `Register`, `Start`, `StartLocal`, `Update`, `Stop`, with continuations |
| `CcdSink` | `sink` is live, stalled after a failure to send, or wild |

`_imagesink` has no initial value in the code, so `Init` allows a wild one. The
stream is the only user of its camera, which is one of two kinds (`camera`). They
agree on everything but a cancellation. In the simulator it sets the camera idle and
leaves the image thread at work, which sets it exposed when the image is there
(`SimCcd.cpp:208`); the next exposure then fails, or replaces a thread nobody has
joined, and the server ends (`ThreadLaunchUnjoined`). In a camera built on
`ThreadCcd` it tells the thread to stop, which leaves the camera idle, and the next
exposure joins the thread before. A camera that cannot cancel is not modelled.

`image_stream` (both kinds of camera, 2 settings, a queue of 1, 2 images, failing
exposures and sinks; one client with all methods, a second one that starts and
stops; 530 234 states) shows:

- `QuietAfterStop`: without a stream there is no thread that could deliver, also if
  the stop met the thread about to start an exposure. What is still at work then is
  the image thread of the simulator, on an idle camera; and a camera that is left
  exposing is one whose exposure failed.
- `LabelsTrue`: every image carries the settings it was taken with.
- `QueueAccounts`: length, numbers and counters of the queue agree.
- `StreamFlows`: a stream that nobody stops comes back to the top of its loop, and
  only a failed exposure ends it. Not in the simulator while the image thread of a
  cancelled exposure is there: then the stream ends silently, or the server does.
- `StopReturns`: a stop returns, unless it meets a thread that wants the mutex
  the stop holds; in that case the code deadlocks (section 9).

A queue of one is full after one image and drops the second one, or takes it after
a read; two settings tell a wrong label from a right one. `MaxProcessed` stops the
thread at the bound, and `StreamFlows` excuses that. The second client is there to
be the one that stops what the first one has started again. Fairness: `SF(Thread)`,
as the thread competes for a mutex that clients take again and again;
`WF(ExposureEnds)`, the thread of an exposure ends, well or not; `SF(Continue(c))`.
`wait()` gives up ten minutes after an exposure that failed (`WaitOver`).

`ImageStreamProofs` proves, for any clients, settings, length of the queue and
faults, `TypeCorrect`, `StoppedIsQuiet` (`QuietAfterStop`), `StopsExcludeDelivery`,
`LabelsAreTrue` and `QueueIsAccounted`. `QuietAfterStop` follows from `QuietInv`,
which says for every phase of the thread what the camera and the thread of its
exposure may be at. `StopsExcludeDelivery` (only proved) says
that from the cancellation on, and not only after its return, no image goes to a
sink and no second stop is under way; its invariant `MutexInv` says who holds the
mutex in which phase. The label is read from the camera after the image; that it is
right needs the strengthening `LabelInv`: while the thread is about to read the
label the camera still has the settings of the image, because only the thread
itself starts exposures. The queue needs arithmetic on its counters only.

## 4. Focusing process

| Code | Model |
|---|---|
| `_status`, `_running`, `_focus_elements` | `status`, `running`, `queue` and `terminated` |
| `measure()`, `measure0()` | `mpc`, `step`, actions `Measure...` |
| `evaluate()`, `evaluate0()` | `epc`, `items`, `target`, actions `Eval...` |
| `start()`, `stop()`, `wait()` | `Start`, `Restart`, `Launch`, `LaunchMeasure`, `Stop`, `WaitStatus`, the joins |
| the focuser | `focuser`; moving takes from one step to the next |

`crashed` is a history variable: the measure thread ended by an exception. The
status is a `thread::Waiter`, a value with its own mutex and condition variable,
so reads and writes of it are single steps.

`focus_process` (4 positions, up to 3 runs, failing devices and failing
evaluation; one client that starts, stops and waits in any order) shows:

- `FocuserExclusive`: the two threads never move the focuser at the same time.
- `FocusedIsComplete`: FOCUSED means at a position computed from all images.
- `StatusWaitEnds`: waiting for the status of a started process ends.
- `JoinsEnd`: so do the joins, unless the measure thread has crashed.

Four positions give a first, a last and two in between; three runs put a restart
after a run that itself was a restart. There is one client because the class
supports only one at a time: nothing protects its `std::thread` members. With
two, the model reaches FOCUSED without any image, when a stop overlaps a start.
A second client that only waits is enough: between the two launches of a restart
it still sees the previous run's end, passes over the measure thread and joins the
evaluation thread alone. So the theorems need their assumption of one client.
Fairness: weak for both threads and for the client, because the devices answer
and nothing here is repeatedly disabled.

`FocusProcessProofs` proves `TypeCorrect` for any number of clients, and
`FocuserIsExclusive` and `FocusedIsFromAll` for any number of positions and runs
if one client uses the process. Their invariant, `FocusInv`, is made of: `Joined`
(the measure thread is joined first and launched last), `Fresh` (between the two
launches the queue is open and empty), `Gate` (a terminated queue separates the
threads), `InOrder` (elements taken, at hand and in the queue are the positions
of the steps so far, in order), `Complete` (only a run that was never cancelled
gets to the solver) and `Settled` (FOCUSED is the last thing a run says).

## 5. Guider

| Code | Model |
|---|---|
| `GuiderStateMachine::_state`, `_prestate` | `state`, `prestate`; the tests `can...` |
| a `ControlDevice`: its calibration, `_calibrating`, its process | `calibration`, `calibrating`, `process`, `halt` |
| `Guider::trackingprocess` and its thread | `tracker`, `stopped` |
| the works that acquire darks, flats, images, backlash data | `working`, `ending`: `StartJob`, `JobStart`, `JobEnd`, `JobSet`, `JobDies` |
| `startCalibration`, `cancelCalibration`, `useCalibration`, `unCalibrate` | `StartCalibration` with `StopOldProcess`, `OldProcessOutlives`, `CalProcess`, `CalFlag`; `CancelCalibration`, `UseCalibration`, `UnCalibrate` |
| `startGuiding`, `stopGuiding` | `StartGuiding` with `StopOldTracker`, `GuideProcess`, `GuideStart`; `StopGuiding` |
| end of a calibration thread, `saveCalibration`, `forgetCalibration` | `CalComplete`, `CalSave`, `CalGiveUp`, then `CalSet`; `CalDie` without a callback |
| `state()` | `PollDevices`, `PollFailCalibration`, `PollFailSet`; `PollTracker`, `PollStopGuiding`, `PollStopSet` |

One client operates the guider, a second one polls `state()`, and every thread
may end, fail or be stopped at any moment. Nothing in the code serialises these,
so a call is as many actions as it has accesses that another thread can come
between. The state machine tests and assigns without a lock: in the threads and in
the poll the two are steps of their own (`process` is accepting or rejecting,
`ending`, `poll`). In the calls of the client they are one step, and
`saveCalibration()`, which tests twice, does so at once.

A null pointer and the use of freed memory are `Crash`: the server dies and its
successor starts with a new guider. That is also what may become of a calibration
process that is replaced while it runs (`OldProcessOutlives`): the one of the guide
port is waited for for a minute, the one of the adaptive optics only after what its
thread works with is gone. A process told to stop after its last point completes all
the same. A calibration of the adaptive optics can die by an exception outside of
its `try`, or in its handler (`CalDie`): nobody is told, and the device counts as
calibrating. `stranded`, `broken` and `overtaken` are history variables: the first
two name the cases in which the code itself gives up, the third who had passed a
test when guiding began.

`guider` (both devices, a dark, which can die without a callback, and a backlash
run, which cannot but may fail to start; 1 338 360 states) shows:

- `AcquisitionHasThread`: the state of an acquisition has its thread, or a call
  about to start it, unless that thread died without a callback.
- `CalibratingHasThread`: calibrating has a thread that will end it, except after a
  start that failed, and for a process of the adaptive optics that completed, which
  does not make the call that ends the state, or that died. From the first two a
  poll leads on; after the third the poll sees a calibrating device for ever, and
  only `useCalibration()` does.
- `LateResultsSpareGuiding`: only `stopGuiding()` and a poll that found no running
  thread end guiding, or one that had passed its test of the state before guiding
  began and sets it now (`OvertakenSets`).
- `GuidingEnds`: a guider whose tracking thread is gone leaves the state guiding.

Each device can hold at most one process, so that two devices give every
combination of an old and a new calibration; the two kinds of acquisition differ in
what failures they have, and the other two behave like one of them. `Threads` = 1
bounds what a client starts: when it starts something, at most one thread of what
it started before still runs, so that at most two run at a time; every property is
about one thread that comes late to what another one began. Fairness: only that the user
interface polls. The poll sees a tracking thread that has ended; nothing else that
is promised waits for anybody.

`GuiderProofs` proves for any devices, acquisitions and failures `TypeCorrect`,
`AcquisitionsHaveThreads`, `CalibrationsHaveThreads` and `GuidingIsSpared`. What
the second says is inductive with the types. The third is not: a process that is
running might belong to a device without any calibration, and its completion
would leave nothing behind. `CalibrationGoes` excludes that, and is inductive. The
fourth rests on `LateInv`: who is about to set the state while the guider is
guiding, had passed its test before, because no test passes then.

`guider_failed` finds `FailedStaysUncalibrated` violated (section 9).

## 6. Guide port

| Code | Model |
|---|---|
| `nextchange[]`, relative to the clock | `remaining` |
| `BasicGuideport::run` with its `now` and `next` | `thread`, `reading`, `seen`, `age`, `next`: `Start`, `Round`, `ReadPin`, `SetPins`, `WakeUp` |
| `_active`, and the pins of the device | `seen`, `outputs` |
| `activate()`, its `now` | `worker`, `writing`, `late`: `Execute`, `WritePin`, `Written` |
| `GuidePortAction::execute`, with and without stepping | `Action`, `pulses`, `NextPulse` |
| `stop()` | `stopper`: `Stop`, `StopNotify` |
| the clock | `Tick` |

`activate()` writes the four times one by one and without the mutex, while the
thread may be reading them one by one: these are the single actions `WritePin`
and `ReadPin`. Both sides look at the clock once and go on with what they have seen,
while time passes: the round of the thread compares the times with a clock that is
`age` old, and `activate()` gives a pin it wants off the time `late` ago. A time it
writes can so be past and still be after the clock of the round. In that case all
four pins are found to be on, those of both directions of an axis too; but then the
time they limit the wait to is past as well, and the thread looks again at once. The
device may refuse to switch (`DoActivate`: `do_activate()` throws, and the exception
is forgotten), which leaves its pins as they were for the length of a wait. `stop()`
notifies once, and nobody need be waiting. `asked` is a history variable, the latest
end anybody asked for a pin. `Slack` bounds the time a round takes and how far back
past times are told apart.

`guideport` (ticks of a second, two seconds for an action, so that stepping makes two
pulses; corrections up to 3 ticks, which are clipped; a longest wait of 2 ticks and
rounds of up to one; 1 051 270 states) shows:

- `PinsReleased`: a port with time left to wait, whose device did as told, holds no
  pin beyond what was asked for.
- `NeverHeldOpposite`: nor the two outputs of an axis. That they are never driven
  together at all is false (section 9).
- `StopReturns`: the thread ends once `stop()` has cleared its flag, also when the
  notification is lost, since no wait is without limit.

A pulse of two ticks can be cut by one of them at every place of a round, of the
writing and of a wait, and a round of one tick is old in the one way that matters: a
time written during it is past and yet after its clock. Fairness: the thread and the
action are scheduled, `stop()` goes on, the clock does, and a wait that nobody ends
ends when its time is up, and not before (`WakeInTime`).

`GuideportProofs` proves `TypeCorrect`, `PinsAreReleased`, `NeverBothWays` and
`FreeMeansOff` (an action that is free for the next correction has left all pins
due to be off) for all lengths of pulses, corrections, seconds, waits and rounds.
`PortInv` consists of `Due` (every time that is not past belongs to the pulse under
way and ends with its sleep), `OneWay` (what the thread has seen and has time to wait
for belongs to that pulse, which drives an axis one way) and `Asked` (what is
written, still to be written, and read so far stays within what was asked). `Due` is
what makes a new correction safe: its writer finds all times past.

`guideport_lost` finds `Delivered` violated (section 9).

## 7. Image processing network

| Code | Model |
|---|---|
| registry and id of steps, `_precursors`, `_successors` | `known`, `born`, `kind`, `precursors`, `successors` |
| `_stepstack`, the nesting of the XML elements | `stepstack`, `document` |
| `startElement`, `startCommon` and the `Parse*` classes | `StartStep`, `StartOrphan`, `StartRefused`, `StartImage`, `StartImageCrash` |
| `endElement`, `endCommon` | `EndElement`, `EndProcess` |
| `status()` of the classes of steps | recursive functions over the acyclic graph, `PlainStatus` and its relatives |
| `_status`, `_previousstate`, `_image` | `status`, `memo`, `image` |
| `ProcessorNetwork::process`, the search, the thread of a step | `Process`: search, start of the work, its end or failure |
| files and their times | `ctime`, `clock`, `Touch` |

libxml2 calls `startElement()` and `endElement()` for a well nested document, and
both swallow every exception; so an element that is refused, before or after it
is pushed, still gets its end. Four classes stand for all: *file* and *write*,
whose status depends on files, *calib*, which keeps its image after a failure,
and *plain* for those that inherit `status()`. A graph with a cycle sends the
recursion of the code into a stack overflow: the program dies there (`Die`). The
steps below a step (`Below`) are the members of every set that holds its
precursors and is closed under precursors; the status of a step, its time and what
a search finds from it (`Status`, `When`, `Found`) are recursive functions over the
steps a search comes to. Files outlive the program, which may be killed at any time, and
sources may be replaced before the next run. `sound`, `whole` and `torn` are
history variables: what was made in order from complete precursors, and what
depends on work that broke off half way.

`network` (every document of up to three steps of the four classes with one
refused element or reference, two runs, one replaced source; 718 495 states)
shows:

- `LinksMutual`, `LinksRegistered`: precursors and successors agree and point to
  registered steps, also after an element that failed half way.
- `StackIsPath`: unless an element was refused before it reached the stack, the
  stack is the path of open elements, so that steps get the parent they have in
  the document.
- `CompleteIsSound`: a step that reports complete has an image made in order from
  complete precursors, or work below it broke off half way.
- `DoneMeansBuilt`: `process()` returns only when every final step that can be
  built is complete.
- `OutputsFresh`: then a written file is younger than every source below it, if
  no other written file lies in between.
- `ProcessEnds`: `process()` returns unless work fails again and again.

Three steps give a chain with a middle, two precursors of one step and two
successors of one step; a shared precursor below two steps is within the bound
through references. Two runs and one replaced source give a stale output. Only
`Process` is fair: the program goes on until it ends.

`ProcessorNetworkProofs` proves all safety properties, for every description and
any number of steps, runs and replaced sources. `TypeCorrect`, `LinksAreMutual`,
`LinksAreRegistered` and `StackFollows` rest on `NetworkInv`, which adds to the
types that steps not yet born have no links and that the stack holds only steps
that were born.

The other three are about the recursive functions. A definition of such a function
says nothing until one knows that there is one with these values, and this holds
only without a cycle: then a step has more steps below it than any of its
precursors (`SearchedRanked`), so that the steps are ranked, and `FixedPoint`
constructs the function rank by rank, for any function whose value at a step
depends on the precursors only (`StatusDefined`, `WhenDefined`, `FoundDefined`).
`StatusUnique` says that nothing else gives every step the status its class
computes. Induction along the links is done with a lowest counterexample (`Bottom`):
of the steps that lack a property, one has only precursors that have it. The
library's minimum of a set under a well founded relation gives it.

`CompleteSound`, `DoneBuilt` and `OutputsAreFresh` then rest on `RunInv`, which is
inductive and says why what the program and its files remember is justified:

- `Blank`: before the program has looked at its files, it knows nothing.
- `Made`: what a class takes for complete (an image, a status, a file, a
  remembered success) was made in order, or its making was torn. This gives
  `CompleteIsSound` step by step.
- `Pending`: the step a thread works on has complete precursors and is not
  remembered, so what it makes is made in order. That these precursors are still
  complete when the work ends is not trivial: the search may have made any file
  below remember its status, and `CompleteKept` shows that no complete step loses
  its status by that.
- `Remembered`: a file remembers a failure only if it could not be built. This
  gives `DoneMeansBuilt`: a step that can be built does not fail
  (`BuildableNotFailed`), and one from which a search finds nothing is complete
  (`NothingFound`).
- `Fresh`: a file that remembers its success is younger than its sources, as
  `when()` of a step is not before any source below it (`WhenBounds`); a file that
  does not remember it was found to be up to date. This gives `OutputsFresh`.

A step that gets work done also changes what the steps above it report; the proof
never compares the status of a step before and after work, as the five parts speak of what
is remembered only. `ProcessEnds` rests on fairness and stays with TLC.

## 8. What is proved and what is only checked

Every safety property of the passing runs is a theorem for all values of the
constants, under the assumptions given above. The two action properties
`ReapedIsFinal` and `LateResultsSpareGuiding`, and the refinement of
`TaskLifecycle`, are theorems as well.

Out of the prover's reach, and checked by TLC only: every liveness property
(`StoppingEnds`, `ExecutorsReaped`, `PendingLaunched`, `WaitReturns`,
`ShutdownReturns`, `StreamFlows`, both `StopReturns`, `StatusWaitEnds`, `JoinsEnd`,
`GuidingEnds`, `ProcessEnds`, `WorkEnds`), as it rests on fairness. What recursive
functions compute is within reach where there is something to descend on: see the
network. The restricted theorems are restricted because the
code is: without the restriction the property is false, and the hazards say why.
`QueueImplements` has no restriction; what `lost_cancel` finds is part of
`TaskLifecycle`.

## 9. What the code does otherwise than it says

Found by a run, and quoted in `PROJECT.json`:

1. `lost_cancel`: `cancel(id)` of a pending task can be overtaken by the launch;
   the row says cancelled while the task runs and changes again when it ends.
2. `guider_failed`: a calibration that fails leads to the state calibrated,
   because its record in the database exists from the first moment on.
3. `guideport_lost`: a notification that comes while the thread of the port is
   not waiting is lost, and with it the pulse.

Part of the models, without a run of its own, because the property that forbids
it is false, or excepted in the property that comes next to it:

- The destructor of `TaskQueue` holds the recursive mutex twice while it waits,
  so that the thread it waits for never gets it.
- A row can be removed under its executor; a last `post()` that throws leaves the
  executor, and its devices, in use for ever; a late cancel writes the whole row
  back and drops the file name the executor has stored.
- `ImageStream::cleanup` joins the stream thread under the mutex that this thread
  may be waiting for.
- A sink that fails to send stops the stream from the stream thread, which then
  joins itself (`CcdSink.cpp:57`): the server ends.
- A focus measurement that fails leaves the queue open; the evaluate thread waits
  for ever and so does `wait()`. After a cancellation or a failed evaluation the
  status can stay MEASURED, which `start()` refuses. `start()` reads the status
  twice; if it changes in between, a running thread is assigned to and the
  process ends.
- `stopGuiding()` calls through the tracking process also when there is none;
  forgetting the calibration of a guider with one device dereferences the other.
- A round of the guide port that compares new times with its old clock
  (`BasicGuideport.cpp:87`) finds pins on that `activate()` wanted off, and drives
  both directions of an axis until it looks at the clock again, which it does at
  once.
- A calibration of the adaptive optics that dies outside of its `try` block
  (`AOCalibrationProcess.cpp:107`, `130`) leaves the guider calibrating for good. A
  test of the guider's state machine that passed before guiding began can end it.
- `launch()` can pass over a blocked task for ever.
- A guide action with stepping sleeps the whole time after each of its steps.
- A calibration step that threw keeps the copy of the raw image, and its status,
  which looks only at the image, says complete (`ImageCalibrationStep.cpp:101`).
- After a cancelled exposure the image thread of the simulated camera goes on. If
  it ends before the next exposure, it sets the camera exposed and the next task
  fails, or the next stream ends silently; if not, the next exposure replaces a thread nobody has joined, and the
  server ends (the stage `aborted`). A wait for an image that is given up leaves
  the camera exposing, and the next task fails.
- A sleep whose cancellation comes just before it falls asleep sleeps to its end;
  an exposure that is complete in the last two seconds of its wait is given up.
- An `<image>` reference outside of any step takes the top of an empty stack.

Seen while reading, and outside of the models: `ThreadBase::run` notifies before
it clears `_isrunning`, so that a waiter can join with the mutex held that the
thread needs; `Barrier` waits without a predicate; the destructor of `FocusProcessBase` calls `wait()`,
which throws after a failure and never returns for a process not started; a
second caller of a guide port would write over the times of the first; a start of
the task queue during a shutdown assigns to a thread that is being joined.

## 10. Not modelled

- **Thread base and barrier**: the queue, the guider and the focusing process take
  them as single steps, which is what these helpers do right; what they do wrong
  (section 9) is not in the models.
- **Hardware drivers**: their timing is that of a vendor's library.
- **Device interfaces** (cooler, filter wheel, focuser, mount): parameter checks
  and polling of external hardware.
- **Focusing service, servant life cycle, discovery**: thin layers over the ICE
  runtime, Avahi and Bonjour, which decide about order and failure.
- **Image repository, persistence, events**: sequential input and output. The
  task table's ids and errors are part of `TaskQueue`.
- **Image operations and catalogs, control laws, star analysis**: floating point
  arithmetic without concurrent state.
- **Clients and tools, the CORBA server**: user interfaces; the latter is not
  built any more.
- Within the modelled components: `wait(id)` and the read-only calls of the queue,
  blocking reads of the image queue, exposures that other clients start on the
  camera of a stream or a task, callbacks to clients, who controls the imager of the guider, groups and
  the Makefile writer of the processing network, and other callers of a guide
  port.

## 11. The mutations

Definitions whose name ends in `Slip` are mistakes a change of the code could
make. For every property of a passing run one of them, put in the place of the
definition that follows it, makes TLC find the property violated:

| Slip | Noticed by |
|---|---|
| `BlockedSlip`: only running executors block | `ResourceExclusion` |
| `StopStateSlip`: stop goes to stopped with executors left | `QuietWhenStopped` |
| `RecoveredSlip`, `2`, `3`: recovery does nothing, writes an unknown state, or fails all rows | `ExecutingHasExecutor`, `TypeOK`, `ReapedIsFinal` |
| `NeedsCleanupSlip`: a failed executor is not queued | `CleanupOnce`, `ExecutorsReaped` |
| `PendingSlip`: the launch pass takes executing rows too | `NoDoubleLaunch` |
| `KeepsRunningSlip`, `2`: the queue thread ends when stopped, or never | `ThreadMatchesState`, `ShutdownReturns` |
| `NotifiedSlip`, `WaitersNotifiedSlip`: a signal is forgotten | `StoppingEnds`, `PendingLaunched`, `WaitReturns` |
| `SignalledSlip`: cancelling all also rewrites the rows of executors that have ended | `Implements` |
| `PeriodSlip`: the wait sleeps to its deadline | `LooksOften` |
| `ThrownSlip`: a cancelled work does not cancel its exposure | `CameraLeft` |
| `SafeSlip`: a cancelled work waits for an idle camera only | `WorkEnds` |
| `JoinableSlip`: stop does not join | `QuietAfterStop` |
| `LabelSlip`: the label is the setting of the stream | `LabelsTrue` |
| `QueueHasRoomSlip`: off by one | `QueueAccounts` |
| `AfterImageSlip`: the camera stays exposed | `StreamFlows` |
| `WaitOverSlip`: the wait looks for exposed only, not for idle, and has no limit | `StopReturns` of the stream |
| `LastStepSlip`: the loop ends too early | `FocusedIsComplete` |
| `NoMoreElementsSlip`: an empty queue is taken for a finished one | `FocuserExclusive` |
| `WaitedForSlip`: MEASURED is not waited for | `StatusWaitEnds` |
| `CancelledSlip`: a cancelled run leaves its queue open | `JoinsEnd` |
| `JobStartSlip`: an acquisition that cannot start keeps its state | `AcquisitionHasThread` |
| `CalGiveUpSlip`: a cancelled calibration keeps its state | `CalibratingHasThread` |
| `canFailCalibrationSlip`: a failure is accepted while guiding | `LateResultsSpareGuiding` |
| `PollTrackerSlip`: a tracking process without a thread is taken for running | `GuidingEnds` |
| `ReadPinSlip`: a time that is past by now does not limit the wait | `PinsReleased` |
| `ExecuteSlip`: a busy action accepts a correction | `NeverHeldOpposite` |
| `WaitOverSlip`: the wait has no limit | `StopReturns` of the guide port |
| `LinkedSlip`: only one of the two links is made | `LinksMutual` |
| `MayAttachSlip`: the enclosing step need not be registered | `LinksRegistered` |
| `EndElementSlip`: the last step stays on the stack | `StackIsPath` |
| `PlainStatusSlip`: one complete precursor is enough | `CompleteIsSound` |
| `TriedSlip`: only the first precursor is searched | `DoneMeansBuilt` |
| `UpToDateSlip`: a file that exists is up to date | `OutputsFresh` |
| `WorkDoneSlip`: a calibration that is done does not store its image | `ProcessEnds` |

## 12. Plan

What would come next, in this order: `Barrier` and `ThreadBase` (the wait for a
thread), a module that composes `TaskQueue` with `ExposureTask` instead of arguing
from `ResourceExclusion`, and exposures that other clients start on the camera of
a task. After these, who controls the imager of the guider.
