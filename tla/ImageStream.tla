---------------------------- MODULE ImageStream ----------------------------
(***************************************************************************)
(* Streaming from a CCD: src/control/lib/device/ImageStream.cpp, its queue *)
(* and its thread, the exposure protocol of Ccd.cpp they drive, and the    *)
(* ICE servant CcdI with its sink.                                         *)
(*                                                                         *)
(* Actors: the stream thread (ImageStreamThread::run), the thread of the   *)
(* camera that takes the picture, and clients.  They share                 *)
(* ImageStream::_mutex, the state of the CCD, and the pointers to the      *)
(* sink, which no lock protects.  The stream is taken to be the only user  *)
(* of its CCD, which is the simulator (SimCcd.cpp) or one of the cameras   *)
(* built on ThreadCcd.cpp: they differ in what a cancelled exposure does.  *)
(***************************************************************************)
EXTENDS Naturals, Sequences

CONSTANTS
  Client,        \* threads of the server, or of a program using the library
  Setting,       \* exposure settings
  MaxQueue,      \* ImageQueue::_maxqueuelength
  MaxProcessed,  \* bound on the images that go to the queue
  Ops,           \* the methods each client calls, see OpNames
  Cameras,       \* the kinds of camera
  CameraFaults,  \* TRUE: an exposure may fail
  SinkFaults     \* TRUE: sending an image to the remote sink may fail

OpNames == {"register", "start", "startLocal", "update", "stop", "get"}

ASSUME QueueAssumption == MaxQueue \in Nat \ {0} /\ MaxProcessed \in Nat
ASSUME OpsAssumption == Ops \in [Client -> SUBSET OpNames]
ASSUME CameraAssumption == Cameras \subseteq {"simulator", "threaded"}
ASSUME SettingAssumption == Setting # {}
ASSUME OwnerAssumption == "none" \notin Client /\ "stream" \notin Client

VARIABLES
  proc,      \* "up", or how the process ended
  camera,    \* which camera it is; never changes
  \* ImageStream
  owner,     \* who holds ImageStream::_mutex between two steps
  stream,    \* private_data is not NULL
  sexp,      \* _streamexposure
  sink,      \* what _imagesink points to
  \* ImageStreamThread
  running,   \* _running
  tpc,       \* where the thread is
  texp,      \* the settings it asks the next exposure for
  timage,    \* the settings its image was taken with
  tlabel,    \* the settings its image is labelled with
  \* Ccd
  ccd,       \* _state
  cexp,      \* exposure, the settings of the last exposure
  builder,   \* SimCcd::_thread, ThreadCcd::_thread: the thread of the exposure
  crunning,  \* ThreadCcd::_running
  \* ImageQueue
  queue, processed, dropped, sequence,
  \* CcdI and its callers
  handle,    \* CcdI::_sink is not NULL
  cpc,       \* where a client thread is
  cthen      \* where it goes on when stopStream() returns

streamVars == <<owner, stream, sexp>>
threadVars == <<running, tpc, texp, timage, tlabel>>
ccdVars == <<ccd, cexp, builder, crunning>>
queueVars == <<queue, processed, dropped, sequence>>
sinkVars == <<sink, handle>>
clientVars == <<cpc, cthen>>
vars == <<proc, camera, streamVars, threadVars, ccdVars, queueVars, sinkVars, clientVars>>

ThreadPc == {"none", "loop", "settings", "start", "launch", "wait", "image",
             "label", "deliver", "sending", "dangling", "ended"}
ClientPc == {"ready", "startLock", "stopLock", "stopAgain", "stopJoin",
             "install", "stopSink", "drop"}
AnySetting == CHOOSE e \in Setting : TRUE

\* ImageStream::_mutex can be locked now.
MutexFree == owner = "none"

\* streaming()
Streaming == stream /\ running

\* The constructor of ImageStream leaves _imagesink uninitialised.
Init ==
  /\ proc = "up" /\ camera \in Cameras
  /\ owner = "none" /\ stream = FALSE /\ sexp = AnySetting
  /\ sink \in {"none", "wild"} /\ handle = FALSE
  /\ running = FALSE /\ tpc = "none"
  /\ texp = AnySetting /\ timage = AnySetting /\ tlabel = AnySetting
  /\ ccd = "idle" /\ cexp = AnySetting /\ builder = "none" /\ crunning = FALSE
  /\ queue = <<>> /\ processed = 0 /\ dropped = 0 /\ sequence = 0
  /\ cpc = [c \in Client |-> "ready"]
  /\ cthen = [c \in Client |-> "ready"]

\* The process ends, with everything in it.
Die(how) ==
  /\ proc' = how /\ UNCHANGED camera
  /\ owner' = "none" /\ stream' = FALSE /\ sexp' = AnySetting
  /\ sink' = "none" /\ handle' = FALSE
  /\ running' = FALSE /\ tpc' = "none"
  /\ texp' = AnySetting /\ timage' = AnySetting /\ tlabel' = AnySetting
  /\ ccd' = "idle" /\ cexp' = AnySetting /\ builder' = "none" /\ crunning' = FALSE
  /\ queue' = <<>> /\ processed' = 0 /\ dropped' = 0 /\ sequence' = 0
  /\ cpc' = [c \in Client |-> "ready"]
  /\ cthen' = [c \in Client |-> "ready"]

---------------------------------------------------------------------------
\* The stream thread

\* The local variables of the loop are forgotten at its end.
Goto(pc) ==
  /\ tpc' = pc
  /\ UNCHANGED running
  /\ IF pc \in {"loop", "ended"}
     THEN texp' = AnySetting /\ timage' = AnySetting /\ tlabel' = AnySetting
     ELSE UNCHANGED <<texp, timage, tlabel>>

ThreadLoop ==
  /\ tpc = "loop"
  /\ Goto(IF running THEN "settings" ELSE "ended")
  /\ UNCHANGED <<proc, camera, streamVars, ccdVars, queueVars, sinkVars, clientVars>>

\* _stream.streamExposure(), which throws unless the stream is streaming.
ThreadSettings ==
  /\ tpc = "settings"
  /\ MutexFree
  /\ IF Streaming
     THEN texp' = sexp /\ tpc' = "start" /\ UNCHANGED <<running, timage, tlabel>>
     ELSE Goto("ended")
  /\ UNCHANGED <<proc, camera, streamVars, ccdVars, queueVars, sinkVars, clientVars>>

\* Ccd::startExposure() throws unless the CCD is idle; an exception ends the thread.
ThreadStart ==
  /\ tpc = "start"
  /\ IF ccd = "idle"
     THEN ccd' = "exposing" /\ cexp' = texp /\ Goto("launch") /\ UNCHANGED <<builder, crunning>>
     ELSE Goto("ended") /\ UNCHANGED ccdVars
  /\ UNCHANGED <<proc, camera, streamVars, queueVars, sinkVars, clientVars>>

\* The camera starts the thread of the exposure.  The simulator sets the state
\* once more, and may have been cancelled in between; ThreadCcd first joins the
\* thread of the exposure before.
ThreadLaunch ==
  /\ tpc = "launch"
  /\ IF camera = "simulator" THEN builder = "none" ELSE builder # "running"
  /\ builder' = "running"
  /\ ccd' = (IF camera = "simulator" THEN "exposing" ELSE ccd)
  /\ crunning' = (camera = "threaded")
  /\ Goto("wait")
  /\ UNCHANGED <<proc, camera, cexp, streamVars, queueVars, sinkVars, clientVars>>

\* SimCcd::startExposure() assigns to a std::thread that nobody has joined.
ThreadLaunchUnjoined ==
  /\ tpc = "launch" /\ camera = "simulator" /\ builder # "none"
  /\ Die("abort")

\* wait() returns when the CCD is no longer exposing, for whatever reason, and
\* gives up ten minutes after the exposure should have ended.
WaitOverSlip == ccd = "exposed"
WaitOver == ccd # "exposing" \/ builder = "ended"

ThreadWait ==
  /\ tpc = "wait"
  /\ WaitOver
  /\ Goto("image")
  /\ UNCHANGED <<proc, camera, streamVars, ccdVars, queueVars, sinkVars, clientVars>>

\* The state getImage() leaves the CCD in.
AfterImageSlip == "exposed"
AfterImage == "idle"

\* getImage() throws unless the CCD has an exposed image; the simulator joins
\* the thread of the exposure.
ThreadImage ==
  /\ tpc = "image"
  /\ IF ccd = "exposed"
     THEN /\ timage' = cexp
          /\ ccd' = AfterImage
          /\ builder' = (IF camera = "simulator" THEN "none" ELSE builder)
          /\ tpc' = "label"
          /\ UNCHANGED <<running, texp, tlabel, cexp, crunning>>
     ELSE Goto("ended") /\ UNCHANGED ccdVars
  /\ UNCHANGED <<proc, camera, streamVars, queueVars, sinkVars, clientVars>>

\* The settings an image is labelled with: _ccd->getExposure(), without a lock.
LabelSlip == sexp
Label == cexp

ThreadLabel ==
  /\ tpc = "label"
  /\ tlabel' = Label
  /\ tpc' = "deliver"
  /\ UNCHANGED <<running, texp, timage>>
  /\ UNCHANGED <<proc, camera, streamVars, ccdVars, queueVars, sinkVars, clientVars>>

\* ImageQueue::add has room.
QueueHasRoomSlip == Len(queue) <= MaxQueue
QueueHasRoom == Len(queue) < MaxQueue

\* The number the next image gets.
EntryNumber == sequence

\* ImageQueue::add: the image gets a number, or is dropped if the queue is full.
QueueAdd ==
  /\ processed < MaxProcessed
  /\ processed' = processed + 1
  /\ IF QueueHasRoom
     THEN /\ queue' = Append(queue, [seq |-> EntryNumber, image |-> timage, label |-> tlabel])
          /\ sequence' = sequence + 1
          /\ UNCHANGED dropped
     ELSE dropped' = dropped + 1 /\ UNCHANGED <<queue, sequence>>

\* operator()(entry) locks, and looks for a sink.
ThreadDeliver ==
  /\ tpc = "deliver"
  /\ MutexFree
  /\ \/ /\ Streaming => sink = "none"
        /\ IF Streaming THEN QueueAdd ELSE UNCHANGED queueVars
        /\ Goto("loop")
        /\ UNCHANGED <<proc, camera, streamVars>>
     \/ /\ Streaming /\ sink \in {"live", "stalled"}
        /\ owner' = "stream"
        /\ Goto("sending")
        /\ UNCHANGED <<proc, camera, stream, sexp, queueVars>>
  /\ UNCHANGED <<ccdVars, sinkVars, clientVars>>

\* The pointer to the sink was never set, or its sink has been destroyed.
ThreadDeliverWild ==
  /\ tpc = "deliver" /\ MutexFree /\ Streaming /\ sink = "wild"
  /\ Die("segv")

\* CcdSink::operator(): a failure to send makes the sink a stalled one.
ThreadSend ==
  /\ tpc = "sending"
  /\ sink = "live"
  /\ sink' \in (IF SinkFaults THEN {"live", "stalled"} ELSE {"live"})
  /\ owner' = "none"
  /\ Goto("loop")
  /\ UNCHANGED <<proc, camera, stream, sexp, ccdVars, queueVars, handle, clientVars>>

\* A stalled sink calls stopStream(), in this thread: the destructor of the
\* stream thread joins itself, which throws out of a destructor.
ThreadStopsItself ==
  /\ tpc = "sending"
  /\ sink = "stalled"
  /\ Die("abort")

\* The sink was destroyed while it was sending: undefined behaviour.
ThreadDangling ==
  /\ tpc = "dangling"
  /\ \/ Die("segv")
     \/ /\ owner' = "none"
        /\ Goto("loop")
        /\ UNCHANGED <<proc, camera, stream, sexp, ccdVars, queueVars, sinkVars, clientVars>>

Thread ==
  \/ ThreadLoop \/ ThreadSettings \/ ThreadStart \/ ThreadLaunch
  \/ ThreadLaunchUnjoined \/ ThreadWait \/ ThreadImage \/ ThreadLabel
  \/ ThreadDeliver \/ ThreadDeliverWild \/ ThreadSend
  \/ ThreadStopsItself \/ ThreadDangling

---------------------------------------------------------------------------
\* The camera

\* What the thread of an exposure that goes well leaves.  The simulator does not
\* look whether the exposure was cancelled, the other cameras do.
Outcome == IF camera = "threaded" /\ ~crunning THEN "idle" ELSE "exposed"

\* An exception of the thread is swallowed, and leaves the state as it was; the
\* drivers of ThreadCcd may make the camera idle first.
ExposureEnds ==
  /\ builder = "running"
  /\ builder' = "ended"
  /\ crunning' = FALSE
  /\ \/ ccd' = Outcome
     \/ CameraFaults /\ ccd' = ccd
     \/ CameraFaults /\ camera = "threaded" /\ ccd' = "idle"
  /\ UNCHANGED <<proc, camera, cexp, streamVars, threadVars, queueVars, sinkVars, clientVars>>

\* cancelExposure() makes the simulator idle, with its thread at work, and tells
\* the thread of another camera to stop.
Cancel ==
  /\ ccd' = (IF camera = "simulator" THEN "idle" ELSE ccd)
  /\ crunning' = FALSE
  /\ UNCHANGED <<cexp, builder>>

---------------------------------------------------------------------------
\* Clients

Ready(c, op) == proc = "up" /\ op \in Ops[c] /\ cpc[c] = "ready"

At(c, pc) == cpc' = [cpc EXCEPT ![c] = pc]

Return(c) ==
  /\ At(c, "ready")
  /\ cthen' = [cthen EXCEPT ![c] = "ready"]

\* CcdI::_sink and the pointer in the stream are set without a lock; the sink
\* that was there before is destroyed, even if the stream thread is using it.
ReplaceSink(new) ==
  /\ handle' = (new = "live")
  /\ sink' = IF new = "live" THEN "live" ELSE IF handle THEN "wild" ELSE sink
  /\ tpc' = IF handle /\ tpc = "sending" THEN "dangling" ELSE tpc
  /\ UNCHANGED <<running, texp, timage, tlabel>>

\* registerSink(): tells the old sink to stop, which a stalled one takes for a
\* reason to stop the stream.
Register(c) ==
  /\ Ready(c, "register")
  /\ \/ /\ handle /\ sink = "stalled"
        /\ MutexFree /\ Streaming
        /\ At(c, "stopLock")
        /\ cthen' = [cthen EXCEPT ![c] = "install"]
        /\ UNCHANGED <<sinkVars, threadVars>>
     \/ /\ handle /\ sink = "stalled" => MutexFree /\ ~Streaming
        /\ ReplaceSink("live")
        /\ UNCHANGED <<cpc, cthen>>
  /\ UNCHANGED <<proc, camera, streamVars, ccdVars, queueVars>>

Install(c) ==
  /\ cpc[c] = "install"
  /\ ReplaceSink("live")
  /\ Return(c)
  /\ UNCHANGED <<proc, camera, streamVars, ccdVars, queueVars>>

\* CcdI::startStream() checks ...
Start(c) ==
  /\ Ready(c, "start")
  /\ MutexFree /\ ~Streaming
  /\ handle
  /\ At(c, "startLock")
  /\ UNCHANGED <<proc, camera, cthen, streamVars, threadVars, ccdVars, queueVars, sinkVars>>

\* ... a user of the library does not ...
StartLocal(c) ==
  /\ Ready(c, "startLocal")
  /\ At(c, "startLock")
  /\ UNCHANGED <<proc, camera, cthen, streamVars, threadVars, ccdVars, queueVars, sinkVars>>

\* ... before ImageStream::startStream(), which creates the thread or throws.  The
\* settings are the argument of the call.
StartLocked(c) ==
  /\ cpc[c] = "startLock"
  /\ MutexFree
  /\ \E e \in Setting : sexp' = e
  /\ IF stream
     THEN UNCHANGED <<stream, running, tpc>>
     ELSE stream' = TRUE /\ running' = TRUE /\ tpc' = "loop"
  /\ Return(c)
  /\ UNCHANGED <<proc, camera, owner, texp, timage, tlabel, ccdVars, queueVars, sinkVars>>

Update(c) ==
  /\ Ready(c, "update")
  /\ MutexFree /\ Streaming
  /\ \E e \in Setting : sexp' = e
  /\ UNCHANGED <<proc, camera, owner, stream, threadVars, ccdVars, queueVars, sinkVars, clientVars>>

\* CcdI::stopStream(), also unregisterSink(): checks that it is streaming ...
Stop(c) ==
  /\ Ready(c, "stop")
  /\ MutexFree /\ Streaming
  /\ At(c, "stopLock")
  /\ cthen' = [cthen EXCEPT ![c] = "stopSink"]
  /\ UNCHANGED <<proc, camera, streamVars, threadVars, ccdVars, queueVars, sinkVars>>

\* ... locks for good and stops the thread, which cancels the exposure ...
StopLock(c) ==
  /\ cpc[c] = "stopLock"
  /\ MutexFree
  /\ IF stream
     THEN owner' = c /\ running' = FALSE /\ Cancel /\ At(c, "stopAgain")
     ELSE At(c, cthen[c]) /\ UNCHANGED <<owner, running, ccdVars>>
  /\ UNCHANGED <<proc, camera, stream, sexp, tpc, texp, timage, tlabel, cthen,
                 queueVars, sinkVars>>

\* ... as the destructor does once more before it joins the thread ...
StopAgain(c) ==
  /\ cpc[c] = "stopAgain"
  /\ Cancel
  /\ At(c, "stopJoin")
  /\ UNCHANGED <<proc, camera, cthen, streamVars, threadVars, queueVars, sinkVars>>

\* The thread has ended.
JoinableSlip == TRUE
Joinable == tpc = "ended"

StopJoin(c) ==
  /\ cpc[c] = "stopJoin"
  /\ Joinable
  /\ stream' = FALSE
  /\ owner' = "none"
  /\ tpc' = IF Joinable /\ tpc = "ended" THEN "none" ELSE tpc
  /\ At(c, cthen[c])
  /\ UNCHANGED <<proc, camera, sexp, running, texp, timage, tlabel, cthen, ccdVars,
                 queueVars, sinkVars>>

\* ... tells the sink, which if stalled stops a stream that was started again ...
StopSink(c) ==
  /\ cpc[c] = "stopSink"
  /\ IF handle /\ sink = "stalled" /\ Streaming
     THEN /\ MutexFree
          /\ At(c, "stopLock")
          /\ cthen' = [cthen EXCEPT ![c] = "drop"]
     ELSE At(c, "drop") /\ UNCHANGED cthen
  /\ UNCHANGED <<proc, camera, streamVars, threadVars, ccdVars, queueVars, sinkVars>>

\* ... and destroys the sink.
Drop(c) ==
  /\ cpc[c] = "drop"
  /\ ReplaceSink("none")
  /\ Return(c)
  /\ UNCHANGED <<proc, camera, streamVars, ccdVars, queueVars>>

\* ImageQueue::getEntry
Get(c) ==
  /\ Ready(c, "get")
  /\ queue # <<>>
  /\ queue' = Tail(queue)
  /\ UNCHANGED <<proc, camera, processed, dropped, sequence, streamVars, threadVars, ccdVars,
                 sinkVars, clientVars>>

Call(c) ==
  \/ Register(c) \/ Start(c) \/ StartLocal(c) \/ Update(c) \/ Stop(c) \/ Get(c)

Continue(c) ==
  \/ Install(c) \/ StartLocked(c) \/ StopLock(c) \/ StopAgain(c) \/ StopJoin(c)
  \/ StopSink(c) \/ Drop(c)

Next == Thread \/ ExposureEnds \/ \E c \in Client : Call(c) \/ Continue(c)

Spec == Init /\ [][Next]_vars

\* The thread runs and gets the mutex if that is free again and again, an
\* exposure ends, and a client goes on with a call it has made.
Fairness ==
  /\ SF_vars(Thread)
  /\ WF_vars(ExposureEnds)
  /\ \A c \in Client : SF_vars(Continue(c))

FairSpec == Spec /\ Fairness

---------------------------------------------------------------------------
\* Properties

\* Every variable has its type: the stream, its thread, the CCD, the queue and
\* the clients of CcdI.
TypeOK ==
  /\ proc \in {"up", "segv", "abort"} /\ camera \in Cameras
  /\ owner \in Client \cup {"none", "stream"}
  /\ stream \in BOOLEAN /\ running \in BOOLEAN /\ handle \in BOOLEAN
  /\ sexp \in Setting /\ texp \in Setting /\ timage \in Setting /\ tlabel \in Setting
  /\ sink \in {"none", "live", "stalled", "wild"}
  /\ tpc \in ThreadPc
  /\ ccd \in {"idle", "exposing", "exposed"} /\ cexp \in Setting
  /\ builder \in {"none", "running", "ended"} /\ crunning \in BOOLEAN
  /\ queue \in Seq([seq : Nat, image : Setting, label : Setting])
  /\ processed \in Nat /\ dropped \in Nat /\ sequence \in Nat
  /\ cpc \in [Client -> ClientPc]
  /\ cthen \in [Client -> ClientPc]

\* "once the stopStream operation has completed, it is guaranteed that there
\* will be no more calls to the sink operation": without a stream there is no
\* stream thread, in whatever phase of its loop it was stopped.  The thread of
\* the camera is still at work only in the simulator, whose cancellation does
\* not stop it, and the camera is left exposing only by an exposure that failed.
QuietAfterStop ==
  ~stream =>
    /\ tpc = "none"
    /\ builder = "running" => camera = "simulator" /\ ccd = "idle"
    /\ ccd = "exposing" => builder = "ended"

\* Every image carries the settings it was taken with, although they are read
\* after the image and may have been updated while the exposure was going on.
LabelsTrue ==
  /\ tpc \in {"deliver", "sending"} => tlabel = timage
  /\ \A k \in 1..Len(queue) : queue[k].label = queue[k].image

\* The queue never exceeds its length, holds consecutive images that end with
\* the last one numbered, and every image is either numbered or counted as
\* dropped (ImageQueue::add, ImageQueue::getEntry).
QueueAccounts ==
  /\ Len(queue) <= MaxQueue
  /\ \A k \in 1..Len(queue) : queue[k].seq + Len(queue) + 1 = sequence + k
  /\ processed = dropped + sequence

\* A stream that nobody stops keeps going: the thread comes back to the top of
\* its loop with the image delivered, and only a failed exposure ends it.  Not in
\* the simulator after an exposure was cancelled: the thread nobody joined makes
\* the next exposure end the stream, or the process.
StreamFlows ==
  tpc = "settings" /\ (camera = "simulator" => builder = "none") ~>
    \/ tpc = "loop"
    \/ tpc = "ended" /\ builder = "ended" /\ ccd # "exposed"
    \/ owner \in Client
    \/ proc # "up"
    \/ processed = MaxProcessed

\* stopStream() cancels the exposure and returns, "in the intervals between new
\* exposures" and in the middle of one, also of one that failed.  What it may
\* wait for in vain is a thread that wants the mutex it holds, for the next
\* settings or to deliver an image: that is a deadlock of this code.
StopReturns ==
  (\E c \in Client : cpc[c] = "stopJoin") ~>
    \/ \A c \in Client : cpc[c] # "stopJoin"
    \/ tpc \in {"settings", "deliver"}
=============================================================================
