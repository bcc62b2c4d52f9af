------------------------- MODULE ImageStreamProofs -------------------------
(***************************************************************************)
(* Theorems about ImageStream.tla for any number of clients and settings   *)
(* and queues of any length, with or without failing exposures and sinks.  *)
(***************************************************************************)
EXTENDS ImageStream, SequenceTheorems, TLAPS

Entry == [seq : Nat, image : Setting, label : Setting]

LEMMA Numbered == ASSUME NEW q \in Seq(Entry), NEW k \in 1..Len(q) PROVE q[k].seq \in Nat
<1>1. q[k] \in Entry
  OBVIOUS
<1> QED
  BY <1>1 DEF Entry

LEMMA AnySettingType == AnySetting \in Setting
  BY SettingAssumption DEF AnySetting

---------------------------------------------------------------------------
\* The type invariant

LEMMA TypeDie == ASSUME TypeOK, NEW how \in {"segv", "abort"}, Die(how) PROVE TypeOK'
<1>1. queue' \in Seq(Entry)
  BY DEF Die
<1> QED
  BY <1>1, AnySettingType DEF Die, TypeOK, ClientPc, ThreadPc, Entry

\* The queue and its counters have their types after an addition.
LEMMA TypeQueueAdd ==
  ASSUME TypeOK, QueueAdd
  PROVE  /\ queue' \in Seq(Entry)
         /\ processed' \in Nat /\ dropped' \in Nat /\ sequence' \in Nat
<1>1. /\ queue \in Seq(Entry) /\ timage \in Setting /\ tlabel \in Setting
      /\ processed \in Nat /\ dropped \in Nat /\ sequence \in Nat
  BY DEF TypeOK, Entry
<1>2. [seq |-> EntryNumber, image |-> timage, label |-> tlabel] \in Entry
  BY <1>1 DEF Entry, EntryNumber
<1>3. \/ queue' = queue
      \/ queue' = Append(queue, [seq |-> EntryNumber, image |-> timage, label |-> tlabel])
  BY DEF QueueAdd
<1>4. queue' \in Seq(Entry)
  BY <1>1, <1>2, <1>3
<1> QED
  BY <1>1, <1>4 DEF QueueAdd

LEMMA TypeThread == TypeOK /\ Thread => TypeOK'
<1> SUFFICES ASSUME TypeOK, Thread PROVE TypeOK'
  OBVIOUS
<1> USE AnySettingType DEF TypeOK, Goto, ThreadPc, streamVars, ccdVars, queueVars,
                           sinkVars, clientVars
<1>1. CASE ThreadLoop
  BY <1>1 DEF ThreadLoop
<1>2. CASE ThreadSettings
  BY <1>2 DEF ThreadSettings
<1>3. CASE ThreadStart
  BY <1>3 DEF ThreadStart
<1>3a. CASE ThreadLaunch
  BY <1>3a DEF ThreadLaunch
<1>3b. CASE ThreadLaunchUnjoined
  BY <1>3b, TypeDie DEF ThreadLaunchUnjoined
<1>4. CASE ThreadWait
  BY <1>4 DEF ThreadWait
<1>5. CASE ThreadImage
  BY <1>5 DEF ThreadImage, AfterImage
<1>6. CASE ThreadLabel
  BY <1>6 DEF ThreadLabel, Label
<1>7. CASE ThreadDeliver
  <2>1. /\ queue' \in Seq(Entry)
        /\ processed' \in Nat /\ dropped' \in Nat /\ sequence' \in Nat
    BY <1>7, TypeQueueAdd DEF ThreadDeliver, Entry
  <2> QED
    BY <1>7, <2>1 DEF ThreadDeliver, Entry
<1>8. CASE ThreadDeliverWild
  BY <1>8, TypeDie DEF ThreadDeliverWild
<1>9. CASE ThreadSend
  BY <1>9 DEF ThreadSend
<1>10. CASE ThreadStopsItself
  BY <1>10, TypeDie DEF ThreadStopsItself
<1>11. CASE ThreadDangling
  BY <1>11, TypeDie DEF ThreadDangling
<1> QED
  BY <1>1, <1>2, <1>3, <1>3a, <1>3b, <1>4, <1>5, <1>6, <1>7, <1>8, <1>9, <1>10, <1>11
  DEF Thread

LEMMA TypeCall == ASSUME TypeOK, NEW c \in Client, Call(c) PROVE TypeOK'
<1> USE DEF TypeOK, ThreadPc, ClientPc, At, streamVars, threadVars, ccdVars, queueVars,
            sinkVars, clientVars
<1>1. CASE Register(c)
  <2>1. CASE ReplaceSink("live") /\ UNCHANGED <<cpc, cthen>>
    BY <1>1, <2>1 DEF Register, ReplaceSink
  <2>2. CASE /\ At(c, "stopLock") /\ cthen' = [cthen EXCEPT ![c] = "install"]
             /\ UNCHANGED <<sinkVars, threadVars>>
    BY <1>1, <2>2 DEF Register
  <2> QED
    BY <1>1, <2>1, <2>2 DEF Register
<1>2. CASE Start(c)
  BY <1>2 DEF Start
<1>3. CASE StartLocal(c)
  BY <1>3 DEF StartLocal
<1>4. CASE Update(c)
  BY <1>4 DEF Update
<1>5. CASE Stop(c)
  BY <1>5 DEF Stop
<1>6. CASE Get(c)
  <2>1. queue' \in Seq(Entry)
    BY <1>6 DEF Get, Entry
  <2> QED
    BY <1>6, <2>1 DEF Get, Entry
<1> QED
  BY <1>1, <1>2, <1>3, <1>4, <1>5, <1>6 DEF Call

TypeCamera ==
  /\ ccd \in {"idle", "exposing", "exposed"} /\ cexp \in Setting
  /\ builder \in {"none", "running", "ended"} /\ crunning \in BOOLEAN

LEMMA TypeCancel == ASSUME TypeCamera, Cancel PROVE TypeCamera'
  BY DEF TypeCamera, Cancel

LEMMA TypeContinue == ASSUME TypeOK, NEW c \in Client, Continue(c) PROVE TypeOK'
<1> USE AnySettingType DEF TypeOK, ThreadPc, ClientPc, At, Return, streamVars, threadVars,
            ccdVars, queueVars, sinkVars, clientVars
<1>1. CASE Install(c)
  BY <1>1 DEF Install, ReplaceSink
<1>2. CASE StartLocked(c)
  <2>1. stream' \in BOOLEAN /\ running' \in BOOLEAN /\ tpc' \in ThreadPc
    BY <1>2 DEF StartLocked
  <2> QED
    BY <1>2, <2>1 DEF StartLocked
<1>3. CASE StopLock(c)
  <2>1. CASE stream
    <3>1. TypeCamera'
      BY <1>3, <2>1, TypeCancel DEF StopLock, TypeCamera
    <3> QED
      BY <1>3, <2>1, <3>1 DEF StopLock, TypeCamera
  <2>2. CASE ~stream
    BY <1>3, <2>2 DEF StopLock
  <2> QED
    BY <2>1, <2>2
<1>4. CASE StopAgain(c)
  <2>1. TypeCamera'
    BY <1>4, TypeCancel DEF StopAgain, TypeCamera
  <2> QED
    BY <1>4, <2>1 DEF StopAgain, TypeCamera
<1>5. CASE StopJoin(c)
  BY <1>5 DEF StopJoin
<1>6. CASE StopSink(c)
  <2>1. CASE cthen' = cthen
    BY <1>6, <2>1 DEF StopSink
  <2>2. CASE cthen' = [cthen EXCEPT ![c] = "drop"] /\ At(c, "stopLock")
    BY <1>6, <2>2 DEF StopSink
  <2> QED
    BY <1>6, <2>1, <2>2 DEF StopSink
<1>7. CASE Drop(c)
  BY <1>7 DEF Drop, ReplaceSink
<1> QED
  BY <1>1, <1>2, <1>3, <1>4, <1>5, <1>6, <1>7 DEF Continue

LEMMA TypeExposure == TypeOK /\ ExposureEnds => TypeOK'
  BY DEF TypeOK, ExposureEnds, Outcome, streamVars, threadVars, queueVars, sinkVars, clientVars

LEMMA TypeStutter == TypeOK /\ UNCHANGED vars => TypeOK'
  BY DEF TypeOK, vars, streamVars, threadVars, ccdVars, queueVars, sinkVars, clientVars

LEMMA TypeInit == Init => TypeOK
<1> SUFFICES ASSUME Init PROVE TypeOK
  OBVIOUS
<1>1. queue \in Seq(Entry)
  BY DEF Init
<1> QED
  BY <1>1, AnySettingType DEF Init, TypeOK, ThreadPc, ClientPc, Entry

\* Every variable keeps its type, whatever clients, camera and sinks do.
THEOREM TypeCorrect == Spec => []TypeOK
<1>1. TypeOK /\ [Next]_vars => TypeOK'
  BY TypeThread, TypeExposure, TypeCall, TypeContinue, TypeStutter DEF Next
<1> QED
  BY <1>1, TypeInit, PTL DEF Spec

---------------------------------------------------------------------------
\* The thread of the stream
\*
\* A thread exists only as long as there is a stream: its own steps never
\* create it, and stopStream() gives the stream up with the thread joined.  It
\* does not leave an exposure before the camera has ended it, but for the
\* simulator, which a cancellation makes idle with its thread at work.

QuietInv ==
  /\ TypeOK
  /\ ~stream => tpc = "none"
  /\ ccd = "exposing" /\ builder # "ended" => tpc \in {"launch", "wait"}
  /\ builder = "running" =>
       \/ camera = "simulator" /\ ccd = "idle"
       \/ ccd = "exposing" /\ tpc \in {"launch", "wait"}
  /\ camera = "threaded" /\ tpc = "launch" => ccd = "exposing" /\ builder # "running"

LEMMA CameraKind == TypeOK => camera \in {"simulator", "threaded"}
  BY CameraAssumption DEF TypeOK

LEMMA QuietThread == QuietInv /\ Thread => QuietInv'
<1> SUFFICES ASSUME QuietInv, Thread PROVE QuietInv'
  OBVIOUS
<1>0. TypeOK' /\ camera \in {"simulator", "threaded"}
  BY TypeThread, CameraKind DEF QuietInv
<1>1. tpc # "none"
  BY DEF Thread, ThreadLoop, ThreadSettings, ThreadStart, ThreadLaunch,
         ThreadLaunchUnjoined, ThreadWait, ThreadImage, ThreadLabel, ThreadDeliver,
         ThreadDeliverWild, ThreadSend, ThreadStopsItself, ThreadDangling
<1>2. stream
  BY <1>1 DEF QuietInv
<1> USE DEF Goto, streamVars, ccdVars
<1>3. CASE Die("segv") \/ Die("abort")
  BY <1>0, <1>3 DEF QuietInv, Die
<1>4. CASE ThreadStart
  BY <1>0, <1>2, <1>4 DEF QuietInv, ThreadStart
<1>5. CASE ThreadLaunch
  BY <1>0, <1>2, <1>5 DEF QuietInv, ThreadLaunch
<1>6. CASE ThreadWait
  BY <1>0, <1>2, <1>6 DEF QuietInv, ThreadWait, WaitOver
<1>7. CASE ThreadImage
  BY <1>0, <1>2, <1>7 DEF QuietInv, TypeOK, ThreadImage, AfterImage
<1>8. CASE /\ UNCHANGED <<camera, stream, ccd, builder>>
           /\ tpc \notin {"launch", "wait"} /\ tpc' \notin {"launch", "wait"}
  BY <1>0, <1>2, <1>8 DEF QuietInv
<1> QED
  BY <1>3, <1>4, <1>5, <1>6, <1>7, <1>8
  DEF Thread, ThreadLoop, ThreadSettings, ThreadLaunchUnjoined, ThreadLabel, ThreadDeliver,
      ThreadDeliverWild, ThreadSend, ThreadStopsItself, ThreadDangling

LEMMA QuietExposure == QuietInv /\ ExposureEnds => QuietInv'
<1> SUFFICES ASSUME QuietInv, ExposureEnds PROVE QuietInv'
  OBVIOUS
<1>1. TypeOK' /\ camera \in {"simulator", "threaded"}
  BY TypeExposure, CameraKind DEF QuietInv
<1>2. builder = "running" /\ builder' = "ended" /\ UNCHANGED <<camera, stream, tpc>>
  BY DEF ExposureEnds, streamVars, threadVars
<1> QED
  BY <1>1, <1>2 DEF QuietInv

LEMMA QuietClient ==
  ASSUME QuietInv, NEW c \in Client, Call(c) \/ Continue(c)
  PROVE  QuietInv'
<1>0. TypeOK' /\ camera \in {"simulator", "threaded"}
  BY TypeCall, TypeContinue, CameraKind DEF QuietInv
<1> USE <1>0 DEF QuietInv, streamVars, threadVars, ccdVars
<1>1. CASE Call(c)
  BY <1>1 DEF Call, Register, Start, StartLocal, Update, Stop, Get, ReplaceSink
<1>2. CASE Install(c) \/ Drop(c)
  BY <1>2 DEF Install, Drop, ReplaceSink
<1>3. CASE StartLocked(c) \/ StopSink(c)
  BY <1>3 DEF StartLocked, StopSink
<1>4. CASE StopLock(c) \/ StopAgain(c)
  BY <1>4 DEF StopLock, StopAgain, Cancel
<1>5. CASE StopJoin(c)
  BY <1>5 DEF StopJoin, Joinable
<1> QED
  BY <1>1, <1>2, <1>3, <1>4, <1>5 DEF Continue

LEMMA Quiet == Spec => []QuietInv
<1>1. Init => QuietInv
  BY TypeInit DEF Init, QuietInv
<1>2. QuietInv /\ [Next]_vars => QuietInv'
  <2>1. QuietInv /\ UNCHANGED vars => QuietInv'
    BY TypeStutter DEF QuietInv, vars, streamVars, threadVars, ccdVars
  <2> QED
    BY <2>1, QuietExposure, QuietThread, QuietClient DEF Next
<1> QED
  BY <1>1, <1>2, PTL DEF Spec

\* After stopStream() has returned no sink is called, and the thread of the camera
\* is at work only in the simulator, whatever phase of an exposure the stop came
\* in and whatever became of the exposure, for any number of clients.
THEOREM StoppedIsQuiet == Spec => []QuietAfterStop
<1>1. QuietInv => QuietAfterStop
  BY DEF QuietInv, QuietAfterStop
<1> QED
  BY <1>1, Quiet, PTL

---------------------------------------------------------------------------
\* The mutex of the stream
\*
\* Deliveries to a sink and stops of the thread are all under the mutex, and
\* no step of one of them can come between those of another.

MutexInv ==
  /\ owner = "stream" <=> tpc \in {"sending", "dangling"}
  /\ \A c \in Client : cpc[c] \in {"stopAgain", "stopJoin"} <=> owner = c
  /\ owner \in Client => stream /\ ~running
  /\ \A c \in Client : cthen[c] \notin {"stopAgain", "stopJoin"}

LEMMA MutexDie == ASSUME NEW how \in {"segv", "abort"}, Die(how) PROVE MutexInv'
  BY OwnerAssumption DEF Die, MutexInv

LEMMA MutexThread == MutexInv /\ Thread => MutexInv'
<1> SUFFICES ASSUME MutexInv, Thread PROVE MutexInv'
  OBVIOUS
<1> USE DEF Goto, streamVars, clientVars
<1>1. CASE Die("segv") \/ Die("abort")
  BY <1>1, MutexDie
<1>2. CASE /\ UNCHANGED <<owner, stream, running, cpc, cthen>>
           /\ tpc \notin {"sending", "dangling"} /\ tpc' \notin {"sending", "dangling"}
  BY <1>2 DEF MutexInv
<1>3. CASE ThreadDeliver
  BY <1>3, OwnerAssumption DEF ThreadDeliver, MutexFree, MutexInv
<1>4. CASE ThreadSend \/ ThreadDangling
  BY <1>1, <1>4, OwnerAssumption DEF ThreadSend, ThreadDangling, MutexInv
<1> QED
  BY <1>1, <1>2, <1>3, <1>4
  DEF Thread, ThreadLoop, ThreadSettings, ThreadStart, ThreadLaunch, ThreadLaunchUnjoined,
      ThreadWait, ThreadImage, ThreadLabel, ThreadDeliverWild, ThreadStopsItself

LEMMA MutexClient ==
  ASSUME QuietInv, MutexInv, NEW c \in Client, Call(c) \/ Continue(c)
  PROVE  MutexInv'
<1>0. cpc \in [Client -> ClientPc] /\ cthen \in [Client -> ClientPc] /\ c # "none"
      /\ c # "stream"
  BY OwnerAssumption DEF QuietInv, TypeOK
<1> USE DEF streamVars, threadVars, clientVars, At, MutexInv
<1>1. CASE Call(c)
  BY <1>0, <1>1 DEF Call, Ready, Register, Start, StartLocal, Update, Stop, Get, ReplaceSink
<1>2. CASE Install(c) \/ Drop(c)
  BY <1>0, <1>2 DEF Install, Drop, ReplaceSink, Return
<1>3. CASE StartLocked(c)
  BY <1>0, <1>3 DEF StartLocked, MutexFree, Return, QuietInv
<1>4. CASE StopLock(c)
  <2>0. owner = "none" /\ \A d \in Client : d # "none" /\ cpc[d] \notin {"stopAgain", "stopJoin"}
    BY <1>4, OwnerAssumption DEF StopLock, MutexFree
  <2>1. CASE stream
    <3>1. /\ owner' = c /\ ~running' /\ cpc' = [cpc EXCEPT ![c] = "stopAgain"]
          /\ UNCHANGED <<stream, tpc, cthen>>
      BY <1>4, <2>1 DEF StopLock
    <3> QED
      BY <1>0, <2>0, <2>1, <3>1
  <2>2. CASE ~stream
    <3>1. cpc' = [cpc EXCEPT ![c] = cthen[c]] /\ UNCHANGED <<owner, stream, running, tpc, cthen>>
      BY <1>4, <2>2 DEF StopLock
    <3> QED
      BY <1>0, <2>0, <3>1
  <2> QED
    BY <2>1, <2>2
<1>5. CASE StopAgain(c)
  BY <1>0, <1>5 DEF StopAgain
<1>6. CASE StopJoin(c)
  <2>1. owner = c /\ \A d \in Client : d # c => cpc[d] \notin {"stopAgain", "stopJoin"}
    BY <1>6 DEF StopJoin
  <2>2. /\ owner' = "none" /\ tpc' = "none" /\ UNCHANGED cthen
        /\ cpc' = [cpc EXCEPT ![c] = cthen[c]]
    BY <1>6 DEF StopJoin, Joinable
  <2> QED
    BY <1>0, <2>1, <2>2, OwnerAssumption
<1>7. CASE StopSink(c)
  BY <1>0, <1>7 DEF StopSink
<1> QED
  BY <1>1, <1>2, <1>3, <1>4, <1>5, <1>6, <1>7 DEF Continue

\* Only one call stops the thread at a time, and from then on, before it has
\* returned, no image is handed to a sink.
StopIsAlone ==
  \A c \in Client : cpc[c] \in {"stopAgain", "stopJoin"} =>
    /\ stream /\ ~running
    /\ tpc \notin {"sending", "dangling"}
    /\ \A d \in Client \ {c} : cpc[d] \notin {"stopAgain", "stopJoin"}

\* stopStream() and the deliveries to the sink exclude each other, however often
\* the stream is started and stopped and its sink replaced, for any number of
\* clients (ImageStream::_mutex).
THEOREM StopsExcludeDelivery == Spec => []StopIsAlone
<1>1. Init => MutexInv
  BY OwnerAssumption DEF Init, MutexInv
<1>2. QuietInv /\ MutexInv /\ [Next]_vars => MutexInv'
  <2>1. MutexInv /\ ExposureEnds => MutexInv'
    BY DEF MutexInv, ExposureEnds, streamVars, threadVars, clientVars
  <2>2. MutexInv /\ UNCHANGED vars => MutexInv'
    BY DEF MutexInv, vars, streamVars, threadVars, clientVars
  <2> QED
    BY <2>1, <2>2, MutexThread, MutexClient DEF Next
<1>3. MutexInv => StopIsAlone
  BY OwnerAssumption DEF MutexInv, StopIsAlone
<1> QED
  BY <1>1, <1>2, <1>3, Quiet, PTL DEF Spec

---------------------------------------------------------------------------
\* The labels
\*
\* The label of an image is read from the camera after the image.  It is right
\* because only the thread itself starts exposures, so that the camera still has
\* the settings of the image when the thread asks for them.

LabelInv ==
  /\ TypeOK /\ LabelsTrue
  /\ tpc = "label" => timage = cexp

\* A step that leaves image, label and camera settings alone, and does not go on
\* to one of the phases that use them.
LEMMA LabelFrame ==
  ASSUME LabelInv, TypeOK', UNCHANGED <<timage, tlabel, cexp, queue>>,
         tpc' = tpc \/ tpc' \notin {"label", "deliver", "sending"}
  PROVE  LabelInv'
  BY DEF LabelInv, LabelsTrue

LEMMA LabelDie == ASSUME LabelInv, NEW how \in {"segv", "abort"}, Die(how) PROVE LabelInv'
<1>1. TypeOK'
  BY TypeDie DEF LabelInv
<1>2. tpc' = "none" /\ queue' = <<>>
  BY DEF Die
<1>3. Len(queue') = 0
  BY <1>2
<1> QED
  BY <1>1, <1>2, <1>3 DEF LabelInv, LabelsTrue

\* The loop begins again, or ends.
LEMMA LabelLoop ==
  ASSUME LabelInv, TypeOK', tpc' \notin {"label", "deliver", "sending"}, UNCHANGED queue
  PROVE  LabelInv'
  BY DEF LabelInv, LabelsTrue

LEMMA LabelThread == LabelInv /\ Thread => LabelInv'
<1> SUFFICES ASSUME LabelInv, Thread PROVE LabelInv'
  OBVIOUS
<1>0. TypeOK'
  BY TypeThread DEF LabelInv
<1> USE DEF Goto, queueVars
<1>1. CASE ThreadLoop \/ ThreadSettings \/ ThreadStart \/ ThreadLaunch \/ ThreadWait
  BY <1>0, <1>1, LabelLoop
  DEF ThreadLoop, ThreadSettings, ThreadStart, ThreadLaunch, ThreadWait
<1>2. CASE ThreadImage
  <2>1. CASE ccd = "exposed"
    <3>1. timage' = cexp /\ UNCHANGED <<cexp, queue>> /\ tpc' = "label"
      BY <1>2, <2>1 DEF ThreadImage
    <3> QED
      BY <1>0, <3>1 DEF LabelInv, LabelsTrue
  <2>2. CASE ccd # "exposed"
    BY <1>0, <1>2, <2>2, LabelLoop DEF ThreadImage
  <2> QED
    BY <2>1, <2>2
<1>3. CASE ThreadLabel
  <2>1. tlabel' = cexp /\ UNCHANGED <<timage, queue>> /\ tpc' = "deliver" /\ tpc = "label"
    BY <1>3 DEF ThreadLabel, Label
  <2> QED
    BY <1>0, <2>1 DEF LabelInv, LabelsTrue
<1>4. CASE ThreadDeliver
  <2>1. tpc = "deliver" /\ tlabel = timage
    BY <1>4 DEF ThreadDeliver, LabelInv, LabelsTrue
  <2>2. CASE tpc' = "sending"
    BY <1>0, <1>4, <2>1, <2>2 DEF ThreadDeliver, LabelInv, LabelsTrue
  <2>3. CASE tpc' = "loop"
    <3>1. \/ queue' = queue
          \/ queue' = Append(queue, [seq |-> EntryNumber, image |-> timage, label |-> tlabel])
      BY <1>4, <2>3 DEF ThreadDeliver, QueueAdd
    <3>2. CASE queue' = queue
      BY <1>0, <2>3, <3>2, LabelLoop
    <3>3. CASE queue' = Append(queue, [seq |-> EntryNumber, image |-> timage, label |-> tlabel])
      <4>1. queue \in Seq(Entry)
        BY DEF LabelInv, TypeOK, Entry
      <4>2. \A k \in 1..Len(queue') : queue'[k].label = queue'[k].image
        <5> SUFFICES ASSUME NEW k \in 1..Len(queue')
                     PROVE  queue'[k].label = queue'[k].image
          OBVIOUS
        <5>1. CASE k \in 1..Len(queue)
          BY <3>3, <4>1, <5>1 DEF LabelInv, LabelsTrue
        <5>2. CASE k = Len(queue) + 1
          BY <2>1, <3>3, <4>1, <5>2
        <5> QED
          BY <3>3, <4>1, <5>1, <5>2
      <4> QED
        BY <1>0, <2>3, <4>2 DEF LabelInv, LabelsTrue
    <3> QED
      BY <3>1, <3>2, <3>3
  <2> QED
    BY <1>4, <2>2, <2>3 DEF ThreadDeliver
<1>5. CASE ThreadSend
  BY <1>0, <1>5, LabelLoop DEF ThreadSend
<1>6. CASE ThreadLaunchUnjoined \/ ThreadDeliverWild \/ ThreadStopsItself
  BY <1>6, LabelDie DEF ThreadLaunchUnjoined, ThreadDeliverWild, ThreadStopsItself
<1>7. CASE ThreadDangling
  BY <1>0, <1>7, LabelDie, LabelLoop DEF ThreadDangling
<1> QED
  BY <1>1, <1>2, <1>3, <1>4, <1>5, <1>6, <1>7 DEF Thread

LEMMA LabelClient ==
  ASSUME LabelInv, NEW c \in Client, Call(c) \/ Continue(c)
  PROVE  LabelInv'
<1>0. TypeOK'
  BY TypeCall, TypeContinue DEF LabelInv
<1> USE DEF queueVars, threadVars, ccdVars, sinkVars
<1>1. CASE Get(c)
  <2>1. queue \in Seq(Entry) /\ queue # <<>> /\ queue' = Tail(queue)
        /\ UNCHANGED <<tpc, timage, tlabel, cexp>>
    BY <1>1 DEF Get, LabelInv, TypeOK, Entry
  <2>2. \A k \in 1..Len(queue') : k + 1 \in 1..Len(queue) /\ queue'[k] = queue[k + 1]
    BY <2>1, HeadTailProperties
  <2>3. \A k \in 1..Len(queue') : queue'[k].label = queue'[k].image
    BY <2>2 DEF LabelInv, LabelsTrue
  <2> QED
    BY <1>0, <2>1, <2>3 DEF LabelInv, LabelsTrue
<1>2. CASE Register(c) \/ Start(c) \/ StartLocal(c) \/ Update(c) \/ Stop(c)
  BY <1>0, <1>2, LabelFrame DEF Register, Start, StartLocal, Update, Stop, ReplaceSink
<1>3. CASE Continue(c)
  BY <1>0, <1>3, LabelFrame DEF Continue, Install, StartLocked, StopLock, StopAgain,
                                StopJoin, StopSink, Drop, ReplaceSink, Cancel
<1> QED
  BY <1>1, <1>2, <1>3 DEF Call

\* Labels are true however often the settings are changed during an exposure.
THEOREM LabelsAreTrue == Spec => []LabelsTrue
<1>1. Init => LabelInv
  <2> SUFFICES ASSUME Init PROVE LabelInv
    OBVIOUS
  <2>1. queue = <<>> /\ queue \in Seq(Entry)
    BY DEF Init
  <2>2. Len(queue) = 0
    BY <2>1
  <2>3. TypeOK
    BY TypeInit
  <2> QED
    BY <2>2, <2>3 DEF Init, LabelInv, LabelsTrue
<1>2. LabelInv /\ [Next]_vars => LabelInv'
  <2>1. LabelInv /\ ExposureEnds => LabelInv'
    BY TypeExposure, LabelFrame DEF LabelInv, ExposureEnds, threadVars, queueVars
  <2>2. LabelInv /\ UNCHANGED vars => LabelInv'
    BY TypeStutter, LabelFrame DEF LabelInv, vars, threadVars, ccdVars, queueVars
  <2> QED
    BY <2>1, <2>2, LabelThread, LabelClient DEF Next
<1>3. LabelInv => LabelsTrue
  BY DEF LabelInv
<1> QED
  BY <1>1, <1>2, <1>3, PTL DEF Spec

---------------------------------------------------------------------------
\* The queue

AccountInv == TypeOK /\ QueueAccounts

LEMMA AccountFrame ==
  ASSUME AccountInv, TypeOK', UNCHANGED queueVars
  PROVE  AccountInv'
  BY DEF AccountInv, QueueAccounts, queueVars

LEMMA AccountDie == ASSUME AccountInv, NEW how \in {"segv", "abort"}, Die(how) PROVE AccountInv'
<1>1. TypeOK'
  BY TypeDie DEF AccountInv
<1>2. queue' = <<>> /\ processed' = 0 /\ dropped' = 0 /\ sequence' = 0
  BY DEF Die
<1>3. Len(queue') = 0
  BY <1>2
<1> QED
  BY <1>1, <1>2, <1>3, QueueAssumption DEF AccountInv, QueueAccounts

LEMMA AccountAdd == ASSUME AccountInv, QueueAdd PROVE QueueAccounts'
<1>1. /\ queue \in Seq(Entry)
      /\ processed \in Nat /\ dropped \in Nat /\ sequence \in Nat
  BY DEF AccountInv, TypeOK, Entry
<1> DEFINE new == [seq |-> EntryNumber, image |-> timage, label |-> tlabel]
<1>2. CASE QueueHasRoom
  <2>1. /\ queue' = Append(queue, new) /\ sequence' = sequence + 1
        /\ processed' = processed + 1 /\ dropped' = dropped
        /\ Len(queue) < MaxQueue
    BY <1>2 DEF QueueAdd, QueueHasRoom
  <2>2. /\ Len(queue') = Len(queue) + 1 /\ Len(queue) \in Nat
        /\ \A k \in 1..Len(queue) : queue'[k] = queue[k]
        /\ queue'[Len(queue) + 1] = new
    BY <1>1, <2>1, AppendProperties
  <2>3. \A k \in 1..Len(queue') : queue'[k].seq + Len(queue') + 1 = sequence' + k
    <3> SUFFICES ASSUME NEW k \in 1..Len(queue')
                 PROVE  queue'[k].seq + Len(queue') + 1 = sequence' + k
      OBVIOUS
    <3>1. CASE k = Len(queue) + 1
      <4>1. queue'[k].seq = sequence
        BY <2>2, <3>1 DEF EntryNumber
      <4> QED
        BY <1>1, <2>1, <2>2, <3>1, <4>1
    <3>2. CASE k \in 1..Len(queue)
      <4>1. queue'[k] = queue[k] /\ queue[k].seq \in Nat
        BY <1>1, <2>2, <3>2, Numbered
      <4>2. queue[k].seq + Len(queue) + 1 = sequence + k
        BY <3>2 DEF AccountInv, QueueAccounts
      <4> QED
        BY <1>1, <2>1, <2>2, <3>2, <4>1, <4>2
    <3> QED
      BY <2>2, <3>1, <3>2
  <2>4. Len(queue') <= MaxQueue /\ processed' = dropped' + sequence'
    BY <1>1, <2>1, <2>2, QueueAssumption DEF AccountInv, QueueAccounts
  <2> QED
    BY <2>3, <2>4 DEF QueueAccounts
<1>3. CASE ~QueueHasRoom
  BY <1>1, <1>3 DEF QueueAdd, AccountInv, QueueAccounts
<1> QED
  BY <1>2, <1>3

LEMMA AccountGet == ASSUME AccountInv, NEW c \in Client, Get(c) PROVE QueueAccounts'
<1>1. /\ queue \in Seq(Entry) /\ queue # <<>> /\ queue' = Tail(queue)
      /\ UNCHANGED <<processed, dropped, sequence>>
      /\ processed \in Nat /\ dropped \in Nat /\ sequence \in Nat
  BY DEF Get, AccountInv, TypeOK, Entry
<1>2. /\ Len(queue') = Len(queue) - 1 /\ Len(queue) \in Nat
      /\ \A k \in 1..Len(queue') : k + 1 \in 1..Len(queue) /\ queue'[k] = queue[k + 1]
  BY <1>1, HeadTailProperties
<1>3. \A k \in 1..Len(queue') : queue'[k].seq + Len(queue') + 1 = sequence + k
  <2> SUFFICES ASSUME NEW k \in 1..Len(queue')
               PROVE  queue'[k].seq + Len(queue') + 1 = sequence + k
    OBVIOUS
  <2>1. /\ queue'[k] = queue[k + 1] /\ queue[k + 1].seq \in Nat
        /\ k + 1 \in 1..Len(queue)
    BY <1>1, <1>2, Numbered
  <2>2. queue[k + 1].seq + Len(queue) + 1 = sequence + (k + 1)
    BY <2>1 DEF AccountInv, QueueAccounts
  <2> DEFINE n == queue[k + 1].seq
             l == Len(queue)
  <2>3. n \in Nat /\ l \in Nat /\ n + l + 1 = sequence + (k + 1)
    BY <1>2, <2>1, <2>2
  <2>4. n + (l - 1) + 1 = sequence + k
    <3> HIDE DEF n, l
    <3> QED
      BY <1>1, <2>3
  <2> QED
    BY <1>2, <2>1, <2>4
<1> QED
  BY <1>1, <1>2, <1>3, QueueAssumption DEF AccountInv, QueueAccounts

LEMMA AccountThread == AccountInv /\ Thread => AccountInv'
<1> SUFFICES ASSUME AccountInv, Thread PROVE AccountInv'
  OBVIOUS
<1>0. TypeOK'
  BY TypeThread DEF AccountInv
<1>1. UNCHANGED queueVars \/ QueueAdd \/ Die("segv") \/ Die("abort")
  BY DEF Thread, ThreadLoop, ThreadSettings, ThreadStart, ThreadLaunch,
         ThreadLaunchUnjoined, ThreadWait, ThreadImage, ThreadLabel, ThreadDeliver,
         ThreadDeliverWild, ThreadSend, ThreadStopsItself, ThreadDangling
<1> QED
  BY <1>0, <1>1, AccountFrame, AccountAdd, AccountDie DEF AccountInv

\* The queue holds the last consecutive images and counts the dropped ones,
\* for a queue of any length.
THEOREM QueueIsAccounted == Spec => []QueueAccounts
<1>1. Init => AccountInv
  <2> SUFFICES ASSUME Init PROVE AccountInv
    OBVIOUS
  <2>1. queue = <<>> /\ queue \in Seq(Entry)
    BY DEF Init
  <2>2. Len(queue) = 0
    BY <2>1
  <2>3. TypeOK
    BY TypeInit
  <2> QED
    BY <2>2, <2>3, QueueAssumption DEF Init, AccountInv, QueueAccounts
<1>2. AccountInv /\ [Next]_vars => AccountInv'
  <2>1. AccountInv /\ ExposureEnds => AccountInv'
    BY TypeExposure, AccountFrame DEF AccountInv, ExposureEnds
  <2>2. AccountInv /\ UNCHANGED vars => AccountInv'
    BY TypeStutter, AccountFrame DEF AccountInv, vars
  <2>3. ASSUME AccountInv, NEW c \in Client, Call(c) \/ Continue(c) PROVE AccountInv'
    <3>1. TypeOK'
      BY <2>3, TypeCall, TypeContinue DEF AccountInv
    <3>2. UNCHANGED queueVars \/ Get(c)
      BY <2>3 DEF Call, Register, Start, StartLocal, Update, Stop, Continue, Install,
                  StartLocked, StopLock, StopAgain, StopJoin, StopSink, Drop
    <3> QED
      BY <2>3, <3>1, <3>2, AccountFrame, AccountGet DEF AccountInv
  <2> QED
    BY <2>1, <2>2, <2>3, AccountThread DEF Next
<1>3. AccountInv => QueueAccounts
  BY DEF AccountInv
<1> QED
  BY <1>1, <1>2, <1>3, PTL DEF Spec
=============================================================================
