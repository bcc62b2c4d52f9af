---------------------------- MODULE GuiderProofs ----------------------------
(***************************************************************************)
(* Theorems about Guider.tla for any choice of control devices and         *)
(* acquisitions: types, the threads behind the states, and what may end    *)
(* guiding.                                                                *)
(***************************************************************************)
EXTENDS Guider, TLAPS

\* No acquisition has the name of another state.
LEMMA JobNames ==
  \A j \in Job : j \notin {"idle", "calibrating", "calibrated", "guiding"}
  BY GuiderAssumption

---------------------------------------------------------------------------
\* The type invariant

LEMMA TypeCrash == Crash => TypeOK'
  BY DEF Crash, TypeOK, Call, NoCall, Rest

LEMMA TypeEnd ==
  ASSUME TypeOK, NEW d \in Device, EndProcess(d)
  PROVE  process' \in [Device -> {"none"} \cup Active] /\ halt' \in [Device -> BOOLEAN]
  BY DEF EndProcess, TypeOK

LEMMA TypeCheck ==
  ASSUME TypeOK, NEW d \in Device, NEW may \in BOOLEAN, CheckCalibrationState(d, may)
  PROVE  process' \in [Device -> {"none"} \cup Active] /\ halt' \in [Device -> BOOLEAN]
<1>1. CASE EndProcess(d)
  BY <1>1, TypeEnd
<1>2. CASE ~EndProcess(d)
  <2>1. \/ process' = [process EXCEPT ![d] = "accepting"] /\ UNCHANGED halt
        \/ process' = [process EXCEPT ![d] = "rejecting"] /\ UNCHANGED halt
    BY <1>2 DEF CheckCalibrationState
  <2> QED
    BY <2>1 DEF TypeOK, Active, Setting
<1> QED
  BY <1>1, <1>2

LEMMA TypeCalls ==
  /\ NoCall \in Call
  /\ \A a \in {"calProcess", "calFlag"}, d \in Device : [at |-> a, what |-> d] \in Call
  /\ \A j \in Job : [at |-> "jobStart", what |-> j] \in Call
  /\ \A a \in {"guideProcess", "guideStart"} : [at |-> a, what |-> "tracker"] \in Call
  BY DEF Call

LEMMA CallParts ==
  ASSUME call \in Call
  PROVE  /\ call.at \in {"calProcess", "calFlag"} => call.what \in Device
         /\ call.at = "jobStart" => call.what \in Job
         /\ call.at = "calProcess" => [call EXCEPT !.at = "calFlag"] \in Call
         /\ call.at = "guideProcess" => [call EXCEPT !.at = "guideStart"] \in Call
  BY DEF Call, NoCall

LEMMA TypeRequest == TypeOK /\ Request => TypeOK'
<1> SUFFICES ASSUME TypeOK, Request PROVE TypeOK'
  OBVIOUS
<1> USE DEF machineVars, deviceVars, trackerVars, jobVars, clientVars, pollVars
<1>1. ASSUME NEW d \in Device, StartCalibration(d) PROVE TypeOK'
  BY <1>1, TypeCalls DEF StartCalibration, TypeOK
<1>2. ASSUME NEW d \in Device, UseCalibration(d) PROVE TypeOK'
  BY <1>2 DEF UseCalibration, TypeOK
<1>3. ASSUME NEW d \in Device, UnCalibrate(d) PROVE TypeOK'
  BY <1>3, TypeCrash DEF UnCalibrate, TypeOK
<1>4. CASE CancelCalibration
  <2>1. halt' \in [Device -> BOOLEAN]
    BY <1>4 DEF CancelCalibration
  <2> QED
    BY <1>4, <2>1 DEF CancelCalibration, TypeOK
<1>5. CASE StartGuiding
  <2>1. overtaken' \subseteq Device \cup Job \cup {"poll"}
    BY <1>5 DEF StartGuiding, TypeOK
  <2>2. state' \in {"calibrated", "guiding", state} /\ call' \in Call
        /\ UNCHANGED <<prestate, deviceVars, trackerVars, jobVars, broken, poll>>
    BY <1>5, TypeCalls DEF StartGuiding, TypeOK
  <2> QED
    BY <2>1, <2>2 DEF TypeOK
<1>6. CASE StopGuiding
  BY <1>6, TypeCrash DEF StopGuiding, TypeOK
<1>7. ASSUME NEW j \in Job, StartJob(j) PROVE TypeOK'
  BY <1>7, TypeCalls DEF StartJob, TypeOK, canStart
<1> QED
  BY <1>1, <1>2, <1>3, <1>4, <1>5, <1>6, <1>7 DEF Request

LEMMA TypeContinue == TypeOK /\ Continue => TypeOK'
<1> SUFFICES ASSUME TypeOK, Continue PROVE TypeOK'
  OBVIOUS
<1> USE DEF machineVars, deviceVars, trackerVars, jobVars, clientVars, pollVars
<1>0. call \in Call
  BY DEF TypeOK
<1>1. CASE StopOldProcess \/ OldProcessOutlives
  BY <1>1, TypeCrash DEF StopOldProcess, OldProcessOutlives, TypeOK
<1>2. CASE CalProcess
  BY <1>0, <1>2, TypeCalls, CallParts DEF CalProcess, TypeOK, Active
<1>3. CASE CalFlag
  BY <1>0, <1>3, TypeCalls, CallParts DEF CalFlag, TypeOK
<1>4. CASE StopOldTracker
  BY <1>4, TypeCrash DEF StopOldTracker, TypeOK
<1>5. CASE GuideProcess
  BY <1>0, <1>5, CallParts DEF GuideProcess, TypeOK
<1>6. CASE GuideStart
  BY <1>6, TypeCrash, TypeCalls DEF GuideStart, TypeOK
<1>7. CASE JobStart
  <2>1. CASE Crash
    BY <2>1, TypeCrash
  <2>2. CASE ~Crash
    <3>1. call.what \in Job /\ call' \in Call
      BY <1>0, <1>7, <2>2, CallParts, TypeCalls DEF JobStart
    <3>2. state' \in {"idle", "calibrating", "calibrated", "guiding"} \cup Job
      BY <1>7, <2>2 DEF JobStart, TypeOK, Rest
    <3>3. working' \subseteq Job /\ stranded' \subseteq Job
      BY <1>7, <2>2, <3>1 DEF JobStart, TypeOK
    <3> QED
      BY <1>7, <2>2, <3>1, <3>2, <3>3 DEF JobStart, TypeOK
  <2> QED
    BY <2>1, <2>2
<1> QED
  BY <1>1, <1>2, <1>3, <1>4, <1>5, <1>6, <1>7 DEF Continue

LEMMA TypeCalibrate ==
  ASSUME TypeOK, NEW d \in Device, Calibrate(d) PROVE TypeOK'
<1> USE DEF machineVars, deviceVars, trackerVars, jobVars, clientVars, pollVars
<1>1. CASE CalComplete(d)
  <2>1. process' \in [Device -> {"none"} \cup Active]
    BY <1>1 DEF CalComplete, TypeOK, Active
  <2> QED
    BY <1>1, <2>1 DEF CalComplete, FlagsAfterCompletion, TypeOK
<1>2. CASE CalSave(d)
  <2>1. process' \in [Device -> {"none"} \cup Active] /\ halt' \in [Device -> BOOLEAN]
    BY <1>2, TypeCheck DEF CalSave, canAcceptCalibration
  <2> QED
    BY <1>2, <2>1 DEF CalSave, TypeOK
<1>3. CASE CalGiveUp(d)
  <2>1. process' \in [Device -> {"none"} \cup Active] /\ halt' \in [Device -> BOOLEAN]
    BY <1>3, TypeCheck DEF CalGiveUp, canFailCalibration
  <2> QED
    BY <1>3, <2>1 DEF CalGiveUp, TypeOK
<1>4. CASE CalSet(d)
  BY <1>4, TypeEnd DEF CalSet, TypeOK
<1>5. CASE CalDie(d)
  BY <1>5, TypeEnd DEF CalDie, TypeOK
<1> QED
  BY <1>1, <1>2, <1>3, <1>4, <1>5 DEF Calibrate

LEMMA TypeAcquire == ASSUME TypeOK, NEW j \in Job, Acquire(j) PROVE TypeOK'
<1> USE DEF machineVars, deviceVars, trackerVars, jobVars, clientVars, pollVars
<1>1. CASE JobEnd(j) \/ JobSet(j)
  BY <1>1 DEF JobEnd, JobSet, TypeOK, Rest
<1>2. CASE JobDies(j)
  BY <1>2 DEF JobDies, TypeOK
<1> QED
  BY <1>1, <1>2 DEF Acquire

LEMMA TypePoll == TypeOK /\ (Poll \/ TrackerEnd) => TypeOK'
  BY DEF Poll, PollDevices, PollFailCalibration, PollFailSet, PollTracker, PollStopGuiding,
         PollStopSet, TrackerEnd, TypeOK, machineVars, deviceVars, trackerVars, jobVars,
         clientVars, pollVars

LEMMA TypeStutter == TypeOK /\ UNCHANGED vars => TypeOK'
  BY DEF TypeOK, vars, machineVars, deviceVars, trackerVars, jobVars, clientVars, pollVars

LEMMA TypeInit == Init => TypeOK
  BY TypeCalls DEF Init, TypeOK, Rest

\* The state machine, the devices, the threads and the calls keep their types:
\* in particular an acquisition always has a state of rest to go back to.
THEOREM TypeCorrect == Spec => []TypeOK
<1>1. Init => TypeOK
  BY TypeInit
<1>2. TypeOK /\ [Next]_vars => TypeOK'
  BY TypeRequest, TypeContinue, TypeCalibrate, TypeAcquire, TypePoll, TypeStutter DEF Next
<1> QED
  BY <1>1, <1>2, PTL DEF Spec

---------------------------------------------------------------------------
\* Every acquisition has its thread

AcquireInv == TypeOK /\ AcquisitionHasThread

\* A step that leaves the acquisitions alone, and the state or the call too,
\* keeps the thread; so does one after which no acquisition is going on.
LEMMA ThreadFrame ==
  ASSUME AcquisitionHasThread, UNCHANGED <<working, stranded>>,
         state' = state, call.at # "jobStart" \/ call' = call
  PROVE  AcquisitionHasThread'
  BY DEF AcquisitionHasThread

LEMMA NoJobNoThread == ASSUME state' \notin Job PROVE AcquisitionHasThread'
  BY DEF AcquisitionHasThread

LEMMA CrashNoJob == Crash => state' \notin Job
  BY JobNames DEF Crash

LEMMA ThreadOfRequest == AcquireInv /\ Request => AcquisitionHasThread'
<1> SUFFICES ASSUME AcquireInv, Request PROVE AcquisitionHasThread'
  OBVIOUS
<1> USE DEF jobVars, clientVars, Free, NoCall
<1>1. ASSUME NEW d \in Device, StartCalibration(d) PROVE AcquisitionHasThread'
  BY <1>1, JobNames, NoJobNoThread DEF StartCalibration
<1>2. ASSUME NEW d \in Device, UseCalibration(d) PROVE AcquisitionHasThread'
  BY <1>2, JobNames, NoJobNoThread DEF UseCalibration
<1>3. ASSUME NEW d \in Device, UnCalibrate(d) PROVE AcquisitionHasThread'
  BY <1>3, CrashNoJob, NoJobNoThread, ThreadFrame DEF UnCalibrate, AcquireInv, machineVars
<1>4. CASE CancelCalibration
  BY <1>4, ThreadFrame DEF CancelCalibration, AcquireInv, machineVars
<1>5. CASE StartGuiding
  BY <1>5, JobNames, NoJobNoThread, ThreadFrame DEF StartGuiding, AcquireInv
<1>6. CASE StopGuiding
  BY <1>6, JobNames, CrashNoJob, NoJobNoThread, ThreadFrame DEF StopGuiding, AcquireInv
<1>7. ASSUME NEW j \in Job, StartJob(j) PROVE AcquisitionHasThread'
  BY <1>7 DEF StartJob, AcquisitionHasThread
<1> QED
  BY <1>1, <1>2, <1>3, <1>4, <1>5, <1>6, <1>7 DEF Request

\* The call that starts the thread is the one that may also fail to.
LEMMA ThreadOfContinue == AcquireInv /\ Continue => AcquisitionHasThread'
<1> SUFFICES ASSUME AcquireInv, Continue PROVE AcquisitionHasThread'
  OBVIOUS
<1> USE DEF machineVars, jobVars, clientVars, AcquireInv
<1>1. CASE StopOldProcess \/ OldProcessOutlives
  BY <1>1, CrashNoJob, NoJobNoThread, ThreadFrame DEF StopOldProcess, OldProcessOutlives
<1>2. CASE CalProcess
  BY <1>2, ThreadFrame DEF CalProcess
<1>3. CASE CalFlag
  BY <1>3, ThreadFrame DEF CalFlag
<1>4. CASE StopOldTracker
  BY <1>4, CrashNoJob, NoJobNoThread, ThreadFrame DEF StopOldTracker
<1>5. CASE GuideProcess
  BY <1>5, ThreadFrame DEF GuideProcess
<1>6. CASE GuideStart
  BY <1>6, CrashNoJob, NoJobNoThread, ThreadFrame DEF GuideStart
<1>7. CASE JobStart
  <2>1. CASE Crash
    BY <2>1, CrashNoJob, NoJobNoThread
  <2>2. CASE state' # state
    BY <1>7, <2>1, <2>2, JobNames, NoJobNoThread DEF JobStart, TypeOK, Rest
  <2>3. CASE state' = state /\ ~Crash /\ state \in Job
    <3>1. call = [at |-> "jobStart", what |-> state] => call.what = state
      OBVIOUS
    <3>2. /\ working \subseteq working'
          /\ call.what # state => stranded \ {call.what} \subseteq stranded'
          /\ call.what = state => state \in working' \cup stranded'
      BY <1>7, <2>3, JobNames DEF JobStart, TypeOK, Rest
    <3> QED
      BY <2>3, <3>1, <3>2 DEF AcquisitionHasThread
  <2> QED
    BY <2>1, <2>2, <2>3, NoJobNoThread
<1> QED
  BY <1>1, <1>2, <1>3, <1>4, <1>5, <1>6, <1>7 DEF Continue

LEMMA ThreadOfThreads ==
  AcquireInv /\ (Poll \/ TrackerEnd \/ \E d \in Device : Calibrate(d)) => AcquisitionHasThread'
<1> SUFFICES ASSUME AcquireInv, Poll \/ TrackerEnd \/ \E d \in Device : Calibrate(d)
             PROVE  AcquisitionHasThread'
  OBVIOUS
<1> USE DEF machineVars, jobVars, clientVars, pollVars
<1>1. call' = call /\ UNCHANGED <<working, stranded>> /\ (state' = state \/ state' \notin Job)
  BY JobNames
  DEF Poll, PollDevices, PollFailCalibration, PollFailSet, PollTracker, PollStopGuiding,
      PollStopSet, TrackerEnd, Calibrate, CalComplete, CalSave, CalGiveUp, CalSet, CalDie
<1> QED
  BY <1>1, ThreadFrame, NoJobNoThread DEF AcquireInv

LEMMA ThreadOfAcquisition ==
  ASSUME AcquireInv, NEW j \in Job, Acquire(j) PROVE AcquisitionHasThread'
<1>0. CASE JobEnd(j)
  BY <1>0 DEF JobEnd, AcquireInv, AcquisitionHasThread, machineVars, clientVars
<1>1. CASE JobSet(j)
  BY <1>1, JobNames, NoJobNoThread DEF JobSet, AcquireInv, TypeOK, Rest
<1>2. CASE JobDies(j)
  BY <1>2 DEF JobDies, AcquireInv, AcquisitionHasThread, machineVars, clientVars
<1> QED
  BY <1>0, <1>1, <1>2 DEF Acquire

\* Whatever is started, completed, cancelled, polled or fails in whichever order,
\* the guider is in the state of an acquisition only while its thread runs or is
\* being started, or after a thread that died without its callback.
THEOREM AcquisitionsHaveThreads == Spec => []AcquisitionHasThread
<1>1. Init => AcquisitionHasThread
  BY JobNames DEF Init, AcquisitionHasThread
<1>2. AcquireInv /\ [Next]_vars => AcquisitionHasThread'
  <2>1. ASSUME AcquireInv, UNCHANGED vars PROVE AcquisitionHasThread'
    BY <2>1, ThreadFrame DEF AcquireInv, vars, machineVars, jobVars, clientVars, pollVars
  <2> QED
    BY <2>1, ThreadOfRequest, ThreadOfContinue, ThreadOfThreads, ThreadOfAcquisition DEF Next
<1> QED
  BY TypeCorrect, <1>1, <1>2, PTL DEF Spec, AcquireInv

---------------------------------------------------------------------------
\* Every calibration has its thread
\*
\* A calibration of the adaptive optics must still have its id when it
\* completes, or it would not count as complete: while the guider calibrates,
\* nobody takes it away.

CalibrationGoes ==
  state = "calibrating" =>
    \/ call.at = "calProcess" \/ broken
    \/ "AO" \in Device /\ calibration["AO"] = "complete"
    \/ \E d \in Device : process[d] \in {"saving"} \cup Setting
    \/ \E d \in Device : process[d] = "running" /\ (d = "GP" \/ calibration[d] # "none")

CalibrateInv == TypeOK /\ CalibrationGoes

LEMMA GoesFrame ==
  ASSUME CalibrationGoes, state' = state, UNCHANGED <<calibration, process, broken>>,
         call.at # "calProcess" \/ call' = call
  PROVE  CalibrationGoes'
  BY DEF CalibrationGoes

LEMMA NotCalibrating == ASSUME state' # "calibrating" PROVE CalibrationGoes'
  BY DEF CalibrationGoes

LEMMA CrashNotCalibrating == Crash => state' # "calibrating"
  BY DEF Crash

\* A calibrating guider lets the thread go on that looks at the devices.
LEMMA CheckGoes ==
  ASSUME TypeOK, NEW d \in Device, NEW may \in BOOLEAN, state = "calibrating" => may,
         CheckCalibrationState(d, may), UNCHANGED state
  PROVE  CalibrationGoes'
<1>1. CASE state = "calibrating"
  <2>1. process'[d] \in Setting
    BY <1>1 DEF CheckCalibrationState, canAcceptCalibration, canFailCalibration, Setting, TypeOK
  <2> QED
    BY <2>1 DEF CalibrationGoes
<1>2. CASE state # "calibrating"
  BY <1>2, NotCalibrating
<1> QED
  BY <1>1, <1>2

LEMMA GoesRequest == CalibrateInv /\ Request => CalibrationGoes'
<1> SUFFICES ASSUME CalibrateInv, Request PROVE CalibrationGoes'
  OBVIOUS
<1> USE DEF machineVars, deviceVars, clientVars, Free, NoCall, CalibrateInv
<1>1. ASSUME NEW d \in Device, StartCalibration(d) PROVE CalibrationGoes'
  BY <1>1 DEF StartCalibration, CalibrationGoes
<1>2. ASSUME NEW d \in Device, UseCalibration(d) PROVE CalibrationGoes'
  BY <1>2, NotCalibrating DEF UseCalibration
<1>3. ASSUME NEW d \in Device, UnCalibrate(d) PROVE CalibrationGoes'
  BY <1>3, NotCalibrating, CrashNotCalibrating DEF UnCalibrate
<1>4. CASE CancelCalibration
  BY <1>4, GoesFrame DEF CancelCalibration
<1>5. CASE StartGuiding
  BY <1>5, NotCalibrating, GoesFrame DEF StartGuiding
<1>6. CASE StopGuiding
  BY <1>6, NotCalibrating, CrashNotCalibrating, GoesFrame DEF StopGuiding
<1>7. ASSUME NEW j \in Job, StartJob(j) PROVE CalibrationGoes'
  BY <1>7, JobNames, NotCalibrating DEF StartJob
<1> QED
  BY <1>1, <1>2, <1>3, <1>4, <1>5, <1>6, <1>7 DEF Request

LEMMA GoesContinue == CalibrateInv /\ Continue => CalibrationGoes'
<1> SUFFICES ASSUME CalibrateInv, Continue PROVE CalibrationGoes'
  OBVIOUS
<1> USE DEF machineVars, deviceVars, clientVars, CalibrateInv
<1>1. CASE StopOldProcess \/ OldProcessOutlives
  BY <1>1, NotCalibrating, CrashNotCalibrating, GoesFrame
  DEF StopOldProcess, OldProcessOutlives
<1>2. CASE CalProcess
  <2>1. call.what \in Device
    BY <1>2, CallParts DEF CalProcess, TypeOK
  <2>2. \/ broken'
        \/ process'[call.what] = "running" /\ calibration'[call.what] = "incomplete"
    BY <1>2, <2>1 DEF CalProcess, TypeOK
  <2> QED
    BY <2>1, <2>2 DEF CalibrationGoes
<1>3. CASE CalFlag
  BY <1>3, GoesFrame DEF CalFlag
<1>4. CASE StopOldTracker
  BY <1>4, NotCalibrating, CrashNotCalibrating, GoesFrame DEF StopOldTracker
<1>5. CASE GuideProcess
  BY <1>5, GoesFrame DEF GuideProcess
<1>6. CASE GuideStart
  BY <1>6, NotCalibrating, CrashNotCalibrating, GoesFrame DEF GuideStart
<1>7. CASE JobStart
  <2>1. CASE state' # state
    BY <1>7, <2>1, NotCalibrating, CrashNotCalibrating DEF JobStart, TypeOK, Rest
  <2> QED
    BY <1>7, <2>1, NotCalibrating, CrashNotCalibrating, GoesFrame DEF JobStart
<1> QED
  BY <1>1, <1>2, <1>3, <1>4, <1>5, <1>6, <1>7 DEF Continue

LEMMA GoesCalibrate ==
  ASSUME CalibrateInv, NEW d \in Device, Calibrate(d) PROVE CalibrationGoes'
<1>1. CASE CalComplete(d)
  <2> USE DEF machineVars, clientVars, CalibrateInv
  <2>1. /\ state' = state /\ call' = call /\ broken' = broken
        /\ calibration \in [Device -> {"none", "incomplete", "complete"}]
        /\ process \in [Device -> {"none"} \cup Active]
    BY <1>1 DEF CalComplete, TypeOK
  <2>2. CASE d = "GP"
    BY <1>1, <2>1, <2>2 DEF CalComplete, CalibrationGoes
  <2>3. CASE d # "GP"
    <3>1. d = "AO"
      BY <2>3, GuiderAssumption
    <3>2. calibration[d] # "none" => calibration'["AO"] = "complete"
      BY <1>1, <2>1, <3>1 DEF CalComplete
    <3>3. \A e \in Device : e # d => process'[e] = process[e] /\ calibration'[e] = calibration[e]
      BY <1>1, <2>1 DEF CalComplete
    <3>4. calibration[d] = "none" => calibration' = calibration
      BY <1>1, <2>1 DEF CalComplete
    <3>5. process[d] = "running"
      BY <1>1 DEF CalComplete
    <3> QED
      BY <2>1, <3>1, <3>2, <3>3, <3>4, <3>5 DEF CalibrationGoes, Setting
  <2> QED
    BY <2>2, <2>3
<1>2. CASE CalSave(d)
  BY <1>2, CheckGoes DEF CalSave, CalibrateInv, machineVars, canAcceptCalibration
<1>3. CASE CalGiveUp(d)
  BY <1>3, CheckGoes DEF CalGiveUp, CalibrateInv, machineVars, canFailCalibration
<1>4. CASE CalSet(d)
  BY <1>4, NotCalibrating DEF CalSet
<1>5. CASE CalDie(d)
  BY <1>5, NotCalibrating DEF CalDie, CalibrationGoes, machineVars
<1> QED
  BY <1>1, <1>2, <1>3, <1>4, <1>5 DEF Calibrate

LEMMA GoesOthers ==
  CalibrateInv /\ (Poll \/ TrackerEnd \/ \E j \in Job : Acquire(j)) => CalibrationGoes'
<1> SUFFICES ASSUME CalibrateInv, Poll \/ TrackerEnd \/ \E j \in Job : Acquire(j)
             PROVE  CalibrationGoes'
  OBVIOUS
<1>1. call' = call /\ UNCHANGED <<calibration, process, broken>>
  BY DEF Poll, PollDevices, PollFailCalibration, PollFailSet, PollTracker, PollStopGuiding,
         PollStopSet, TrackerEnd, Acquire, JobEnd, JobSet, JobDies, deviceVars, clientVars
<1>2. state' = state \/ state' # "calibrating"
  BY DEF Poll, PollDevices, PollFailCalibration, PollFailSet, PollTracker, PollStopGuiding,
         PollStopSet, TrackerEnd, Acquire, JobEnd, JobSet, JobDies, machineVars,
         CalibrateInv, TypeOK, Rest
<1> QED
  BY <1>1, <1>2, GoesFrame, NotCalibrating DEF CalibrateInv

\* The guider does not stay in calibrating without a thread to lead it out, but
\* after a start that failed, and after a process of the adaptive optics that
\* completed or died without a callback.
THEOREM CalibrationsHaveThreads == Spec => []CalibratingHasThread
<1>1. Init => CalibrationGoes
  BY DEF Init, CalibrationGoes
<1>2. CalibrateInv /\ [Next]_vars => CalibrationGoes'
  <2>1. ASSUME CalibrateInv, UNCHANGED vars PROVE CalibrationGoes'
    BY <2>1, GoesFrame DEF CalibrateInv, vars, machineVars, deviceVars, clientVars
  <2> QED
    BY <2>1, GoesRequest, GoesContinue, GoesCalibrate, GoesOthers DEF Next
<1>3. CalibrationGoes => CalibratingHasThread
  BY DEF CalibrationGoes, CalibratingHasThread, Active
<1> QED
  BY TypeCorrect, <1>1, <1>2, <1>3, PTL DEF Spec, CalibrateInv

---------------------------------------------------------------------------
\* What may end guiding
\*
\* An actor sets the state only after its test, and no test passes while the
\* guider is guiding: whoever is about to set the state then, had passed its test
\* before guiding began.

LateInv ==
  /\ TypeOK
  /\ state = "guiding" =>
       /\ \A d \in Device : process[d] \in Setting => d \in overtaken
       /\ ending \subseteq overtaken
       /\ poll = "failSet" => "poll" \in overtaken

LEMMA LateNotGuiding == ASSUME TypeOK', state' # "guiding" PROVE LateInv'
  BY DEF LateInv

LEMMA LateFrame ==
  ASSUME LateInv, TypeOK', UNCHANGED <<state, process, ending, poll, overtaken>>
  PROVE  LateInv'
  BY DEF LateInv

LEMMA LateRequest == ASSUME LateInv, Request PROVE LateInv'
<1>0. TypeOK'
  BY TypeRequest DEF LateInv
<1> USE <1>0 DEF machineVars, deviceVars, jobVars, clientVars, pollVars
<1>1. ASSUME NEW d \in Device, StartCalibration(d) \/ UseCalibration(d) PROVE LateInv'
  BY <1>1, LateNotGuiding DEF StartCalibration, UseCalibration
<1>2. ASSUME NEW d \in Device, UnCalibrate(d) PROVE LateInv'
  BY <1>2, LateNotGuiding, LateFrame DEF UnCalibrate, Crash
<1>3. CASE CancelCalibration
  BY <1>3, LateFrame DEF CancelCalibration
<1>4. CASE StartGuiding
  <2>1. CASE state = "calibrated"
    <3>1. /\ UNCHANGED <<process, ending, poll>>
          /\ overtaken' = {d \in Device : process[d] \in Setting} \cup ending
                          \cup (IF poll = "failSet" THEN {"poll"} ELSE {})
      BY <1>4, <2>1 DEF StartGuiding
    <3> QED
      BY <3>1 DEF LateInv
  <2>2. CASE state # "calibrated"
    BY <1>4, <2>2, LateFrame DEF StartGuiding
  <2> QED
    BY <2>1, <2>2
<1>5. CASE StopGuiding
  <2>1. CASE Crash
    BY <2>1, LateNotGuiding DEF Crash
  <2>2. CASE ~Crash
    BY <1>5, <2>2, LateNotGuiding DEF StopGuiding
  <2> QED
    BY <2>1, <2>2
<1>6. ASSUME NEW j \in Job, StartJob(j) PROVE LateInv'
  BY <1>6, JobNames, LateNotGuiding DEF StartJob
<1> QED
  BY <1>1, <1>2, <1>3, <1>4, <1>5, <1>6 DEF Request

LEMMA LateContinue == ASSUME LateInv, Continue PROVE LateInv'
<1>0. TypeOK'
  BY TypeContinue DEF LateInv
<1> USE <1>0 DEF machineVars, deviceVars, jobVars, clientVars, pollVars
<1>1. CASE Crash
  BY <1>1, LateNotGuiding DEF Crash
<1>2. CASE CalProcess
  <2>1. UNCHANGED <<state, ending, poll, overtaken>>
        /\ (process' = process \/ process' = [process EXCEPT ![call.what] = "running"])
    BY <1>2 DEF CalProcess
  <2>2. \A d \in Device : process'[d] \in Setting => process[d] \in Setting
    BY <2>1 DEF LateInv, TypeOK, Setting
  <2> QED
    BY <2>1, <2>2 DEF LateInv
<1>3. CASE StopOldProcess \/ CalFlag \/ StopOldTracker \/ GuideProcess \/ GuideStart
  BY <1>1, <1>3, LateFrame DEF StopOldProcess, CalFlag, StopOldTracker, GuideProcess, GuideStart
<1>4. CASE JobStart
  <2>1. CASE state' = state
    BY <1>1, <1>4, <2>1, LateFrame DEF JobStart
  <2>2. CASE state' # state
    BY <1>1, <1>4, <2>2, LateNotGuiding DEF JobStart, LateInv, TypeOK, Rest
  <2> QED
    BY <2>1, <2>2
<1> QED
  BY <1>1, <1>2, <1>3, <1>4 DEF Continue, OldProcessOutlives

LEMMA LateCalibrate == ASSUME LateInv, NEW d \in Device, Calibrate(d) PROVE LateInv'
<1>0. TypeOK'
  BY TypeCalibrate DEF LateInv
<1> USE <1>0 DEF machineVars, jobVars, clientVars, pollVars
<1>1. CASE state # "guiding" /\ state' # "guiding"
  BY <1>1, LateNotGuiding
<1>2. CASE CalSet(d)
  BY <1>2, LateNotGuiding DEF CalSet
<1>3. CASE state = "guiding" /\ ~CalSet(d)
  <2>1. UNCHANGED <<state, ending, poll, overtaken>>
    BY <1>3 DEF Calibrate, CalComplete, CalSave, CalGiveUp, CalDie
  <2>2. process' = [process EXCEPT ![d] = "none"] \/ process' = [process EXCEPT ![d] = "saving"]
    BY <1>3 DEF Calibrate, CalComplete, CalSave, CalGiveUp, CalDie, CheckCalibrationState,
                EndProcess, canAcceptCalibration, canFailCalibration
  <2>3. \A e \in Device : process'[e] \in Setting => process[e] \in Setting
    BY <2>2 DEF LateInv, TypeOK, Setting
  <2> QED
    BY <2>1, <2>3 DEF LateInv
<1>4. CASE state # "guiding" /\ ~CalSet(d)
  <2>1. state' = state
    BY <1>4 DEF Calibrate, CalComplete, CalSave, CalGiveUp, CalDie
  <2> QED
    BY <1>1, <1>4, <2>1
<1> QED
  BY <1>2, <1>3, <1>4

LEMMA LateAcquire == ASSUME LateInv, NEW j \in Job, Acquire(j) PROVE LateInv'
<1>0. TypeOK'
  BY TypeAcquire DEF LateInv
<1> USE <1>0 DEF machineVars, deviceVars, clientVars, pollVars
<1>1. CASE JobEnd(j)
  BY <1>1, JobNames DEF JobEnd, LateInv
<1>2. CASE JobSet(j)
  BY <1>2, LateNotGuiding DEF JobSet, LateInv, TypeOK, Rest
<1>3. CASE JobDies(j)
  BY <1>3, LateFrame DEF JobDies
<1> QED
  BY <1>1, <1>2, <1>3 DEF Acquire

LEMMA LateOthers == ASSUME LateInv, Poll \/ TrackerEnd PROVE LateInv'
<1>0. TypeOK'
  BY TypePoll DEF LateInv
<1> USE <1>0 DEF machineVars, deviceVars, jobVars, clientVars, pollVars
<1>1. CASE PollFailSet \/ PollStopSet
  BY <1>1, LateNotGuiding DEF PollFailSet, PollStopSet
<1>2. CASE TrackerEnd
  BY <1>2, LateFrame DEF TrackerEnd
<1>3. CASE PollDevices \/ PollFailCalibration \/ PollTracker \/ PollStopGuiding
  BY <1>3 DEF PollDevices, PollFailCalibration, PollTracker, PollStopGuiding, LateInv,
              canFailCalibration
<1> QED
  BY <1>1, <1>2, <1>3 DEF Poll

LEMMA Late == Spec => []LateInv
<1>1. Init => LateInv
  <2> SUFFICES ASSUME Init PROVE LateInv
    OBVIOUS
  <2>1. TypeOK
    BY TypeInit
  <2> QED
    BY <2>1 DEF Init, LateInv
<1>2. LateInv /\ [Next]_vars => LateInv'
  <2>1. ASSUME LateInv, UNCHANGED vars PROVE LateInv'
    <3>1. TypeOK'
      BY <2>1, TypeStutter DEF LateInv
    <3> QED
      BY <2>1, <3>1, LateFrame DEF vars, machineVars, deviceVars, jobVars, pollVars
  <2> QED
    BY <2>1, LateRequest, LateContinue, LateCalibrate, LateAcquire, LateOthers DEF Next
<1> QED
  BY <1>1, <1>2, PTL DEF Spec

SparesGuiding ==
  state = "guiding" /\ state' # "guiding" /\ ~Crash =>
    \/ OvertakenSets
    \/ /\ state' = "calibrated"
       /\ UNCHANGED <<process, working>>
       /\ UNCHANGED poll \/ poll = "stopSet"

LEMMA SparesNext == LateInv /\ Next => SparesGuiding
<1> SUFFICES ASSUME LateInv, Next, state = "guiding", state' # "guiding", ~Crash
             PROVE  \/ OvertakenSets
                    \/ /\ state' = "calibrated"
                       /\ UNCHANGED <<process, working>>
                       /\ UNCHANGED poll \/ poll = "stopSet"
  BY DEF SparesGuiding
<1> USE JobNames DEF machineVars, deviceVars, jobVars, clientVars, pollVars
<1>1. ~Continue
  BY DEF Continue, StopOldProcess, OldProcessOutlives, CalProcess, CalFlag, StopOldTracker,
         GuideProcess, GuideStart, JobStart
<1>2. ASSUME NEW d \in Device, Calibrate(d) PROVE OvertakenSets
  <2>1. CalSet(d)
    BY <1>2 DEF Calibrate, CalComplete, CalSave, CalGiveUp, CalDie
  <2>2. process[d] \in Setting /\ process'[d] = "none" /\ d \in overtaken
    BY <2>1 DEF CalSet, EndProcess, LateInv, TypeOK
  <2> QED
    BY <2>2 DEF OvertakenSets
<1>3. ASSUME NEW j \in Job, Acquire(j) PROVE OvertakenSets
  <2>1. JobSet(j)
    BY <1>3 DEF Acquire, JobEnd, JobDies
  <2> QED
    BY <2>1 DEF JobSet, LateInv, OvertakenSets
<1>4. Request => StopGuiding
  BY DEF Request, StartCalibration, UseCalibration, UnCalibrate, CancelCalibration,
         StartGuiding, StartJob, canStart, Rest, canAcceptCalibration
<1>5. Poll => PollStopSet \/ OvertakenSets
  BY DEF Poll, PollDevices, PollFailCalibration, PollFailSet, PollTracker, PollStopGuiding,
         LateInv, OvertakenSets
<1>6. ~TrackerEnd
  BY DEF TrackerEnd
<1> QED
  BY <1>1, <1>2, <1>3, <1>4, <1>5, <1>6 DEF Next, StopGuiding, PollStopSet

\* Results that come late, of a calibration, of an acquisition or of a poll that
\* had seen a calibration, never end guiding, unless they had passed their test
\* of the state before it began.
THEOREM GuidingIsSpared == Spec => LateResultsSpareGuiding
<1>1. LateInv /\ [Next]_vars => [SparesGuiding]_vars
  BY SparesNext
<1> QED
  BY Late, <1>1, PTL DEF Spec, LateResultsSpareGuiding, SparesGuiding
=============================================================================
