------------------------------- MODULE Guider -------------------------------
(***************************************************************************)
(* The guider: src/control/lib/guiding/Guider*.cpp, the control devices it *)
(* calibrates, and the threads it starts: calibration processes, the       *)
(* tracking process, and the acquisition of darks, flats, images and       *)
(* backlash data.                                                          *)
(*                                                                         *)
(* One client operates the guider and a second one polls its state, as the *)
(* user interface does: state() is not a mere query, it ends a calibration *)
(* or a guiding run whose thread it believes gone.  Nothing serialises     *)
(* these calls, nor the callbacks of the threads: a call is as many        *)
(* actions as it has accesses another thread can come between.  The tests  *)
(* and assignments of the state machine are steps of their own in the      *)
(* threads and in the poll, and one step in the calls of the client.       *)
(***************************************************************************)
EXTENDS Naturals, FiniteSets

CONSTANTS
  Device,  \* the control devices of this guider: "GP", "AO" or both
  Job,     \* the acquisitions the client asks for
  Threads  \* bound on the threads that run when the client starts another

ASSUME ThreadsAssumption == Threads \in Nat
ASSUME GuiderAssumption ==
  /\ Device \subseteq {"GP", "AO"}
  /\ Job \subseteq {"darkacquire", "flatacquire", "imaging", "backlash"}

VARIABLES
  state,        \* _state of the GuiderStateMachine
  prestate,     \* the state to return to after an acquisition
  calibration,  \* per device: whether its calibration has an id, and is complete
  calibrating,  \* _calibrating of each device
  process,      \* the thread of each device's calibration process
  halt,         \* those told to terminate
  tracker,      \* the tracking process: none, without or with a running thread
  stopped,      \* whether this thread is told to terminate
  working,      \* the acquisitions whose thread runs
  ending,       \* those of them that have found they may end their state
  call,         \* where the client's call is
  poll,         \* where the poller's call of state() is
  stranded,     \* history: jobs that ended with nobody to end their state
  broken,       \* history: the calibration last started broke off, in the call
                \* or in its thread, without telling the guider
  overtaken     \* history: while guiding, who had passed its test of the state
                \* when guiding began

machineVars == <<state, prestate>>
deviceVars == <<calibration, calibrating, process, halt>>
trackerVars == <<tracker, stopped>>
jobVars == <<working, ending, stranded>>
clientVars == <<call, broken>>
pollVars == <<poll, overtaken>>
vars == <<machineVars, deviceVars, trackerVars, jobVars,
          clientVars, pollVars>>

Rest == {"idle", "calibrated"}
Setting == {"accepting", "rejecting"}
Active == {"running", "saving"} \cup Setting
NoCall == [at |-> "none", what |-> "none"]
Call == [at : {"calProcess", "calFlag"}, what : Device]
        \cup [at : {"jobStart"}, what : Job]
        \cup [at : {"guideProcess", "guideStart"}, what : {"tracker"}]
        \cup {NoCall}

TypeOK ==
  /\ state \in {"idle", "calibrating", "calibrated", "guiding"} \cup Job
  /\ prestate \in Rest
  /\ calibration \in [Device -> {"none", "incomplete", "complete"}]
  /\ calibrating \in [Device -> BOOLEAN]
  /\ process \in [Device -> {"none"} \cup Active]
  /\ halt \in [Device -> BOOLEAN]
  /\ tracker \in {"none", "still", "running"}
  /\ stopped \in BOOLEAN
  /\ working \subseteq Job /\ ending \subseteq Job
  /\ call \in Call
  /\ poll \in {"none", "failCalibration", "failSet", "stopGuiding", "stopSet"}
  /\ overtaken \subseteq Device \cup Job \cup {"poll"}
  /\ stranded \subseteq Job
  /\ broken \in BOOLEAN

\* The constructor ends with configure(), which leaves "unconfigured" for good.
Init ==
  /\ state = "idle" /\ prestate = "idle"
  /\ calibration = [d \in Device |-> "none"]
  /\ calibrating = [d \in Device |-> FALSE]
  /\ process = [d \in Device |-> "none"]
  /\ halt = [d \in Device |-> FALSE]
  /\ tracker = "none" /\ stopped = FALSE
  /\ working = {} /\ ending = {} /\ stranded = {}
  /\ call = NoCall /\ broken = FALSE
  /\ poll = "none" /\ overtaken = {}

\* A null pointer is dereferenced, or memory that was freed is used: the
\* server dies, and the guider of the next one is a new guider.
Crash ==
  /\ state' = "idle" /\ prestate' = "idle"
  /\ calibration' = [d \in Device |-> "none"]
  /\ calibrating' = [d \in Device |-> FALSE]
  /\ process' = [d \in Device |-> "none"]
  /\ halt' = [d \in Device |-> FALSE]
  /\ tracker' = "none" /\ stopped' = FALSE
  /\ working' = {} /\ ending' = {} /\ stranded' = {}
  /\ call' = NoCall /\ broken' = FALSE
  /\ poll' = "none" /\ overtaken' = {}

---------------------------------------------------------------------------
\* What the state machine accepts

canStart == state \in Rest            \* calibrating and the acquisitions
canAcceptCalibration == state # "guiding"
canFailCalibrationSlip == state # "calibrated"
canFailCalibration == state # "guiding"

\* A device is calibrated as soon as its calibration has an id in the
\* database, which it gets before the first point is measured.
iscalibrated(d) == calibration[d] # "none"

\* The thread of the calibration process of d has ended.
EndProcess(d) ==
  /\ process' = [process EXCEPT ![d] = "none"]
  /\ halt' = [halt EXCEPT ![d] = FALSE]

\* saveCalibration() and forgetCalibration() both end in this, after a test of
\* their own: it looks at the devices and tests the state once more.  The state
\* is set in a later step, see CalSet.
CheckCalibrationState(d, may) ==
  LET some == \E e \in Device : iscalibrated(e)
  IN  IF may /\ (IF some THEN canAcceptCalibration ELSE canFailCalibration)
      THEN /\ process' = [process EXCEPT ![d] = IF some THEN "accepting" ELSE "rejecting"]
           /\ UNCHANGED halt
      ELSE EndProcess(d)

---------------------------------------------------------------------------
\* Calibration: the client's calls

Free == call = NoCall

\* The client starts something: the threads of what it started before may still
\* run.
Begin ==
  /\ Free
  /\ Cardinality({d \in Device : process[d] # "none"} \cup working \cup
                 {t \in {"tracker"} : tracker = "running"}) <= Threads

StartCalibration(d) ==
  /\ Begin /\ canStart
  /\ state' = "calibrating"
  /\ call' = [at |-> "calProcess", what |-> d]
  /\ broken' = FALSE
  /\ UNCHANGED <<prestate, deviceVars, trackerVars, jobVars, pollVars>>

\* Replacing the process destroys the one before, which stops its thread ...
StopOldProcess ==
  /\ call.at = "calProcess" /\ process[call.what] \in Active
  /\ ~halt[call.what]
  /\ halt' = [halt EXCEPT ![call.what] = TRUE]
  /\ UNCHANGED <<machineVars, calibration, calibrating, process,
                 trackerVars, jobVars, clientVars, pollVars>>

\* ... and waits for it: that of the guide port for a minute, that of the
\* adaptive optics only when it has destroyed what the thread works with.
OldProcessOutlives ==
  /\ call.at = "calProcess" /\ process[call.what] \in Active
  /\ halt[call.what]
  /\ Crash

\* The new calibration is incomplete, and has an id
\* once the database has a record of it; then the thread is started.  An
\* exception leaves neither.
CalProcess ==
  /\ call.at = "calProcess" /\ process[call.what] \notin Active
  /\ \/ /\ calibration' = [calibration EXCEPT ![call.what] = "incomplete"]
        /\ process' = [process EXCEPT ![call.what] = "running"]
        /\ call' = [call EXCEPT !.at = "calFlag"] /\ UNCHANGED broken
     \/ /\ calibration' = [calibration EXCEPT ![call.what] = "none"]
        /\ call' = NoCall /\ broken' = TRUE
        /\ UNCHANGED process
  /\ UNCHANGED <<machineVars, calibrating, halt, trackerVars, jobVars, pollVars>>

CalFlag ==
  /\ call.at = "calFlag"
  /\ calibrating' = [calibrating EXCEPT ![call.what] = TRUE]
  /\ call' = NoCall
  /\ UNCHANGED <<machineVars, calibration, process, halt,
                 trackerVars, jobVars, broken, pollVars>>

CancelCalibration ==
  /\ Free /\ state = "calibrating"
  /\ halt' = [d \in Device |-> process[d] # "none" /\ (halt[d] \/ calibrating[d])]
  /\ UNCHANGED <<machineVars, calibration, calibrating, process,
                 trackerVars, jobVars, clientVars, pollVars>>

\* A complete calibration from the database; the state changes before the
\* calibration is read, which may fail.
UseCalibration(d) ==
  /\ Free /\ canAcceptCalibration
  /\ state' = "calibrated"
  /\ calibration' \in {calibration, [calibration EXCEPT ![d] = "complete"]}
  /\ UNCHANGED <<prestate, calibrating, process, halt, trackerVars,
                 jobVars, clientVars, pollVars>>

\* The test whether any device is still calibrated takes both for granted;
\* the return to idle is refused by configure().
UnCalibrate(d) ==
  /\ Free /\ state \notin {"calibrating", "guiding"}
  /\ IF Device = {"GP", "AO"}
     THEN /\ calibration' = [calibration EXCEPT ![d] = "none"]
          /\ UNCHANGED <<machineVars, calibrating, process, halt,
                         trackerVars, jobVars, clientVars, pollVars>>
     ELSE Crash

---------------------------------------------------------------------------
\* Calibration: the thread

\* The end callback reaches all devices: each clears its flag, before it looks
\* for its own record in the database, which it may not have.
FlagsAfterCompletion == [e \in Device |-> FALSE]

\* The process of the guide port goes on to call saveCalibration(), that of
\* the adaptive optics does not.  A process told to terminate after its last
\* point completes as well.
CalComplete(d) ==
  /\ process[d] = "running"
  /\ calibration' = [calibration EXCEPT ![d] = IF @ = "none" THEN "none" ELSE "complete"]
  /\ calibrating' = FlagsAfterCompletion
  /\ process' = [process EXCEPT ![d] = IF d = "GP" THEN "saving" ELSE "none"]
  /\ UNCHANGED <<machineVars, halt, trackerVars, jobVars,
                 clientVars, pollVars>>

CalSave(d) ==
  /\ process[d] = "saving"
  /\ CheckCalibrationState(d, canAcceptCalibration)
  /\ UNCHANGED <<machineVars, calibration, calibrating,
                 trackerVars, jobVars, clientVars, pollVars>>

\* Cancelled, or failed with an exception: forgetCalibration() is called, by
\* the redirector of progress information or by main().
CalGiveUpSlip(d) ==
  /\ process[d] = "running"
  /\ IF halt[d] THEN EndProcess(d) ELSE CheckCalibrationState(d, canFailCalibration)
  /\ UNCHANGED <<machineVars, calibration, calibrating,
                 trackerVars, jobVars, clientVars, pollVars>>
CalGiveUp(d) ==
  /\ process[d] = "running"
  /\ CheckCalibrationState(d, canFailCalibration)
  /\ UNCHANGED <<machineVars, calibration, calibrating,
                 trackerVars, jobVars, clientVars, pollVars>>

\* addCalibration() and failCalibration() set the state.
CalSet(d) ==
  /\ process[d] \in Setting
  /\ state' = IF process[d] = "accepting" THEN "calibrated" ELSE "idle"
  /\ EndProcess(d)
  /\ overtaken' = {}
  /\ UNCHANGED <<prestate, calibration, calibrating,
                 trackerVars, jobVars, clientVars, poll>>

\* The adaptive optics fails when it is centred after a cancellation, or no
\* calibration can be computed from the points: these exceptions end the thread
\* with no callback, and with the flag still set.
CalDie(d) ==
  /\ d = "AO" /\ process[d] = "running"
  /\ EndProcess(d)
  /\ broken' = (broken \/ state = "calibrating")
  /\ UNCHANGED <<machineVars, calibration, calibrating,
                 trackerVars, jobVars, call, pollVars>>

---------------------------------------------------------------------------
\* Guiding

StartGuiding ==
  /\ Begin
  /\ \/ /\ state = "calibrated" /\ state' = "guiding"
        /\ call' = [at |-> "guideProcess", what |-> "tracker"]
        /\ overtaken' = {d \in Device : process[d] \in Setting} \cup ending
                        \cup (IF poll = "failSet" THEN {"poll"} ELSE {})
     \/ state # "calibrated" /\ UNCHANGED <<state, call, overtaken>>
  /\ UNCHANGED <<prestate, deviceVars, trackerVars, jobVars, broken, poll>>

\* The process before is destroyed: the filter goes first, which the thread
\* may still use; then the thread is stopped and joined.
StopOldTracker ==
  /\ call.at = "guideProcess" /\ tracker = "running" /\ ~stopped
  /\ \/ /\ stopped' = TRUE
        /\ UNCHANGED <<machineVars, deviceVars, tracker, jobVars,
                       clientVars, pollVars>>
     \/ Crash

GuideProcess ==
  /\ call.at = "guideProcess" /\ tracker # "running"
  /\ tracker' = "still" /\ UNCHANGED stopped
  /\ call' = [call EXCEPT !.at = "guideStart"]
  /\ UNCHANGED <<machineVars, deviceVars, jobVars, broken, pollVars>>

\* A poll may have taken the new process away.
GuideStart ==
  /\ call.at = "guideStart"
  /\ IF tracker = "none" THEN Crash
     ELSE /\ tracker' = "running" /\ call' = NoCall
          /\ UNCHANGED <<machineVars, deviceVars, stopped, jobVars,
                         broken, pollVars>>

\* The state changes at once, the thread ends when it looks at _terminate.
StopGuiding ==
  /\ Free
  /\ IF tracker = "none" THEN Crash
     ELSE /\ stopped' = (tracker = "running")
          /\ state' = IF state = "guiding" THEN "calibrated" ELSE state
          /\ overtaken' = {}
          /\ UNCHANGED <<prestate, deviceVars, tracker, jobVars,
                         clientVars, poll>>

\* The thread ends when it was stopped, or has lost the star.
TrackerEnd ==
  /\ tracker = "running" /\ tracker' = "still" /\ stopped' = FALSE
  /\ UNCHANGED <<machineVars, deviceVars, jobVars, clientVars, pollVars>>

---------------------------------------------------------------------------
\* Acquisitions

StartJob(j) ==
  /\ Begin /\ canStart
  /\ prestate' = state /\ state' = j /\ stranded' = {}
  /\ call' = [at |-> "jobStart", what |-> j]
  /\ UNCHANGED <<deviceVars, trackerVars, working, ending, broken, pollVars>>

\* The thread of the acquisition before is joined, but what it works on is
\* deleted first.  If no thread can be started, callback(exception) ends
\* whatever acquisition the state is now; only the backlash has no such end.
JobStartSlip ==
  /\ call.at = "jobStart"
  /\ \/ /\ call.what \notin working /\ call' = NoCall
        /\ \/ /\ working' = working \cup {call.what}
              /\ stranded' = stranded \ {call.what}
              /\ UNCHANGED state
           \/ UNCHANGED <<state, working, stranded>>
        /\ UNCHANGED <<prestate, deviceVars, trackerVars, ending, broken,
                       pollVars>>
     \/ call.what \in working /\ Crash
JobStart ==
  /\ call.at = "jobStart"
  /\ \/ /\ call.what \notin working /\ call' = NoCall
        /\ \/ /\ working' = working \cup {call.what}
              /\ stranded' = stranded \ {call.what}
              /\ UNCHANGED state
           \/ /\ call.what = "backlash" /\ stranded' = stranded \cup {"backlash"}
              /\ UNCHANGED <<state, working>>
           \/ /\ call.what # "backlash"
              /\ state' = IF state \in Job THEN prestate ELSE state
              /\ UNCHANGED <<working, stranded>>
        /\ UNCHANGED <<prestate, deviceVars, trackerVars, ending, broken,
                       pollVars>>
     \/ call.what \in working /\ Crash

\* The end callback, which a failed image or backlash run sends as well: it
\* tests whether the guider is in the state of this acquisition ...
JobEnd(j) ==
  /\ j \in working \ ending
  /\ IF state = j THEN ending' = ending \cup {j} /\ UNCHANGED working
     ELSE working' = working \ {j} /\ UNCHANGED ending
  /\ UNCHANGED <<machineVars, deviceVars, trackerVars, stranded, clientVars,
                 pollVars>>

\* ... and goes back to the state before, whatever the state is now.
JobSet(j) ==
  /\ j \in ending
  /\ ending' = ending \ {j} /\ working' = working \ {j}
  /\ state' = prestate
  /\ overtaken' = {}
  /\ UNCHANGED <<prestate, deviceVars, trackerVars, stranded, clientVars, poll>>

\* An exception ends the thread of a dark or a flat without a callback.
JobDies(j) ==
  /\ j \in {"darkacquire", "flatacquire"}
  /\ j \in working \ ending /\ working' = working \ {j}
  /\ stranded' = stranded \cup ({j} \cap {state})
  /\ UNCHANGED <<machineVars, deviceVars, trackerVars, ending, clientVars, pollVars>>

---------------------------------------------------------------------------
\* The poll: state()

\* It reads the state, and what there is of devices and threads; then it tests
\* the state, and sets it.
PollDevices ==
  /\ poll = "none" /\ state = "calibrating"
  /\ \A d \in Device : ~calibrating[d]
  /\ poll' = "failCalibration"
  /\ UNCHANGED <<machineVars, deviceVars, trackerVars, jobVars, clientVars, overtaken>>

PollFailCalibration ==
  /\ poll = "failCalibration"
  /\ poll' = IF canFailCalibration THEN "failSet" ELSE "none"
  /\ UNCHANGED <<machineVars, deviceVars, trackerVars, jobVars, clientVars, overtaken>>

PollFailSet ==
  /\ poll = "failSet" /\ poll' = "none"
  /\ state' = "idle"
  /\ overtaken' = {}
  /\ UNCHANGED <<prestate, deviceVars, trackerVars, jobVars, clientVars>>

\* The process is destroyed if it has no running thread.
PollTrackerSlip ==
  /\ poll = "none" /\ state = "guiding" /\ tracker = "none"
  /\ poll' = "stopGuiding" /\ UNCHANGED tracker
  /\ UNCHANGED <<machineVars, deviceVars, stopped, jobVars, clientVars, overtaken>>
PollTracker ==
  /\ poll = "none" /\ state = "guiding" /\ tracker # "running"
  /\ poll' = "stopGuiding" /\ tracker' = "none"
  /\ UNCHANGED <<machineVars, deviceVars, stopped, jobVars, clientVars, overtaken>>

PollStopGuiding ==
  /\ poll = "stopGuiding"
  /\ poll' = IF state = "guiding" THEN "stopSet" ELSE "none"
  /\ UNCHANGED <<machineVars, deviceVars, trackerVars, jobVars, clientVars, overtaken>>

PollStopSet ==
  /\ poll = "stopSet" /\ poll' = "none"
  /\ state' = "calibrated"
  /\ overtaken' = {}
  /\ UNCHANGED <<prestate, deviceVars, trackerVars, jobVars, clientVars>>

---------------------------------------------------------------------------
Request ==
  \/ \E d \in Device : StartCalibration(d) \/ UseCalibration(d) \/ UnCalibrate(d)
  \/ CancelCalibration \/ StartGuiding \/ StopGuiding
  \/ \E j \in Job : StartJob(j)

Continue == \/ StopOldProcess \/ OldProcessOutlives \/ CalProcess \/ CalFlag
            \/ StopOldTracker \/ GuideProcess \/ GuideStart \/ JobStart

Calibrate(d) == \/ CalComplete(d) \/ CalSave(d) \/ CalGiveUp(d) \/ CalSet(d)
                \/ CalDie(d)
Acquire(j) == JobEnd(j) \/ JobSet(j) \/ JobDies(j)
Poll == \/ PollDevices \/ PollFailCalibration \/ PollFailSet
        \/ PollTracker \/ PollStopGuiding \/ PollStopSet

Next ==
  \/ Request \/ Continue \/ Poll \/ TrackerEnd
  \/ \E d \in Device : Calibrate(d)
  \/ \E j \in Job : Acquire(j)

Spec == Init /\ [][Next]_vars

\* The user interface polls; no fairness of the threads or the client's calls is
\* needed for what is promised below.
FairSpec == Spec /\ WF_vars(Poll)

---------------------------------------------------------------------------
\* While the guider is in the state of an acquisition, its thread runs or is
\* about to be started: whichever calls and late callbacks come in between,
\* only a thread that died without a callback leaves the state behind.
AcquisitionHasThread ==
  state \in Job => \/ call = [at |-> "jobStart", what |-> state]
                   \/ state \in working
                   \/ state \in stranded

\* A calibrating guider has a calibration thread that will end this state, or
\* a call about to start one.  The exceptions are a start that failed and a
\* thread of the adaptive optics that died, both without a word to the guider,
\* and a completed process of the adaptive optics, which does not call
\* saveCalibration().  From the first and the last a poll leads on; after the
\* second the device counts as calibrating for ever, and only useCalibration()
\* ends the state.
CalibratingHasThread ==
  state = "calibrating" =>
    \/ call.at = "calProcess"
    \/ \E d \in Device : process[d] \in Active
    \/ broken
    \/ "AO" \in Device /\ calibration["AO"] = "complete"

\* One that had passed its test of the state before guiding began sets it now.
OvertakenSets ==
  \/ \E d \in Device \cap overtaken : process[d] \in Setting /\ process'[d] = "none"
  \/ \E j \in Job \cap overtaken : j \in ending /\ j \notin ending'
  \/ "poll" \in overtaken /\ poll = "failSet" /\ poll' = "none"

\* Nothing but stopGuiding() and a poll that found no running thread ends
\* guiding: no calibration that completes or is given up late, no poll that
\* had seen a calibration, no acquisition.  The exception are those that had
\* passed their test of the state before guiding began, as the state machine has
\* no lock that would keep test and assignment together.
LateResultsSpareGuiding ==
  [][state = "guiding" /\ state' # "guiding" /\ ~Crash =>
       \/ OvertakenSets
       \/ /\ state' = "calibrated"
          /\ UNCHANGED <<process, working>>
          /\ UNCHANGED poll \/ poll = "stopSet"]_vars

\* A guider whose tracking thread has ended does not stay in the state
\* guiding, as somebody polls.
GuidingEnds ==
  (state = "guiding" /\ tracker # "running") ~>
  (state # "guiding" \/ tracker = "running")

\* What GPCalibrationProcess.cpp says of a calibration that failed, that the
\* guider should go back to the idle state.
FailedStaysUncalibrated ==
  [][\A d \in Device :
       /\ process[d] \in Active /\ process'[d] = "none"
       /\ \A e \in Device : calibration'[e] # "complete"
       => ~(state = "calibrating" /\ state' = "calibrated")]_vars
=============================================================================
