---------------------------- MODULE ExposureTask ----------------------------
(***************************************************************************)
(* What a task executor does: the works of src/control/lib/task            *)
(* (ExposureWork, SleepWork, DitherWork) with the cancellable waits of     *)
(* CancellableWork, on the simulated camera of drivers/simulator/SimCcd.   *)
(*                                                                         *)
(* Tasks follow each other on one camera, as the queue never runs two on   *)
(* it (ResourceExclusion of TaskQueue).  Somebody may cancel at any time,  *)
(* and another client may fetch the image of the camera or cancel its      *)
(* exposure.  Times are relative to now and pass in ticks; the thread of a *)
(* work is prompt: no time passes while it has something to do.            *)
(***************************************************************************)
EXTENDS Integers

CONSTANTS
  Kind,      \* the kinds of tasks: "exposure", "sleep", "dither"
  Device,    \* what exposures may use beside the camera: "wheel", "cooler"
  Second,    \* the ticks of a second
  WaitTime,  \* how long the waits for devices, sleep and dither may take
  Exposure,  \* exposure times
  Slack,     \* what is added to the wait for an image
  MaxTasks,  \* bound on the number of tasks
  MaxEarly   \* bound on wakeups for no reason in one wait

ASSUME ExposureAssumption ==
  /\ Kind \subseteq {"exposure", "sleep", "dither"}
  /\ Device \subseteq {"wheel", "cooler"}
  /\ Second \in Nat \ {0} /\ Slack \in Nat
  /\ WaitTime \subseteq Nat /\ Exposure \subseteq Nat
  /\ MaxTasks \in Nat /\ MaxEarly \in Nat

VARIABLES
  task,       \* the number of the task
  kind,       \* its kind
  devices,    \* what it uses beside the camera
  stage,      \* what its work does
  cancelled,  \* _cancelled of the work
  outcome,    \* the state the executor gives the task
  at,         \* where the thread is in CancellableWork::wait()
  until,      \* final - now
  ahead,      \* next - now; the time left of a sleep without cancellation
  settled,    \* the filter wheel or the cooler waited for has settled
  ccd,        \* _state of the camera
  builder,    \* its image thread: none, running, or ended and not joined
  left,       \* the time it still needs
  shot,       \* the task whose exposure it builds
  picture,    \* the task whose exposure _image is
  saved,      \* the task whose image the last complete exposure saved
  early,      \* history: wakeups for no reason in this wait
  unseen,     \* history: the time since what is waited for has happened
  abandoned   \* history: a work has ended without its camera

workVars == <<task, kind, devices, outcome>>
waitVars == <<at, until, ahead>>
cameraVars == <<ccd, builder, left, shot, picture>>
historyVars == <<early, unseen, abandoned>>
vars == <<workVars, stage, cancelled, waitVars, settled, cameraVars, saved, historyVars>>

\* The waits with a condition, and all others.
Waiting == {"wheel", "cooler", "settle", "image", "dither"}
Stage == Waiting \cup {"none", "start", "gateway", "fetch", "safe", "pause", "aborted"}

TypeOK ==
  /\ task \in 0..MaxTasks /\ kind \in Kind \cup {"none"} /\ devices \subseteq Device
  /\ stage \in Stage /\ cancelled \in BOOLEAN
  /\ outcome \in {"none", "executing", "complete", "failed", "cancelled"}
  /\ at \in {"off", "look", "doze", "asleep", "woken"}
  /\ until \in Nat /\ ahead \in Nat
  /\ settled \in BOOLEAN
  /\ ccd \in {"idle", "exposing", "exposed"}
  /\ builder \in {"none", "running", "ended"} /\ left \in Nat
  /\ shot \in 0..MaxTasks /\ picture \in 0..MaxTasks /\ saved \in 0..MaxTasks
  /\ early \in 0..MaxEarly /\ unseen \in Nat /\ abandoned \in BOOLEAN

Init ==
  /\ task = 0 /\ kind = "none" /\ devices = {} /\ outcome = "none"
  /\ stage = "none" /\ cancelled = FALSE
  /\ at = "off" /\ until = 0 /\ ahead = 0 /\ settled = FALSE
  /\ ccd = "idle" /\ builder = "none" /\ left = 0 /\ shot = 0 /\ picture = 0 /\ saved = 0
  /\ early = 0 /\ unseen = 0 /\ abandoned = FALSE

MinOf(a, b) == IF a < b THEN a ELSE b
MaxOf(a, b) == IF a > b THEN a ELSE b

---------------------------------------------------------------------------
\* The end of a work, and the way from one wait to the next

Ends(result) ==
  /\ stage' = "none" /\ at' = "off" /\ outcome' = result
  /\ until' = 0 /\ ahead' = 0 /\ settled' = FALSE /\ early' = 0 /\ unseen' = 0
  /\ UNCHANGED <<task, kind, devices, cancelled>>

\* The work ends by itself and leaves the camera alone.
EndsApart(result) ==
  Ends(result) /\ UNCHANGED <<cameraVars, saved, abandoned>>

\* A wait begins: next is a second from now before the loop adds one.
Enter(s, t) ==
  /\ stage' = s /\ at' = "look" /\ until' = t /\ ahead' = Second
  /\ early' = 0 /\ unseen' = 0
  /\ settled' \in BOOLEAN
  /\ UNCHANGED <<workVars, cancelled, cameraVars, saved, abandoned>>

\* The stage that follows, without those of devices that are not there.
After(s, d) ==
  CASE s = "begin" /\ "wheel" \in d -> "wheel"
    [] s \in {"begin", "wheel"} /\ "cooler" \in d -> "cooler"
    [] s \in {"wheel", "cooler"} /\ "wheel" \in d -> "settle"
    [] OTHER -> "start"

Proceed(s) ==
  LET next == After(s, devices) IN
  IF next = "start"
  THEN /\ stage' = "start" /\ at' = "off"
       /\ UNCHANGED <<workVars, cancelled, until, ahead, settled, cameraVars, saved, historyVars>>
  ELSE \E t \in WaitTime : Enter(next, t)

---------------------------------------------------------------------------
\* CancellableWork

\* The flag, and a notification that only a sleeping thread hears.
Cancel ==
  /\ stage \notin {"none", "aborted"} /\ ~cancelled
  /\ cancelled' = TRUE
  /\ at' = IF at = "asleep" THEN "woken" ELSE at
  /\ UNCHANGED <<workVars, stage, until, ahead, settled, cameraVars, saved, historyVars>>

Condition ==
  \/ stage = "image" /\ ccd = "exposed"
  \/ stage \in {"wheel", "cooler", "settle"} /\ settled

ThrownSlip == EndsApart(IF stage \in {"pause", "dither"} THEN "complete" ELSE "cancelled")

\* CancelException.  Sleep and dither works catch it; an exposure that has
\* begun is cancelled, which fails if the camera is idle by now.
Thrown ==
  \/ stage \in {"pause", "dither"} /\ EndsApart("complete")
  \/ stage \in {"wheel", "cooler", "settle"} /\ EndsApart("cancelled")
  \/ stage = "image" /\ ccd = "idle" /\ EndsApart("failed")
  \/ /\ stage = "image" /\ ccd # "idle"
     /\ ccd' = "idle"
     /\ stage' = "safe" /\ at' = "off" /\ ahead' = Second
     /\ UNCHANGED <<workVars, cancelled, until, settled, builder, left, shot, picture,
                    saved, historyVars>>

\* The condition is met.  Selecting a filter is part of the way on; the wheel
\* may refuse.
Met ==
  \/ /\ stage = "image"
     /\ stage' = "fetch" /\ at' = "off"
     /\ UNCHANGED <<workVars, cancelled, until, ahead, settled, cameraVars, saved, historyVars>>
  \/ stage # "image" /\ Proceed(stage)
  \/ stage = "wheel" /\ EndsApart("failed")

\* The time is up.  A cooler that is not stable and a dither that is not
\* finished are no errors; a camera that has no image is left as it is.
GivesUp ==
  \/ stage = "cooler" /\ Proceed(stage)
  \/ stage = "dither" /\ EndsApart("complete")
  \/ stage \in {"wheel", "settle"} /\ EndsApart("failed")
  \/ /\ stage = "image"
     /\ Ends("failed") /\ abandoned' = TRUE
     /\ UNCHANGED <<cameraVars, saved>>

\* The top of the loop in wait(): the time of the next look, then the tests.
\* The wait without a condition sleeps for all of its time.
PeriodSlip == until
Period == IF stage = "pause" THEN until ELSE MinOf(ahead + Second, until)

Look ==
  /\ at = "look"
  /\ \/ cancelled /\ Thrown
     \/ ~cancelled /\ Condition /\ Met
     \/ /\ ~cancelled /\ ~Condition
        /\ ahead' = Period /\ at' = "doze" /\ unseen' = 0
        /\ UNCHANGED <<workVars, stage, cancelled, until, settled, cameraVars, saved,
                       early, abandoned>>

\* Nothing is looked at between the tests and the sleep.
Doze ==
  /\ at = "doze" /\ at' = "asleep"
  /\ UNCHANGED <<workVars, stage, cancelled, until, ahead, settled, cameraVars, saved,
                 historyVars>>

Wake ==
  /\ at = "asleep" /\ ahead = 0 /\ at' = "woken"
  /\ UNCHANGED <<workVars, stage, cancelled, until, ahead, settled, cameraVars, saved,
                 historyVars>>

\* A wakeup for no reason, which condition variables are allowed.
WakeEarly ==
  /\ at = "asleep" /\ ahead > 0 /\ at' = "woken"
  /\ early < MaxEarly /\ early' = early + 1
  /\ UNCHANGED <<workVars, stage, cancelled, until, ahead, settled, cameraVars, saved,
                 unseen, abandoned>>

\* The end of the loop: there is no last look at the condition.
Woken ==
  /\ at = "woken"
  /\ \/ cancelled /\ Thrown
     \/ ~cancelled /\ stage = "pause" /\ EndsApart("complete")
     \/ /\ ~cancelled /\ stage # "pause" /\ ahead < until
        /\ at' = "look"
        /\ UNCHANGED <<workVars, stage, cancelled, until, ahead, settled, cameraVars, saved,
                       historyVars>>
     \/ ~cancelled /\ stage # "pause" /\ ahead >= until /\ GivesUp

---------------------------------------------------------------------------
\* The works

\* A dither without a guider, or a cooler that refuses, ends the work at once.
Begin(k, d) ==
  /\ stage = "none" /\ task < MaxTasks /\ (k # "exposure" => d = {})
  /\ task' = task + 1 /\ kind' = k /\ devices' = d /\ cancelled' = FALSE
  /\ \/ /\ k = "dither" \/ "cooler" \in d
        /\ outcome' = "failed"
        /\ UNCHANGED <<stage, waitVars, settled, early, unseen>>
     \/ /\ k = "exposure" /\ d = {}
        /\ stage' = "start" /\ outcome' = "executing"
        /\ UNCHANGED <<waitVars, settled, early, unseen>>
     \/ /\ k # "exposure" \/ d # {}
        /\ outcome' = "executing"
        /\ stage' = CASE k = "exposure" -> After("begin", d)
                      [] k = "sleep" -> "pause"
                      [] OTHER -> "dither"
        /\ at' = "look" /\ until' \in WaitTime /\ ahead' = Second
        /\ early' = 0 /\ unseen' = 0 /\ settled' \in BOOLEAN
  /\ UNCHANGED <<cameraVars, saved, abandoned>>

\* startExposure(): the wheel may refuse, the camera must be idle, and a thread
\* that nobody has joined must not be replaced.  Then the gateway is told,
\* which takes its time.
StartExposure ==
  /\ stage = "start"
  /\ \/ EndsApart("failed")
     \/ /\ ccd = "idle" /\ builder # "none"
        /\ stage' = "aborted"
        /\ UNCHANGED <<workVars, cancelled, waitVars, settled, cameraVars, saved, historyVars>>
     \/ /\ ccd = "idle" /\ builder = "none"
        /\ ccd' = "exposing" /\ builder' = "running" /\ shot' = task
        /\ \E e \in Exposure, g \in WaitTime :
             left' = e /\ ahead' = g /\ until' = MaxOf(e - g, 0) + Slack
        /\ stage' = "gateway" /\ abandoned' = FALSE
        /\ UNCHANGED <<workVars, cancelled, at, settled, picture, saved, early, unseen>>

Gateway ==
  /\ stage = "gateway" /\ ahead = 0
  /\ Enter("image", until)

\* getImage() joins the image thread; then the image is saved, or cannot be.
\* The camera becomes idle unless the image itself cannot be completed.
Fetch ==
  /\ stage = "fetch"
  /\ \/ ccd # "exposed" /\ EndsApart("failed")
     \/ /\ ccd = "exposed"
        /\ builder' = "none" /\ UNCHANGED <<left, shot, picture, abandoned>>
        /\ \/ ccd' = "idle" /\ Ends("complete") /\ saved' = picture
           \/ ccd' \in {"idle", "exposed"} /\ Ends("failed") /\ UNCHANGED saved

SafeSlip == stage = "safe" /\ ahead = 0 /\ ccd = "idle" /\ EndsApart("cancelled")

\* After cancelExposure() the work waits for a safe state.
Safe ==
  /\ stage = "safe" /\ ahead = 0 /\ ccd # "exposing"
  /\ EndsApart("cancelled")

---------------------------------------------------------------------------
\* The camera and the devices

\* The image is complete, at the end of its exposure or later, or the thread
\* fails and says nothing.
BuilderEnds ==
  /\ builder = "running" /\ left = 0
  /\ builder' = "ended"
  /\ \/ ccd' = "exposed" /\ picture' = shot
     \/ UNCHANGED <<ccd, picture>>
  /\ UNCHANGED <<workVars, stage, cancelled, waitVars, settled, left, shot, saved, historyVars>>

\* Another client fetches the image, or cancels the exposure, which leaves the
\* image thread alone.
OtherClient ==
  /\ \/ ccd = "exposed" /\ builder' = "none"
     \/ ccd # "idle" /\ UNCHANGED builder
  /\ ccd' = "idle"
  /\ UNCHANGED <<workVars, stage, cancelled, waitVars, settled, left, shot, picture, saved,
                 historyVars>>

Settle ==
  /\ stage \in {"wheel", "cooler", "settle"} /\ ~settled /\ settled' = TRUE
  /\ UNCHANGED <<workVars, stage, cancelled, waitVars, cameraVars, saved, historyVars>>

Prompt ==
  \/ stage = "none"
  \/ at = "asleep" /\ ahead > 0
  \/ stage \in {"gateway", "safe"} /\ ahead > 0

Less(t) == MaxOf(t - 1, 0)

Tick ==
  /\ Prompt
  /\ left' = Less(left) /\ ahead' = Less(ahead)
  /\ until' = IF at = "asleep" THEN Less(until) ELSE until
  /\ unseen' = IF at = "asleep" /\ stage # "pause" /\ (cancelled \/ Condition)
               THEN unseen + 1 ELSE unseen
  /\ UNCHANGED <<workVars, stage, cancelled, at, settled, ccd, builder, shot, picture, saved,
                 early, abandoned>>

Work == Look \/ Doze \/ Wake \/ Woken \/ StartExposure \/ Gateway \/ Fetch \/ Safe
Next ==
  \/ \E k \in Kind, d \in SUBSET Device : Begin(k, d)
  \/ Work \/ WakeEarly \/ Cancel \/ BuilderEnds \/ OtherClient \/ Settle \/ Tick

Spec == Init /\ [][Next]_vars

\* The thread of the work is scheduled and the clock goes on.
FairSpec == Spec /\ WF_vars(Work) /\ WF_vars(Tick)

---------------------------------------------------------------------------
\* No wait, but that of a sleep, overlooks a cancellation or the end of what
\* it waits for longer than two seconds, and another one for each wakeup for
\* no reason, although cancel() may notify a thread that is not asleep yet and
\* nothing notifies it of a condition (CancellableWork.cpp:26, 82-107).
LooksOften == unseen <= (2 + early) * Second

\* A complete exposure has saved the image of its own exposure and leaves the
\* camera free, and after a cancelled one, or one that failed otherwise than
\* by giving up its wait, the camera is not exposing
\* (ExposureWork.cpp:315-341, SimCcd.cpp:305-330).
CameraLeft ==
  stage = "none" =>
    /\ kind = "exposure" /\ outcome = "complete" =>
         saved = task /\ ccd = "idle" /\ builder = "none"
    /\ ccd = "exposing" => abandoned

\* Every work ends, whatever devices and clients do, unless the server dies.
WorkEnds == stage # "none" ~> stage \in {"none", "aborted"}
=============================================================================
