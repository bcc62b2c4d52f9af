------------------------- MODULE ExposureTaskProofs -------------------------
(***************************************************************************)
(* Proofs about ExposureTask: types, LooksOften and CameraLeft, for all    *)
(* kinds of tasks, devices, times and bounds.                              *)
(***************************************************************************)
EXTENDS ExposureTask, TLAPS

USE ExposureAssumption DEF ExposureAssumption


LEMMA LessTypes == ASSUME NEW t \in Nat PROVE Less(t) \in Nat /\ Less(t) <= t /\ (t > 0 => Less(t) = t - 1)
  BY DEF Less, MaxOf

LEMMA Largest == ASSUME NEW a \in Int, NEW b \in Nat PROVE MaxOf(a, b) \in Nat
  BY DEF MaxOf

\* A sleep ends at the next look or at the end of the wait, and is never longer
\* than the time of the next look.
LEMMA PeriodTypes == TypeOK => /\ Period \in Nat
                               /\ stage # "pause" => Period <= ahead + Second
  BY DEF TypeOK, Period, MinOf

LEMMA AfterTypes ==
  ASSUME NEW s \in {"begin", "wheel", "cooler", "settle"}, NEW d \in SUBSET Device
  PROVE  After(s, d) \in {"wheel", "cooler", "settle", "start"}
  BY DEF After

---------------------------------------------------------------------------
\* Types

LEMMA TypeInit == Init => TypeOK
<1> SUFFICES ASSUME Init PROVE TypeOK
  OBVIOUS
<1>1. /\ task \in 0..MaxTasks /\ shot \in 0..MaxTasks /\ early \in 0..MaxEarly
      /\ devices \subseteq Device
  BY DEF Init
<1>2. settled \in BOOLEAN /\ cancelled \in BOOLEAN /\ abandoned \in BOOLEAN
  BY DEF Init
<1>3. stage \in Stage /\ kind \in Kind \cup {"none"}
  BY DEF Init, Stage, Waiting
<1>4. QED
  BY <1>1, <1>2, <1>3 DEF Init, TypeOK

LEMMA TypeEnds ==
  ASSUME TypeOK, NEW r \in {"complete", "failed", "cancelled"}, Ends(r)
  PROVE  /\ task' \in 0..MaxTasks /\ kind' \in Kind \cup {"none"} /\ devices' \subseteq Device
         /\ stage' \in Stage /\ cancelled' \in BOOLEAN
         /\ outcome' \in {"none", "executing", "complete", "failed", "cancelled"}
         /\ at' \in {"off", "look", "doze", "asleep", "woken"}
         /\ until' \in Nat /\ ahead' \in Nat /\ settled' \in BOOLEAN
         /\ early' \in 0..MaxEarly /\ unseen' \in Nat
<1>1. /\ task' \in 0..MaxTasks /\ kind' \in Kind \cup {"none"} /\ devices' \subseteq Device
      /\ cancelled' \in BOOLEAN
  BY DEF TypeOK, Ends
<1>2. /\ stage' \in Stage /\ until' \in Nat /\ ahead' \in Nat /\ unseen' \in Nat
      /\ early' \in 0..MaxEarly
  BY DEF Ends, Stage
<1>3. settled' \in BOOLEAN
  BY DEF Ends
<1>4. QED
  BY <1>1, <1>2, <1>3 DEF Ends

LEMMA TypeEndsApart ==
  ASSUME TypeOK, NEW r \in {"complete", "failed", "cancelled"}, EndsApart(r)
  PROVE  TypeOK'
<1>1. Ends(r)
  BY DEF EndsApart
<1>2. UNCHANGED <<cameraVars, saved, abandoned>>
  BY DEF EndsApart
<1>3. QED
  BY <1>1, <1>2, TypeEnds DEF TypeOK, cameraVars

LEMMA TypeEnter ==
  ASSUME TypeOK, NEW s \in Stage, NEW t \in Nat, Enter(s, t)
  PROVE  TypeOK'
  BY DEF TypeOK, Enter, workVars, cameraVars

LEMMA TypeProceed ==
  ASSUME TypeOK, NEW s \in {"wheel", "cooler", "settle"}, Proceed(s)
  PROVE  TypeOK'
<1>1. After(s, devices) \in Stage
  BY AfterTypes DEF TypeOK, Stage, Waiting
<1>2. CASE After(s, devices) = "start"
  BY <1>2 DEF Proceed, TypeOK, Stage, workVars, cameraVars, historyVars
<1>3. CASE After(s, devices) # "start"
  <2>1. PICK t \in WaitTime : Enter(After(s, devices), t)
    BY <1>3 DEF Proceed
  <2>2. QED
    BY <1>1, <2>1, TypeEnter
<1>4. QED
  BY <1>2, <1>3

LEMMA TypeThrown == TypeOK /\ Thrown => TypeOK'
<1> SUFFICES ASSUME TypeOK, Thrown PROVE TypeOK'
  OBVIOUS
<1>1. CASE \E r \in {"complete", "failed", "cancelled"} : EndsApart(r)
  BY <1>1, TypeEndsApart
<1>2. CASE stage = "image" /\ ccd # "idle"
  BY <1>2 DEF Thrown, TypeOK, Stage, workVars, historyVars
<1>3. QED
  BY <1>1, <1>2 DEF Thrown

LEMMA TypeMet == TypeOK /\ Condition /\ Met => TypeOK'
<1> SUFFICES ASSUME TypeOK, Condition, Met PROVE TypeOK'
  OBVIOUS
<1>1. CASE stage = "image"
  BY <1>1 DEF Met, TypeOK, Stage, workVars, cameraVars, historyVars
<1>2. CASE stage # "image" /\ Proceed(stage)
  BY <1>2, TypeProceed DEF Condition
<1>3. CASE EndsApart("failed")
  BY <1>3, TypeEndsApart
<1>4. QED
  BY <1>1, <1>2, <1>3 DEF Met

LEMMA TypeGivesUp == TypeOK /\ GivesUp => TypeOK'
<1> SUFFICES ASSUME TypeOK, GivesUp PROVE TypeOK'
  OBVIOUS
<1>1. CASE stage = "cooler" /\ Proceed(stage)
  BY <1>1, TypeProceed
<1>2. CASE \E r \in {"complete", "failed"} : EndsApart(r)
  BY <1>2, TypeEndsApart
<1>3. CASE Ends("failed") /\ abandoned' = TRUE /\ UNCHANGED <<cameraVars, saved>>
  BY <1>3, TypeEnds DEF TypeOK, cameraVars
<1>4. QED
  BY <1>1, <1>2, <1>3 DEF GivesUp

LEMMA TypeWork == TypeOK /\ Work => TypeOK'
<1> SUFFICES ASSUME TypeOK, Work PROVE TypeOK'
  OBVIOUS
<1>1. CASE Look
  <2>1. CASE Thrown
    BY <2>1, TypeThrown
  <2>2. CASE Condition /\ Met
    BY <2>2, TypeMet
  <2>3. CASE /\ ahead' = Period /\ at' = "doze" /\ unseen' = 0
             /\ UNCHANGED <<workVars, stage, cancelled, until, settled, cameraVars, saved,
                            early, abandoned>>
    BY <2>3, PeriodTypes DEF TypeOK, workVars, cameraVars
  <2>4. QED
    BY <1>1, <2>1, <2>2, <2>3 DEF Look
<1>2. CASE Doze
  BY <1>2 DEF Doze, TypeOK, workVars, cameraVars, historyVars
<1>3. CASE Wake
  BY <1>3 DEF Wake, TypeOK, workVars, cameraVars, historyVars
<1>4. CASE Woken
  <2>1. CASE Thrown
    BY <2>1, TypeThrown
  <2>2. CASE EndsApart("complete")
    BY <2>2, TypeEndsApart
  <2>3. CASE GivesUp
    BY <2>3, TypeGivesUp
  <2>4. CASE /\ at' = "look"
             /\ UNCHANGED <<workVars, stage, cancelled, until, ahead, settled, cameraVars, saved,
                            historyVars>>
    BY <2>4 DEF TypeOK, workVars, cameraVars, historyVars
  <2>5. QED
    BY <1>4, <2>1, <2>2, <2>3, <2>4 DEF Woken
<1>5. CASE StartExposure
  <2>1. CASE EndsApart("failed")
    BY <2>1, TypeEndsApart
  <2>2. CASE stage' = "aborted"
    BY <1>5, <2>2, <2>1 DEF StartExposure, TypeOK, Stage, workVars, waitVars, cameraVars, historyVars
  <2>3. CASE stage' = "gateway"
    <3>1. left' \in Nat /\ ahead' \in Nat /\ until' \in Nat
      <4>1. PICK e \in Exposure, g \in WaitTime :
                left' = e /\ ahead' = g /\ until' = MaxOf(e - g, 0) + Slack
        BY <1>5, <2>3 DEF StartExposure, EndsApart, Ends
      <4>2. e - g \in Int
        OBVIOUS
      <4>3. MaxOf(e - g, 0) \in Nat
        BY <4>2, Largest
      <4>4. QED
        BY <4>1, <4>3
    <3>2. QED
      BY <1>5, <2>3, <3>1 DEF StartExposure, EndsApart, Ends, TypeOK, Stage, workVars
  <2>4. QED
    BY <1>5, <2>1, <2>2, <2>3 DEF StartExposure
<1>6. CASE Gateway
  BY <1>6, TypeEnter DEF Gateway, TypeOK, Stage, Waiting
<1>7. CASE Fetch
  <2>1. CASE EndsApart("failed")
    BY <2>1, TypeEndsApart
  <2>2. CASE ccd = "exposed"
    BY <1>7, <2>2, TypeEnds DEF Fetch, TypeOK
  <2>3. QED
    BY <1>7, <2>1, <2>2 DEF Fetch
<1>8. CASE Safe
  BY <1>8, TypeEndsApart DEF Safe
<1>9. QED
  BY <1>1, <1>2, <1>3, <1>4, <1>5, <1>6, <1>7, <1>8 DEF Work

LEMMA TypeBegin ==
  ASSUME TypeOK, NEW k \in Kind, NEW d \in SUBSET Device, Begin(k, d)
  PROVE  TypeOK'
<1>1. stage' \in Stage
  BY AfterTypes DEF Begin, TypeOK, Stage, Waiting
<1>2. outcome' \in {"executing", "failed"}
  BY DEF Begin
<1>3. /\ at' \in {"off", "look", "doze", "asleep", "woken"} /\ until' \in Nat /\ ahead' \in Nat
      /\ settled' \in BOOLEAN /\ early' \in 0..MaxEarly /\ unseen' \in Nat
  BY DEF Begin, TypeOK, waitVars
<1>4. task' = task + 1 /\ task < MaxTasks /\ kind' = k /\ devices' = d
  BY DEF Begin
<1>5. task' \in 0..MaxTasks /\ kind' \in Kind \cup {"none"} /\ devices' \subseteq Device
  BY <1>4 DEF TypeOK
<1>6. cancelled' \in BOOLEAN
  BY DEF Begin
<1>7. UNCHANGED <<cameraVars, saved, abandoned>>
  BY DEF Begin
<1>8. QED
  BY <1>1, <1>2, <1>3, <1>5, <1>6, <1>7 DEF TypeOK, cameraVars

LEMMA TypeStep == TypeOK /\ [Next]_vars => TypeOK'
<1> SUFFICES ASSUME TypeOK, [Next]_vars PROVE TypeOK'
  OBVIOUS
<1>1. CASE \E k \in Kind, d \in SUBSET Device : Begin(k, d)
  BY <1>1, TypeBegin
<1>2. CASE Work
  BY <1>2, TypeWork
<1>3. CASE Cancel
  BY <1>3 DEF Cancel, TypeOK, workVars, cameraVars, historyVars
<1>4. CASE BuilderEnds
  BY <1>4 DEF BuilderEnds, TypeOK, workVars, waitVars, historyVars
<1>5. CASE OtherClient
  BY <1>5 DEF OtherClient, TypeOK, workVars, waitVars, historyVars
<1>6. CASE Settle
  BY <1>6 DEF Settle, TypeOK, workVars, waitVars, cameraVars, historyVars
<1>7. CASE Tick
  BY <1>7, LessTypes DEF Tick, TypeOK, workVars
<1>8. CASE WakeEarly
  BY <1>8 DEF WakeEarly, TypeOK, workVars, cameraVars
<1>9. CASE UNCHANGED vars
  BY <1>9 DEF vars, TypeOK, workVars, waitVars, cameraVars, historyVars
<1>10. QED
  BY <1>1, <1>2, <1>3, <1>4, <1>5, <1>6, <1>7, <1>8, <1>9 DEF Next

\* Every variable keeps its type, for all works, devices, times and bounds.
THEOREM TypeCorrect == Spec => []TypeOK
  BY TypeInit, TypeStep, PTL DEF Spec

---------------------------------------------------------------------------
\* LooksOften
\*
\* next is at most a second later than the last look was to be at, and every
\* wakeup for no reason adds at most one second to what is already ahead.

Within(e) == (2 + e) * Second

Often ==
  /\ at # "off" => stage \in Waiting \cup {"pause"}
  /\ unseen <= Within(early)
  /\ stage # "pause" =>
       /\ at = "look" => ahead + Second <= Within(early)
       /\ at \in {"doze", "asleep", "woken"} => unseen + ahead <= Within(early)
       /\ at = "woken" => cancelled \/ ahead + Second <= Within(early)

LEMMA WithinStep ==
  ASSUME NEW e \in Nat
  PROVE  /\ Within(e) \in Nat /\ 2 * Second <= Within(e)
         /\ Within(e + 1) = Within(e) + Second
  BY DEF Within

LEMMA OftenEnds ==
  ASSUME NEW r, Ends(r)
  PROVE  Often'
<1>1. early' \in Nat /\ Within(early') \in Nat /\ unseen' = 0
  BY WithinStep DEF Ends
<1>2. QED
  BY <1>1 DEF Ends, Often

LEMMA OftenEnter ==
  ASSUME NEW s \in Waiting, NEW t, Enter(s, t)
  PROVE  Often'
<1>1. early' = 0 /\ 2 * Second <= Within(early') /\ Within(early') \in Nat
  BY WithinStep DEF Enter
<1>2. QED
  BY <1>1 DEF Enter, Often

\* A thread that waits no more, and nothing else that matters here.
LEMMA OftenOff ==
  ASSUME Often, at' = "off", UNCHANGED <<early, unseen>>
  PROVE  Often'
  BY DEF Often, Within

LEMMA OftenProceed ==
  ASSUME Often, NEW s \in {"wheel", "cooler", "settle"}, Proceed(s), TypeOK
  PROVE  Often'
<1>1. After(s, devices) \in {"wheel", "cooler", "settle", "start"}
  BY AfterTypes DEF TypeOK
<1>2. CASE After(s, devices) = "start"
  BY <1>2, OftenOff DEF Proceed, historyVars
<1>3. CASE After(s, devices) # "start"
  <2>1. PICK t \in WaitTime : Enter(After(s, devices), t)
    BY <1>3 DEF Proceed
  <2>2. QED
    BY <1>1, <1>3, <2>1, OftenEnter DEF Waiting
<1>4. QED
  BY <1>2, <1>3

LEMMA OftenLeaves ==
  ASSUME TypeOK, Often, Thrown \/ (Condition /\ Met) \/ GivesUp
  PROVE  Often'
<1>1. CASE \E r \in {"complete", "failed", "cancelled"} : Ends(r)
  BY <1>1, OftenEnds
<1>2. CASE stage \in {"wheel", "cooler", "settle"} /\ Proceed(stage)
  BY <1>2, OftenProceed
<1>3. CASE at' = "off" /\ UNCHANGED <<early, unseen>>
  BY <1>3, OftenOff
<1>4. QED
  BY <1>1, <1>2, <1>3 DEF Thrown, Met, GivesUp, Condition, EndsApart, historyVars

LEMMA OftenWork == TypeOK /\ Often /\ Work => Often'
<1> SUFFICES ASSUME TypeOK, Often, Work PROVE Often'
  OBVIOUS
<1>1. /\ early \in Nat /\ unseen \in Nat /\ ahead \in Nat
      /\ Within(early) \in Nat /\ Within(early + 1) = Within(early) + Second
  BY WithinStep DEF TypeOK
<1>2. CASE Look
  <2>1. CASE Thrown \/ (Condition /\ Met)
    BY <2>1, OftenLeaves
  <2>2. CASE /\ at = "look" /\ ahead' = Period /\ at' = "doze" /\ unseen' = 0
             /\ UNCHANGED <<workVars, stage, cancelled, until, settled, cameraVars, saved,
                            early, abandoned>>
    <3>1. Period \in Nat /\ (stage # "pause" => Period <= ahead + Second)
      BY PeriodTypes
    <3>2. QED
      BY <1>1, <2>2, <3>1 DEF Often
  <2>3. QED
    BY <1>2, <2>1, <2>2 DEF Look
<1>3. CASE Doze
  BY <1>3, <1>1 DEF Doze, Often, historyVars
<1>4. CASE Wake
  <2>1. Within(early) \in Nat /\ 2 * Second <= Within(early)
    BY <1>1, WithinStep
  <2>2. QED
    BY <1>4, <1>1, <2>1 DEF Wake, Often, historyVars
<1>5. CASE Woken
  <2>1. CASE Thrown \/ GivesUp
    BY <2>1, OftenLeaves
  <2>2. CASE EndsApart("complete")
    BY <2>2, OftenEnds DEF EndsApart
  <2>3. CASE /\ at = "woken" /\ ~cancelled /\ stage # "pause" /\ at' = "look"
             /\ UNCHANGED <<workVars, stage, cancelled, until, ahead, settled, cameraVars, saved,
                            historyVars>>
    BY <1>1, <2>3 DEF Often, historyVars
  <2>4. QED
    BY <1>5, <2>1, <2>2, <2>3 DEF Woken
<1>6. CASE StartExposure
  <2>1. at = "off"
    BY <1>6 DEF StartExposure, Often, Waiting
  <2>2. CASE EndsApart("failed")
    BY <2>2, OftenEnds DEF EndsApart
  <2>3. CASE at' = at /\ UNCHANGED <<early, unseen>>
    BY <2>1, <2>3, OftenOff
  <2>4. QED
    BY <1>6, <2>2, <2>3 DEF StartExposure, waitVars, historyVars
<1>7. CASE Gateway
  BY <1>7, OftenEnter DEF Gateway, Waiting
<1>8. CASE Fetch
  BY <1>8, OftenEnds DEF Fetch, EndsApart
<1>9. CASE Safe
  BY <1>9, OftenEnds DEF Safe, EndsApart
<1>10. QED
  BY <1>2, <1>3, <1>4, <1>5, <1>6, <1>7, <1>8, <1>9 DEF Work

LEMMA OftenBegin ==
  ASSUME TypeOK, Often, NEW k \in Kind, NEW d \in SUBSET Device, Begin(k, d)
  PROVE  Often'
<1>1. at = "off"
  BY DEF Begin, Often, Waiting
<1>2. CASE UNCHANGED <<at, early, unseen>>
  BY <1>1, <1>2, OftenOff
<1>3. CASE /\ stage' \in Waiting \cup {"pause"} /\ at' = "look" /\ ahead' = Second
           /\ early' = 0 /\ unseen' = 0
  <2>1. 2 * Second <= Within(early') /\ Within(early') \in Nat
    BY <1>3, WithinStep
  <2>2. QED
    BY <1>3, <2>1 DEF Often
<1>4. CASE k # "exposure" \/ d # {}
  <2>1. k = "exposure" /\ d # {} => After("begin", d) \in {"wheel", "cooler"}
    BY DEF After
  <2>2. QED
    BY <1>2, <1>3, <1>4, <2>1 DEF Begin, Waiting, waitVars
<1>5. CASE k = "exposure" /\ d = {}
  BY <1>2, <1>5 DEF Begin, waitVars
<1>6. QED
  BY <1>4, <1>5

LEMMA OftenStep == TypeOK /\ Often /\ [Next]_vars => Often'
<1> SUFFICES ASSUME TypeOK, Often, [Next]_vars PROVE Often'
  OBVIOUS
<1>1. CASE \E k \in Kind, d \in SUBSET Device : Begin(k, d)
  BY <1>1, OftenBegin
<1>2. CASE Work
  BY <1>2, OftenWork
<1>3. CASE Cancel
  BY <1>3 DEF Cancel, Often, Within, historyVars
<1>4. CASE UNCHANGED <<stage, cancelled, waitVars, historyVars>>
  BY <1>4 DEF Often, Within, waitVars, historyVars
<1>5. CASE Tick
  <2>1. /\ early \in Nat /\ unseen \in Nat /\ ahead \in Nat /\ Within(early) \in Nat
        /\ Less(ahead) \in Nat /\ Less(ahead) <= ahead /\ (ahead > 0 => Less(ahead) = ahead - 1)
    BY LessTypes, WithinStep DEF TypeOK
  <2>2. CASE at = "asleep" /\ stage # "pause"
    <3>1. ahead > 0
      BY <1>5, <2>2 DEF Tick, Prompt, Often, Waiting
    <3>2. unseen' \in {unseen, unseen + 1} /\ ahead' = ahead - 1
      BY <1>5, <2>1, <3>1 DEF Tick
    <3>3. QED
      BY <1>5, <2>1, <2>2, <3>1, <3>2 DEF Tick, Often
  <2>3. CASE ~(at = "asleep" /\ stage # "pause")
    <3>1. unseen' = unseen /\ ahead' = Less(ahead)
      BY <1>5, <2>3 DEF Tick
    <3>2. QED
      BY <1>5, <2>1, <2>3, <3>1 DEF Tick, Often, Within
  <2>4. QED
    BY <2>2, <2>3
<1>6. CASE WakeEarly
  <2>1. /\ early' = early + 1 /\ unseen \in Nat /\ ahead \in Nat
        /\ Within(early) \in Nat /\ Within(early + 1) = Within(early) + Second
    BY <1>6, WithinStep DEF WakeEarly, TypeOK
  <2>2. QED
    BY <1>6, <2>1 DEF WakeEarly, Often
<1>7. QED
  BY <1>1, <1>2, <1>3, <1>4, <1>5, <1>6
  DEF Next, BuilderEnds, OtherClient, Settle, vars, workVars, waitVars, historyVars

\* No wait overlooks a cancellation or its condition for more than two seconds
\* and one for each wakeup for no reason, whatever notifications are lost.
THEOREM WaitsLookOften == Spec => []LooksOften
<1>1. Init => Often
  <2>1. 0 \in Nat /\ Within(0) \in Nat
    BY WithinStep
  <2>2. QED
    BY <2>1 DEF Init, Often
<1>2. TypeOK /\ Often => LooksOften
  BY DEF Often, Within, LooksOften
<1>3. QED
  BY <1>1, <1>2, OftenStep, TypeCorrect, PTL DEF Spec

---------------------------------------------------------------------------
\* CameraLeft
\*
\* A camera that exposes has a work that waits for it, or was left behind, and
\* an image that can be fetched is that of the exposure started last, which
\* is the one of the task from its start to its fetch.

Camera ==
  /\ builder = "none" => ccd # "exposing"
  /\ ccd = "exposing" => abandoned \/ stage \in {"gateway", "image"}
  /\ ccd = "exposed" => picture = shot
  /\ stage \in {"gateway", "image", "fetch"} => shot = task
  /\ stage \in {"pause", "dither"} => kind # "exposure"
  /\ stage = "none" /\ kind = "exposure" /\ outcome = "complete" =>
       saved = task /\ ccd = "idle" /\ builder = "none"

CameraInv == TypeOK /\ Camera

\* A work that ends otherwise than complete, with the camera as it is.
LEMMA CameraEnds ==
  ASSUME Camera, NEW r, EndsApart(r), stage # "image" \/ ccd = "idle", stage # "gateway",
         r = "complete" => kind # "exposure"
  PROVE  Camera'
  BY DEF Camera, EndsApart, Ends, cameraVars

\* Another stage, before the exposure begins or after it.
LEMMA CameraStage ==
  ASSUME Camera, UNCHANGED <<workVars, cameraVars, saved, abandoned>>,
         stage \notin {"none", "gateway", "image"} \/ ccd # "exposing",
         stage' \in {"wheel", "cooler", "settle", "start", "aborted"}
  PROVE  Camera'
  BY DEF Camera, workVars, cameraVars

LEMMA CameraProceed ==
  ASSUME CameraInv, NEW s \in {"wheel", "cooler", "settle"}, stage = s, Proceed(s)
  PROVE  Camera'
<1>1. After(s, devices) \in {"wheel", "cooler", "settle", "start"}
  BY AfterTypes DEF CameraInv, TypeOK
<1>2. stage' = After(s, devices) /\ UNCHANGED <<workVars, cameraVars, saved, abandoned>>
  BY DEF Proceed, Enter, historyVars
<1>3. QED
  BY <1>1, <1>2, CameraStage DEF CameraInv

LEMMA CameraThrown == CameraInv /\ Thrown => Camera'
<1> SUFFICES ASSUME CameraInv, Thrown PROVE Camera'
  OBVIOUS
<1>1. CASE stage # "image" \/ ccd = "idle"
  BY <1>1, CameraEnds DEF CameraInv, Camera, Thrown
<1>2. CASE stage = "image" /\ ccd # "idle"
  BY <1>2 DEF CameraInv, Camera, Thrown, workVars, historyVars
<1>3. QED
  BY <1>1, <1>2

LEMMA CameraMet == CameraInv /\ Condition /\ Met => Camera'
<1> SUFFICES ASSUME CameraInv, Condition, Met PROVE Camera'
  OBVIOUS
<1>1. CASE stage = "image"
  BY <1>1 DEF CameraInv, Camera, Condition, Met, workVars, cameraVars, historyVars
<1>2. CASE stage # "image" /\ Proceed(stage)
  BY <1>2, CameraProceed DEF Condition
<1>3. CASE stage = "wheel" /\ EndsApart("failed")
  BY <1>3, CameraEnds DEF CameraInv
<1>4. QED
  BY <1>1, <1>2, <1>3 DEF Met

LEMMA CameraGivesUp == CameraInv /\ GivesUp => Camera'
<1> SUFFICES ASSUME CameraInv, GivesUp PROVE Camera'
  OBVIOUS
<1>1. CASE stage = "cooler" /\ Proceed(stage)
  BY <1>1, CameraProceed
<1>2. CASE stage = "dither" /\ EndsApart("complete")
  BY <1>2, CameraEnds DEF CameraInv, Camera
<1>3. CASE stage \in {"wheel", "settle"} /\ EndsApart("failed")
  BY <1>3, CameraEnds DEF CameraInv
<1>4. CASE stage = "image" /\ Ends("failed") /\ abandoned' = TRUE /\ UNCHANGED <<cameraVars, saved>>
  BY <1>4 DEF CameraInv, Camera, Ends, cameraVars
<1>5. QED
  BY <1>1, <1>2, <1>3, <1>4 DEF GivesUp

LEMMA CameraWork == CameraInv /\ Work => Camera'
<1> SUFFICES ASSUME CameraInv, Work PROVE Camera'
  OBVIOUS
<1>1. CASE UNCHANGED <<workVars, stage, cameraVars, saved, abandoned>>
  BY <1>1 DEF CameraInv, Camera, workVars, cameraVars
<1>2. CASE Look
  BY <1>1, <1>2, CameraThrown, CameraMet DEF Look
<1>3. CASE Doze \/ Wake
  BY <1>1, <1>3 DEF Doze, Wake, historyVars
<1>4. CASE Woken
  <2>1. CASE stage = "pause" /\ EndsApart("complete")
    BY <2>1, CameraEnds DEF CameraInv, Camera
  <2>2. QED
    BY <1>1, <1>4, <2>1, CameraThrown, CameraGivesUp DEF Woken, historyVars
<1>5. CASE StartExposure
  <2>1. CASE EndsApart("failed")
    BY <1>5, <2>1, CameraEnds DEF CameraInv, StartExposure
  <2>2. CASE ccd = "idle" /\ stage' = "aborted" /\ UNCHANGED <<workVars, cameraVars, saved, historyVars>>
    BY <2>2, CameraStage DEF CameraInv, historyVars
  <2>3. CASE /\ stage' = "gateway" /\ ccd' = "exposing" /\ builder' = "running" /\ shot' = task
             /\ UNCHANGED <<workVars, picture, saved>>
    BY <2>3 DEF Camera, workVars
  <2>4. QED
    BY <1>5, <2>1, <2>2, <2>3 DEF StartExposure
<1>6. CASE Gateway
  BY <1>6 DEF Gateway, Enter, CameraInv, Camera, workVars, cameraVars
<1>7. CASE Fetch
  <2>1. CASE EndsApart("failed")
    BY <1>7, <2>1, CameraEnds DEF CameraInv, Fetch
  <2>2. CASE /\ ccd = "exposed" /\ builder' = "none"
             /\ UNCHANGED <<left, shot, picture, abandoned>>
             /\ \/ ccd' = "idle" /\ Ends("complete") /\ saved' = picture
                \/ ccd' \in {"idle", "exposed"} /\ Ends("failed") /\ UNCHANGED saved
    BY <1>7, <2>2 DEF CameraInv, Camera, Fetch, Ends
  <2>3. QED
    BY <1>7, <2>1, <2>2 DEF Fetch
<1>8. CASE Safe
  BY <1>8, CameraEnds DEF CameraInv, Safe
<1>9. QED
  BY <1>2, <1>3, <1>4, <1>5, <1>6, <1>7, <1>8 DEF Work

LEMMA CameraBegin ==
  ASSUME CameraInv, NEW k \in Kind, NEW d \in SUBSET Device, Begin(k, d)
  PROVE  Camera'
<1>1. /\ stage = "none" /\ kind' = k /\ outcome' \in {"executing", "failed"}
      /\ UNCHANGED <<cameraVars, saved, abandoned>>
  BY DEF Begin
<1>2. /\ stage' \notin {"gateway", "image", "fetch"}
      /\ k = "exposure" => stage' \notin {"pause", "dither"}
  BY <1>1, AfterTypes DEF Begin
<1>3. QED
  BY <1>1, <1>2 DEF CameraInv, Camera, cameraVars

LEMMA CameraStep == CameraInv /\ [Next]_vars => Camera'
<1> SUFFICES ASSUME CameraInv, [Next]_vars PROVE Camera'
  OBVIOUS
<1>1. CASE \E k \in Kind, d \in SUBSET Device : Begin(k, d)
  BY <1>1, CameraBegin
<1>2. CASE Work
  BY <1>2, CameraWork
<1>3. CASE UNCHANGED <<workVars, stage, ccd, builder, shot, picture, saved, abandoned>>
  BY <1>3 DEF CameraInv, Camera, workVars
<1>4. CASE BuilderEnds
  BY <1>4 DEF BuilderEnds, CameraInv, Camera, workVars, historyVars
<1>5. CASE OtherClient
  BY <1>5 DEF OtherClient, CameraInv, Camera, workVars, historyVars
<1>6. QED
  BY <1>1, <1>2, <1>3, <1>4, <1>5
  DEF Next, WakeEarly, Cancel, Settle, Tick, vars, cameraVars, historyVars

\* A complete exposure has saved its own image and left the camera free, and
\* only a work that gave up waiting leaves it exposing.
THEOREM CameraIsLeft == Spec => []CameraLeft
<1>1. Init => Camera
  BY DEF Init, Camera
<1>2. CameraInv => CameraLeft
  BY DEF CameraInv, Camera, CameraLeft
<1>3. TypeOK /\ Camera /\ [Next]_vars => Camera'
  BY CameraStep DEF CameraInv
<1>4. QED
  BY <1>1, <1>2, <1>3, TypeCorrect, PTL DEF Spec, CameraInv

=============================================================================
