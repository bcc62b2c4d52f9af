------------------------- MODULE FocusProcessProofs -------------------------
(***************************************************************************)
(* Theorems about FocusProcess.tla for any number of steps and runs, with  *)
(* or without failures of devices and evaluation.  Types hold for any      *)
(* number of clients; the other theorems are about the one client the      *)
(* class supports, as nothing protects its threads from a second one.      *)
(***************************************************************************)
EXTENDS FocusProcess, SequenceTheorems, TLAPS

---------------------------------------------------------------------------
\* The type invariant

LEMMA TypeDie == Die => TypeOK'
<1> SUFFICES ASSUME Die PROVE TypeOK'
  OBVIOUS
<1>1. queue' \in Seq(Position) /\ items' \in Seq(Position)
  BY DEF Die
<1>2. 0 \in Position
  BY StepsAssumption DEF Position
<1> QED
  BY <1>1, <1>2 DEF Die, TypeOK, Status, MeasurePc, EvalPc, ClientPc

LEMMA TypeMeasure == TypeOK /\ Measure => TypeOK'
<1> SUFFICES ASSUME TypeOK, Measure PROVE TypeOK'
  OBVIOUS
<1> USE DEF TypeOK, Status, MeasurePc, callVars, clientVars, queueVars, evalVars
<1>1. CASE MeasureCrash \/ MeasureStep \/ MeasureMoved \/ MeasureTerminate
  BY <1>1 DEF MeasureCrash, MeasureStep, MeasureMoved, MeasureTerminate, Cancelled
<1>2. CASE MeasurePut
  <2>1. queue' \in Seq(Position)
    BY <1>2 DEF MeasurePut
  <2> QED
    BY <1>2, <2>1 DEF MeasurePut
<1>3. CASE MeasureCheck
  <2>1. step' \in Position
    BY <1>3, StepsAssumption DEF MeasureCheck, LastStep, Position
  <2> QED
    BY <1>3, <2>1 DEF MeasureCheck, Cancelled
<1> QED
  BY <1>1, <1>2, <1>3 DEF Measure

LEMMA TypeEvaluate == TypeOK /\ Evaluate => TypeOK'
<1> SUFFICES ASSUME TypeOK, Evaluate PROVE TypeOK'
  OBVIOUS
<1> USE DEF TypeOK, Status, EvalPc, callVars, clientVars, queueVars, measureVars
<1>1. CASE EvalTake
  <2>1. queue' \in Seq(Position) /\ target' \in Position
    BY <1>1, HeadTailProperties DEF EvalTake
  <2> QED
    BY <1>1, <2>1 DEF EvalTake
<1>2. CASE EvalElement
  <2>1. items' \in Seq(Position)
    BY <1>2 DEF EvalElement
  <2> QED
    BY <1>2, <2>1 DEF EvalElement
<1>3. CASE EvalNull \/ EvalCancelled \/ EvalNone \/ EvalSolve \/ EvalMoved \/ EvalFailed
  BY <1>3 DEF EvalNull, EvalCancelled, EvalNone, EvalSolve, EvalMoved, EvalFailed
<1> QED
  BY <1>1, <1>2, <1>3 DEF Evaluate

LEMMA TypeClient ==
  ASSUME TypeOK, NEW c \in Client, Call(c) \/ Continue(c)
  PROVE  TypeOK'
<1> USE DEF TypeOK, Status, MeasurePc, EvalPc, ClientPc, At, processVars, queueVars,
            measureVars, evalVars
<1>1. CASE Start(c) \/ Stop(c) \/ Wait(c) \/ WaitStatus(c)
  <2>1. CASE Start(c)
    BY <2>1 DEF Start
  <2>2. CASE Stop(c)
    BY <2>2 DEF Stop
  <2>3. CASE Wait(c) \/ WaitStatus(c)
    BY <2>3 DEF Wait, WaitStatus
  <2> QED
    BY <1>1, <2>1, <2>2, <2>3
<1>2. CASE Restart(c)
  BY <1>2 DEF Restart
<1>3. CASE Launch(c)
  <2>1. CASE epc # "none"
    BY <1>3, <2>1, TypeDie DEF Launch
  <2>2. CASE epc = "none"
    <3>1. /\ queue' \in Seq(Position) /\ items' \in Seq(Position)
          /\ target' \in Position /\ runs' \in Nat
      BY <1>3, <2>2, StepsAssumption DEF Launch, Position
    <3> QED
      BY <1>3, <2>2, <3>1 DEF Launch
  <2> QED
    BY <2>1, <2>2
<1>4. CASE LaunchMeasure(c)
  <2>1. CASE mpc # "none"
    BY <1>4, <2>1, TypeDie DEF LaunchMeasure
  <2>2. CASE mpc = "none"
    <3>1. step' \in Position
      BY <1>4, <2>2, StepsAssumption DEF LaunchMeasure, Position
    <3> QED
      BY <1>4, <2>2, <3>1 DEF LaunchMeasure
  <2> QED
    BY <2>1, <2>2
<1>5. CASE JoinMeasure(c)
  <2>1. cpc' \in [Client -> ClientPc]
    BY <1>5 DEF JoinMeasure, Join
  <2> QED
    BY <1>5, <2>1 DEF JoinMeasure, Join
<1>6. CASE JoinEvaluate(c)
  <2>1. cpc' \in [Client -> ClientPc]
    BY <1>6 DEF JoinEvaluate, Join
  <2> QED
    BY <1>6, <2>1 DEF JoinEvaluate, Join
<1>7. CASE JoinedMeasure(c) \/ JoinedEvaluate(c)
  BY <1>7 DEF JoinedMeasure, JoinedEvaluate
<1> QED
  BY <1>1, <1>2, <1>3, <1>4, <1>5, <1>6, <1>7 DEF Call, Continue

LEMMA TypeStutter == TypeOK /\ UNCHANGED vars => TypeOK'
  BY DEF TypeOK, vars, callVars, clientVars, queueVars, measureVars, evalVars

LEMMA TypeInit == Init => TypeOK
<1> SUFFICES ASSUME Init PROVE TypeOK
  OBVIOUS
<1>1. queue \in Seq(Position) /\ items \in Seq(Position) /\ 0 \in Position
  BY StepsAssumption DEF Init, Position
<1> QED
  BY <1>1 DEF Init, TypeOK, Status, MeasurePc, EvalPc, ClientPc

LEMMA TypeNext == TypeOK /\ [Next]_vars => TypeOK'
  BY TypeMeasure, TypeEvaluate, TypeClient, TypeStutter DEF Next

\* Every variable keeps its type, for any clients in any order of calls.
THEOREM TypeCorrect == Spec => []TypeOK
  BY TypeInit, TypeNext, PTL DEF Spec

---------------------------------------------------------------------------
\* One client
\*
\* The threads pass a run on to each other through the queue: while the measure
\* thread is at work the queue is open, the positions processed, at hand and in
\* the queue are those of its steps so far, in their order, and the evaluate
\* thread cannot get past the queue.  The client starts threads only when both
\* of the run before are joined.

\* The measure thread is joined first, and launched last.
Joined ==
  /\ mpc # "none" => epc # "none"
  /\ \A c \in Client : cpc[c] \in {"joinE", "joiningE", "launchMeasure"} => mpc = "none"

\* Between the two launches the evaluate thread has nothing to do.
Fresh ==
  \A c \in Client : cpc[c] = "launchMeasure" =>
    epc = "get" /\ queue = <<>> /\ items = <<>> /\ ~terminated

\* A terminated queue separates the threads.
Gate ==
  /\ terminated => mpc \in {"none", "ended"}
  /\ epc \in {"null", "solve", "moving"} => terminated
  /\ epc = "null" => queue = <<>>

\* Elements the evaluate thread has taken, and those the measure thread has put.
Taken == IF epc = "element" THEN Len(items) + 1 ELSE Len(items)
Put == Taken + Len(queue)
InSteps(n) == [k \in 1..n |-> k - 1]

InOrder ==
  epc \in {"get", "element", "null"} =>
    /\ items = InSteps(Len(items))
    /\ epc = "element" => target = Len(items)
    /\ \A k \in 1..Len(queue) : queue[k] = Taken + k - 1
    /\ mpc \in {"step", "moving", "get"} => Put = step
    /\ mpc = "check" => Put = step + 1
    /\ running /\ (mpc = "terminate" \/ terminated) => Put = Steps + 1

\* Only a run that was never cancelled gets to the solver.
Complete == epc \in {"solve", "moving"} => items = InSteps(Steps + 1)

\* FOCUSED is the last thing a run says.
Settled ==
  status = "FOCUSED" =>
    /\ mpc \in {"none", "ended"}
    /\ \/ epc = "none"
       \/ epc = "ended" /\ focuser = target /\ items = InSteps(Steps + 1)
       \/ \E c \in Client : cpc[c] = "launchMeasure"

FocusInv == TypeOK /\ Joined /\ Fresh /\ Gate /\ InOrder /\ Complete /\ Settled
Kept == Joined' /\ Fresh' /\ Gate' /\ InOrder' /\ Complete' /\ Settled'

LEMMA KeptDie == Die => Kept
  BY DEF Die, Kept, Joined, Fresh, Gate, InOrder, Complete, Settled

LEMMA KeptStutter == FocusInv /\ UNCHANGED vars => Kept
  BY DEF FocusInv, Kept, Joined, Fresh, Gate, InOrder, Complete, Settled, Taken, Put,
         vars, callVars, clientVars, queueVars, measureVars, evalVars

LEMMA Lengths ==
  ASSUME TypeOK
  PROVE  /\ Len(queue) \in Nat /\ Len(items) \in Nat /\ Taken \in Nat /\ Put \in Nat
         /\ step \in 0..Steps /\ Steps \in Nat
  BY StepsAssumption DEF TypeOK, Taken, Put, Position

LEMMA KeptMeasure == FocusInv /\ Measure => Kept
<1> SUFFICES ASSUME FocusInv, Measure PROVE Kept
  OBVIOUS
<1> USE DEF FocusInv, callVars, clientVars, evalVars
<1>1. /\ mpc \notin {"none", "ended"} /\ ~terminated
      /\ UNCHANGED <<running, cpc, epc, items, target>>
  BY DEF Measure, MeasureCrash, MeasureStep, MeasureMoved, MeasurePut, MeasureCheck,
         MeasureTerminate, Gate
<1>2. epc \notin {"none", "null", "solve", "moving"}
  BY <1>1 DEF Gate, Joined
<1>3. \A c \in Client : cpc[c] \notin {"joinE", "joiningE", "launchMeasure"}
  BY <1>1 DEF Joined
<1>4. mpc' # "none"
  BY DEF Measure, MeasureCrash, MeasureStep, MeasureMoved, MeasurePut, MeasureCheck,
         MeasureTerminate, Cancelled
<1>5. Joined' /\ Fresh' /\ Complete'
  BY <1>1, <1>2, <1>3 DEF Joined, Fresh, Complete
<1>6. Gate'
  BY <1>1, <1>2 DEF Gate, Measure, MeasureCrash, MeasureStep, MeasureMoved, MeasurePut,
                    MeasureCheck, MeasureTerminate, queueVars
<1>7. Settled'
  <2>1. status # "FOCUSED"
    BY <1>1 DEF Settled
  <2>2. status' # "FOCUSED"
    BY <2>1 DEF Measure, MeasureCrash, MeasureStep, MeasureMoved, MeasurePut,
                MeasureCheck, MeasureTerminate
  <2> QED
    BY <2>2 DEF Settled
<1>8. InOrder'
  <2> SUFFICES ASSUME epc \in {"get", "element"} PROVE InOrder'
    BY <1>1, <1>2 DEF InOrder
  <2>1. Taken' = Taken
    BY <1>1 DEF Taken
  <2>2. CASE UNCHANGED queue
    <3>1. Put' = Put
      BY <2>1, <2>2 DEF Put
    <3>2. mpc' \in {"step", "moving", "get"} => Put = step'
      BY <2>2, Lengths DEF Measure, MeasureCrash, MeasureStep, MeasureMoved, MeasurePut,
             MeasureCheck, MeasureTerminate, InOrder, Cancelled
    <3>3. mpc' # "check"
      <4>1. ~MeasurePut
        BY <2>2, AppendProperties DEF MeasurePut, TypeOK
      <4> QED
        BY <4>1 DEF Measure, MeasureCrash, MeasureStep, MeasureMoved, MeasureCheck,
                    MeasureTerminate, Cancelled
    <3>4. running /\ (mpc' = "terminate" \/ terminated') => Put = Steps + 1
      BY <1>1, Lengths DEF Measure, MeasureCrash, MeasureStep, MeasureMoved, MeasurePut,
             MeasureCheck, MeasureTerminate, InOrder, Cancelled, LastStep, queueVars
    <3> QED
      BY <1>1, <2>1, <2>2, <3>1, <3>2, <3>3, <3>4 DEF InOrder
  <2>3. CASE MeasurePut
    <3>1. /\ queue' = Append(queue, step) /\ mpc = "get" /\ mpc' = "check"
          /\ UNCHANGED <<terminated, step>> /\ queue \in Seq(Position)
      BY <2>3 DEF MeasurePut, TypeOK
    <3>2. /\ Len(queue') = Len(queue) + 1 /\ queue'[Len(queue) + 1] = step
          /\ \A k \in 1..Len(queue) : queue'[k] = queue[k]
      BY <3>1, AppendProperties
    <3>3. Put = step /\ Put' = Put + 1
      <4>1. Put = step
        BY <3>1 DEF InOrder
      <4>2. Put' = Put + 1
        BY <2>1, <3>2, Lengths DEF Put
      <4> QED
        BY <4>1, <4>2
    <3>4. \A k \in 1..Len(queue') : queue'[k] = Taken' + k - 1
      <4> SUFFICES ASSUME NEW k \in 1..Len(queue') PROVE queue'[k] = Taken + k - 1
        BY <2>1
      <4>1. CASE k \in 1..Len(queue)
        BY <3>2, <4>1 DEF InOrder
      <4>2. CASE k = Len(queue) + 1
        BY <3>2, <3>3, <4>2, Lengths DEF Put
      <4> QED
        BY <3>2, <4>1, <4>2, Lengths
    <3> QED
      BY <1>1, <3>1, <3>3, <3>4 DEF InOrder
  <2> QED
    BY <2>2, <2>3 DEF Measure, MeasureCrash, MeasureStep, MeasureMoved, MeasureCheck,
                      MeasureTerminate, queueVars
<1> QED
  BY <1>5, <1>6, <1>7, <1>8 DEF Kept

LEMMA KeptEvaluate == FocusInv /\ Evaluate => Kept
<1> SUFFICES ASSUME FocusInv, Evaluate PROVE Kept
  OBVIOUS
<1> USE DEF FocusInv, callVars, clientVars, measureVars
<1>1. UNCHANGED <<running, cpc, mpc, step, terminated>>
  BY DEF Evaluate, EvalTake, EvalNull, EvalCancelled, EvalElement, EvalNone, EvalSolve,
         EvalMoved, EvalFailed, queueVars
<1>2. epc \notin {"none", "ended"} /\ epc' # "none"
  BY DEF Evaluate, EvalTake, EvalNull, EvalCancelled, EvalElement, EvalNone, EvalSolve,
         EvalMoved, EvalFailed
<1>3. \A c \in Client : cpc[c] # "launchMeasure"
  BY DEF Fresh, Evaluate, EvalTake, EvalNull, EvalCancelled, EvalElement, EvalNone,
         EvalSolve, EvalMoved, EvalFailed, NoMoreElements
<1>4. Joined' /\ Fresh'
  BY <1>1, <1>2, <1>3 DEF Joined, Fresh
<1>5. status # "FOCUSED"
  BY <1>2, <1>3 DEF Settled
<1>6. CASE EvalTake
  <2>1. /\ epc = "get" /\ epc' = "element" /\ queue # <<>> /\ queue' = Tail(queue)
        /\ target' = Head(queue) /\ UNCHANGED <<status, items>> /\ queue \in Seq(Position)
    BY <1>6 DEF EvalTake, TypeOK
  <2>2. /\ Len(queue') = Len(queue) - 1 /\ Len(queue) > 0
        /\ \A k \in 1..Len(queue') : k + 1 \in 1..Len(queue) /\ queue'[k] = queue[k + 1]
        /\ target' = queue[1]
    BY <2>1, HeadTailProperties
  <2>3. Taken = Len(items) /\ Taken' = Taken + 1 /\ Put' = Put
    BY <2>1, <2>2, Lengths DEF Taken, Put
  <2>4. target' = Len(items)
    BY <2>1, <2>2, <2>3, Lengths DEF InOrder
  <2>5. \A k \in 1..Len(queue') : queue'[k] = Taken' + k - 1
    <3> SUFFICES ASSUME NEW k \in 1..Len(queue') PROVE queue'[k] = Taken + 1 + k - 1
      BY <2>3
    <3>1. queue[k + 1] = Taken + (k + 1) - 1
      BY <2>1, <2>2 DEF InOrder
    <3> QED
      BY <2>2, <3>1, Lengths
  <2>6. InOrder'
    BY <1>1, <2>1, <2>3, <2>4, <2>5 DEF InOrder
  <2> QED
    BY <1>1, <1>4, <1>5, <2>1, <2>6 DEF Gate, Complete, Settled, Kept
<1>7. CASE EvalElement
  <2>1. /\ epc = "element" /\ epc' = "get" /\ items' = Append(items, target)
        /\ UNCHANGED <<status, queue>> /\ items \in Seq(Position)
    BY <1>7 DEF EvalElement, queueVars, TypeOK
  <2>2. /\ Len(items') = Len(items) + 1 /\ items'[Len(items) + 1] = target
        /\ \A k \in 1..Len(items) : items'[k] = items[k]
    BY <2>1, AppendProperties
  <2>2a. items' \in [1..Len(items') -> Position]
    <3>1. target \in Position
      BY DEF TypeOK
    <3>2. items' \in Seq(Position)
      BY <2>1, <3>1
    <3> QED
      BY <3>2, LenProperties
  <2>3. Taken' = Taken /\ Put' = Put
    BY <2>1, <2>2 DEF Taken, Put
  <2>4. items' = InSteps(Len(items'))
    <3>1. ASSUME NEW k \in 1..(Len(items) + 1) PROVE items'[k] = k - 1
      <4>1. CASE k \in 1..Len(items)
        BY <2>1, <2>2, <4>1 DEF InOrder, InSteps
      <4>2. CASE k = Len(items) + 1
        BY <2>1, <2>2, <4>2, Lengths DEF InOrder
      <4> QED
        BY <4>1, <4>2, Lengths
    <3> QED
      BY <2>2, <2>2a, <3>1 DEF InSteps
  <2>5. InOrder'
    BY <1>1, <2>1, <2>3, <2>4 DEF InOrder
  <2> QED
    BY <1>1, <1>4, <1>5, <2>1, <2>5 DEF Gate, Complete, Settled, Kept
<1>8. CASE EvalNull
  <2>1. /\ epc = "get" /\ epc' = "null" /\ UNCHANGED <<status, queue, items, target>>
        /\ queue = <<>> /\ terminated
    BY <1>8 DEF EvalNull, NoMoreElements, queueVars
  <2>2. Taken' = Taken /\ Put' = Put
    BY <2>1 DEF Taken, Put
  <2>3. InOrder'
    BY <1>1, <2>1, <2>2 DEF InOrder
  <2> QED
    BY <1>1, <1>4, <1>5, <2>1, <2>3 DEF Gate, Complete, Settled, Kept
<1>9. CASE EvalNone
  <2>1. /\ epc = "null" /\ epc' = "solve" /\ UNCHANGED <<status, queue, items>>
        /\ running
    BY <1>9 DEF EvalNone, queueVars
  <2>2. queue = <<>> /\ terminated
    BY <2>1 DEF Gate
  <2>3. Len(items) = Steps + 1
    BY <2>1, <2>2, Lengths DEF InOrder, Put, Taken
  <2>4. items = InSteps(Steps + 1)
    BY <2>1, <2>3 DEF InOrder
  <2> QED
    BY <1>1, <1>4, <1>5, <2>1, <2>2, <2>4 DEF Gate, InOrder, Complete, Settled, Kept
<1>10. CASE EvalSolve
  BY <1>1, <1>4, <1>5, <1>10 DEF EvalSolve, queueVars, Gate, InOrder, Complete, Settled, Kept
<1>11. CASE EvalMoved
  BY <1>1, <1>4, <1>11 DEF EvalMoved, queueVars, Gate, InOrder, Complete, Settled, Kept
<1>12. CASE EvalCancelled \/ EvalFailed
  BY <1>1, <1>4, <1>5, <1>12 DEF EvalCancelled, EvalFailed, queueVars, Gate, InOrder,
                                 Complete, Settled, Kept
<1> QED
  BY <1>6, <1>7, <1>8, <1>9, <1>10, <1>11, <1>12 DEF Evaluate

\* What a client does between launches leaves the run alone.
LEMMA KeptFrame ==
  ASSUME FocusInv, UNCHANGED <<status, queueVars, focuser, measureVars, evalVars>>,
         running' => running, Joined',
         \A c \in Client : cpc[c] # "launchMeasure" /\ cpc'[c] # "launchMeasure"
  PROVE  Kept
<1>1. Taken' = Taken /\ Put' = Put
  BY DEF Taken, Put, queueVars, evalVars
<1>2. Fresh' /\ Gate' /\ Complete'
  BY DEF FocusInv, Fresh, Gate, Complete, queueVars, measureVars, evalVars
<1>3. InOrder'
  BY <1>1 DEF FocusInv, InOrder, queueVars, measureVars, evalVars
<1>4. Settled'
  BY DEF FocusInv, Settled, queueVars, measureVars, evalVars
<1> QED
  BY <1>2, <1>3, <1>4 DEF Kept

LEMMA KeptClient ==
  ASSUME FocusInv, NEW c, Client = {c}, Call(c) \/ Continue(c)
  PROVE  Kept
<1> USE DEF FocusInv, At, Ready
<1>1. cpc \in [Client -> ClientPc] /\ cthen \in [Client -> {"ready", "launch"}]
  BY DEF TypeOK
<1>2. CASE Call(c) \/ Restart(c) \/ WaitStatus(c)
  <2>1. /\ UNCHANGED <<status, queueVars, focuser, measureVars, evalVars>>
        /\ running' => running
        /\ cpc[c] # "launchMeasure"
        /\ cpc' \in {[cpc EXCEPT ![c] = pc] : pc \in {"restart", "wait", "launch", "joinM"}}
    BY <1>2 DEF Call, Start, Stop, Wait, Restart, WaitStatus, processVars
  <2>2. cpc'[c] \in {"restart", "wait", "launch", "joinM"}
    BY <1>1, <2>1
  <2>3. Joined'
    BY <2>1, <2>2 DEF Joined, measureVars, evalVars
  <2> QED
    BY <2>1, <2>2, <2>3, KeptFrame
<1>3. CASE JoinMeasure(c)
  <2>1. /\ UNCHANGED <<status, queueVars, focuser, measureVars, evalVars, running>>
        /\ cpc[c] = "joinM" /\ (cpc'[c] = "joinE" => mpc = "none")
        /\ cpc'[c] \in {"joinE", "joiningM", "ready", "launch"}
    BY <1>1, <1>3 DEF JoinMeasure, Join, processVars
  <2>2. Joined'
    BY <2>1 DEF Joined, measureVars, evalVars
  <2> QED
    BY <2>1, <2>2, KeptFrame
<1>4. CASE JoinEvaluate(c)
  <2>1. /\ UNCHANGED <<status, queueVars, focuser, measureVars, evalVars, running>>
        /\ cpc[c] = "joinE" /\ cpc'[c] \in {"joiningE", "ready", "launch"}
    BY <1>1, <1>4 DEF JoinEvaluate, Join, processVars
  <2>2. Joined'
    BY <2>1 DEF Joined, measureVars, evalVars
  <2> QED
    BY <2>1, <2>2, KeptFrame
<1>5. CASE JoinedMeasure(c)
  <2>1. /\ UNCHANGED <<status, queue, terminated, running, focuser, step, epc, items, target>>
        /\ cpc[c] = "joiningM" /\ cpc'[c] = "joinE" /\ mpc = "ended" /\ mpc' = "none"
    BY <1>1, <1>5 DEF JoinedMeasure, processVars, queueVars, evalVars
  <2>2. Taken' = Taken /\ Put' = Put
    BY <2>1 DEF Taken, Put
  <2>3. InOrder'
    BY <2>1, <2>2 DEF InOrder
  <2> QED
    BY <2>1, <2>3 DEF Joined, Fresh, Gate, Complete, Settled, Kept
<1>6. CASE JoinedEvaluate(c)
  <2>1. /\ UNCHANGED <<status, queue, terminated, focuser, mpc>>
        /\ cpc[c] = "joiningE" /\ cpc'[c] \in {"ready", "launch"}
        /\ epc' = "none"
    BY <1>1, <1>6 DEF JoinedEvaluate, processVars, queueVars, measureVars
  <2> QED
    BY <2>1 DEF Joined, Fresh, Gate, InOrder, Complete, Settled, Kept
<1>7. CASE Launch(c)
  <2>1. CASE epc # "none"
    BY <1>7, <2>1, KeptDie DEF Launch
  <2>2. CASE epc = "none"
    <3>1. /\ queue' = <<>> /\ items' = <<>> /\ ~terminated' /\ epc' = "get"
          /\ cpc'[c] = "launchMeasure" /\ mpc = "none" /\ mpc' = "none" /\ UNCHANGED status
      BY <1>1, <1>7, <2>2 DEF Launch, Joined, measureVars
    <3>2. InOrder'
      <4>1. Len(items') = 0 /\ Len(queue') = 0
        BY <3>1
      <4>2. items' = InSteps(Len(items'))
        BY <3>1, <4>1 DEF InSteps
      <4> QED
        BY <3>1, <4>1, <4>2 DEF InOrder
    <3> QED
      BY <3>1, <3>2 DEF Joined, Fresh, Gate, Complete, Settled, Kept
  <2> QED
    BY <2>1, <2>2
<1>8. CASE LaunchMeasure(c)
  <2>1. CASE mpc # "none"
    BY <1>8, <2>1, KeptDie DEF LaunchMeasure
  <2>2. CASE mpc = "none"
    <3>1. /\ queue = <<>> /\ items = <<>> /\ ~terminated /\ epc = "get"
          /\ UNCHANGED <<queue, items, terminated, epc, target>>
          /\ cpc'[c] = "ready" /\ mpc' = "step" /\ step' = 0 /\ status' = "MOVING"
      BY <1>1, <1>8, <2>2 DEF LaunchMeasure, Fresh, processVars, queueVars, evalVars
    <3>2. InOrder'
      <4>1. Len(items') = 0 /\ Len(queue') = 0
        BY <3>1
      <4>2. Taken' = 0 /\ Put' = 0
        BY <3>1, <4>1 DEF Taken, Put
      <4> QED
        BY <3>1, <4>1, <4>2 DEF InOrder
    <3> QED
      BY <3>1, <3>2 DEF Joined, Fresh, Gate, Complete, Settled, Kept
  <2> QED
    BY <2>1, <2>2
<1> QED
  BY <1>2, <1>3, <1>4, <1>5, <1>6, <1>7, <1>8 DEF Continue

LEMMA FocusInit == Init => FocusInv
  BY TypeInit DEF Init, FocusInv, Joined, Fresh, Gate, InOrder, Complete, Settled

LEMMA FocusNext == ASSUME NEW c, Client = {c} PROVE FocusInv /\ [Next]_vars => FocusInv'
<1> SUFFICES ASSUME FocusInv, [Next]_vars PROVE FocusInv'
  OBVIOUS
<1>1. TypeOK'
  BY TypeNext DEF FocusInv
<1>2. Kept
  BY KeptMeasure, KeptEvaluate, KeptClient, KeptStutter DEF Next
<1> QED
  BY <1>1, <1>2 DEF Kept, FocusInv

\* The two threads never move the focuser at the same time: no lock keeps them
\* from it, only the order in which the queue and the joins let them run.
THEOREM FocuserIsExclusive ==
  ASSUME NEW c, Client = {c} PROVE Spec => []FocuserExclusive
<1>1. FocusInv => FocuserExclusive
  BY DEF FocusInv, Gate, FocuserExclusive
<1> QED
  BY <1>1, FocusInit, FocusNext, PTL DEF Spec

\* FOCUSED is said only of a focuser that was moved to a position found from the
\* images of all steps, for any number of steps, cancelled runs and restarts.
THEOREM FocusedIsFromAll ==
  ASSUME NEW c, Client = {c} PROVE Spec => []FocusedIsComplete
<1>1. FocusInv => FocusedIsComplete
  <2> SUFFICES ASSUME FocusInv, status = "FOCUSED", epc = "ended"
               PROVE  focuser = target /\ items = InSteps(Steps + 1)
    BY DEF FocusedIsComplete, InSteps
  <2>1. \A d \in Client : cpc[d] # "launchMeasure"
    BY DEF FocusInv, Fresh
  <2> QED
    BY <2>1 DEF FocusInv, Settled
<1> QED
  BY <1>1, FocusInit, FocusNext, PTL DEF Spec
=============================================================================
