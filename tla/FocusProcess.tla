---------------------------- MODULE FocusProcess ----------------------------
(***************************************************************************)
(* The automatic focusing process of                                       *)
(* src/control/lib/focusing/FocusProcessBase.cpp.                          *)
(*                                                                         *)
(* A measure thread moves the focuser through steps() + 1 positions, takes *)
(* an image in each and puts it in a queue; an evaluate thread takes the   *)
(* images from the queue, solves for the best position and moves the       *)
(* focuser there.  Clients start, stop and wait.  The status is a          *)
(* thread::Waiter, _running is atomic, the queue has its own mutex, and    *)
(* nothing protects the two std::thread members.  The parameters of a run  *)
(* do not change during it.                                                *)
(***************************************************************************)
EXTENDS Naturals, Sequences

CONSTANTS
  Client,        \* threads that call start(), stop() and wait()
  Steps,         \* FocusParameters::steps()
  MaxRuns,       \* bound on the calls of start() that get through
  Ops,           \* the methods each client calls, see OpNames
  DeviceFaults,  \* TRUE: moveto() and get() may throw
  EvalFaults     \* TRUE: processing and solving may fail

OpNames == {"start", "stop", "wait"}

ASSUME StepsAssumption == Steps \in Nat \ {0} /\ MaxRuns \in Nat
ASSUME OpsAssumption == Ops \in [Client -> SUBSET OpNames]

VARIABLES
  proc,        \* "up", or how the process ended
  status,      \* _status
  running,     \* _running
  runs,        \* calls of start() that got through
  queue,       \* _focus_elements: the positions of its elements
  terminated,  \* _focus_elements->_terminated
  focuser,     \* where the focuser is
  mpc, step,   \* the measure thread and its step
  crashed,     \* history: the measure thread of this run has ended by an exception
  epc, items,  \* the evaluate thread and the positions it has processed
  target,      \* the position found by the solver
  cpc,         \* where a client is
  cthen        \* where it goes on when wait() is over

queueVars == <<queue, terminated>>
measureVars == <<mpc, step, crashed>>
evalVars == <<epc, items, target>>
clientVars == <<cpc, cthen>>
callVars == <<proc, running, runs, clientVars>>  \* the threads keep them
vars == <<callVars, status, queueVars, focuser, measureVars, evalVars>>

Status == {"IDLE", "MOVING", "MEASURING", "MEASURED", "FOCUSED", "FAILED"}
\* The positions in the order of the steps; the solver may find any of them.
Position == 0..Steps

\* "none": the std::thread is not joinable; "ended": it waits to be joined.
MeasurePc == {"none", "step", "moving", "get", "check", "terminate", "ended"}
EvalPc == {"none", "get", "element", "null", "solve", "moving", "ended"}
ClientPc == {"ready", "restart", "wait", "joinM", "joiningM", "joinE", "joiningE",
             "launch", "launchMeasure"}

Init ==
  /\ proc = "up" /\ status = "IDLE" /\ running = FALSE /\ runs = 0
  /\ queue = <<>> /\ terminated = FALSE /\ focuser = 0
  /\ mpc = "none" /\ step = 0 /\ crashed = FALSE
  /\ epc = "none" /\ items = <<>> /\ target = 0
  /\ cpc = [c \in Client |-> "ready"]
  /\ cthen = [c \in Client |-> "ready"]

\* Assigning to a joinable std::thread ends the process, with everything in it.
Die ==
  /\ proc' = "abort"
  /\ status' = "IDLE" /\ running' = FALSE /\ runs' = 0
  /\ queue' = <<>> /\ terminated' = FALSE /\ focuser' = 0
  /\ mpc' = "none" /\ step' = 0 /\ crashed' = FALSE
  /\ epc' = "none" /\ items' = <<>> /\ target' = 0
  /\ cpc' = [d \in Client |-> "ready"]
  /\ cthen' = [d \in Client |-> "ready"]

---------------------------------------------------------------------------
\* The measure thread: measure() and measure0()

\* Where a cancelled measure0() goes on: it still terminates the queue.
CancelledSlip == "ended"
Cancelled == "terminate"

\* An exception of a device, or of put() on a terminated queue, leaves the
\* queue as it is.
MeasureCrash ==
  /\ mpc \in {"moving", "get"}
  /\ ~DeviceFaults => mpc = "get" /\ terminated
  /\ mpc' = "ended" /\ crashed' = TRUE
  /\ status' = "FAILED"
  /\ UNCHANGED <<callVars, queueVars, focuser, step, evalVars>>

MeasureStep ==
  /\ mpc = "step"
  /\ status' = "MOVING"
  /\ mpc' = "moving"
  /\ UNCHANGED <<callVars, queueVars, focuser, step, crashed, evalVars>>

\* moveto() returns.
MeasureMoved ==
  /\ mpc = "moving"
  /\ focuser' = step
  /\ IF running
     THEN status' = "MEASURING" /\ mpc' = "get"
     ELSE status' = "FAILED" /\ mpc' = Cancelled
  /\ UNCHANGED <<callVars, queueVars, step, crashed, evalVars>>

\* get() returns an image, which goes to the queue.
MeasurePut ==
  /\ mpc = "get"
  /\ ~terminated
  /\ queue' = Append(queue, step)
  /\ mpc' = "check"
  /\ UNCHANGED <<callVars, status, terminated, focuser, step, crashed, evalVars>>

\* The loop ends after this step.
LastStepSlip == step + 1 = Steps
LastStep == step = Steps

MeasureCheck ==
  /\ mpc = "check"
  /\ \/ /\ ~running
        /\ status' = "FAILED" /\ mpc' = Cancelled
        /\ UNCHANGED step
     \/ /\ running /\ LastStep
        /\ status' = "MEASURED" /\ mpc' = "terminate"
        /\ UNCHANGED step
     \/ /\ running /\ ~LastStep
        /\ step' = step + 1 /\ mpc' = "step"
        /\ UNCHANGED status
  /\ UNCHANGED <<callVars, queueVars, focuser, crashed, evalVars>>

MeasureTerminate ==
  /\ mpc = "terminate"
  /\ terminated' = TRUE
  /\ mpc' = "ended"
  /\ UNCHANGED <<callVars, status, queue, focuser, step, crashed, evalVars>>

Measure ==
  \/ MeasureCrash \/ MeasureStep \/ MeasureMoved \/ MeasurePut \/ MeasureCheck
  \/ MeasureTerminate

---------------------------------------------------------------------------
\* The evaluate thread: evaluate() and evaluate0()

EvalTake ==
  /\ epc = "get"
  /\ queue # <<>>
  /\ queue' = Tail(queue)
  /\ target' = Head(queue)
  /\ epc' = "element"
  /\ UNCHANGED <<callVars, status, terminated, focuser, items, measureVars>>

\* get() returns NULL when the queue is empty and terminated.
NoMoreElementsSlip == queue = <<>>
NoMoreElements == queue = <<>> /\ terminated

EvalNull ==
  /\ epc = "get"
  /\ NoMoreElements
  /\ epc' = "null"
  /\ UNCHANGED <<callVars, status, queueVars, focuser, items, target, measureVars>>

\* A cancelled evaluation ends without setting the status.
EvalCancelled ==
  /\ epc \in {"element", "null"}
  /\ ~running
  /\ epc' = "ended"
  /\ UNCHANGED <<callVars, status, queueVars, focuser, items, target, measureVars>>

\* processor.process(): target is the position of the element at hand.
EvalElement ==
  /\ epc = "element"
  /\ running
  /\ items' = Append(items, target)
  /\ epc' = "get"
  /\ UNCHANGED <<callVars, status, queueVars, focuser, target, measureVars>>

EvalNone ==
  /\ epc = "null"
  /\ running
  /\ epc' = "solve"
  /\ UNCHANGED <<callVars, status, queueVars, focuser, items, target, measureVars>>

EvalSolve ==
  /\ epc = "solve"
  /\ running
  /\ target' \in Position
  /\ epc' = "moving"
  /\ UNCHANGED <<callVars, status, queueVars, focuser, items, measureVars>>

\* moveto() returns.
EvalMoved ==
  /\ epc = "moving"
  /\ focuser' = target
  /\ status' = "FOCUSED"
  /\ epc' = "ended"
  /\ UNCHANGED <<callVars, queueVars, items, target, measureVars>>

\* Cancelled before the solver, a position outside the interval, an exception:
\* the status is FAILED, whatever the measure thread is doing.
EvalFailed ==
  /\ \/ epc = "solve" /\ ~running
     \/ EvalFaults /\ epc \in {"element", "solve"} /\ running
     \/ DeviceFaults /\ epc = "moving"
  /\ status' = "FAILED"
  /\ epc' = "ended"
  /\ UNCHANGED <<callVars, queueVars, focuser, items, target, measureVars>>

Evaluate ==
  \/ EvalTake \/ EvalNull \/ EvalCancelled \/ EvalElement \/ EvalNone \/ EvalSolve
  \/ EvalMoved \/ EvalFailed

---------------------------------------------------------------------------
\* Clients

Ready(c, op) == proc = "up" /\ op \in Ops[c] /\ cpc[c] = "ready"

At(c, pc) == cpc' = [cpc EXCEPT ![c] = pc]

processVars == <<proc, running, runs, queueVars, focuser>>

\* start() refuses unless the status is IDLE, FOCUSED or FAILED.
Start(c) ==
  /\ Ready(c, "start")
  /\ runs < MaxRuns
  /\ status \in {"IDLE", "FOCUSED", "FAILED"}
  /\ At(c, "restart")
  /\ UNCHANGED <<processVars, status, measureVars, evalVars, cthen>>

\* start() reads the status a second time, to join the threads of the run before.
Restart(c) ==
  /\ cpc[c] = "restart"
  /\ IF status \in {"FOCUSED", "FAILED"}
     THEN At(c, "wait") /\ cthen' = [cthen EXCEPT ![c] = "launch"]
     ELSE At(c, "launch") /\ UNCHANGED cthen
  /\ UNCHANGED <<processVars, status, measureVars, evalVars>>

\* A new queue, and the evaluate thread ...
Launch(c) ==
  /\ cpc[c] = "launch"
  /\ IF epc # "none"
     THEN Die
     ELSE /\ running' = TRUE
          /\ runs' = runs + 1
          /\ queue' = <<>> /\ terminated' = FALSE
          /\ epc' = "get" /\ items' = <<>> /\ target' = 0
          /\ At(c, "launchMeasure")
          /\ cthen' = [cthen EXCEPT ![c] = "ready"]
          /\ UNCHANGED <<proc, status, focuser, measureVars>>

\* ... and then the measure thread.
LaunchMeasure(c) ==
  /\ cpc[c] = "launchMeasure"
  /\ IF mpc # "none"
     THEN Die
     ELSE /\ status' = "MOVING"
          /\ mpc' = "step" /\ step' = 0 /\ crashed' = FALSE
          /\ At(c, "ready")
          /\ UNCHANGED <<processVars, evalVars, cthen>>

Stop(c) ==
  /\ Ready(c, "stop")
  /\ running' = FALSE
  /\ At(c, "wait")
  /\ UNCHANGED <<proc, status, runs, queueVars, focuser, measureVars, evalVars, cthen>>

Wait(c) ==
  /\ Ready(c, "wait")
  /\ At(c, "wait")
  /\ UNCHANGED <<processVars, status, measureVars, evalVars, cthen>>

\* The states wait() waits for.
WaitedForSlip == {"FOCUSED", "FAILED"}
WaitedFor == {"MEASURED", "FOCUSED", "FAILED"}

WaitStatus(c) ==
  /\ cpc[c] = "wait"
  /\ status \in WaitedFor
  /\ At(c, "joinM")
  /\ UNCHANGED <<processVars, status, measureVars, evalVars, cthen>>

\* wait() goes on to pc once the thread at tpc is joined.  join() throws if
\* another client is already in it, which ends wait(); start() ignores that.
Join(c, tpc, joining, pc) ==
  /\ At(c, IF tpc = "none" THEN pc
           ELSE IF \E d \in Client : cpc[d] = joining THEN cthen[c]
           ELSE joining)
  /\ UNCHANGED <<processVars, status, measureVars, evalVars, cthen>>

JoinMeasure(c) == cpc[c] = "joinM" /\ Join(c, mpc, "joiningM", "joinE")

JoinedMeasure(c) ==
  /\ cpc[c] = "joiningM"
  /\ mpc = "ended"
  /\ mpc' = "none"
  /\ At(c, "joinE")
  /\ UNCHANGED <<processVars, status, step, crashed, evalVars, cthen>>

JoinEvaluate(c) == cpc[c] = "joinE" /\ Join(c, epc, "joiningE", cthen[c])

JoinedEvaluate(c) ==
  /\ cpc[c] = "joiningE"
  /\ epc = "ended"
  /\ epc' = "none"
  /\ At(c, cthen[c])
  /\ UNCHANGED <<processVars, status, measureVars, items, target, cthen>>

Call(c) == Start(c) \/ Stop(c) \/ Wait(c)

Continue(c) ==
  \/ Restart(c) \/ Launch(c) \/ LaunchMeasure(c) \/ WaitStatus(c) \/ JoinMeasure(c)
  \/ JoinedMeasure(c) \/ JoinEvaluate(c) \/ JoinedEvaluate(c)

Next ==
  \/ Measure
  \/ Evaluate
  \/ \E c \in Client : Call(c) \/ Continue(c)

Spec == Init /\ [][Next]_vars

\* Threads that can run do: the focuser arrives, the camera delivers, and a
\* client goes on with the call it has made.
Fairness ==
  /\ WF_vars(Measure)
  /\ WF_vars(Evaluate)
  /\ \A c \in Client : WF_vars(Continue(c))

FairSpec == Spec /\ Fairness

---------------------------------------------------------------------------
\* Properties

\* Every variable has its type: the process, its two threads and its clients.
TypeOK ==
  /\ proc \in {"up", "abort"}
  /\ status \in Status /\ running \in BOOLEAN /\ terminated \in BOOLEAN
  /\ runs \in Nat
  /\ queue \in Seq(Position) /\ items \in Seq(Position)
  /\ focuser \in Position /\ step \in Position /\ target \in Position
  /\ mpc \in MeasurePc /\ crashed \in BOOLEAN /\ epc \in EvalPc
  /\ cpc \in [Client -> ClientPc]
  /\ cthen \in [Client -> {"ready", "launch"}]

\* The two threads never move the focuser at the same time, though no lock
\* keeps them from it: the evaluate thread gets to moveto() only through a
\* terminated queue, also across cancelled runs and restarts.
FocuserExclusive == ~(mpc = "moving" /\ epc = "moving")

\* FOCUSED means what focusing.ice says, "the focuser has been moved to that
\* position", and the position comes from all the images, in their order.
FocusedIsComplete ==
  status = "FOCUSED" /\ epc = "ended" =>
    /\ focuser = target
    /\ items = [k \in 1..Steps + 1 |-> k - 1]

\* wait() and stop() on a process that was started get to a final state,
\* although the evaluate thread may end without setting the status.
StatusWaitEnds ==
  \A c \in Client :
    cpc[c] = "wait" /\ status # "IDLE" ~> cpc[c] # "wait"

\* The joins in wait() come to an end, unless the measure thread has crashed
\* and left the queue open.
JoinsEnd ==
  \A c \in Client :
    cpc[c] \in {"joiningM", "joiningE"} ~>
      \/ cpc[c] \notin {"joiningM", "joiningE"}
      \/ crashed
=============================================================================
