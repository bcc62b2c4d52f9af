------------------------------ MODULE Guideport ------------------------------
(***************************************************************************)
(* The guide port: the thread of src/control/lib/device/BasicGuideport.cpp *)
(* that switches the four pins of the port on and off, and the corrections *)
(* a tracking process sends to it, one at a time, through                  *)
(* guiding/GuidePortAction.cpp and utils/AsynchronousAction.cpp.           *)
(*                                                                         *)
(* activate() writes the times of the four pins and notifies the thread    *)
(* without its mutex, while the thread may be reading them.  Each side     *)
(* looks at the clock once and then goes on with what it has seen: the     *)
(* round of the thread compares the times with a clock that is "age" old,  *)
(* and activate() counts its times from a moment that is "late" ago, also  *)
(* those of the pins it does not want.  Times are relative to the clock    *)
(* and pass in ticks.                                                      *)
(***************************************************************************)
EXTENDS Integers, Sequences

CONSTANTS
  Reach,      \* bound: the largest correction on an axis
  Allotted,   \* the time an action may take
  Second,     \* the ticks of a second
  Interval,   \* the longest wait of the thread
  Slack       \* bound: the longest time a round of the thread takes

ASSUME GuideportAssumption ==
  /\ Reach \in Nat /\ Allotted \in Nat
  /\ Second \in Nat \ {0} /\ Interval \in Nat \ {0} /\ Slack \in Nat

VARIABLES
  remaining,  \* nextchange[p] - clock for each pin, -Slack for all that is before
  thread,     \* the thread of the port: where it is in run()
  reading,    \* the pin it reads next
  seen,       \* the pins it has found to be on in this round, or the last one
  age,        \* the time since it looked at the clock for this round
  next,       \* next - clock, the time left until it has to wake up
  outputs,    \* the pins of the device that are on
  running,    \* _running
  stopper,    \* the thread that calls stop(): where it is
  worker,     \* the thread of the action: where it is in activate()
  writing,    \* the pin it writes next
  late,       \* the time since it looked at the clock, or left to sleep
  pulses,     \* what is left of the action
  asked       \* history: the time left until the latest end asked for a pin

threadVars == <<thread, reading, seen, age, next>>
workerVars == <<worker, writing, late, pulses>>
stopVars == <<running, stopper>>
vars == <<remaining, asked, outputs, stopVars, threadVars, workerVars>>

\* The pins in the order of nextchange[]: RA+, RA-, DEC+, DEC-.
Pin == 1..4
Opposite == {<<1, 2>>, <<3, 4>>}

---------------------------------------------------------------------------
\* The pulses of a correction

MaxOf(a, b) == IF a > b THEN a ELSE b
MinOf(a, b) == IF a < b THEN a ELSE b
Abs(x) == MaxOf(x, -x)

Pulse(x, y) ==
  [p \in Pin |-> CASE p = 1 -> MaxOf(x, 0) [] p = 2 -> MaxOf(-x, 0)
                   [] p = 3 -> MaxOf(y, 0) [] p = 4 -> MaxOf(-y, 0)]

\* No pulse is longer than the time allotted to the action.
Clip(x) == IF x > 0 THEN MinOf(x, Allotted) ELSE -MinOf(-x, Allotted)

\* After each pulse the action sleeps for the longer of the two corrections.
Length(x, y) == MaxOf(Abs(x), Abs(y))

\* With stepping, the pulse is divided by the number of seconds allotted and
\* repeated that often; the sleep is not divided.
Action(x, y, stepping) ==
  LET tx == Clip(x)
      ty == Clip(y)
      steps == IF stepping THEN Allotted \div Second ELSE 1
  IN [i \in 1..steps |->
        [pins  |-> [p \in Pin |-> Pulse(tx, ty)[p] \div steps],
         sleep |-> Length(tx, ty)]]

Correction == (-Reach)..Reach

---------------------------------------------------------------------------
TypeOK ==
  /\ remaining \in [Pin -> (-Slack)..Allotted] /\ asked \in [Pin -> 0..Allotted]
  /\ thread \in {"start", "read", "wait", "ended"}
  /\ reading \in 1..5
  /\ seen \subseteq Pin /\ outputs \subseteq Pin
  /\ age \in 0..Slack /\ next \in 0..Interval
  /\ running \in BOOLEAN /\ stopper \in {"none", "notify", "join"}
  /\ worker \in {"free", "write", "sleep"}
  /\ writing \in 1..5 /\ late \in 0..(Allotted + Slack)
  /\ pulses \in Seq([pins : [Pin -> 0..Allotted], sleep : 0..Allotted])
  /\ worker # "free" => pulses # <<>>

\* The times are those of the epoch of the clock, which is long past.
Init ==
  /\ remaining = [p \in Pin |-> -Slack] /\ asked = [p \in Pin |-> 0]
  /\ thread = "start" /\ reading = 1 /\ seen = {} /\ age = 0 /\ next = 0
  /\ outputs \in {{}, Pin}
  /\ running = TRUE /\ stopper = "none"
  /\ worker = "free" /\ writing = 1 /\ late = 0 /\ pulses = <<>>

---------------------------------------------------------------------------
\* The thread of the port

\* do_activate() throws or not; the exception is caught and forgotten.
DoActivate(pins) == outputs' \in {pins, outputs}

\* A new round: the thread takes the mutex and looks at the clock.
Round ==
  /\ thread' = "read" /\ reading' = 1 /\ seen' = {} /\ age' = 0 /\ next' = Interval

\* The thread begins with do_activate(0).
Start ==
  /\ thread = "start"
  /\ DoActivate({}) /\ Round
  /\ UNCHANGED <<remaining, asked, stopVars, workerVars>>

\* A pin whose time is after the moment of the round is on, and limits the wait:
\* that time may be past by now.  (A time written between its comparisons is not
\* before the old one, so they agree.)
IsOn(p) == remaining[p] + age > 0

ReadPinSlip ==
  /\ thread = "read" /\ reading \in Pin
  /\ IF IsOn(reading)
     THEN /\ seen' = seen \cup {reading}
          /\ next' = IF remaining[reading] > 0 THEN MinOf(next, remaining[reading]) ELSE next
     ELSE UNCHANGED <<seen, next>>
  /\ reading' = reading + 1
  /\ UNCHANGED <<remaining, asked, outputs, stopVars, thread, age, workerVars>>
ReadPin ==
  /\ thread = "read" /\ reading \in Pin
  /\ IF IsOn(reading)
     THEN /\ seen' = seen \cup {reading}
          /\ next' = MinOf(next, MaxOf(remaining[reading], 0))
     ELSE UNCHANGED <<seen, next>>
  /\ reading' = reading + 1
  /\ UNCHANGED <<remaining, asked, outputs, stopVars, thread, age, workerVars>>

\* do_activate(), then the wait, which gives the mutex back.
SetPins ==
  /\ thread = "read" /\ reading = 5
  /\ DoActivate(seen)
  /\ thread' = "wait" /\ age' = 0
  /\ UNCHANGED <<remaining, asked, stopVars, reading, seen, next, workerVars>>

\* The wait ends with a notification, in time, or for no reason at all.
Wake ==
  IF running THEN Round ELSE thread' = "ended" /\ UNCHANGED <<reading, seen, age, next>>

WakeUp ==
  /\ thread = "wait"
  /\ Wake
  /\ UNCHANGED <<remaining, asked, outputs, stopVars, workerVars>>

\* The wait is one with a limit: it ends by itself when its time is up.
WaitOverSlip == FALSE
WaitOver == next = 0

\* Only a waiting thread hears a notification.
Notify == IF thread = "wait" THEN Wake ELSE UNCHANGED threadVars

---------------------------------------------------------------------------
\* The action

\* activate() looks at the clock.
Activate(pins) ==
  /\ worker' = "write" /\ writing' = 1 /\ late' = 0
  /\ asked' = [p \in Pin |-> MaxOf(asked[p], pins[p])]

\* A correction that comes while an action is busy is dropped; without a
\* whole second, a stepping action does nothing.
ExecuteSlip(x, y, stepping) ==
  /\ worker # "write" /\ running
  /\ Action(x, y, stepping) # <<>>
  /\ pulses' = Action(x, y, stepping)
  /\ Activate(pulses'[1].pins)
  /\ UNCHANGED <<remaining, outputs, stopVars, threadVars>>
Execute(x, y, stepping) ==
  /\ worker = "free" /\ running
  /\ Action(x, y, stepping) # <<>>
  /\ pulses' = Action(x, y, stepping)
  /\ Activate(pulses'[1].pins)
  /\ UNCHANGED <<remaining, outputs, stopVars, threadVars>>

\* All four times count from the same moment, the call of activate().
WritePin ==
  /\ worker = "write" /\ writing \in Pin
  /\ remaining' = [remaining EXCEPT ![writing] = MaxOf(pulses[1].pins[writing] - late, -Slack)]
  /\ writing' = writing + 1
  /\ UNCHANGED <<asked, outputs, stopVars, worker, late, pulses, threadVars>>

Written ==
  /\ worker = "write" /\ writing = 5
  /\ Notify
  /\ worker' = "sleep" /\ late' = pulses[1].sleep
  /\ UNCHANGED <<remaining, asked, outputs, stopVars, writing, pulses>>

NextPulse ==
  /\ worker = "sleep" /\ late = 0
  /\ pulses' = Tail(pulses)
  /\ IF Len(pulses) > 1
     THEN Activate(pulses[2].pins)
     ELSE worker' = "free" /\ UNCHANGED <<writing, late, asked>>
  /\ UNCHANGED <<remaining, outputs, stopVars, threadVars>>

---------------------------------------------------------------------------
\* stop(): it needs the mutex for the flag, which the thread holds while it
\* reads, but notifies without it, once: nobody may be waiting then.
Stop ==
  /\ stopper = "none" /\ worker = "free" /\ thread # "read"
  /\ running' = FALSE /\ stopper' = "notify"
  /\ UNCHANGED <<remaining, asked, outputs, threadVars, workerVars>>

StopNotify ==
  /\ stopper = "notify"
  /\ Notify
  /\ stopper' = "join"
  /\ UNCHANGED <<remaining, asked, outputs, running, workerVars>>

---------------------------------------------------------------------------
\* Time passes whatever the threads are at; a round takes at most Slack of it.
Less(t, floor) == MaxOf(t - 1, floor)

Tick ==
  /\ thread = "read" => age < Slack
  /\ age' = IF thread = "read" THEN age + 1 ELSE age
  /\ remaining' = [p \in Pin |-> Less(remaining[p], -Slack)]
  /\ asked' = [p \in Pin |-> Less(asked[p], 0)]
  /\ next' = Less(next, 0)
  /\ late' = CASE worker = "write" -> MinOf(late + 1, Allotted + Slack)
               [] worker = "sleep" -> Less(late, 0)
               [] OTHER -> late
  /\ UNCHANGED <<outputs, stopVars, thread, reading, seen, worker, writing, pulses>>

Port == Start \/ ReadPin \/ SetPins \/ WakeUp
Worker == WritePin \/ Written \/ NextPulse
Next ==
  \/ Port \/ Worker \/ Tick
  \/ \E x, y \in Correction, stepping \in BOOLEAN : Execute(x, y, stepping)
  \/ Stop \/ StopNotify

Spec == Init /\ [][Next]_vars

\* The threads are scheduled and the clock goes on.  A wait that nobody ends
\* ends when its time is up, and not before.
WakeInTime == WaitOver /\ WakeUp
FairSpec ==
  Spec /\ WF_vars(Start \/ ReadPin \/ SetPins \/ WakeInTime) /\ WF_vars(Worker)
       /\ WF_vars(StopNotify) /\ WF_vars(Tick)

---------------------------------------------------------------------------
\* The device did what it was told last.
Switched == outputs = seen

\* A waiting port holds no pin longer than somebody has asked for, however the
\* writing of the times was interleaved with their reading: the wait ends in
\* time to take it off, and is over at once if it is for a pin that activate()
\* wanted off.  An exception of do_activate() leaves the pins as they were for
\* the length of a wait.
\* Hazard: times read while they are written, BasicGuideport.cpp:95.
PinsReleased ==
  thread = "wait" /\ next > 0 /\ Switched => \A p \in outputs : asked[p] > 0

\* The port never settles with both directions of an axis driven.  They can be
\* driven together: activate() gives the pins it wants off a time that is later
\* than the moment the thread compares it with.  Then the wait is over as it
\* begins and the next look at the clock takes one of them off, because a
\* correction is written only when the pulses of the one before are over.
\* Hazard: a round that compares new times with an old clock,
\* BasicGuideport.cpp:87.
NeverHeldOpposite ==
  thread = "wait" /\ next > 0 /\ Switched
    => \A pair \in Opposite : ~({pair[1], pair[2]} \subseteq outputs)

\* A pulse does not outlive the action that asked for it: when the action is
\* free for the next correction, all pins are due to be off.
\* Hazard: a busy action drops corrections, AsynchronousAction.cpp:35.
FreeIsOff == worker = "free" => \A p \in Pin : remaining[p] <= 0

\* Once stop() has cleared the flag the thread ends, so that its join returns,
\* even if the one notification comes while nobody waits: the wait has a limit.
\* Hazard: the notification may be lost, BasicGuideport.cpp:225.
StopReturns == ~running ~> thread = "ended"

\* "Activate guider port pins for a given set of times"
\* (BasicGuideport.cpp:165): when the times are written and the thread waits,
\* the pins that have time left are on.
Delivered ==
  worker # "write" /\ thread = "wait" /\ next > 0 /\ Switched
    => \A p \in Pin : remaining[p] > 0 => p \in outputs
=============================================================================
