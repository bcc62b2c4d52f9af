-------------------------- MODULE GuideportProofs --------------------------
(***************************************************************************)
(* Theorems about Guideport.tla for corrections, allotted times, intervals *)
(* and waits of any length.                                                *)
(***************************************************************************)
EXTENDS Guideport, SequenceTheorems, TLAPS

Time == 0..Allotted
FromNow == (-Slack)..Allotted
Since == 0..(Allotted + Slack)
APulse == [pins : [Pin -> Time], sleep : Time]

---------------------------------------------------------------------------
\* What a correction is made of

LEMMA Minima ==
  \A a, b \in Int :
    /\ MinOf(a, b) \in Int /\ MinOf(a, b) <= a /\ MinOf(a, b) <= b
    /\ MinOf(a, b) \in {a, b}
    /\ MaxOf(a, b) \in Int /\ MaxOf(a, b) >= a /\ MaxOf(a, b) >= b
    /\ MaxOf(a, b) \in {a, b}
  BY DEF MinOf, MaxOf

LEMMA Clipped == \A x \in Int : Clip(x) \in (-Allotted)..Allotted
  BY GuideportAssumption DEF Clip, MinOf

\* A part of a pulse is not longer than the pulse.
LEMMA Parts ==
  ASSUME NEW a \in Nat, NEW n \in Nat \ {0}
  PROVE  a \div n \in 0..a /\ (a = 0 => a \div n = 0)
<1>1. a \div n \in Int
  OBVIOUS
<1> DEFINE q == a \div n
           r == a % n
<1>2. a = n * q + r /\ r \in 0..(n - 1) /\ q \in Int
  OBVIOUS
<1>3. q >= 0
  <2> SUFFICES ASSUME q <= -1 PROVE FALSE
    BY <1>2
  <2>1. n * q <= n * (-1)
    BY <1>2
  <2> QED
    BY <1>2, <2>1
<1>4. q <= a
  <2> SUFFICES ASSUME q >= a + 1 PROVE FALSE
    BY <1>2
  <2>1. n * q >= q
    BY <1>2
  <2> QED
    BY <1>2, <2>1
<1> QED
  BY <1>2, <1>3, <1>4

LEMMA Pulses ==
  ASSUME NEW x \in (-Allotted)..Allotted, NEW y \in (-Allotted)..Allotted
  PROVE  /\ Pulse(x, y) \in [Pin -> Time]
         /\ Length(x, y) \in Time
         /\ \A p \in Pin : Pulse(x, y)[p] <= Length(x, y)
         /\ Pulse(x, y)[1] = 0 \/ Pulse(x, y)[2] = 0
         /\ Pulse(x, y)[3] = 0 \/ Pulse(x, y)[4] = 0
  BY GuideportAssumption DEF Pulse, Length, MaxOf, Abs, Pin, Time

\* No pulse is longer than the sleep after it, none drives both ways.
Sound(r) ==
  /\ \A p \in Pin : r.pins[p] <= r.sleep
  /\ r.pins[1] = 0 \/ r.pins[2] = 0
  /\ r.pins[3] = 0 \/ r.pins[4] = 0

LEMMA Actions ==
  ASSUME NEW x \in Correction, NEW y \in Correction, NEW stepping \in BOOLEAN,
         Action(x, y, stepping) # <<>>
  PROVE  /\ Action(x, y, stepping) \in Seq(APulse)
         /\ \A i \in 1..Len(Action(x, y, stepping)) : Sound(Action(x, y, stepping)[i])
<1> DEFINE tx == Clip(x)
           ty == Clip(y)
           steps == IF stepping THEN Allotted \div Second ELSE 1
           part == [p \in Pin |-> Pulse(tx, ty)[p] \div steps]
           pulse == [pins |-> part, sleep |-> Length(tx, ty)]
<1>1. tx \in (-Allotted)..Allotted /\ ty \in (-Allotted)..Allotted
  BY Clipped, GuideportAssumption DEF Correction
<1>2. steps \in Nat
  BY Parts, GuideportAssumption
<1>3. Action(x, y, stepping) = [i \in 1..steps |-> pulse]
  BY DEF Action
<1>4. steps # 0
  BY <1>2, <1>3
<1> HIDE DEF tx, ty, steps
<1>5. part \in [Pin -> Time] /\ \A p \in Pin : part[p] \in 0..Pulse(tx, ty)[p]
      /\ (Pulse(tx, ty)[p] = 0 => part[p] = 0)
  <2> SUFFICES ASSUME NEW p \in Pin
               PROVE  /\ part[p] \in Time /\ part[p] \in 0..Pulse(tx, ty)[p]
                      /\ (Pulse(tx, ty)[p] = 0 => part[p] = 0)
    OBVIOUS
  <2>1. Pulse(tx, ty)[p] \in Time
    BY <1>1, Pulses
  <2> QED
    BY <1>2, <1>4, <2>1, Parts, GuideportAssumption DEF Time
<1>6. pulse \in APulse /\ Sound(pulse)
  <2>1. \A p \in Pin : Pulse(tx, ty)[p] \in Time
    BY <1>1, Pulses
  <2>2. Length(tx, ty) \in Time
    BY <1>1, Pulses
  <2>3. \A p \in Pin : part[p] <= Length(tx, ty)
    <3> SUFFICES ASSUME NEW p \in Pin PROVE part[p] <= Length(tx, ty)
      OBVIOUS
    <3>1. Pulse(tx, ty)[p] <= Length(tx, ty)
      BY <1>1, Pulses
    <3>2. part[p] \in 0..Pulse(tx, ty)[p]
      BY <1>5
    <3> HIDE DEF part
    <3> QED
      BY <2>1, <2>2, <3>1, <3>2, GuideportAssumption DEF Time
  <2>4. (part[1] = 0 \/ part[2] = 0) /\ (part[3] = 0 \/ part[4] = 0)
    BY <1>1, <1>5, Pulses DEF Pin
  <2> QED
    BY <1>5, <2>2, <2>3, <2>4 DEF APulse, Sound
<1> HIDE DEF pulse
<1> QED
  BY <1>2, <1>3, <1>6

---------------------------------------------------------------------------
\* The type invariant

LEMMA Steps ==
  ASSUME NEW S, NEW q \in Seq(S), q # <<>>
  PROVE  /\ Len(q) \in Nat /\ 1 \in 1..Len(q) /\ q[1] \in S
         /\ Tail(q) \in Seq(S)
         /\ \A i \in 1..Len(Tail(q)) : i + 1 \in 1..Len(q) /\ Tail(q)[i] = q[i + 1]
         /\ Len(q) > 1 => q[2] \in S /\ Tail(q) # <<>>
<1>1. Len(q) \in Nat \ {0}
  BY EmptySeq
<1>2. q[1] \in S /\ (Len(q) > 1 => q[2] \in S)
  BY <1>1, ElementOfSeq
<1>3. /\ Tail(q) \in Seq(S) /\ Len(Tail(q)) = Len(q) - 1
      /\ \A i \in 1..Len(Tail(q)) : Tail(q)[i] = q[i + 1]
  BY HeadTailProperties
<1>4. Len(q) > 1 => Tail(q) # <<>>
  <2> DEFINE k == Len(Tail(q))
  <2>1. Tail(q) = <<>> => k = 0
    <3>1. Len(<<>>) = 0
      OBVIOUS
    <3> QED
      BY <3>1, Zenon
  <2>2. k = Len(q) - 1
    BY <1>3
  <2> HIDE DEF k
  <2> QED
    BY <1>1, <2>1, <2>2
<1> QED
  BY <1>1, <1>2, <1>3, <1>4

\* What TypeOK says of times and pulses, in the names of this module.
LEMMA Types ==
  ASSUME TypeOK
  PROVE  /\ remaining \in [Pin -> FromNow] /\ asked \in [Pin -> Time]
         /\ writing \in 1..5 /\ late \in Since
         /\ pulses \in Seq(APulse)
         /\ worker # "free" => pulses # <<>>
         /\ pulses # <<>> => pulses[1] \in APulse /\ Tail(pulses) \in Seq(APulse)
<1>1. /\ remaining \in [Pin -> FromNow] /\ asked \in [Pin -> Time]
      /\ writing \in 1..5 /\ late \in Since
      /\ pulses \in Seq(APulse)
      /\ worker # "free" => pulses # <<>>
  BY DEF TypeOK, Time, FromNow, Since, APulse
<1> QED
  BY <1>1, Steps

LEMMA TypeWake ==
  ASSUME TypeOK, Wake
  PROVE  /\ thread' \in {"start", "read", "wait", "ended"}
         /\ reading' \in 1..5 /\ seen' \subseteq Pin
         /\ age' \in 0..Slack /\ next' \in 0..Interval
  BY GuideportAssumption DEF Wake, Round, TypeOK

LEMMA TypePort == TypeOK /\ Port => TypeOK'
<1> SUFFICES ASSUME TypeOK, Port PROVE TypeOK'
  OBVIOUS
<1> USE DEF workerVars, stopVars
<1>1. CASE Start
  BY <1>1, GuideportAssumption DEF Start, Round, DoActivate, TypeOK
<1>2. CASE ReadPin
  <2>1. /\ reading \in Pin /\ remaining[reading] \in (-Slack)..Allotted
        /\ seen' \subseteq Pin
    BY <1>2 DEF ReadPin, TypeOK
  <2>3. reading' \in 1..5
    BY <1>2 DEF ReadPin, Pin
  <2>2. next' \in 0..Interval
    BY <1>2, <2>1, GuideportAssumption DEF ReadPin, TypeOK, MinOf, MaxOf
  <2> QED
    BY <1>2, <2>1, <2>2, <2>3 DEF ReadPin, TypeOK
<1>3. CASE SetPins
  BY <1>3, GuideportAssumption DEF SetPins, DoActivate, TypeOK
<1>4. CASE WakeUp
  BY <1>4, TypeWake DEF WakeUp, TypeOK
<1> QED
  BY <1>1, <1>2, <1>3, <1>4 DEF Port

LEMMA TypeActivate ==
  ASSUME TypeOK, NEW pins \in [Pin -> Time], Activate(pins)
  PROVE  /\ asked' \in [Pin -> Time] /\ late' \in Since
         /\ worker' = "write" /\ writing' \in 1..5
  BY Types, Minima, GuideportAssumption DEF Activate, Time, Since, MaxOf

LEMMA TypeWorker == TypeOK /\ Worker => TypeOK'
<1> SUFFICES ASSUME TypeOK, Worker PROVE TypeOK'
  OBVIOUS
<1> USE DEF threadVars, stopVars
<1>1. CASE WritePin
  <2>1. pulses[1].pins[writing] \in Time
    BY <1>1, Types DEF WritePin, APulse
  <2>2. MaxOf(pulses[1].pins[writing] - late, -Slack) \in FromNow
    BY <2>1, Types, GuideportAssumption DEF MaxOf, Time, Since, FromNow
  <2> QED
    <3>1. remaining' \in [Pin -> FromNow] /\ writing' \in 1..5
      BY <1>1, <2>2, Types DEF WritePin, Pin
    <3> QED
      BY <1>1, <3>1 DEF WritePin, TypeOK, FromNow
<1>2. CASE Written
  <2>1. pulses[1].sleep \in Time
    BY <1>2, Types DEF Written, APulse
  <2> QED
    <3>1. late' \in Since
      BY <1>2, <2>1, GuideportAssumption DEF Written, Time, Since
    <3> QED
      BY <1>2, <3>1, TypeWake DEF Written, Notify, TypeOK, Since
<1>3. CASE NextPulse
  <2>1. pulses # <<>> /\ pulses' \in Seq(APulse)
    BY <1>3, Types DEF NextPulse
  <2>2. CASE Len(pulses) > 1
    <3>1. pulses[2].pins \in [Pin -> Time] /\ pulses' # <<>>
      <4>1. pulses[2] \in APulse /\ Tail(pulses) # <<>>
        BY <2>1, <2>2, Types, Steps
      <4> QED
        BY <1>3, <4>1 DEF NextPulse, APulse
    <3> QED
      <4>1. Activate(pulses[2].pins)
        BY <1>3, <2>2 DEF NextPulse
      <4>2. /\ asked' \in [Pin -> Time] /\ late' \in Since
            /\ worker' = "write" /\ writing' \in 1..5
        BY <3>1, <4>1, TypeActivate
      <4> QED
        BY <1>3, <2>1, <3>1, <4>2 DEF NextPulse, TypeOK, Time, Since, APulse
  <2>3. CASE ~(Len(pulses) > 1)
    BY <1>3, <2>1, <2>3 DEF NextPulse, TypeOK, Time, APulse
  <2> QED
    BY <2>2, <2>3
<1> QED
  BY <1>1, <1>2, <1>3 DEF Worker

LEMMA TypeExecute ==
  ASSUME TypeOK, NEW x \in Correction, NEW y \in Correction, NEW stepping \in BOOLEAN,
         Execute(x, y, stepping)
  PROVE  TypeOK'
<1>1. pulses' \in Seq(APulse) /\ pulses' # <<>>
  BY Actions DEF Execute
<1>2. pulses'[1].pins \in [Pin -> Time] /\ Activate(pulses'[1].pins)
  <2>1. pulses'[1] \in APulse
    BY <1>1, Steps
  <2> QED
    BY <2>1 DEF APulse, Execute
<1>3. /\ asked' \in [Pin -> Time] /\ late' \in Since
      /\ worker' = "write" /\ writing' \in 1..5
  BY <1>2, TypeActivate
<1> QED
  BY <1>1, <1>3 DEF Execute, threadVars, stopVars, TypeOK, Time, Since, APulse

LEMMA TypeStop == TypeOK /\ (Stop \/ StopNotify) => TypeOK'
  BY TypeWake DEF Stop, StopNotify, Notify, TypeOK, threadVars, workerVars

LEMMA TypeTick == TypeOK /\ Tick => TypeOK'
<1> SUFFICES ASSUME TypeOK, Tick PROVE TypeOK'
  OBVIOUS
<1>1. /\ \A t \in Time : Less(t, 0) \in Time
      /\ \A t \in FromNow : Less(t, -Slack) \in FromNow
      /\ \A t \in Since : Less(t, 0) \in Since /\ MinOf(t + 1, Allotted + Slack) \in Since
  BY GuideportAssumption DEF Less, MaxOf, MinOf, Time, FromNow, Since
<1>2. next' \in 0..Interval /\ age' \in 0..Slack
  BY GuideportAssumption DEF Tick, Less, MaxOf, TypeOK
<1>3. late' \in Since
  BY <1>1, Types DEF Tick
<1>4. remaining' \in [Pin -> FromNow] /\ asked' \in [Pin -> Time]
  BY <1>1, Types DEF Tick
<1> QED
  BY <1>2, <1>3, <1>4 DEF Tick, stopVars, TypeOK, Time, FromNow, Since

LEMMA TypeStutter == TypeOK /\ UNCHANGED vars => TypeOK'
  BY DEF TypeOK, vars, threadVars, workerVars, stopVars

\* All times stay within the allotted time and the longest wait, whatever the
\* corrections are: a pulse is never longer than its action may take.
THEOREM TypeCorrect == Spec => []TypeOK
<1>1. Init => TypeOK
  BY GuideportAssumption DEF Init, TypeOK
<1>2. TypeOK /\ [Next]_vars => TypeOK'
  BY TypePort, TypeWorker, TypeExecute, TypeStop, TypeTick, TypeStutter DEF Next
<1> QED
  BY <1>1, <1>2, PTL DEF Spec

---------------------------------------------------------------------------
\* The pins
\*
\* What is left of a pulse is bounded by what is left of its sleep, so a port
\* whose action is free, or at the end of a sleep, has nothing left to do; a pin
\* that the thread has found on while it still has time to wait belongs to the
\* pulse under way, and the wait ends before the sleep; and no pin is due later
\* than somebody has asked for.

Due ==
  /\ \A i \in 1..Len(pulses) : Sound(pulses[i])
  /\ worker = "free" => \A p \in Pin : remaining[p] <= 0
  /\ worker = "sleep" => \A p \in Pin :
       /\ remaining[p] <= late
       /\ remaining[p] > 0 => pulses[1].pins[p] > 0
  /\ worker = "write" => \A p \in Pin :
       IF p < writing THEN remaining[p] <= MaxOf(pulses[1].pins[p] - late, 0)
       ELSE remaining[p] <= 0

Apart == \A pair \in Opposite : ~({pair[1], pair[2]} \subseteq seen)

OneWay ==
  /\ thread = "read" /\ next > 0 => \A p \in seen :
       /\ worker # "free" /\ pulses[1].pins[p] > 0
       /\ worker = "sleep" => next <= late
       /\ worker = "write" => next <= pulses[1].pins[p]
  /\ thread = "wait" /\ next > 0 => Apart

Asked ==
  /\ \A p \in Pin : remaining[p] <= asked[p]
  /\ worker = "write" => \A p \in Pin : pulses[1].pins[p] - late <= asked[p]
  /\ thread \in {"read", "wait"} => \A p \in seen : next <= asked[p]

PortInv == TypeOK /\ Due /\ OneWay /\ Asked
Keeps == Due' /\ OneWay' /\ Asked'

\* The pulse under way.
LEMMA UnderWay ==
  ASSUME PortInv, worker # "free"
  PROVE  /\ pulses[1] \in APulse /\ pulses[1].pins \in [Pin -> Time]
         /\ pulses[1].sleep \in Time /\ Sound(pulses[1])
<1>1. pulses \in Seq(APulse) /\ pulses # <<>>
  BY Types DEF PortInv
<1>2. 1 \in 1..Len(pulses) /\ pulses[1] \in APulse
  BY <1>1, Steps
<1> QED
  BY <1>2 DEF PortInv, Due, APulse

\* A call of activate() asks for more, never for less.
LEMMA AskedGrows ==
  ASSUME NEW pins \in [Pin -> Time], asked \in [Pin -> Time], Activate(pins)
  PROVE  /\ worker' = "write" /\ writing' = 1 /\ late' = 0
         /\ \A p \in Pin : asked[p] <= asked'[p] /\ pins[p] <= asked'[p]
<1>1. worker' = "write" /\ writing' = 1 /\ late' = 0
  BY DEF Activate
<1>2. ASSUME NEW p \in Pin PROVE asked[p] <= asked'[p] /\ pins[p] <= asked'[p]
  <2>1. asked'[p] = MaxOf(asked[p], pins[p])
    BY DEF Activate
  <2>2. asked[p] \in Int /\ pins[p] \in Int
    BY GuideportAssumption DEF Time
  <2> QED
    BY <2>1, <2>2 DEF MaxOf
<1> QED
  BY <1>1, <1>2

LEMMA AskedAnew ==
  ASSUME PortInv, NEW pins \in [Pin -> Time],
         UNCHANGED <<remaining, thread, seen, next>>,
         pulses'[1].pins = pins, late' = 0,
         \A p \in Pin : asked[p] <= asked'[p] /\ pins[p] <= asked'[p],
         asked' \in [Pin -> Time]
  PROVE  Asked'
<1>0. /\ \A p \in Pin : remaining[p] \in Int /\ asked[p] \in Int /\ asked'[p] \in Int
      /\ next \in Int /\ seen \subseteq Pin
  BY GuideportAssumption, Types DEF PortInv, TypeOK, FromNow, Time
<1>1. \A p \in Pin : remaining'[p] <= asked'[p]
  BY <1>0 DEF PortInv, Asked
<1>2. \A p \in Pin : pulses'[1].pins[p] - late' <= asked'[p]
  BY GuideportAssumption DEF Time
<1>3. thread' \in {"read", "wait"} => \A p \in seen' : next' <= asked'[p]
  BY <1>0 DEF PortInv, Asked
<1> QED
  BY <1>1, <1>2, <1>3 DEF Asked

LEMMA DueFrame == ASSUME Due, UNCHANGED <<remaining, workerVars>> PROVE Due'
  BY DEF Due, workerVars

\* A new round, or the end of the thread, begins with nothing seen.
LEMMA WakeKeeps ==
  ASSUME PortInv, Wake, UNCHANGED <<remaining, asked>>,
         worker' = "write" => worker = "write" /\ UNCHANGED <<late, pulses>>
  PROVE  OneWay' /\ Asked'
<1>1. thread' # "wait" /\ (thread' = "read" => seen' = {})
  BY DEF Wake, Round
<1>2. OneWay'
  BY <1>1 DEF OneWay
<1>3. Asked'
  BY <1>1 DEF Asked, PortInv
<1> QED
  BY <1>2, <1>3

LEMMA PortKeeps == PortInv /\ Port => Keeps
<1> SUFFICES ASSUME PortInv, Port PROVE Keeps
  OBVIOUS
<1> USE DEF PortInv, Keeps
<1>0. Due'
  BY DueFrame DEF Port, Start, ReadPin, SetPins, WakeUp
<1>1. CASE Start
  BY <1>0, <1>1 DEF Start, Round, OneWay, Asked, workerVars
<1>2. CASE ReadPin
  <2>1. reading \in Pin /\ remaining[reading] \in FromNow /\ next \in Nat
    BY <1>2, Types, GuideportAssumption DEF ReadPin, TypeOK
  <2>2. CASE IsOn(reading)
    <3>1. /\ seen' = seen \cup {reading} /\ UNCHANGED <<thread, asked, remaining, workerVars>>
          /\ thread = "read" /\ next' \in Nat
          /\ next' <= next /\ next' <= MaxOf(remaining[reading], 0)
      BY <1>2, <2>1, <2>2, GuideportAssumption DEF ReadPin, MinOf, MaxOf, FromNow
    <3>2. ASSUME next' > 0
          PROVE  /\ worker # "free" /\ pulses[1].pins[reading] > 0
                 /\ worker = "sleep" => next' <= late
                 /\ worker = "write" => next' <= pulses[1].pins[reading]
      <4>0. remaining[reading] > 0 /\ next' <= remaining[reading]
        BY <2>1, <3>1, <3>2, GuideportAssumption DEF MaxOf, FromNow
      <4>1. CASE worker = "free"
        BY <2>1, <4>0, <4>1, GuideportAssumption DEF Due, FromNow
      <4>2. CASE worker = "sleep"
        <5>1. remaining[reading] <= late /\ pulses[1].pins[reading] > 0
          BY <2>1, <4>0, <4>2 DEF Due
        <5> QED
          BY <2>1, <3>1, <4>0, <4>2, <5>1, Types, GuideportAssumption DEF FromNow, Since
      <4>3. CASE worker = "write"
        <5>1. pulses[1].pins[reading] \in Time /\ late \in Since
          BY <2>1, <4>3, UnderWay, Types
        <5>2. remaining[reading] <= MaxOf(pulses[1].pins[reading] - late, 0)
          BY <2>1, <4>0, <4>3, <5>1, GuideportAssumption DEF Due, MaxOf, FromNow, Time, Since
        <5> QED
          BY <2>1, <3>1, <4>0, <4>3, <5>1, <5>2, GuideportAssumption
             DEF MaxOf, Time, FromNow, Since
      <4> QED
        BY <4>1, <4>2, <4>3 DEF TypeOK
    <3>3. OneWay'
      <4> SUFFICES ASSUME next' > 0, NEW p \in seen'
                   PROVE  /\ worker # "free" /\ pulses[1].pins[p] > 0
                          /\ worker = "sleep" => next' <= late
                          /\ worker = "write" => next' <= pulses[1].pins[p]
        BY <3>1 DEF OneWay, workerVars
      <4>1. CASE p = reading
        BY <3>2, <4>1
      <4>2. CASE p # reading
        <5>1. /\ worker # "free" /\ pulses[1].pins[p] > 0
              /\ worker = "sleep" => next <= late
              /\ worker = "write" => next <= pulses[1].pins[p]
          BY <2>1, <3>1, <4>2 DEF OneWay
        <5>2. late \in Int /\ pulses[1].pins[p] \in Int
          <6>1. p \in Pin
            BY <3>1, <4>2 DEF TypeOK
          <6> QED
            BY <5>1, <6>1, UnderWay, Types, GuideportAssumption DEF Time, Since
        <5> QED
          BY <2>1, <3>1, <5>1, <5>2
      <4> QED
        BY <4>1, <4>2
    <3>4. Asked'
      <4>1. \A p \in seen' : next' <= asked'[p]
        <5> SUFFICES ASSUME NEW p \in seen' PROVE next' <= asked[p]
          BY <3>1
        <5>0. p \in Pin
          BY <2>1, <3>1 DEF TypeOK
        <5>1. asked[p] \in Time /\ asked[reading] \in Time /\ remaining[reading] <= asked[reading]
          BY <2>1, <5>0, Types DEF Asked
        <5>2. p = reading \/ next <= asked[p]
          BY <3>1 DEF Asked
        <5> QED
          BY <2>1, <3>1, <5>1, <5>2, GuideportAssumption DEF Time, FromNow, MaxOf
      <4> QED
        BY <3>1, <4>1 DEF Asked, workerVars
    <3> QED
      BY <1>0, <3>3, <3>4
  <2>3. CASE ~IsOn(reading)
    BY <1>0, <1>2, <2>3 DEF ReadPin, OneWay, Asked, workerVars
  <2> QED
    BY <2>2, <2>3
<1>3. CASE SetPins
  <2>1. thread = "read" /\ thread' = "wait"
        /\ UNCHANGED <<remaining, asked, seen, next, workerVars>>
    BY <1>3 DEF SetPins
  <2>2. next > 0 => Apart
    <3> SUFFICES ASSUME next > 0 PROVE Apart
      OBVIOUS
    <3>1. \A p \in seen : worker # "free" /\ pulses[1].pins[p] > 0
      BY <2>1 DEF OneWay
    <3>2. worker # "free" => Sound(pulses[1])
      BY UnderWay
    <3>3. ~({1, 2} \subseteq seen) /\ ~({3, 4} \subseteq seen)
      BY <3>1, <3>2 DEF Sound
    <3> QED
      BY <3>3 DEF Apart, Opposite
  <2>3. OneWay'
    BY <2>1, <2>2 DEF OneWay, Apart
  <2>4. Asked'
    BY <2>1 DEF Asked, workerVars
  <2> QED
    BY <1>0, <2>3, <2>4
<1>4. CASE WakeUp
  BY <1>0, <1>4, WakeKeeps DEF WakeUp, workerVars
<1> QED
  BY <1>1, <1>2, <1>3, <1>4 DEF Port

LEMMA WorkerKeeps == PortInv /\ Worker => Keeps
<1> SUFFICES ASSUME PortInv, Worker PROVE Keeps
  OBVIOUS
<1> USE DEF PortInv, Keeps, threadVars, stopVars
<1>0. /\ worker # "free" /\ late \in Since /\ pulses[1].pins \in [Pin -> Time]
      /\ pulses[1].sleep \in Time /\ Sound(pulses[1])
      /\ remaining \in [Pin -> FromNow] /\ asked \in [Pin -> Time]
      /\ next \in Nat /\ seen \subseteq Pin
  <2>1. worker # "free"
    BY DEF Worker, WritePin, Written, NextPulse
  <2>2. next \in Nat /\ seen \subseteq Pin
    BY GuideportAssumption DEF TypeOK
  <2> QED
    BY <2>1, <2>2, UnderWay, Types
<1>1. CASE WritePin
  <2>1. /\ UNCHANGED <<asked, worker, late, pulses, thread, seen, next>>
        /\ worker = "write" /\ writing \in Pin /\ writing' = writing + 1
        /\ remaining'[writing] = MaxOf(pulses[1].pins[writing] - late, -Slack)
        /\ \A p \in Pin : p # writing => remaining'[p] = remaining[p]
    BY <1>0, <1>1 DEF WritePin
  <2>2. Due'
    <3> SUFFICES ASSUME NEW p \in Pin
                 PROVE  IF p < writing + 1
                        THEN remaining'[p] <= MaxOf(pulses[1].pins[p] - late, 0)
                        ELSE remaining'[p] <= 0
      BY <2>1 DEF Due
    <3>1. MaxOf(pulses[1].pins[p] - late, -Slack) <= MaxOf(pulses[1].pins[p] - late, 0)
      BY <1>0, GuideportAssumption DEF MaxOf, Time, Since
    <3>2. IF p < writing THEN remaining[p] <= MaxOf(pulses[1].pins[p] - late, 0)
          ELSE remaining[p] <= 0
      BY <2>1 DEF Due
    <3> QED
      BY <2>1, <3>1, <3>2 DEF Pin
  <2>3. OneWay'
    BY <2>1 DEF OneWay, Apart
  <2>4. Asked'
    <3>1. \A p \in Pin : remaining'[p] <= asked[p]
      <4>1. MaxOf(pulses[1].pins[writing] - late, -Slack) <= asked[writing]
        <5>1. pulses[1].pins[writing] - late <= asked[writing]
          BY <2>1 DEF Asked
        <5> QED
          BY <1>0, <2>1, <5>1, GuideportAssumption DEF MaxOf, Time, Since
      <4> QED
        BY <2>1, <4>1 DEF Asked
    <3> QED
      BY <2>1, <3>1 DEF Asked
  <2> QED
    BY <2>2, <2>3, <2>4
<1>2. CASE Written
  <2>1. /\ UNCHANGED <<remaining, asked, pulses>>
        /\ worker = "write" /\ writing = 5
        /\ worker' = "sleep" /\ late' = pulses[1].sleep
    BY <1>2 DEF Written
  <2>2. \A p \in Pin : /\ remaining[p] <= pulses[1].sleep
                       /\ remaining[p] > 0 => pulses[1].pins[p] > 0
    <3> SUFFICES ASSUME NEW p \in Pin
                 PROVE  /\ remaining[p] <= pulses[1].sleep
                        /\ remaining[p] > 0 => pulses[1].pins[p] > 0
      OBVIOUS
    <3>1. remaining[p] <= MaxOf(pulses[1].pins[p] - late, 0)
      BY <2>1 DEF Due, Pin
    <3>2. pulses[1].pins[p] <= pulses[1].sleep
      BY <1>0 DEF Sound
    <3> QED
      BY <1>0, <3>1, <3>2, GuideportAssumption DEF MaxOf, Time, Since, FromNow
  <2>3. Due'
    BY <2>1, <2>2 DEF Due
  <2>4. CASE thread = "wait"
    BY <1>2, <2>1, <2>3, <2>4, WakeKeeps DEF Written, Notify
  <2>5. CASE thread # "wait"
    <3>1. UNCHANGED threadVars
      BY <1>2, <2>5 DEF Written, Notify
    <3>2. \A p \in Pin : pulses[1].pins[p] <= pulses[1].sleep
      BY <1>0 DEF Sound
    <3>3. OneWay'
      <4> SUFFICES ASSUME thread = "read", next > 0, NEW p \in seen
                   PROVE  pulses[1].pins[p] > 0 /\ next <= pulses[1].sleep
        BY <2>1, <2>5, <3>1 DEF OneWay
      <4>1. pulses[1].pins[p] > 0 /\ next <= pulses[1].pins[p]
        BY <2>1 DEF OneWay
      <4>2. p \in Pin /\ pulses[1].pins[p] \in Time
        BY <1>0
      <4> QED
        BY <1>0, <3>2, <4>1, <4>2, GuideportAssumption DEF Time
    <3>4. Asked'
      BY <2>1, <3>1 DEF Asked
    <3> QED
      BY <2>3, <3>3, <3>4
  <2> QED
    BY <2>4, <2>5
<1>3. CASE NextPulse
  <2>1. /\ UNCHANGED <<remaining, thread, seen, next>>
        /\ worker = "sleep" /\ late = 0 /\ pulses' = Tail(pulses)
        /\ pulses \in Seq(APulse) /\ pulses # <<>>
    BY <1>3, Types DEF NextPulse
  <2>2. \A p \in Pin : remaining[p] <= 0
    BY <2>1 DEF Due
  <2>3. thread = "read" /\ next > 0 => seen = {}
    BY <1>0, <2>1 DEF OneWay
  <2>4. \A i \in 1..Len(pulses') : Sound(pulses'[i])
    BY <2>1, Steps DEF Due
  <2>5. OneWay'
    BY <2>1, <2>3 DEF OneWay, Apart
  <2>6. CASE Len(pulses) > 1
    <3>1. Activate(pulses[2].pins)
      BY <1>3, <2>6 DEF NextPulse
    <3>2. /\ Len(pulses) \in Nat /\ pulses[2] \in APulse
          /\ pulses'[1] = pulses[2]
      BY <2>1, <2>6, Steps, HeadTailProperties
    <3>3. pulses[2].pins \in [Pin -> Time]
      BY <3>2 DEF APulse
    <3>4. /\ worker' = "write" /\ writing' = 1 /\ late' = 0
          /\ \A p \in Pin : asked[p] <= asked'[p] /\ pulses[2].pins[p] <= asked'[p]
      BY <1>0, <3>1, <3>3, AskedGrows
    <3>5. Due'
      BY <2>1, <2>2, <2>4, <3>4 DEF Due, Pin
    <3>6. Asked'
      <4>1. asked' \in [Pin -> Time]
        BY <3>1, <3>3, <1>0, TypeActivate
      <4> QED
        BY <2>1, <3>2, <3>3, <3>4, <4>1, AskedAnew
    <3> QED
      BY <2>5, <3>5, <3>6
  <2>7. CASE ~(Len(pulses) > 1)
    <3>1. worker' = "free" /\ asked' = asked
      BY <1>3, <2>7 DEF NextPulse
    <3>2. Due'
      BY <2>1, <2>2, <2>4, <3>1 DEF Due
    <3>3. Asked'
      BY <2>1, <3>1 DEF Asked
    <3> QED
      BY <2>5, <3>2, <3>3
  <2> QED
    BY <2>6, <2>7
<1> QED
  BY <1>1, <1>2, <1>3 DEF Worker

LEMMA ExecuteKeeps ==
  ASSUME PortInv, NEW x \in Correction, NEW y \in Correction, NEW stepping \in BOOLEAN,
         Execute(x, y, stepping)
  PROVE  Keeps
<1>1. /\ worker = "free" /\ pulses' = Action(x, y, stepping) /\ pulses' # <<>>
      /\ UNCHANGED <<remaining, thread, seen, next>>
      /\ Activate(pulses'[1].pins)
  BY DEF Execute, threadVars
<1>2. /\ pulses' \in Seq(APulse)
      /\ \A i \in 1..Len(pulses') : Sound(pulses'[i])
  BY <1>1, Actions
<1>3. pulses'[1].pins \in [Pin -> Time]
  <2>1. pulses'[1] \in APulse
    BY <1>1, <1>2, Steps
  <2> QED
    BY <2>1 DEF APulse
<1>4. /\ \A p \in Pin : remaining[p] <= 0
      /\ thread = "read" /\ next > 0 => seen = {}
  BY <1>1 DEF PortInv, Due, OneWay
<1>5. asked \in [Pin -> Time] /\ asked' \in [Pin -> Time]
  BY <1>1, <1>3, Types, TypeActivate DEF PortInv
<1>6. /\ worker' = "write" /\ writing' = 1 /\ late' = 0
      /\ \A p \in Pin : asked[p] <= asked'[p] /\ pulses'[1].pins[p] <= asked'[p]
  BY <1>1, <1>3, <1>5, AskedGrows
<1>7. Due'
  BY <1>1, <1>2, <1>4, <1>6 DEF Due, Pin
<1>8. OneWay'
  BY <1>1, <1>4 DEF OneWay, Apart, PortInv
<1>9. Asked'
  <2> DEFINE pins == pulses'[1].pins
  <2>1. /\ pins \in [Pin -> Time] /\ pulses'[1].pins = pins
        /\ \A p \in Pin : asked[p] <= asked'[p] /\ pins[p] <= asked'[p]
    BY <1>3, <1>6
  <2> HIDE DEF pins
  <2> QED
    BY <1>1, <1>5, <1>6, <2>1, AskedAnew
<1> QED
  BY <1>7, <1>8, <1>9 DEF Keeps

LEMMA StopKeeps == PortInv /\ (Stop \/ StopNotify) => Keeps
<1> SUFFICES ASSUME PortInv, Stop \/ StopNotify PROVE Keeps
  OBVIOUS
<1>0. Due'
  BY DueFrame DEF PortInv, Stop, StopNotify
<1>1. ASSUME UNCHANGED <<remaining, asked, threadVars, workerVars>>
      PROVE  OneWay' /\ Asked'
  BY <1>1 DEF PortInv, OneWay, Apart, Asked, threadVars, workerVars
<1>2. CASE Stop
  BY <1>0, <1>1, <1>2 DEF Stop, Keeps
<1>3. CASE StopNotify
  <2>1. CASE thread = "wait"
    BY <1>0, <1>3, <2>1, WakeKeeps DEF StopNotify, Notify, Keeps, workerVars
  <2>2. CASE thread # "wait"
    BY <1>0, <1>1, <1>3, <2>2 DEF StopNotify, Notify, Keeps
  <2> QED
    BY <2>1, <2>2
<1> QED
  BY <1>2, <1>3

\* All times pass at the same pace.
LEMMA TickKeeps == PortInv /\ Tick => Keeps
<1> SUFFICES ASSUME PortInv, Tick PROVE Keeps
  OBVIOUS
<1>1. /\ UNCHANGED <<thread, seen, worker, writing, pulses>>
      /\ \A p \in Pin : /\ remaining'[p] = Less(remaining[p], -Slack)
                         /\ asked'[p] = Less(asked[p], 0)
      /\ next' = Less(next, 0)
      /\ worker = "write" => late' = MinOf(late + 1, Allotted + Slack)
      /\ worker = "sleep" => late' = Less(late, 0)
  BY DEF Tick
<1>2. /\ \A p \in Pin : remaining[p] \in FromNow /\ asked[p] \in Time
      /\ late \in Since /\ next \in Nat /\ seen \subseteq Pin
  BY Types, GuideportAssumption DEF PortInv, TypeOK
<1>3. worker # "free" => pulses[1].pins \in [Pin -> Time]
  BY UnderWay
<1>4. Due'
  <2>1. \A i \in 1..Len(pulses') : Sound(pulses'[i])
    BY <1>1 DEF PortInv, Due
  <2>2. ASSUME worker' = "free", NEW p \in Pin PROVE remaining'[p] <= 0
    <3>1. remaining[p] <= 0 /\ remaining'[p] = Less(remaining[p], -Slack)
      BY <1>1, <2>2 DEF PortInv, Due
    <3> QED
      BY <1>2, <3>1, GuideportAssumption DEF Less, MaxOf, FromNow
  <2>3. ASSUME worker' = "sleep", NEW p \in Pin
        PROVE  remaining'[p] <= late' /\ (remaining'[p] > 0 => pulses'[1].pins[p] > 0)
    <3>1. /\ remaining[p] <= late /\ (remaining[p] > 0 => pulses[1].pins[p] > 0)
          /\ remaining'[p] = Less(remaining[p], -Slack) /\ late' = Less(late, 0)
          /\ pulses' = pulses
      BY <1>1, <2>3 DEF PortInv, Due
    <3> QED
      BY <1>2, <3>1, GuideportAssumption DEF Less, MaxOf, FromNow, Since
  <2>4. ASSUME worker' = "write", NEW p \in Pin
        PROVE  IF p < writing' THEN remaining'[p] <= MaxOf(pulses'[1].pins[p] - late', 0)
               ELSE remaining'[p] <= 0
    <3>1. /\ IF p < writing THEN remaining[p] <= MaxOf(pulses[1].pins[p] - late, 0)
             ELSE remaining[p] <= 0
          /\ remaining'[p] = Less(remaining[p], -Slack)
          /\ late' = MinOf(late + 1, Allotted + Slack)
          /\ pulses' = pulses /\ writing' = writing /\ pulses[1].pins[p] \in Time
      BY <1>1, <1>3, <2>4 DEF PortInv, Due
    <3>2. CASE p < writing
      BY <1>2, <3>1, <3>2, GuideportAssumption DEF Less, MaxOf, MinOf, Time, FromNow, Since
    <3>3. CASE ~(p < writing)
      BY <1>2, <3>1, <3>3, GuideportAssumption DEF Less, MaxOf, FromNow
    <3> QED
      BY <3>2, <3>3
  <2> QED
    BY <2>1, <2>2, <2>3, <2>4 DEF Due
<1>5. OneWay'
  <2>1. next' > 0 => next > 0 /\ next' = next - 1
    BY <1>1, <1>2 DEF Less, MaxOf
  <2>2. ASSUME thread = "read", next' > 0, NEW p \in seen
        PROVE  /\ worker # "free" /\ pulses[1].pins[p] > 0
               /\ worker = "sleep" => next' <= late'
               /\ worker = "write" => next' <= pulses[1].pins[p]
    <3>1. /\ worker # "free" /\ pulses[1].pins[p] > 0
          /\ worker = "sleep" => next <= late
          /\ worker = "write" => next <= pulses[1].pins[p]
      BY <2>1, <2>2 DEF PortInv, OneWay
    <3>2. pulses[1].pins[p] \in Time
      BY <1>2, <1>3, <3>1
    <3> QED
      BY <1>1, <1>2, <2>1, <2>2, <3>1, <3>2, GuideportAssumption
         DEF Less, MaxOf, Time, Since
  <2> QED
    BY <1>1, <2>1, <2>2 DEF PortInv, OneWay, Apart
<1>6. Asked'
  <2>1. ASSUME NEW p \in Pin PROVE remaining'[p] <= asked'[p]
    <3>1. remaining[p] <= asked[p]
      BY DEF PortInv, Asked
    <3> QED
      BY <1>1, <1>2, <3>1, GuideportAssumption DEF Less, MaxOf, Time, FromNow
  <2>2. ASSUME worker' = "write", NEW p \in Pin
        PROVE  pulses'[1].pins[p] - late' <= asked'[p]
    <3>1. /\ pulses[1].pins[p] - late <= asked[p] /\ pulses[1].pins[p] \in Time
          /\ asked'[p] = Less(asked[p], 0) /\ late' = MinOf(late + 1, Allotted + Slack)
          /\ pulses' = pulses
      BY <1>1, <1>3, <2>2 DEF PortInv, Asked
    <3> QED
      BY <1>2, <3>1, GuideportAssumption DEF Less, MaxOf, MinOf, Time, Since
  <2>3. ASSUME thread' \in {"read", "wait"}, NEW p \in seen' PROVE next' <= asked'[p]
    <3>1. /\ p \in Pin /\ next <= asked[p]
          /\ next' = Less(next, 0) /\ asked'[p] = Less(asked[p], 0)
      BY <1>1, <1>2, <2>3 DEF PortInv, Asked
    <3> QED
      BY <1>2, <3>1, GuideportAssumption DEF Less, MaxOf, Time
  <2> QED
    BY <2>1, <2>2, <2>3 DEF Asked
<1> QED
  BY <1>4, <1>5, <1>6 DEF Keeps

THEOREM PortInvariant == Spec => []PortInv
<1>1. Init => PortInv
  <2> SUFFICES ASSUME Init PROVE PortInv
    OBVIOUS
  <2>1. TypeOK
    BY GuideportAssumption DEF Init, TypeOK
  <2> QED
    BY <2>1, GuideportAssumption DEF Init, PortInv, Due, OneWay, Asked
<1>2. PortInv /\ [Next]_vars => PortInv'
  <2> SUFFICES ASSUME PortInv, [Next]_vars PROVE PortInv'
    OBVIOUS
  <2>1. TypeOK'
    BY TypePort, TypeWorker, TypeExecute, TypeStop, TypeTick, TypeStutter DEF Next, PortInv
  <2>2. Keeps
    <3>1. CASE UNCHANGED vars
      BY <3>1 DEF vars, threadVars, workerVars, PortInv, Keeps, Due, OneWay, Apart, Asked
    <3> QED
      BY <3>1, PortKeeps, WorkerKeeps, ExecuteKeeps, StopKeeps, TickKeeps DEF Next
  <2> QED
    BY <2>1, <2>2 DEF Keeps, PortInv
<1> QED
  BY <1>1, <1>2, PTL DEF Spec

\* While the thread has time to wait, every pin that is on was asked for until
\* later, so that no pin stays on for longer, whatever order times are written
\* and read in, and however old the clock of a round is.
THEOREM PinsAreReleased == Spec => []PinsReleased
<1>1. PortInv => PinsReleased
  <2> SUFFICES ASSUME PortInv, thread = "wait", next > 0, NEW p \in seen
               PROVE  asked[p] > 0
    BY DEF PinsReleased, Switched
  <2>1. p \in Pin /\ next <= asked[p] /\ next \in Nat /\ asked[p] \in Time
    BY Types, GuideportAssumption DEF PortInv, TypeOK, Asked
  <2> QED
    BY <2>1, GuideportAssumption DEF Time
<1> QED
  BY <1>1, PortInvariant, PTL

\* No axis is driven both ways for longer than the thread needs to look at the
\* clock again, for corrections of any size and rounds of any length.
THEOREM NeverBothWays == Spec => []NeverHeldOpposite
<1>1. PortInv => NeverHeldOpposite
  BY DEF PortInv, OneWay, Apart, NeverHeldOpposite, Switched
<1> QED
  BY <1>1, PortInvariant, PTL

\* The action is free for the next correction only when all pins are due off.
THEOREM FreeMeansOff == Spec => []FreeIsOff
<1>1. PortInv => FreeIsOff
  BY DEF PortInv, Due, FreeIsOff
<1> QED
  BY <1>1, PortInvariant, PTL
=============================================================================
