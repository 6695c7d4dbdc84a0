---------------------------- MODULE PushedProofs ----------------------------
(***************************************************************************)
(* Proofs about what works its result out from several pushes, each from   *)
(* an inductive invariant of its own module: AveragePower, Counters,       *)
(* ChargingDuration, Offers and CloudApi, for all values of the constants. *)
(* The instances of MCPushed are five systems that share no state, so each *)
(* has its own specification here.                                         *)
(***************************************************************************)
EXTENDS MCPushed, SequenceTheorems, WellFoundedInduction, TLAPS

-----------------------------------------------------------------------------
(* AveragePower *)

LEMMA Limits == Limit \in Nat /\ Limit > 0 /\ 0 \in 0..Limit /\ Limit \in 0..Limit
  BY TimesAssumption

LEMMA Times ==
  interval \in Intervals =>
    /\ Limit \in Nat /\ Limit > 0 /\ interval \in Nat
    /\ 0 \in 0..Limit /\ Limit \in 0..Limit
    /\ 0 \in 0..interval /\ interval \in 0..interval
    /\ LongIdle \in Nat /\ 0 \in 0..LongIdle
  BY TimesAssumption DEF LongIdle

\* What a reading leaves behind in the entity (WattpilotAveragePowerSensor.
\* _apply_value): a timer that runs goes on, a new one has the whole minute.
LEMMA ApplyFits ==
  ASSUME NEW e \in Sensors, NEW l \in Readings, NEW v \in Values, Fits(e)
  PROVE  LET a == ApplyValue(e, l, v)
         IN  /\ a \in Sensors
             /\ Fits(a)
             /\ l = "idle" => (a.timer = "running" \/ (a.shown = 0 /\ a.stale = v))
             /\ l = "idle" => (a.timer = "running" => IF e.timer = "running" THEN a.wait = e.wait ELSE a.wait = Limit)
             /\ l = "idle" => (e.timer = "running" => a.timer = "running")
             /\ (l = "idle" /\ a.shown = 0 /\ v # 0) => Nothing(e)
             /\ l # "idle" => a.timer = "none"
             /\ (l # "idle" /\ a.shown = 0 /\ v # 0) => Nothing(e)
             /\ (Nothing(e) /\ e.stale = v) => (Nothing(a) /\ a.stale = v)
             /\ (Nothing(e) /\ l = "idle") => (Nothing(a) /\ a.stale = v)
  <1> USE AveragesAssumption, MarksAssumption, Limits DEF Sensors, Values, Fits, Nothing
  <1>1. CASE l = "idle"
    <2>1. CASE Nothing(e)
      BY <1>1, <2>1 DEF ApplyValue, HoldWhileIdle, ShowIdle
    <2>2. CASE ~Nothing(e)
      BY <1>1, <2>2 DEF ApplyValue, HoldWhileIdle, ShowIdle
    <2> QED
      BY <2>1, <2>2
  <1>2. CASE l # "idle"
    <2> DEFINE s == StopIdleTimer(e)
    <2>1. s \in Sensors /\ s.timer = "none" /\ s.shown = e.shown /\ s.stale = e.stale
      BY DEF StopIdleTimer
    <2>2. ApplyValue(e, l, v) = ShowLive(s, l, v)
      BY <1>2 DEF ApplyValue
    <2> HIDE DEF s
    <2>3. CASE l = "unknown" \/ v = Null
      BY <1>2, <2>1, <2>2, <2>3 DEF ShowLive
    <2>4. CASE l = "flows" /\ v # Null /\ v = s.stale
      BY <1>2, <2>1, <2>2, <2>4 DEF ShowLive
    <2>5. CASE l = "flows" /\ v = Bad /\ v # s.stale
      BY <1>2, <2>1, <2>2, <2>5 DEF ShowLive
    <2>6. CASE l = "flows" /\ v \in Averages /\ v # s.stale
      BY <1>2, <2>1, <2>2, <2>6 DEF ShowLive
    <2> QED
      BY <1>2, <2>3, <2>4, <2>5, <2>6 DEF Readings
  <1> QED
    BY <1>1, <1>2

LEMMA FreshFits == Fresh \in Sensors /\ Fits(Fresh) /\ Fresh.timer # "running" /\ Nothing(Fresh)
  BY AveragesAssumption, MarksAssumption, Limits
     DEF Fresh, Sensors, Values, Fits, Nothing

LEMMA InitInv == Init => Inv
  <1> SUFFICES ASSUME Init PROVE Inv
    OBVIOUS
  <1>1. TypeOK
    BY FreshFits, Times DEF Init, TypeOK
  <1>2. InStep
    BY FreshFits DEF Init, InStep
  <1>3. InTime
    BY FreshFits DEF Init, InTime
  <1> QED
    BY <1>1, <1>2, <1>3 DEF Inv

LEMMA PropertyChangeInv ==
  ASSUME Inv, NEW l \in Readings, NEW v \in Values, PropertyChange(l, v),
         live # "idle" => idleFor = 0,
         idleFor' = IF l = "idle" THEN idleFor ELSE 0,
         ended' \in BOOLEAN, left' \in BOOLEAN, ended' => l # "flows"
  PROVE  Inv'
  <1>t. interval \in Intervals /\ interval' = interval /\ LongIdle' = LongIdle
    BY DEF PropertyChange, LongIdle, Inv, TypeOK
  <1> USE Times, <1>t
  <1>1. live' = l /\ tpa' = v /\ flushIn' = flushIn /\ up' = up
    BY DEF PropertyChange
  <1>2. idleFor' \in 0..LongIdle
    BY DEF Inv, TypeOK, LongIdle
  <1>3. CASE up /\ interval = 0
    <2>1. sensor' = ApplyValue(sensor, l, v) /\ due' = due /\ ~due
      BY <1>3 DEF PropertyChange, Inv, InStep, TypeOK
    <2>2. TypeOK'
      BY <1>1, <1>2, <2>1, ApplyFits DEF Inv, TypeOK, InStep
    <2>3. InStep'
      BY <1>1, <1>3, <2>1, ApplyFits DEF Inv, TypeOK, InStep
    <2>4. InTime'
      <3>1. (up /\ live = "idle" /\ sensor.timer = "running") => idleFor + sensor.wait <= Limit + interval
        BY DEF Inv, InTime
      <3>2. CASE l = "idle"
        <4>1. CASE sensor.timer = "running"
          <5>1. sensor'.timer = "running" => sensor'.wait = sensor.wait
            BY <2>1, <3>2, <4>1, ApplyFits DEF Inv, TypeOK, InStep
          <5>2. live = "idle"
            BY <1>3, <4>1, <2>1 DEF Inv, InStep, Fits
          <5> QED
            BY <1>1, <1>3, <2>1, <3>1, <3>2, <4>1, <5>1, <5>2 DEF InTime
        <4>2. CASE sensor.timer # "running"
          <5>1. CASE live = "idle"
            <6>1. sensor.shown = 0
              BY <1>3, <2>1, <4>2, <5>1 DEF Inv, InStep
            <6>2. sensor'.timer # "running"
              BY <1>1, <2>1, <3>2, <6>1, ApplyFits DEF Inv, TypeOK, InStep, Nothing, Fits
            <6> QED
              BY <1>1, <1>3, <2>1, <3>2, <6>2 DEF InTime
          <5>2. CASE live # "idle"
            <6>1. sensor'.timer = "running" => sensor'.wait = Limit
              BY <2>1, <3>2, <4>2, ApplyFits DEF Inv, TypeOK, InStep
            <6> QED
              BY <1>1, <1>3, <2>1, <3>2, <5>2, <6>1 DEF InTime
          <5> QED
            BY <5>1, <5>2
        <4> QED
          BY <4>1, <4>2
      <3>3. CASE l # "idle"
        BY <1>1, <3>3 DEF InTime
      <3> QED
        BY <3>2, <3>3
    <2> QED
      BY <2>2, <2>3, <2>4 DEF Inv
  <1>4. CASE ~(up /\ interval = 0)
    <2>1. sensor' = sensor /\ due' = (due \/ (up /\ interval > 0))
      BY <1>4 DEF PropertyChange
    <2>2. TypeOK'
      BY <1>1, <1>2, <2>1 DEF Inv, TypeOK
    <2>3. InStep'
      BY <1>1, <1>4, <2>1 DEF Inv, TypeOK, InStep
    <2>4. InTime'
      BY <1>1, <1>4, <2>1, MarksAssumption, AveragesAssumption
         DEF Inv, TypeOK, InStep, InTime, Fits, Nothing, Sensors
    <2> QED
      BY <2>2, <2>3, <2>4 DEF Inv
  <1> QED
    BY <1>3, <1>4

LEMMA FlushPendingInv == Inv /\ FlushPending => Inv'
  <1> SUFFICES ASSUME Inv, FlushPending PROVE Inv'
    OBVIOUS
  <1>t. interval \in Intervals /\ interval' = interval /\ LongIdle' = LongIdle
    BY DEF FlushPending, LongIdle, Inv, TypeOK
  <1> USE Times, <1>t
  <1>1. up /\ up' = up /\ live' = live /\ tpa' = tpa /\ idleFor' = idleFor /\ ~due' /\ flushIn' = interval
       /\ due' \in BOOLEAN /\ ended' = ended /\ left' = left
    BY DEF FlushPending
  <1>2. CASE due
    <2>1. sensor' = ApplyValue(sensor, live, tpa)
      BY <1>2 DEF FlushPending
    <2>2. sensor' \in Sensors /\ Fits(sensor')
      BY <2>1, ApplyFits DEF Inv, TypeOK, InStep
    <2>4. TypeOK'
      BY <1>1, <2>2 DEF Inv, TypeOK
    <2>5. InStep'
      BY <1>1, <2>1, <2>2, ApplyFits DEF Inv, TypeOK, InStep
    <2>3. InTime'
      <3>1. live = "idle" => (sensor'.timer = "running" =>
              IF sensor.timer = "running" THEN sensor'.wait = sensor.wait ELSE sensor'.wait = Limit)
        BY <2>1, ApplyFits DEF Inv, TypeOK, InStep
      <3>2. sensor.shown = 0 /\ live = "idle" => sensor'.timer # "running"
        BY <2>1, ApplyFits DEF Inv, TypeOK, InStep, Nothing, Fits
      <3> QED
        BY <1>1, <1>2, <3>1, <3>2 DEF Inv, TypeOK, InTime, LongIdle
    <2> QED
      BY <2>3, <2>4, <2>5 DEF Inv
  <1>3. CASE ~due
    <2>1. sensor' = sensor
      BY <1>3 DEF FlushPending
    <2>2. TypeOK' /\ InStep'
      BY <1>1, <1>3, <2>1 DEF Inv, TypeOK, InStep
    <2>3. InTime'
      BY <1>1, <2>1 DEF Inv, InTime
    <2> QED
      BY <2>2, <2>3 DEF Inv
  <1> QED
    BY <1>2, <1>3

LEMMA WentIdleInv == Inv /\ WentIdle => Inv'
  <1> SUFFICES ASSUME Inv, WentIdle PROVE Inv'
    OBVIOUS
  <1>t. interval \in Intervals /\ interval' = interval /\ LongIdle' = LongIdle
    BY DEF WentIdle, LongIdle, Inv, TypeOK
  <1> USE Times, <1>t
  <1>1. /\ sensor.timer = "running" /\ sensor'.shown = 0 /\ sensor'.stale = tpa 
        /\ sensor'.timer = "made" /\ sensor' \in Sensors /\ up
    BY DEF WentIdle, ShowIdle, Inv, TypeOK, InStep, Fits, Sensors
  <1>2. due \/ live = "idle"
    BY <1>1 DEF Inv, InStep, TypeOK, Readings
  <1> QED
    BY <1>1, <1>2 DEF WentIdle, Inv, TypeOK, InStep, InTime, Fits, Nothing

LEMMA TickInv == Inv /\ Tick => Inv'
  <1> SUFFICES ASSUME Inv, Tick PROVE Inv'
    OBVIOUS
  <1>t. interval \in Intervals /\ interval' = interval /\ LongIdle' = LongIdle
    BY DEF Tick, LongIdle, Inv, TypeOK
  <1> USE Times, <1>t
  <1>1. /\ sensor' \in Sensors /\ Fits(sensor') /\ sensor'.timer = sensor.timer
        /\ sensor'.shown = sensor.shown /\ sensor'.stale = sensor.stale
        /\ sensor.timer = "running" => sensor'.wait = sensor.wait - 1
    BY DEF Tick, Inv, TypeOK, InStep, Fits, Nothing, Sensors
  <1>2. TypeOK'
    BY <1>1 DEF Tick, Inv, TypeOK, LongIdle
  <1>3. InStep'
    BY <1>1 DEF Tick, Inv, InStep
  <1>4. InTime'
    BY <1>1 DEF Tick, Inv, InStep, InTime, TypeOK, LongIdle, Sensors
  <1> QED
    BY <1>2, <1>3, <1>4 DEF Inv

LEMMA AddedInv == Inv /\ Added => Inv'
  <1> SUFFICES ASSUME Inv, Added PROVE Inv'
    OBVIOUS
  <1>t. interval \in Intervals /\ interval' = interval /\ LongIdle' = LongIdle
    BY DEF Added, LongIdle, Inv, TypeOK
  <1> USE Times, <1>t
  <1>1. live \in Readings /\ tpa \in Values
    BY DEF Inv, TypeOK
  <1>2. sensor' = ApplyValue(Fresh, live, tpa)
    BY DEF Added
  <1>3. ~due' /\ up' /\ live' = live /\ tpa' = tpa /\ idleFor' = idleFor
    BY DEF Added
  <1>4. live = "idle" => sensor'.timer # "running"
    BY <1>1, <1>2, FreshFits, ApplyFits DEF Fits
  <1>5. sensor' \in Sensors /\ Fits(sensor')
    BY <1>1, <1>2, FreshFits, ApplyFits
  <1>6. TypeOK'
    BY <1>5, Times DEF Added, Inv, TypeOK
  <1>7. InStep'
    BY <1>1, <1>2, <1>3, <1>5, FreshFits, ApplyFits DEF InStep
  <1>8. InTime'
    BY <1>3, <1>4 DEF Added, Inv, InTime
  <1> QED
    BY <1>6, <1>7, <1>8 DEF Inv

LEMMA RemovedInv == Inv /\ Removed => Inv'
  <1> SUFFICES ASSUME Inv, Removed PROVE Inv'
    OBVIOUS
  <1>t. interval \in Intervals /\ interval' = interval /\ LongIdle' = LongIdle
    BY DEF Removed, LongIdle, Inv, TypeOK
  <1> USE Times, <1>t
  <1>1. sensor' \in Sensors /\ Fits(sensor') /\ sensor'.timer # "running"
    BY Times DEF Removed, StopIdleTimer, Inv, TypeOK, InStep, Fits, Nothing, Sensors
  <1> QED
    BY <1>1 DEF Removed, Inv, TypeOK, InStep, InTime

LEMMA NextInv == Inv /\ [Next]_vars => Inv'
  <1> SUFFICES ASSUME Inv, [Next]_vars PROVE Inv'
    OBVIOUS
  <1>1. ASSUME NEW l \in Readings, PowerPush(l) PROVE Inv'
    <2>1. /\ PropertyChange(l, tpa) /\ tpa \in Values
          /\ live # "idle" => idleFor = 0
          /\ idleFor' = IF l = "idle" THEN idleFor ELSE 0
      BY <1>1, Times DEF PowerPush, Inv, InTime, TypeOK, LongIdle
    <2>2. ended' \in BOOLEAN /\ left' \in BOOLEAN /\ (ended' => l # "flows")
      BY <1>1 DEF PowerPush
    <2> QED
      BY <1>1, <2>1, <2>2, PropertyChangeInv
  <1>2. ASSUME NEW v \in Values, AveragePush(v) PROVE Inv'
    <2>1. /\ PropertyChange(live, v) /\ live \in Readings
          /\ live # "idle" => idleFor = 0
          /\ idleFor' = IF live = "idle" THEN idleFor ELSE 0
      BY <1>2, Times DEF AveragePush, Inv, InTime, TypeOK, LongIdle
    <2>2. ended' \in BOOLEAN /\ left' \in BOOLEAN /\ (ended' => live # "flows")
      BY <1>2 DEF AveragePush, Inv, InTime
    <2> QED
      BY <1>2, <2>1, <2>2, PropertyChangeInv
  <1>3. CASE UNCHANGED vars
    BY <1>3 DEF vars, Inv, TypeOK, InStep, InTime, Fits, Nothing, LongIdle
  <1> QED
    BY <1>1, <1>2, <1>3, FlushPendingInv, WentIdleInv, TickInv, AddedInv, RemovedInv DEF Next

\* The entity's timer and state fit its readings, and the waits fit the clock:
\* for every minute, update interval and set of averages.
THEOREM Invariance == Spec => []Inv
  BY InitInv, NextInv, PTL DEF Spec

\* An idle charger shows 0 after the minute and the wait in the hub, for every
\* minute and every update interval.
THEOREM IdleShowsZero == Spec => []ZeroWhenIdle
  <1>1. Inv => ZeroWhenIdle
    <2> SUFFICES ASSUME Inv, up, idleFor = LongIdle PROVE sensor.shown = 0
      BY DEF ZeroWhenIdle
    <2>1. idleFor > Limit + interval /\ live = "idle"
      BY Times DEF Inv, TypeOK, InTime, LongIdle
    <2>2. sensor.timer # "running"
      BY <2>1, Times DEF Inv, TypeOK, InTime, Sensors
    <2> QED
      BY <2>1, <2>2, Times DEF Inv, TypeOK, InStep, InTime
  <1> QED
    BY <1>1, Invariance, PTL

\* Between the end of a session and an average of the next one, the entity
\* shows nothing and knows what is stale: only an entity that misses no push.
AverageIsStale == (interval = 0 /\ up /\ (ended \/ left)) => Nothing(sensor) /\ sensor.stale = tpa

LEMMA IntervalStays == [Next]_vars => interval' = interval
  BY DEF Next, vars, PowerPush, AveragePush, PropertyChange, FlushPending, WentIdle,
         Tick, Added, Removed

LEMMA StaleNext == Inv /\ Inv' /\ AverageIsStale /\ [Next]_vars => AverageIsStale'
  <1> SUFFICES ASSUME Inv, Inv', AverageIsStale, [Next]_vars, interval = 0
               PROVE  AverageIsStale'
    BY IntervalStays DEF AverageIsStale
  <1>0. ~due
    BY DEF Inv, InStep
  <1>1. ASSUME NEW l \in Readings, PowerPush(l) PROVE AverageIsStale'
    BY <1>1, ApplyFits DEF PowerPush, PropertyChange, AverageIsStale, Inv, TypeOK, InStep
  <1>2. ASSUME NEW v \in Values, AveragePush(v) PROVE AverageIsStale'
    <2>1. SUFFICES ASSUME up, ended, live # "unknown" PROVE Nothing(sensor') /\ sensor'.stale = v
      BY <1>2 DEF AveragePush, PropertyChange, AverageIsStale, Nothing
    <2>2. sensor' = ApplyValue(sensor, live, v) /\ Nothing(sensor)
      BY <1>2, <2>1 DEF AveragePush, PropertyChange, AverageIsStale
    <2>3. live = "idle"
      BY <2>1 DEF Inv, TypeOK, InTime, Readings
    <2> QED
      BY <2>2, <2>3, ApplyFits DEF Inv, TypeOK, InStep
  <1>3. CASE FlushPending
    BY <1>3 DEF FlushPending
  <1>4. CASE WentIdle
    BY <1>4, <1>0 DEF WentIdle, ShowIdle, AverageIsStale, Nothing, Inv, TypeOK, Sensors
  <1>5. CASE Tick
    <2>1. sensor'.shown = sensor.shown /\ sensor'.stale = sensor.stale
      BY <1>5 DEF Tick, Inv, TypeOK, Sensors
    <2>2. CASE ended \/ left
      BY <1>5, <2>1, <2>2 DEF Tick, AverageIsStale, Nothing
    <2>3. CASE ~ended /\ ~left
      <3>1. SUFFICES ASSUME up, ended' PROVE AverageIsStale'
        BY <1>5, <2>3 DEF Tick, AverageIsStale
      <3>2. idleFor' = LongIdle /\ up' /\ tpa' = tpa
        BY <1>5, <2>3, <3>1 DEF Tick
      <3>3. live' = "idle" /\ sensor'.timer # "running" /\ ~due'
        BY <1>5, <1>0, <3>1, <3>2, Times DEF Tick, Inv, TypeOK, InTime, LongIdle, Sensors
      <3> QED
        BY <3>2, <3>3 DEF Inv, InStep, AverageIsStale, Nothing
    <2> QED
      BY <2>2, <2>3
  <1>6. CASE Added
    BY <1>6 DEF Added, AverageIsStale
  <1>7. CASE Removed
    BY <1>7 DEF Removed, AverageIsStale
  <1>8. CASE UNCHANGED vars
    BY <1>8 DEF vars, AverageIsStale, Nothing
  <1> QED
    BY <1>1, <1>2, <1>3, <1>4, <1>5, <1>6, <1>7, <1>8 DEF Next

\* Without an update interval, no session ever shows the average of the one
\* before, which the entity has seen the end of.
THEOREM LeftoversAreNotShown == Spec => []LeftoverIsNotShown
  <1>1. Init => AverageIsStale
    BY DEF Init, AverageIsStale
  <1>2. Inv /\ Inv' /\ AverageIsStale /\ [Next]_vars => AverageIsStale'
    BY StaleNext
  <1>3. AverageIsStale => LeftoverIsNotShown
    BY DEF AverageIsStale, LeftoverIsNotShown
  <1> QED
    BY <1>1, <1>2, <1>3, Invariance, PTL DEF Spec

\* Without an update interval, the sensor falls to 0 only after a whole minute
\* without current.
THEOREM PausesAreNotEnds == Spec => PauseIsNotEnd
  <1> DEFINE Falls == interval = 0 /\ up /\ up' /\ ~Nothing(sensor) /\ sensor'.shown = 0 /\ tpa' # 0
  <1> DEFINE Waited == (interval = 0 /\ up /\ sensor.timer = "running") => idleFor + sensor.wait >= Limit
  <1>0. Inv => (interval = 0 /\ up /\ sensor.timer = "running" => live = "idle")
    BY DEF Inv, InStep, Fits
  <1>1. Init => Waited
    BY DEF Init, Fresh
  <1>2. Inv /\ Waited /\ [Next]_vars => Waited'
    <2> SUFFICES ASSUME Inv, Waited, [Next]_vars, interval = 0 PROVE Waited'
      BY IntervalStays
    <2>1. ASSUME NEW l \in Readings, PowerPush(l) PROVE Waited'
      BY <1>0, <2>1, ApplyFits, Times
         DEF PowerPush, PropertyChange, Inv, TypeOK, InStep, LongIdle
    <2>2. ASSUME NEW v \in Values, AveragePush(v) PROVE Waited'
      BY <1>0, <2>2, ApplyFits, Times
         DEF AveragePush, PropertyChange, Inv, TypeOK, InStep, LongIdle
    <2>3. CASE FlushPending
      BY <2>3 DEF FlushPending
    <2>4. CASE WentIdle
      BY <2>4 DEF WentIdle, ShowIdle, Inv, TypeOK, Sensors
    <2>5. CASE Tick
      BY <1>0, <2>5, Times DEF Tick, Inv, TypeOK, InTime, Sensors, LongIdle
    <2>6. CASE Added
      BY <2>6, ApplyFits, FreshFits DEF Added, Inv, TypeOK, Fits
    <2>7. CASE Removed
      BY <2>7 DEF Removed
    <2>8. CASE UNCHANGED vars
      BY <2>8 DEF vars
    <2> QED
      BY <2>1, <2>2, <2>3, <2>4, <2>5, <2>6, <2>7, <2>8 DEF Next
  <1>3. Inv /\ Waited /\ [Next]_vars => [Falls => idleFor >= Limit]_vars
    <2> SUFFICES ASSUME Inv, Waited, [Next]_vars, Falls PROVE idleFor >= Limit
      OBVIOUS
    <2>1. ASSUME NEW l \in Readings, PowerPush(l) PROVE FALSE
      BY <2>1, ApplyFits DEF PowerPush, PropertyChange, Inv, TypeOK, InStep
    <2>2. ASSUME NEW v \in Values, AveragePush(v) PROVE FALSE
      BY <2>2, ApplyFits DEF AveragePush, PropertyChange, Inv, TypeOK, InStep
    <2>3. CASE FlushPending
      BY <2>3 DEF FlushPending
    <2>4. CASE WentIdle
      BY <2>4, Times DEF WentIdle, Inv, TypeOK, LongIdle
    <2>5. CASE Tick
      BY <2>5 DEF Tick, Inv, TypeOK, Sensors, Nothing
    <2>6. CASE Added
      BY <2>6 DEF Added
    <2>7. CASE Removed
      BY <2>7 DEF Removed
    <2>8. CASE UNCHANGED vars
      BY <2>8 DEF vars, Nothing
    <2> QED
      BY <2>1, <2>2, <2>3, <2>4, <2>5, <2>6, <2>7, <2>8 DEF Next
  <1> QED
    BY <1>1, <1>2, <1>3, Invariance, PTL DEF Spec, PauseIsNotEnd

-----------------------------------------------------------------------------
(* Counters *)

\* round() leaves a number that is not negative so.
LEMMA RoundFits == ASSUME NEW x \in Nat PROVE Counter!Round(x) \in Nat
  <1> DEFINE q == x \div Unit
  <1>1. Unit \in Nat /\ Unit > 0
    BY CountersAssumption
  <1>2. q \in Nat
    BY <1>1
  <1> HIDE DEF q
  <1>3. Unit * q \in Nat
    BY <1>1, <1>2
  <1>4. Counter!Round(x) \in {Unit * q, Unit * q + Unit}
    BY DEF Counter!Round, q
  <1> QED
    BY <1>1, <1>3, <1>4

LEMMA ReadingFits == ASSUME NEW v \in Counter!Numbers PROVE Counter!Reading(v) \in Nat
  <1> DEFINE clamped == IF v < 0 THEN 0 ELSE v
  <1>1. clamped \in Nat
    BY CountersAssumption DEF Counter!Numbers
  <1> HIDE DEF clamped
  <1>2. Counter!Reading(v) \in {clamped, Counter!Round(clamped)}
    BY DEF Counter!Reading, clamped
  <1> QED
    BY <1>1, <1>2, RoundFits

\* What is on show after a number of the charger is that number, or the one held.
LEMMA HeldFits ==
  ASSUME NEW s \in [shown : Counter!Shown, last : Counter!Shown, restored : Counter!Shown],
         NEW v \in Counter!Numbers
  PROVE  LET h == Counter!ApplyValue(s, v)
         IN  /\ h = [shown |-> h.shown, last |-> h.shown, restored |-> Null]
             /\ h.shown \in Nat
             /\ s.last # Null => \/ h.shown >= s.last
                                 \/ /\ Counter!IsReset(h.shown, s.last)
                                    /\ kind = "session" \/ s.restored # Null
                                 \/ s.restored # Null /\ Counter!IsReset(h.shown, s.restored)
  <1> DEFINE w == Counter!Reading(v)
  <1>1. v # Null /\ w \in Nat /\ Null \notin Nat
    BY CountersAssumption, ReadingFits DEF Counter!Numbers
  <1>2. Counter!ApplyValue(s, v) = Counter!Held(s, w)
    BY <1>1 DEF Counter!ApplyValue
  <1> HIDE DEF w
  <1> QED
    BY <1>1, <1>2 DEF Counter!Held, Counter!Suppresses, Counter!Shown

LEMMA CounterInit == Counter!Init => Counter!Inv
  <1> SUFFICES ASSUME Counter!Init PROVE Counter!Inv
    OBVIOUS
  <1> USE DEF Counter!Init, Counter!Fresh
  <1>1. Counter!TypeOK
    BY DEF Counter!TypeOK, Counter!Shown
  <1>2. Counter!HoldFits
    BY DEF Counter!HoldFits
  <1> QED
    BY <1>1, <1>2 DEF Counter!Inv

LEMMA CounterNext == Counter!Inv /\ [Counter!Next]_(Counter!vars) => Counter!Inv'
  <1> SUFFICES ASSUME Counter!Inv, [Counter!Next]_(Counter!vars) PROVE Counter!Inv'
    OBVIOUS
  <1> USE DEF Counter!Inv
  <1>0. Null \notin Nat /\ Null \in Counter!Shown /\ Counter!Readings' = Counter!Readings
        /\ \A v \in Counter!Readings : v # Null => v \in Counter!Numbers
    BY CountersAssumption DEF Counter!Shown, Counter!Readings, Counter!Next, Counter!Push,
                              Counter!Added, Counter!Removed, Counter!vars
  <1>1. ASSUME NEW v \in Counter!Readings, Counter!Push(v), counterUp PROVE Counter!Inv'
    <2>1. /\ counter' = v /\ UNCHANGED <<kind, nulls, counterUp, stored>>
          /\ counterSensor' = Counter!ApplyValue(counterSensor, v)
          /\ reported' = IF counterSensor'.shown = Null THEN reported ELSE counterSensor'.shown
          /\ first' = (first /\ v = Null)
      BY <1>1 DEF Counter!Push, Counter!Shows
    <2>2. CASE v = Null
      <3>1. counterSensor' = [counterSensor EXCEPT !.shown = Null]
        BY <2>1, <2>2 DEF Counter!ApplyValue
      <3>2. Counter!TypeOK'
        BY <1>0, <2>1, <2>2, <3>1 DEF Counter!TypeOK
      <3>3. first' = first /\ counterSensor'.shown = Null /\ counterSensor'.last = counterSensor.last
            /\ counterSensor'.restored = counterSensor.restored /\ reported' = reported
        BY <2>1, <2>2, <3>1 DEF Counter!TypeOK
      <3>4. Counter!HoldFits'
        <4>1. counterUp /\ counterUp' /\ counter' = Null /\ kind' = kind /\ nulls' = nulls /\ stored' = stored
          BY <1>1, <2>1, <2>2
        <4> QED
          BY <3>3, <4>1 DEF Counter!HoldFits, Counter!TypeOK
      <3> QED
        BY <3>2, <3>4
    <2>3. CASE v # Null
      <3>1. /\ counterSensor' = [shown |-> counterSensor'.shown, last |-> counterSensor'.shown,
                                 restored |-> Null]
            /\ counterSensor'.shown \in Nat
        BY <1>0, <2>1, <2>3, HeldFits DEF Counter!TypeOK
      <3>2. Counter!TypeOK'
        BY <1>0, <2>1, <3>1 DEF Counter!TypeOK, Counter!Shown
      <3>3. Counter!HoldFits'
        <4>1. /\ counterUp' /\ ~first' /\ counter' # Null
              /\ counterSensor'.last = counterSensor'.shown /\ counterSensor'.shown # Null
              /\ counterSensor'.restored = Null /\ reported' = counterSensor'.shown
          <5>1. counterUp' /\ ~first'
            BY <1>1, <2>1, <2>3
          <5>2. counter' # Null /\ counterSensor'.shown # Null
            BY <1>0, <2>1, <2>3, <3>1
          <5>3. reported' = counterSensor'.shown
            BY <2>1, <5>2
          <5>4. counterSensor'.last = counterSensor'.shown /\ counterSensor'.restored = Null
            BY <3>1
          <5> QED
            BY <5>1, <5>2, <5>3, <5>4
        <4> QED
          BY <4>1 DEF Counter!HoldFits
      <3> QED
        BY <3>2, <3>3
    <2> QED
      BY <2>2, <2>3
  <1>2. ASSUME NEW v \in Counter!Readings, Counter!Push(v), ~counterUp PROVE Counter!Inv'
    <2>1. /\ counter' = v /\ UNCHANGED <<kind, nulls, counterUp, stored, counterSensor, reported>>
          /\ first' = first
      BY <1>2 DEF Counter!Push, Counter!TypeOK
    <2> QED
      BY <1>0, <1>2, <2>1 DEF Counter!TypeOK, Counter!HoldFits
  <1>3. CASE Counter!Added
    <2>1. /\ ~counterUp /\ counterUp' = TRUE /\ UNCHANGED <<kind, nulls, counter, stored>>
          /\ counterSensor' = Counter!ApplyValue(Counter!Seeded, counter)
          /\ reported' = IF counterSensor'.shown = Null THEN reported ELSE counterSensor'.shown
          /\ first' = (counter = Null)
      BY <1>3 DEF Counter!Added, Counter!Shows
    <2>2. /\ Counter!Seeded \in [shown : Counter!Shown, last : Counter!Shown, restored : Counter!Shown]
          /\ Counter!Seeded.restored = Counter!Seeded.last /\ Counter!Seeded.last \in {Null, stored}
          /\ kind = "session" => Counter!Seeded.last = Null
      BY <1>0 DEF Counter!Seeded, Counter!Fresh, Counter!TypeOK
    <2>3. CASE counter = Null
      <3>1. counterSensor' = [Counter!Seeded EXCEPT !.shown = Null]
        BY <2>1, <2>3 DEF Counter!ApplyValue
      <3>2. Counter!TypeOK'
        BY <1>0, <2>1, <2>2, <3>1 DEF Counter!TypeOK
      <3>3. Counter!HoldFits'
        BY <1>0, <2>1, <2>2, <2>3, <3>1 DEF Counter!TypeOK, Counter!HoldFits
      <3> QED
        BY <3>2, <3>3
    <2>4. CASE counter # Null
      <3>1. /\ counterSensor' = [shown |-> counterSensor'.shown, last |-> counterSensor'.shown,
                                 restored |-> Null]
            /\ counterSensor'.shown \in Nat
        BY <1>0, <2>1, <2>2, <2>4, HeldFits DEF Counter!TypeOK
      <3>2. Counter!TypeOK'
        BY <1>0, <2>1, <3>1 DEF Counter!TypeOK, Counter!Shown
      <3>3. Counter!HoldFits'
        BY <1>0, <2>1, <2>4, <3>1 DEF Counter!TypeOK, Counter!HoldFits
      <3> QED
        BY <3>2, <3>3
    <2> QED
      BY <2>3, <2>4
  <1>4. CASE Counter!Removed
    <2>1. /\ counterUp /\ counterUp' = FALSE /\ UNCHANGED <<kind, nulls, counter, reported>>
          /\ stored' = counterSensor.shown /\ counterSensor' = Counter!Fresh /\ first' = TRUE
      BY <1>4 DEF Counter!Removed
    <2>2. Counter!TypeOK'
      BY <1>0, <2>1 DEF Counter!TypeOK, Counter!Fresh
    <2>3. ~nulls => counter # Null
      BY CountersAssumption DEF Counter!TypeOK, Counter!Readings, Counter!Numbers
    <2>4. counterSensor.shown # Null => counterSensor.shown = reported
      BY <2>1 DEF Counter!HoldFits
    <2>5. Counter!HoldFits'
      BY <2>1, <2>3, <2>4 DEF Counter!TypeOK, Counter!HoldFits, Counter!Fresh
    <2> QED
      BY <2>2, <2>5
  <1>5. CASE UNCHANGED Counter!vars
    BY <1>0, <1>5 DEF Counter!vars, Counter!TypeOK, Counter!HoldFits
  <1> QED
    BY <1>1, <1>2, <1>3, <1>4, <1>5 DEF Counter!Next

THEOREM CounterInvariance == Counter!Spec => []Counter!Inv
  BY CounterInit, CounterNext, PTL DEF Counter!Spec

\* NeverDips of run pushed: a total that has shown a number never falls within
\* its entity, and over reloads and restarts only as far as a reset.
THEOREM CountersNeverDip == Counter!Spec => NeverDips
  <1> DEFINE Dips ==
        (counterSensor'.shown # Null /\ reported # Null) =>
          /\ (kind = "total" /\ ~nulls) \/ ~first =>
               counterSensor'.shown >= reported \/ Counter!IsReset(counterSensor'.shown, reported)
          /\ kind = "total" /\ counterUp /\ ~first => counterSensor'.shown >= reported
  <1>1. Counter!Inv /\ [Counter!Next]_(Counter!vars) => [Dips]_(Counter!vars)
    <2> SUFFICES ASSUME Counter!Inv, Counter!Next, counterSensor'.shown # Null, reported # Null
                 PROVE  Dips
      OBVIOUS
    <2>0. Null \notin Nat /\ \A v \in Counter!Readings : v # Null => v \in Counter!Numbers
      BY CountersAssumption DEF Counter!Readings
    <2>1. ASSUME NEW v \in Counter!Readings, Counter!Push(v), counterUp PROVE Dips
      <3>1. counterSensor' = Counter!ApplyValue(counterSensor, v) /\ v # Null
        BY <2>1 DEF Counter!Push, Counter!Shows, Counter!ApplyValue, Counter!Inv, Counter!TypeOK
      <3>2. first => nulls
        <4>1. first => counter = Null /\ counter \in Counter!Readings
          BY <2>1 DEF Counter!Inv, Counter!HoldFits, Counter!TypeOK
        <4>2. Null \notin Counter!Numbers
          BY CountersAssumption DEF Counter!Numbers
        <4> QED
          BY <4>1, <4>2 DEF Counter!Readings
      <3>3. ~first => counterSensor.last = reported /\ counterSensor.restored = Null
        BY <2>1 DEF Counter!Inv, Counter!HoldFits
      <3>4. counterSensor \in [shown : Counter!Shown, last : Counter!Shown, restored : Counter!Shown]
        BY DEF Counter!Inv, Counter!TypeOK
      <3> QED
        BY <2>0, <3>1, <3>2, <3>3, <3>4, HeldFits DEF Counter!Inv, Counter!TypeOK
    <2>2. ASSUME NEW v \in Counter!Readings, Counter!Push(v), ~counterUp PROVE FALSE
      BY <2>2 DEF Counter!Push, Counter!Inv, Counter!HoldFits, Counter!Fresh
    <2>3. CASE Counter!Added
      <3>1. ~counterUp /\ first /\ counterSensor' = Counter!ApplyValue(Counter!Seeded, counter)
            /\ counter # Null
        BY <2>3 DEF Counter!Added, Counter!Shows, Counter!ApplyValue, Counter!Inv, Counter!HoldFits,
                    Counter!Seeded, Counter!Fresh
      <3>2. (kind = "total" /\ ~nulls) =>
              /\ Counter!Seeded.last = reported /\ Counter!Seeded.restored = reported
              /\ Counter!Seeded \in [shown : Counter!Shown, last : Counter!Shown, restored : Counter!Shown]
        BY <3>1 DEF Counter!Seeded, Counter!Inv, Counter!HoldFits, Counter!TypeOK
      <3> QED
        BY <2>0, <3>1, <3>2, HeldFits DEF Counter!Inv, Counter!TypeOK
    <2>4. CASE Counter!Removed
      BY <2>4 DEF Counter!Removed, Counter!Fresh
    <2> QED
      BY <2>1, <2>2, <2>3, <2>4 DEF Counter!Next
  <1> QED
    BY <1>1, CounterInvariance, PTL DEF Counter!Spec, NeverDips, Counter!NeverDips

-----------------------------------------------------------------------------
(* ChargingDuration *)

Snapshots == [rbt : Nat, cdi : Duration!Durations]

LEMMA DivMonotone ==
  ASSUME NEW a \in Int, NEW b \in Int, a <= b
  PROVE  a \div Minute <= b \div Minute
  BY DurationAssumption

LEMMA TicksFit ==
  ASSUME NEW s \in Snapshots
  PROVE  /\ Duration!Ticks(s.cdi, s.rbt) \in Int
         /\ Duration!State(s.cdi, s.rbt) \in Duration!States
  BY DurationAssumption
  DEF Snapshots, Duration!Durations, Duration!States, Duration!State, Duration!Minutes, Duration!Ticks

LEMMA PrecedesItself ==
  ASSUME NEW a \in Snapshots PROVE Duration!Precedes(a, a)
  BY TicksFit DEF Snapshots, Duration!Durations, Duration!Precedes

LEMMA PrecedesOn ==
  ASSUME NEW a \in Snapshots, NEW b \in Snapshots, NEW c \in Snapshots,
         Duration!Precedes(a, b), Duration!Precedes(b, c)
  PROVE  Duration!Precedes(a, c)
  <1>1. /\ Duration!Ticks(a.cdi, a.rbt) \in Int
        /\ Duration!Ticks(b.cdi, b.rbt) \in Int
        /\ Duration!Ticks(c.cdi, c.rbt) \in Int
    BY TicksFit
  <1>2. /\ a.cdi.session \in Nat /\ b.cdi.session \in Nat /\ c.cdi.session \in Nat
        /\ a.cdi.value \in Int /\ b.cdi.value \in Int /\ c.cdi.value \in Int
    BY DEF Snapshots, Duration!Durations
  <1> QED
    BY <1>1, <1>2 DEF Duration!Precedes

\* What shows a snapshot is not ahead of it, nor of those after it.
LEMMA StateShowsItself ==
  ASSUME NEW a \in Snapshots
  PROVE  Duration!ShownPrecedes(Duration!State(a.cdi, a.rbt), a)
  BY TicksFit DEF Snapshots, Duration!Durations, Duration!ShownPrecedes, Duration!State, Duration!States

LEMMA ShownPrecedesOn ==
  ASSUME NEW s \in Duration!States, NEW a \in Snapshots, NEW b \in Snapshots,
         Duration!ShownPrecedes(s, a), Duration!Precedes(a, b)
  PROVE  Duration!ShownPrecedes(s, b)
  <1>1. /\ Duration!Ticks(a.cdi, a.rbt) \in Int
        /\ Duration!Ticks(b.cdi, b.rbt) \in Int
    BY TicksFit
  <1>2. /\ a.cdi.session \in Nat /\ b.cdi.session \in Nat /\ s.session \in Nat /\ s.minutes \in Int
        /\ Duration!Minutes(a.cdi, a.rbt) \in Int /\ Duration!Minutes(b.cdi, b.rbt) \in Int
    BY <1>1, DurationAssumption DEF Snapshots, Duration!Durations, Duration!States, Duration!Minutes
  <1>3. Duration!Ticks(a.cdi, a.rbt) <= Duration!Ticks(b.cdi, b.rbt)
          => Duration!Minutes(a.cdi, a.rbt) <= Duration!Minutes(b.cdi, b.rbt)
    BY <1>1, DivMonotone DEF Duration!Minutes
  <1> QED
    BY <1>2, <1>3 DEF Duration!Precedes, Duration!ShownPrecedes

\* Shown after shown: the minutes of a session that charges do not fall.
LEMMA ShownGoesOn ==
  ASSUME NEW s \in Duration!States, NEW a \in Snapshots, Duration!ShownPrecedes(s, a),
         s.session = a.cdi.session, a.cdi.type = "charging"
  PROVE  Duration!State(a.cdi, a.rbt).minutes >= s.minutes
  <1>1. Duration!Minutes(a.cdi, a.rbt) \in Int /\ s.minutes \in Int /\ s.session \in Nat
    BY TicksFit, DurationAssumption DEF Duration!Minutes, Duration!States
  <1>2. s.minutes <= Duration!Minutes(a.cdi, a.rbt)
    BY <1>1 DEF Duration!ShownPrecedes
  <1> QED
    BY <1>1, <1>2 DEF Duration!State

\* A new clock with the old duration: behind the frame, and ahead of the cache
\* unless the charger has restarted.
LEMMA HalfApplied ==
  ASSUME NEW a \in Snapshots, NEW b \in Snapshots, Duration!Precedes(a, b)
  PROVE  /\ [rbt |-> b.rbt, cdi |-> a.cdi] \in Snapshots
         /\ Duration!Precedes([rbt |-> b.rbt, cdi |-> a.cdi], b)
         /\ a.rbt <= b.rbt => Duration!Precedes(a, [rbt |-> b.rbt, cdi |-> a.cdi])
  <1> DEFINE m == [rbt |-> b.rbt, cdi |-> a.cdi]
  <1>1. m \in Snapshots /\ m.rbt = b.rbt /\ m.cdi = a.cdi
    BY DEF Snapshots
  <1>2. a.rbt \in Int /\ b.rbt \in Int /\ a.cdi.value \in Int /\ b.cdi.value \in Int /\ a.cdi.session \in Nat
    BY DEF Snapshots, Duration!Durations
  <1> HIDE DEF m
  <1>3. Duration!Precedes(m, b)
    BY <1>1, <1>2 DEF Duration!Precedes, Duration!Ticks
  <1>4. a.rbt <= b.rbt => Duration!Precedes(a, m)
    BY <1>1, <1>2 DEF Duration!Precedes, Duration!Ticks
  <1> QED
    BY <1>1, <1>3, <1>4 DEF m

LEMMA SnapshotsFit ==
  ASSUME Duration!TypeOK
  PROVE  /\ Duration!Now \in Snapshots /\ Duration!Newest \in Snapshots /\ cache \in Snapshots
         /\ link # <<>> => Duration!Newest.rbt = link[1].rbt /\ Duration!Newest.cdi = link[1].cdi
         /\ link # <<>> => Head(link) = link[1] /\ Tail(link) = <<>>
  <1>1. Duration!Now \in Snapshots /\ cache \in Snapshots
    BY DEF Duration!TypeOK, Duration!Now, Snapshots
  <1>2. CASE link = <<>>
    BY <1>1, <1>2 DEF Duration!Newest
  <1>3. CASE link # <<>>
    <2>1. link = <<link[1]>> /\ link[1] \in Duration!TimerFrames
      BY <1>3 DEF Duration!TypeOK
    <2>2. Head(link) = link[1] /\ Tail(link) = <<>>
      <3>1. \A f : Head(<<f>>) = f /\ Tail(<<f>>) = <<>>
        OBVIOUS
      <3> QED
        BY <2>1, <3>1
    <2>3. Duration!Newest = [rbt |-> link[1].rbt, cdi |-> link[1].cdi]
      BY <1>3 DEF Duration!Newest
    <2> QED
      BY <1>1, <1>3, <2>1, <2>2, <2>3 DEF Duration!TimerFrames, Snapshots
  <1> QED
    BY <1>2, <1>3

LEMMA DurationInit == Duration!Init => Duration!Inv
  <1> SUFFICES ASSUME Duration!Init PROVE Duration!Inv
    OBVIOUS
  <1>1. Duration!Stopped(0, 0) \in Duration!Durations
    BY DEF Duration!Stopped, Duration!Durations
  <1>2. /\ cdi \in Duration!Durations /\ clock = 0 /\ clock \in Nat /\ Duration!Now \in Snapshots
        /\ cache = Duration!Now /\ cache.cdi = cdi /\ cache.rbt = clock
        /\ Duration!Now = Duration!Newest
    BY <1>1 DEF Duration!Init, Duration!Now, Duration!Newest, Snapshots
  <1>3. shown = Duration!State(cache.cdi, cache.rbt) /\ shown \in Duration!States
    BY <1>2, TicksFit DEF Duration!Init
  <1>4. Duration!TypeOK
    BY <1>2, <1>3 DEF Duration!Init, Duration!TypeOK, Snapshots, Duration!Written
  <1>5. Duration!ChargerFits
    BY DEF Duration!Init, Duration!ChargerFits, Duration!Stopped
  <1>6. Duration!LinkFits
    BY <1>2, PrecedesItself DEF Duration!Init, Duration!LinkFits
  <1>7. Duration!SensorFits
    BY <1>2, <1>3, StateShowsItself DEF Duration!Init, Duration!SensorFits, Duration!Written
  <1> QED
    BY <1>4, <1>5, <1>6, <1>7 DEF Duration!Inv

\* While the charger or the connection goes on and no frame is read, what the
\* sensor shows stays as it fits.
LEMMA SensorStays ==
  ASSUME Duration!SensorFits, frame = {}, UNCHANGED <<buffered, frame, cache, pending, shown, written>>
  PROVE  Duration!SensorFits'
  BY DEF Duration!SensorFits, Duration!State, Duration!Minutes, Duration!Ticks, Duration!ShownPrecedes

\* The charger goes on by itself, or restarts unseen: what is on its way and what
\* the client has stay behind it.
LEMMA ChargerGoesOn ==
  ASSUME Duration!TypeOK, Duration!TypeOK', Duration!LinkFits, frame = {},
         Duration!Precedes(Duration!Now, Duration!Now'),
         UNCHANGED <<connected, initialized, link, frame, cache>>,
         connected => clock <= clock', told' => told /\ cdi' = cdi
  PROVE  Duration!LinkFits'
  <1>1. /\ Duration!Now \in Snapshots /\ Duration!Newest \in Snapshots /\ cache \in Snapshots
        /\ Duration!Now' \in Snapshots
    BY SnapshotsFit DEF Snapshots, Duration!TypeOK, Duration!Now
  <1>2. /\ Duration!Newest' = IF link = <<>> THEN Duration!Now' ELSE Duration!Newest
        /\ link = <<>> => Duration!Newest = Duration!Now
        /\ Duration!Newest' \in Snapshots
    BY <1>1 DEF Duration!Newest
  <1>3. Duration!Now.rbt = clock /\ Duration!Now.cdi = cdi /\ (Duration!Now').rbt = clock' /\ (Duration!Now').cdi = cdi'
    BY DEF Duration!Now
  <1>4. Duration!Precedes(Duration!Newest, Duration!Now) /\ Duration!Precedes(cache, Duration!Newest)
    BY DEF Duration!LinkFits
  <1>5. Duration!Precedes(Duration!Newest', Duration!Now')
    <2>1. CASE link = <<>>
      BY <1>1, <1>2, <2>1, PrecedesItself
    <2>2. CASE link # <<>>
      BY <1>1, <1>2, <1>4, <2>2, PrecedesOn
    <2> QED
      BY <2>1, <2>2
  <1>6. Duration!Precedes(cache', Duration!Newest')
    BY <1>1, <1>2, <1>4, PrecedesOn
  <1>7. clock \in Nat /\ clock' \in Nat /\ cache.rbt \in Nat /\ Duration!Newest.rbt \in Nat
    BY <1>1 DEF Duration!TypeOK, Snapshots
  <1>8. (connected => (Duration!Newest').rbt <= clock') /\ (told' => (Duration!Newest').cdi = cdi')
    BY <1>2, <1>3, <1>7 DEF Duration!LinkFits
  <1>9. (initialized \/ (connected /\ link = <<>>)) => cache.rbt <= (Duration!Newest').rbt
    BY <1>2, <1>3, <1>7 DEF Duration!LinkFits
  <1> QED
    BY <1>2, <1>3, <1>5, <1>6, <1>8, <1>9 DEF Duration!LinkFits

LEMMA DurationTick == Duration!Inv /\ Duration!Tick => Duration!Inv'
  <1> SUFFICES ASSUME Duration!Inv, Duration!Tick PROVE Duration!Inv'
    OBVIOUS
  <1>1. Duration!TypeOK /\ Duration!ChargerFits /\ Duration!LinkFits /\ Duration!SensorFits
    BY DEF Duration!Inv
  <1>2. Duration!TypeOK'
    BY <1>1 DEF Duration!Tick, Duration!TypeOK, Duration!connection, Duration!entity
  <1>3. Duration!ChargerFits'
    BY <1>1 DEF Duration!Tick, Duration!TypeOK, Duration!ChargerFits, Duration!Durations
  <1>4. Duration!Precedes(Duration!Now, Duration!Now')
    BY <1>1 DEF Duration!Tick, Duration!TypeOK, Duration!Now, Duration!Precedes, Duration!Ticks, Duration!Durations
  <1>5. Duration!LinkFits'
    BY <1>1, <1>2, <1>4, ChargerGoesOn DEF Duration!Tick, Duration!TypeOK, Duration!Between, Duration!connection
  <1>6. Duration!SensorFits'
    BY <1>1, SensorStays DEF Duration!Tick, Duration!Between, Duration!connection, Duration!entity
  <1> QED
    BY <1>2, <1>3, <1>5, <1>6 DEF Duration!Inv

LEMMA DurationStarts == Duration!Inv /\ Duration!Starts => Duration!Inv'
  <1> SUFFICES ASSUME Duration!Inv, Duration!Starts PROVE Duration!Inv'
    OBVIOUS
  <1>1. Duration!TypeOK /\ Duration!ChargerFits /\ Duration!LinkFits /\ Duration!SensorFits
    BY DEF Duration!Inv
  <1>2. Duration!TypeOK'
    <2>1. cdi' \in Duration!Durations
      BY <1>1 DEF Duration!Starts, Duration!TypeOK, Duration!Charging, Duration!Durations
    <2> QED
      BY <1>1, <2>1 DEF Duration!Starts, Duration!TypeOK, Duration!connection, Duration!entity
  <1>3. Duration!ChargerFits'
    BY <1>1 DEF Duration!Starts, Duration!TypeOK, Duration!ChargerFits, Duration!Charging
  <1>4. Duration!Precedes(Duration!Now, Duration!Now')
    BY <1>1 DEF Duration!Starts, Duration!TypeOK, Duration!Now, Duration!Precedes, Duration!Charging, Duration!Durations
  <1>5. Duration!LinkFits'
    BY <1>1, <1>2, <1>4, ChargerGoesOn DEF Duration!Starts, Duration!TypeOK, Duration!Between, Duration!connection
  <1>6. Duration!SensorFits'
    BY <1>1, SensorStays DEF Duration!Starts, Duration!Between, Duration!connection, Duration!entity
  <1> QED
    BY <1>2, <1>3, <1>5, <1>6 DEF Duration!Inv

LEMMA DurationStops == Duration!Inv /\ Duration!Stops => Duration!Inv'
  <1> SUFFICES ASSUME Duration!Inv, Duration!Stops PROVE Duration!Inv'
    OBVIOUS
  <1>1. Duration!TypeOK /\ Duration!ChargerFits /\ Duration!LinkFits /\ Duration!SensorFits
    BY DEF Duration!Inv
  <1>2. Duration!TypeOK'
    <2>1. cdi' \in Duration!Durations
      BY <1>1 DEF Duration!Stops, Duration!TypeOK, Duration!Stopped, Duration!Durations
    <2> QED
      BY <1>1, <2>1 DEF Duration!Stops, Duration!TypeOK, Duration!connection, Duration!entity
  <1>3. Duration!ChargerFits'
    BY <1>1 DEF Duration!Stops, Duration!TypeOK, Duration!ChargerFits, Duration!Stopped
  <1>4. Duration!Precedes(Duration!Now, Duration!Now')
    BY <1>1 DEF Duration!Stops, Duration!TypeOK, Duration!Now, Duration!Precedes, Duration!Stopped, Duration!Durations
  <1>5. Duration!LinkFits'
    BY <1>1, <1>2, <1>4, ChargerGoesOn DEF Duration!Stops, Duration!TypeOK, Duration!Between, Duration!connection
  <1>6. Duration!SensorFits'
    BY <1>1, SensorStays DEF Duration!Stops, Duration!Between, Duration!connection, Duration!entity
  <1> QED
    BY <1>2, <1>3, <1>5, <1>6 DEF Duration!Inv

LEMMA KeySets ==
  /\ {"rbt"} # {} /\ {"cdi"} # {} /\ {"rbt", "cdi"} # {}
  /\ {"rbt"} # {"cdi"} /\ {"rbt", "cdi"} # {"rbt"} /\ {"rbt", "cdi"} # {"cdi"}
  <1>1. /\ "rbt" \in {"rbt"} /\ "rbt" \notin {"cdi"} /\ "cdi" \in {"cdi"} /\ "cdi" \notin {"rbt"}
        /\ "rbt" \in {"rbt", "cdi"} /\ "cdi" \in {"rbt", "cdi"} /\ "rbt" \notin {} /\ "cdi" \notin {}
    OBVIOUS
  <1> QED
    BY <1>1, Zenon

\* A frame is sent: it holds what the charger has.
LEMMA FrameSent ==
  ASSUME Duration!TypeOK, NEW keys \in {{"rbt"}, {"rbt", "cdi"}},
         link' = <<[rbt |-> clock, cdi |-> cdi, keys |-> keys]>>, UNCHANGED <<clock, cdi>>
  PROVE  /\ link' # <<>> /\ link' = <<link'[1]>> /\ link'[1] \in Duration!TimerFrames
         /\ link'[1].keys = keys
         /\ Duration!Newest' = Duration!Now /\ Duration!Now' = Duration!Now
         /\ Duration!Now.rbt = clock /\ Duration!Now.cdi = cdi
  <1> DEFINE f == [rbt |-> clock, cdi |-> cdi, keys |-> keys]
  <1>1. f \in Duration!TimerFrames /\ f.rbt = clock /\ f.cdi = cdi /\ f.keys = keys
    BY DEF Duration!TypeOK, Duration!TimerFrames
  <1>2. link' = <<f>>
    OBVIOUS
  <1> HIDE DEF f
  <1>3. link' # <<>> /\ link'[1] = f
    BY <1>2
  <1>4. Duration!Newest' = [rbt |-> f.rbt, cdi |-> f.cdi]
    BY <1>3 DEF Duration!Newest
  <1> QED
    BY <1>1, <1>2, <1>3, <1>4 DEF Duration!Now

LEMMA DurationPushes == Duration!Inv /\ Duration!Pushes => Duration!Inv'
  <1> SUFFICES ASSUME Duration!Inv, Duration!Pushes PROVE Duration!Inv'
    OBVIOUS
  <1>1. Duration!TypeOK /\ Duration!ChargerFits /\ Duration!LinkFits /\ Duration!SensorFits
    BY DEF Duration!Inv
  <1> DEFINE keys == IF told THEN {"rbt"} ELSE {"rbt", "cdi"}
  <1>2. link' = <<[rbt |-> clock, cdi |-> cdi, keys |-> keys]>> /\ keys \in {{"rbt"}, {"rbt", "cdi"}}
    BY DEF Duration!Pushes
  <1>3. /\ link' # <<>> /\ link' = <<link'[1]>> /\ link'[1] \in Duration!TimerFrames
        /\ link'[1].keys = keys
        /\ Duration!Newest' = Duration!Now /\ Duration!Now' = Duration!Now
        /\ Duration!Now.rbt = clock /\ Duration!Now.cdi = cdi
    BY <1>1, <1>2, FrameSent DEF Duration!Pushes
  <1>4. Duration!TypeOK'
    BY <1>1, <1>3 DEF Duration!Pushes, Duration!TypeOK, Duration!connection, Duration!entity
  <1>5. Duration!ChargerFits'
    BY <1>1 DEF Duration!Pushes, Duration!ChargerFits
  <1>6. /\ Duration!Newest = Duration!Now /\ Duration!Now \in Snapshots
        /\ Duration!Precedes(cache, Duration!Now)
    BY <1>1, SnapshotsFit DEF Duration!Pushes, Duration!Newest, Duration!LinkFits, Duration!Between
  <1>7. Duration!LinkFits'
    BY <1>1, <1>3, <1>6, PrecedesItself
    DEF Duration!Pushes, Duration!LinkFits, Duration!Between, Duration!connection, Snapshots, Duration!TypeOK
  <1>8. Duration!SensorFits'
    BY <1>1, SensorStays DEF Duration!Pushes, Duration!Between, Duration!connection, Duration!entity
  <1> QED
    BY <1>4, <1>5, <1>7, <1>8 DEF Duration!Inv

LEMMA DurationReconnects == Duration!Inv /\ Duration!Reconnects => Duration!Inv'
  <1> SUFFICES ASSUME Duration!Inv, Duration!Reconnects PROVE Duration!Inv'
    OBVIOUS
  <1>1. Duration!TypeOK /\ Duration!ChargerFits /\ Duration!LinkFits /\ Duration!SensorFits
    BY DEF Duration!Inv
  <1>2. /\ link' # <<>> /\ link' = <<link'[1]>> /\ link'[1] \in Duration!TimerFrames
        /\ link'[1].keys = {"rbt", "cdi"}
        /\ Duration!Newest' = Duration!Now /\ Duration!Now' = Duration!Now
        /\ Duration!Now.rbt = clock /\ Duration!Now.cdi = cdi
    BY <1>1, FrameSent DEF Duration!Reconnects
  <1>3. Duration!TypeOK'
    BY <1>1, <1>2 DEF Duration!Reconnects, Duration!TypeOK, Duration!entity
  <1>4. Duration!ChargerFits'
    BY <1>1 DEF Duration!Reconnects, Duration!ChargerFits
  <1>5. /\ Duration!Newest = Duration!Now /\ Duration!Now \in Snapshots /\ ~initialized
        /\ Duration!Precedes(cache, Duration!Now)
    BY <1>1, SnapshotsFit DEF Duration!Reconnects, Duration!Newest, Duration!LinkFits, Duration!Between
  <1>6. Duration!LinkFits'
    <2>1. frame = {} /\ frame' = {} /\ cache' = cache /\ connected' /\ ~initialized' /\ ~initialized
      BY <1>1, <1>5 DEF Duration!Reconnects, Duration!Between
    <2>2. /\ Duration!Precedes(Duration!Newest', Duration!Now') /\ (Duration!Newest').rbt <= clock'
          /\ (Duration!Newest').cdi = cdi' /\ Duration!Precedes(cache', Duration!Newest')
      BY <1>1, <1>2, <1>5, <2>1, PrecedesItself DEF Duration!Reconnects, Duration!TypeOK
    <2>3. ~(link'[1].keys = {"rbt"}) /\ link' # <<>> /\ frame' # {"cdi"} /\ frame' # {"rbt"}
      BY <1>2, <2>1, KeySets
    <2> QED
      BY <2>1, <2>2, <2>3 DEF Duration!LinkFits
  <1>7. Duration!SensorFits'
    BY <1>1, SensorStays DEF Duration!Reconnects, Duration!Between, Duration!entity
  <1> QED
    BY <1>3, <1>4, <1>6, <1>7 DEF Duration!Inv

\* A restart of the charger sets its clock back and moves the start as far.
LEMMA DurationLoses ==
  ASSUME NEW restarts \in BOOLEAN PROVE Duration!Inv /\ Duration!Loses(restarts) => Duration!Inv'
  <1> SUFFICES ASSUME Duration!Inv, Duration!Loses(restarts) PROVE Duration!Inv'
    OBVIOUS
  <1>1. Duration!TypeOK /\ Duration!ChargerFits /\ Duration!LinkFits /\ Duration!SensorFits
    BY DEF Duration!Inv
  <1>2. \/ cdi' = [cdi EXCEPT !.value = @ - clock] /\ clock' = 0 /\ cdi.type = "charging"
        \/ cdi' = cdi /\ (clock' = clock \/ (clock' = 0 /\ cdi.type # "charging"))
    <2>1. CASE restarts /\ cdi.type = "charging"
      BY <2>1 DEF Duration!Loses
    <2>2. CASE ~restarts
      BY <2>2 DEF Duration!Loses
    <2>3. CASE restarts /\ cdi.type # "charging"
      BY <2>3 DEF Duration!Loses
    <2> QED
      BY <2>1, <2>2, <2>3
  <1>3. /\ clock' \in Nat /\ cdi' \in Duration!Durations
        /\ cdi'.type = cdi.type /\ cdi'.session = cdi.session
        /\ cdi.type = "charging" => cdi'.value <= cdi.value /\ clock' - cdi'.value = clock - cdi.value
        /\ cdi.type # "charging" => cdi'.value = cdi.value
    BY <1>1, <1>2 DEF Duration!TypeOK, Duration!Durations
  <1>4. Duration!TypeOK'
    BY <1>1, <1>3 DEF Duration!Loses, Duration!TypeOK, Duration!entity
  <1>5. Duration!ChargerFits'
    BY <1>1, <1>3 DEF Duration!Loses, Duration!ChargerFits, Duration!TypeOK, Duration!Durations
  <1>6. Duration!Precedes(Duration!Now, Duration!Now')
    BY <1>1, <1>3 DEF Duration!Precedes, Duration!Now, Duration!Ticks, Duration!TypeOK, Duration!Durations
  <1>7. /\ Duration!Now \in Snapshots /\ Duration!Newest \in Snapshots /\ cache \in Snapshots
        /\ Duration!Now' \in Snapshots
    BY <1>1, <1>4, SnapshotsFit DEF Snapshots, Duration!TypeOK, Duration!Now
  <1>8. Duration!Newest' = Duration!Now'
    BY DEF Duration!Loses, Duration!Newest
  <1>9. Duration!Precedes(cache, Duration!Now')
    BY <1>1, <1>6, <1>7, PrecedesOn DEF Duration!LinkFits, Duration!Loses, Duration!Between
  <1>10. Duration!LinkFits'
    BY <1>1, <1>7, <1>8, <1>9, PrecedesItself DEF Duration!Loses, Duration!LinkFits, Duration!Between
  <1>11. Duration!SensorFits'
    BY <1>1, SensorStays DEF Duration!Loses, Duration!Between, Duration!entity
  <1> QED
    BY <1>4, <1>5, <1>10, <1>11 DEF Duration!Inv

LEMMA DurationCompletes == Duration!Inv /\ Duration!Completes => Duration!Inv'
  <1> SUFFICES ASSUME Duration!Inv, Duration!Completes PROVE Duration!Inv'
    OBVIOUS
  <1>1. Duration!TypeOK /\ Duration!ChargerFits /\ Duration!LinkFits /\ Duration!SensorFits
    BY DEF Duration!Inv
  <1>2. Duration!TypeOK' /\ Duration!ChargerFits'
    BY <1>1 DEF Duration!Completes, Duration!TypeOK, Duration!ChargerFits, Duration!charger, Duration!entity
  <1>3. Duration!Newest' = Duration!Newest /\ Duration!Now' = Duration!Now
    BY DEF Duration!Completes, Duration!Newest, Duration!Now, Duration!charger
  <1>4. Duration!LinkFits'
    BY <1>1, <1>3 DEF Duration!Completes, Duration!LinkFits, Duration!Between, Duration!charger
  <1>5. Duration!SensorFits'
    BY <1>1, SensorStays DEF Duration!Completes, Duration!Between, Duration!entity
  <1> QED
    BY <1>2, <1>4, <1>5 DEF Duration!Inv

LEMMA DurationReceives == Duration!Inv /\ Duration!Receives => Duration!Inv'
  <1> SUFFICES ASSUME Duration!Inv, Duration!Receives PROVE Duration!Inv'
    OBVIOUS
  <1>1. Duration!TypeOK /\ Duration!ChargerFits /\ Duration!LinkFits /\ Duration!SensorFits
    BY DEF Duration!Inv
  <1>2. /\ frame = {} /\ frame' = link[1].keys /\ frame' \in {{"rbt"}, {"rbt", "cdi"}} /\ link # <<>>
    BY <1>1, SnapshotsFit DEF Duration!Receives, Duration!Between, Duration!TypeOK, Duration!TimerFrames
  <1>3. Duration!TypeOK' /\ Duration!ChargerFits'
    BY <1>1, <1>2 DEF Duration!Receives, Duration!TypeOK, Duration!ChargerFits, Duration!charger,
      Duration!connection, Duration!entity
  <1>4. Duration!Newest' = Duration!Newest /\ Duration!Now' = Duration!Now
    BY DEF Duration!Receives, Duration!Newest, Duration!Now, Duration!charger
  <1>5. frame' # {"cdi"} /\ frame' # {}
    BY <1>2, KeySets
  <1>6. Duration!LinkFits'
    BY <1>1, <1>2, <1>4, <1>5 DEF Duration!Receives, Duration!LinkFits, Duration!charger, Duration!connection
  <1>7. Duration!SensorFits'
    BY <1>1, <1>2, <1>5 DEF Duration!Receives, Duration!SensorFits, Duration!connection, Duration!entity
  <1> QED
    BY <1>3, <1>6, <1>7 DEF Duration!Inv

\* A push is held, flushed with what was held, or shown at once.
LEMMA PushShows ==
  ASSUME Duration!TypeOK, Duration!SensorFits, NEW state \in Duration!States,
         Duration!State(cache'.cdi, cache'.rbt) \in Duration!States, Duration!Push(state)
  PROVE  /\ last' \in BOOLEAN /\ pending' \in SUBSET {"rbt", "cdi"}
         /\ shown' \in Duration!States
         /\ written' \in [state : Duration!States, available : BOOLEAN]
         /\ written'.state = shown'
         /\ \/ buffered /\ pending' # {} /\ shown' = shown
            \/ buffered /\ ~last /\ Duration!Available /\ shown' = Duration!State(cache'.cdi, cache'.rbt)
            \/ ~buffered /\ shown' = state
  <1>1. Duration!Available \in BOOLEAN /\ TRUE \in BOOLEAN
    BY DEF Duration!TypeOK, Duration!Available
  <1>2. /\ pending \in SUBSET {"rbt", "cdi"} /\ shown \in Duration!States /\ buffered \in BOOLEAN
        /\ written \in [state : Duration!States, available : BOOLEAN] /\ written.state = shown
    BY DEF Duration!TypeOK, Duration!SensorFits
  <1>3. last' \in BOOLEAN
    BY <1>1 DEF Duration!Push
  <1>4. \A s \in Duration!States, a \in BOOLEAN :
          /\ [state |-> s, available |-> a] \in [state : Duration!States, available : BOOLEAN]
          /\ [state |-> s, available |-> a].state = s
    OBVIOUS
  <1>5. CASE buffered /\ ~last /\ Duration!Available
    <2>1. /\ pending' = {} /\ shown' = Duration!State(cache'.cdi, cache'.rbt)
          /\ written' = [state |-> shown', available |-> TRUE]
      BY <1>5 DEF Duration!Push, Duration!Written
    <2> QED
      BY <1>1, <1>3, <1>4, <1>5, <2>1
  <1>6. CASE buffered /\ ~(~last /\ Duration!Available)
    <2>1. /\ pending' = pending \cup {IF "rbt" \in frame THEN "rbt" ELSE "cdi"}
          /\ shown' = shown /\ written' = written
      BY <1>6 DEF Duration!Push, Duration!entity
    <2> QED
      BY <1>2, <1>3, <1>6, <2>1
  <1>7. CASE ~buffered
    <2>1. shown' = state /\ written' = [state |-> state, available |-> Duration!Available] /\ pending' = pending
      BY <1>7 DEF Duration!Push, Duration!Written
    <2> QED
      BY <1>1, <1>2, <1>3, <1>4, <1>7, <2>1
  <1> QED
    BY <1>5, <1>6, <1>7

\* What is shown stays, or becomes a snapshot that it does not run ahead of.
ShownOn ==
  buffered /\ shown' # shown =>
    /\ cache' \in Snapshots /\ shown' = Duration!State(cache'.cdi, cache'.rbt)
    /\ Duration!ShownPrecedes(shown, cache')

LEMMA DurationAppliesClock ==
  Duration!Inv /\ Duration!AppliesClock => Duration!Inv' /\ ShownOn
  <1> SUFFICES ASSUME Duration!Inv, Duration!AppliesClock
               PROVE  Duration!Inv' /\ ShownOn
    OBVIOUS
  <1>1. Duration!TypeOK /\ Duration!ChargerFits /\ Duration!LinkFits /\ Duration!SensorFits
    BY DEF Duration!Inv
  <1> DEFINE half == [rbt |-> Duration!Newest.rbt, cdi |-> cache.cdi]
  <1>2. "rbt" \in frame /\ frame # {} /\ frame # {"cdi"} /\ link # <<>> /\ frame \subseteq link[1].keys
    BY <1>1 DEF Duration!AppliesClock, Duration!LinkFits
  <1>3. /\ Duration!Now \in Snapshots /\ Duration!Newest \in Snapshots /\ cache \in Snapshots
        /\ Head(link) = link[1] /\ Tail(link) = <<>> /\ Duration!Newest.rbt = link[1].rbt
        /\ Duration!Newest.cdi = link[1].cdi
    BY <1>1, <1>2, SnapshotsFit
  <1>4. cache' = half
    BY <1>3 DEF Duration!AppliesClock, Snapshots
  <1>5. /\ half \in Snapshots /\ Duration!Precedes(half, Duration!Newest)
        /\ cache.rbt <= Duration!Newest.rbt => Duration!Precedes(cache, half)
    BY <1>1, <1>2, <1>3, HalfApplied DEF Duration!LinkFits
  <1>6. half.rbt = Duration!Newest.rbt /\ half.cdi = cache.cdi
    OBVIOUS
  <1> HIDE DEF half
  <1>7. Duration!State(half.cdi, half.rbt) \in Duration!States
    BY <1>5, TicksFit
  <1>8. Duration!HandleCompanionPush = Duration!State(half.cdi, half.rbt)
    BY <1>4, <1>6 DEF Duration!HandleCompanionPush
  <1>9. /\ last' \in BOOLEAN /\ pending' \in SUBSET {"rbt", "cdi"}
        /\ shown' \in Duration!States
        /\ written' \in [state : Duration!States, available : BOOLEAN]
        /\ written'.state = shown'
        /\ \/ buffered /\ pending' # {} /\ shown' = shown
           \/ buffered /\ ~last /\ Duration!Available /\ shown' = Duration!State(half.cdi, half.rbt)
           \/ ~buffered /\ shown' = Duration!State(half.cdi, half.rbt)
    <2>1. Duration!Push(Duration!State(half.cdi, half.rbt))
      BY <1>8 DEF Duration!AppliesClock
    <2> QED
      BY <1>1, <1>4, <1>7, <2>1, PushShows
  <1>10. Duration!Now' = Duration!Now /\ UNCHANGED <<clock, cdi, elapsed, told, buffered, connected, initialized>>
    BY DEF Duration!AppliesClock, Duration!Now, Duration!charger, Duration!connection
  <1>11. \/ frame = {"rbt"} /\ frame' = {} /\ link' = <<>> /\ link[1].keys = {"rbt"}
         \/ frame = {"rbt", "cdi"} /\ frame' = {"cdi"} /\ link' = link
    <2>1. frame = {"rbt"} \/ frame = {"rbt", "cdi"}
      BY <1>1, <1>2 DEF Duration!TypeOK
    <2>2. {"rbt"} \ {"rbt"} = {} /\ {"rbt", "cdi"} \ {"rbt"} = {"cdi"}
      OBVIOUS
    <2> QED
      BY <1>1, <1>3, <2>1, <2>2, KeySets DEF Duration!AppliesClock, Duration!LinkFits
  <1>12. Duration!TypeOK'
    BY <1>1, <1>4, <1>5, <1>9, <1>10, <1>11 DEF Duration!TypeOK, Snapshots
  <1>13. Duration!ChargerFits'
    BY <1>1, <1>10 DEF Duration!ChargerFits
  <1>14. buffered => Duration!ShownPrecedes(shown, cache)
    BY <1>1, <1>2 DEF Duration!SensorFits
  <1>15. CASE frame = {"rbt"}
    <2>1. frame' = {} /\ link' = <<>> /\ link[1].keys = {"rbt"} /\ frame' # {"cdi"} /\ frame' # {"rbt"}
      BY <1>11, <1>15, KeySets
    <2>2. cache.cdi = Duration!Newest.cdi
      BY <1>1, <1>2, <2>1 DEF Duration!LinkFits
    <2>3. cache' = Duration!Newest
      BY <1>3, <1>4, <1>6, <2>2 DEF half, Snapshots
    <2>4. Duration!Newest' = Duration!Now
      BY <1>10, <2>1 DEF Duration!Newest
    <2>5. Duration!LinkFits'
      <3>1. /\ Duration!Precedes(Duration!Newest', Duration!Now') /\ Duration!Precedes(cache', Duration!Newest')
            /\ (Duration!Newest').rbt <= clock' /\ (Duration!Newest').cdi = cdi'
        BY <1>1, <1>2, <1>3, <1>10, <2>3, <2>4, PrecedesItself DEF Duration!LinkFits, Duration!Now, Duration!TypeOK
      <3>2. cache'.rbt <= (Duration!Newest').rbt /\ connected' /\ (told' => cache'.cdi = cdi')
        BY <1>1, <1>2, <1>3, <1>10, <2>3, <2>4 DEF Duration!LinkFits, Duration!Now
      <3> QED
        BY <2>1, <3>1, <3>2 DEF Duration!LinkFits
    <2>6. buffered => Duration!ShownPrecedes(shown', cache')
      <3>1. buffered => Duration!ShownPrecedes(shown, cache')
        BY <1>1, <1>2, <1>3, <1>14, <2>3, ShownPrecedesOn DEF Duration!LinkFits, Duration!TypeOK
      <3>2. Duration!ShownPrecedes(Duration!State(half.cdi, half.rbt), cache')
        BY <1>4, <1>5, StateShowsItself
      <3> QED
        BY <1>9, <3>1, <3>2
    <2>7. Duration!SensorFits'
      BY <1>4, <1>9, <1>10, <2>1, <2>6 DEF Duration!SensorFits
    <2>8. ShownOn
      <3>1. buffered => Duration!ShownPrecedes(shown, cache')
        BY <1>1, <1>2, <1>3, <1>14, <2>3, ShownPrecedesOn DEF Duration!LinkFits, Duration!TypeOK
      <3> QED
        BY <1>4, <1>5, <1>9, <3>1 DEF ShownOn
    <2> QED
      BY <1>12, <1>13, <2>5, <2>7, <2>8 DEF Duration!Inv
  <1>16. CASE frame = {"rbt", "cdi"}
    <2>1. frame' = {"cdi"} /\ link' = link /\ frame' # {"rbt"} /\ frame' # {}
      BY <1>11, <1>16, KeySets
    <2>2. Duration!Newest' = Duration!Newest
      BY <1>10, <2>1 DEF Duration!Newest
    <2>3. Duration!LinkFits'
      BY <1>1, <1>2, <1>4, <1>6, <1>10, <1>16, <2>1, <2>2 DEF Duration!LinkFits
    <2>4. buffered => Duration!ShownPrecedes(shown', Duration!Newest)
      <3>1. buffered => Duration!ShownPrecedes(shown, Duration!Newest)
        BY <1>1, <1>2, <1>3, <1>14, ShownPrecedesOn DEF Duration!LinkFits, Duration!TypeOK
      <3>2. Duration!ShownPrecedes(Duration!State(half.cdi, half.rbt), Duration!Newest)
        BY <1>3, <1>5, <1>7, StateShowsItself, ShownPrecedesOn
      <3> QED
        BY <1>9, <3>1, <3>2
    <2>5. Duration!SensorFits'
      BY <1>9, <1>10, <2>1, <2>2, <2>4 DEF Duration!SensorFits
    <2>6. buffered => shown' = shown \/ Duration!ShownPrecedes(shown, cache')
      <3>1. CASE buffered /\ ~last /\ Duration!Available
        <4>1. initialized
          BY <3>1 DEF Duration!Available
        <4>2. Duration!Precedes(cache, half)
          BY <1>1, <1>2, <1>5, <4>1 DEF Duration!LinkFits
        <4> QED
          BY <1>1, <1>3, <1>4, <1>5, <1>14, <3>1, <4>2, ShownPrecedesOn DEF Duration!TypeOK
      <3> QED
        BY <1>9, <3>1
    <2>7. ShownOn
      BY <1>4, <1>5, <1>9, <2>6 DEF ShownOn
    <2> QED
      BY <1>12, <1>13, <2>3, <2>5, <2>7 DEF Duration!Inv
  <1> QED
    BY <1>11, <1>15, <1>16

LEMMA DurationAppliesDuration ==
  Duration!Inv /\ Duration!AppliesDuration => Duration!Inv' /\ ShownOn
  <1> SUFFICES ASSUME Duration!Inv, Duration!AppliesDuration
               PROVE  Duration!Inv' /\ ShownOn
    OBVIOUS
  <1>1. Duration!TypeOK /\ Duration!ChargerFits /\ Duration!LinkFits /\ Duration!SensorFits
    BY DEF Duration!Inv
  <1>2. frame = {"cdi"} /\ frame' = {} /\ frame # {} /\ link # <<>> /\ frame' # {"cdi"} /\ frame' # {"rbt"}
    BY <1>1, KeySets DEF Duration!AppliesDuration, Duration!LinkFits
  <1>3. /\ Duration!Now \in Snapshots /\ Duration!Newest \in Snapshots /\ cache \in Snapshots
        /\ Head(link) = link[1] /\ Tail(link) = <<>> /\ Duration!Newest.cdi = link[1].cdi
    BY <1>1, <1>2, SnapshotsFit
  <1>4. cache.rbt = Duration!Newest.rbt
    BY <1>1, <1>2 DEF Duration!LinkFits
  <1>5. cache' = Duration!Newest /\ link' = <<>>
    BY <1>3, <1>4 DEF Duration!AppliesDuration, Snapshots
  <1>6. Duration!State(cache'.cdi, cache.rbt) = Duration!State(cache'.cdi, cache'.rbt)
        /\ Duration!State(cache'.cdi, cache'.rbt) \in Duration!States
    BY <1>3, <1>4, <1>5, TicksFit
  <1>7. /\ last' \in BOOLEAN /\ pending' \in SUBSET {"rbt", "cdi"}
        /\ shown' \in Duration!States
        /\ written' \in [state : Duration!States, available : BOOLEAN]
        /\ written'.state = shown'
        /\ \/ buffered /\ pending' # {} /\ shown' = shown
           \/ buffered /\ ~last /\ Duration!Available /\ shown' = Duration!State(cache'.cdi, cache'.rbt)
           \/ ~buffered /\ shown' = Duration!State(cache'.cdi, cache'.rbt)
    <2>1. Duration!Push(Duration!State(cache'.cdi, cache'.rbt))
      BY <1>6 DEF Duration!AppliesDuration
    <2> QED
      BY <1>1, <1>6, <2>1, PushShows
  <1>8. Duration!Now' = Duration!Now /\ UNCHANGED <<clock, cdi, elapsed, told, buffered, connected, initialized>>
    BY DEF Duration!AppliesDuration, Duration!Now, Duration!charger, Duration!connection
  <1>9. Duration!TypeOK'
    BY <1>1, <1>2, <1>3, <1>5, <1>7, <1>8 DEF Duration!TypeOK, Snapshots
  <1>10. Duration!ChargerFits'
    BY <1>1, <1>8 DEF Duration!ChargerFits
  <1>11. Duration!Newest' = Duration!Now
    BY <1>5, <1>8 DEF Duration!Newest
  <1>12. Duration!LinkFits'
    <2>1. /\ Duration!Precedes(Duration!Newest', Duration!Now') /\ Duration!Precedes(cache', Duration!Newest')
          /\ (Duration!Newest').rbt <= clock' /\ (Duration!Newest').cdi = cdi'
      BY <1>1, <1>2, <1>3, <1>5, <1>8, <1>11, PrecedesItself DEF Duration!LinkFits, Duration!Now, Duration!TypeOK
    <2>2. cache'.rbt <= (Duration!Newest').rbt /\ connected' /\ (told' => cache'.cdi = cdi')
      BY <1>1, <1>2, <1>3, <1>5, <1>8, <1>11 DEF Duration!LinkFits, Duration!Now
    <2> QED
      BY <1>2, <1>5, <2>1, <2>2 DEF Duration!LinkFits
  <1>13. buffered => Duration!ShownPrecedes(shown, cache')
    BY <1>1, <1>2, <1>5 DEF Duration!SensorFits
  <1>14. Duration!ShownPrecedes(Duration!State(cache'.cdi, cache'.rbt), cache')
    BY <1>3, <1>5, StateShowsItself
  <1>15. Duration!SensorFits'
    BY <1>2, <1>7, <1>8, <1>13, <1>14 DEF Duration!SensorFits
  <1>16. ShownOn
    BY <1>3, <1>5, <1>7, <1>13 DEF ShownOn
  <1> QED
    BY <1>9, <1>10, <1>12, <1>15, <1>16 DEF Duration!Inv

\* A timer shows the whole cache, or leaves the sensor as it is.
LEMMA TimerShows ==
  ASSUME Duration!Inv, frame = {}, last' \in BOOLEAN, pending' \in SUBSET {"rbt", "cdi"},
         UNCHANGED <<Duration!charger, Duration!connection, link, frame, cache>>,
         NEW a \in BOOLEAN, written' = Duration!Written(shown', a),
         \/ shown' = Duration!State(cache.cdi, cache.rbt)
         \/ shown' = shown /\ (pending' = {} => pending = {})
  PROVE  Duration!Inv' /\ ShownOn
  <1>1. Duration!TypeOK /\ Duration!ChargerFits /\ Duration!LinkFits /\ Duration!SensorFits
    BY DEF Duration!Inv
  <1>2. UNCHANGED <<clock, cdi, elapsed, told, buffered, connected, initialized, link, frame, cache>>
    BY DEF Duration!charger, Duration!connection
  <1>3. cache \in Snapshots /\ frame # {"cdi"}
    BY <1>1, SnapshotsFit, KeySets
  <1>4. Duration!State(cache.cdi, cache.rbt) \in Duration!States /\ shown' \in Duration!States
    BY <1>1, <1>3, TicksFit DEF Duration!TypeOK
  <1>5. written'.state = shown' /\ written' \in [state : Duration!States, available : BOOLEAN]
    BY <1>4 DEF Duration!Written
  <1>6. Duration!TypeOK'
    BY <1>1, <1>2, <1>4, <1>5 DEF Duration!TypeOK
  <1>7. Duration!ChargerFits'
    BY <1>1, <1>2 DEF Duration!ChargerFits
  <1>8. Duration!LinkFits'
    <2>1. Duration!Now' = Duration!Now /\ Duration!Newest' = Duration!Newest
      BY <1>2 DEF Duration!Now, Duration!Newest
    <2> QED
      BY <1>1, <1>2, <2>1 DEF Duration!LinkFits
  <1>9. /\ Duration!ShownPrecedes(Duration!State(cache.cdi, cache.rbt), cache)
        /\ buffered => Duration!ShownPrecedes(shown, cache)
    BY <1>1, <1>3, StateShowsItself DEF Duration!SensorFits
  <1>10. Duration!SensorFits'
    <2>1. pending' = {} => shown' = Duration!State(cache.cdi, cache.rbt)
      BY <1>1 DEF Duration!SensorFits
    <2>2. buffered => Duration!ShownPrecedes(shown', cache)
      BY <1>9
    <2> QED
      BY <1>2, <1>3, <1>5, <2>1, <2>2 DEF Duration!SensorFits
  <1>11. ShownOn
    BY <1>2, <1>3, <1>9 DEF ShownOn
  <1> QED
    BY <1>6, <1>7, <1>8, <1>10, <1>11 DEF Duration!Inv

LEMMA DurationFlushPending ==
  Duration!Inv /\ Duration!FlushPending => Duration!Inv' /\ ShownOn
  <1> SUFFICES ASSUME Duration!Inv, Duration!FlushPending PROVE Duration!Inv' /\ ShownOn
    OBVIOUS
  <1>1. Duration!Available \in BOOLEAN /\ last \in BOOLEAN
    BY DEF Duration!Inv, Duration!TypeOK, Duration!Available
  <1>2. /\ frame = {} /\ last' = last /\ pending' = {}
        /\ UNCHANGED <<Duration!charger, Duration!connection, link, frame, cache>>
        /\ shown' = Duration!State(cache.cdi, cache.rbt)
        /\ written' = Duration!Written(shown', Duration!Available)
    BY DEF Duration!FlushPending, Duration!Between
  <1> QED
    BY <1>1, <1>2, TimerShows

LEMMA DurationCheckAvailability ==
  Duration!Inv /\ Duration!CheckAvailability => Duration!Inv' /\ ShownOn
  <1> SUFFICES ASSUME Duration!Inv, Duration!CheckAvailability PROVE Duration!Inv' /\ ShownOn
    OBVIOUS
  <1>1. Duration!Available \in BOOLEAN /\ pending \in SUBSET {"rbt", "cdi"}
    BY DEF Duration!Inv, Duration!TypeOK, Duration!Available
  <1>2. /\ frame = {} /\ last' = Duration!Available
        /\ UNCHANGED <<Duration!charger, Duration!connection, link, frame, cache>>
        /\ written' = Duration!Written(shown', Duration!Available)
    BY DEF Duration!CheckAvailability, Duration!Between
  <1>3. /\ pending' = {} \/ pending' = pending
        /\ \/ shown' = Duration!State(cache.cdi, cache.rbt)
           \/ shown' = shown /\ (pending' = {} => pending = {})
    BY DEF Duration!CheckAvailability
  <1> QED
    BY <1>1, <1>2, <1>3, TimerShows

LEMMA DurationNext ==
  Duration!Inv /\ [Duration!Next]_(Duration!vars) => Duration!Inv' /\ ShownOn
  <1> SUFFICES ASSUME Duration!Inv, [Duration!Next]_(Duration!vars) PROVE Duration!Inv' /\ ShownOn
    OBVIOUS
  <1>1. CASE Duration!Tick
    BY <1>1, DurationTick DEF Duration!Tick, Duration!entity, ShownOn
  <1>2. CASE Duration!Starts
    BY <1>2, DurationStarts DEF Duration!Starts, Duration!entity, ShownOn
  <1>3. CASE Duration!Stops
    BY <1>3, DurationStops DEF Duration!Stops, Duration!entity, ShownOn
  <1>4. CASE Duration!Pushes
    BY <1>4, DurationPushes DEF Duration!Pushes, Duration!entity, ShownOn
  <1>5. ASSUME NEW restarts \in BOOLEAN, Duration!Loses(restarts) PROVE Duration!Inv' /\ ShownOn
    BY <1>5, DurationLoses DEF Duration!Loses, Duration!entity, ShownOn
  <1>6. CASE Duration!Reconnects
    BY <1>6, DurationReconnects DEF Duration!Reconnects, Duration!entity, ShownOn
  <1>7. CASE Duration!Completes
    BY <1>7, DurationCompletes DEF Duration!Completes, Duration!entity, ShownOn
  <1>8. CASE Duration!Receives
    BY <1>8, DurationReceives DEF Duration!Receives, Duration!entity, ShownOn
  <1>9. CASE UNCHANGED Duration!vars
    <2>1. /\ UNCHANGED <<clock, cdi, elapsed, told, buffered, connected, initialized, link, frame, cache>>
          /\ UNCHANGED <<pending, last, shown, written>>
      BY <1>9 DEF Duration!vars, Duration!charger, Duration!connection, Duration!entity
    <2>2. Duration!Now' = Duration!Now /\ Duration!Newest' = Duration!Newest
      BY <2>1 DEF Duration!Now, Duration!Newest
    <2>3. Duration!TypeOK' /\ Duration!ChargerFits' /\ Duration!LinkFits'
      BY <2>1, <2>2 DEF Duration!Inv, Duration!TypeOK, Duration!ChargerFits, Duration!LinkFits
    <2>4. Duration!SensorFits'
      BY <2>1, <2>2 DEF Duration!Inv, Duration!SensorFits
    <2> QED
      BY <2>1, <2>3, <2>4 DEF Duration!Inv, ShownOn
  <1> QED
    BY <1>1, <1>2, <1>3, <1>4, <1>5, <1>6, <1>7, <1>8, <1>9, DurationAppliesClock,
       DurationAppliesDuration, DurationFlushPending, DurationCheckAvailability DEF Duration!Next

\* The sensor is behind the cache, the cache behind the frame on its way and that
\* behind the charger, whose sessions only go on.
THEOREM DurationInvariance == Duration!Spec => []Duration!Inv
  BY DurationInit, DurationNext, PTL DEF Duration!Spec

\* MinutesCarryOn of run pushed, for any clock, minute and number of sessions.
THEOREM MinutesOfASessionCarryOn == Duration!Spec => MinutesCarryOn
  <1>1. Duration!Inv /\ Duration!Inv' /\ [Duration!Next]_(Duration!vars) =>
          [buffered /\ written.available /\ written'.available
             /\ written.state.type = "charging" /\ written'.state.type = "charging"
             /\ written'.state.session = written.state.session
           => written'.state.minutes >= written.state.minutes]_(Duration!vars)
    <2> SUFFICES ASSUME Duration!Inv, Duration!Inv', [Duration!Next]_(Duration!vars), buffered,
                        written.state.type = "charging", written'.state.type = "charging",
                        written'.state.session = written.state.session
                 PROVE  written'.state.minutes >= written.state.minutes
      OBVIOUS
    <2>1. written.state = shown /\ written'.state = shown' /\ shown \in Duration!States
      BY DEF Duration!Inv, Duration!SensorFits, Duration!TypeOK
    <2>2. CASE shown' = shown
      BY <2>1, <2>2 DEF Duration!States
    <2>3. CASE shown' # shown
      <3>1. /\ cache' \in Snapshots /\ shown' = Duration!State(cache'.cdi, cache'.rbt)
            /\ Duration!ShownPrecedes(shown, cache')
        BY <2>3, DurationNext DEF ShownOn
      <3>2. cache'.cdi.session = shown.session /\ cache'.cdi.type = "charging"
        BY <2>1, <3>1 DEF Duration!State
      <3> QED
        BY <2>1, <3>1, <3>2, ShownGoesOn
    <2> QED
      BY <2>2, <2>3
  <1> QED
    BY <1>1, DurationInvariance, PTL DEF Duration!Spec, MinutesCarryOn, Duration!MinutesCarryOn

-----------------------------------------------------------------------------
(* Offers *)

\* The first of a list's entries that are in a set is one of them.
LEMMA FirstFits ==
  ASSUME NEW l \in Seq(Update!Spellings), NEW S, \E i \in DOMAIN l : l[i] \in S
  PROVE  Update!FirstOf(l, S) \in S
  <1> DEFINE T == {i \in DOMAIN l : l[i] \in S}
  <1>1. T \subseteq Nat /\ T # {}
    BY LenProperties
  <1>2. PICK i \in T : \A j \in T : ~(<<j, i>> \in OpToRel(<, Nat))
    BY <1>1, NatLessThanWellFounded, WFMin
  <1>3. \A j \in DOMAIN l : j < i => l[j] \notin S
    BY <1>1, <1>2 DEF OpToRel
  <1>4. \E k \in DOMAIN l : l[k] \in S /\ \A j \in DOMAIN l : j < k => l[j] \notin S
    BY <1>2, <1>3
  <1> QED
    BY <1>4 DEF Update!FirstOf

LEMMA Ranks == \A v \in Update!Spellings : Update!Rank[v] \in 0..3
  BY DEF Update!Rank, Update!Spellings, Update!Versions

\* Versions that parse have a newest.
LEMMA BestExists ==
  ASSUME NEW S, S \subseteq Update!Spellings, Update!Best(S) = {}
  PROVE  \A v \in S : Update!Rank[v] = 0
  <1> USE Ranks DEF Update!Best, Update!Parsed
  <1>1. \A v \in S : Update!Rank[v] # 3
    OBVIOUS
  <1>2. \A v \in S : Update!Rank[v] # 2
    BY <1>1
  <1>3. \A v \in S : Update!Rank[v] # 1
    BY <1>1, <1>2
  <1> QED
    BY <1>1, <1>2, <1>3

\* _newest_version: none without an offer, else one of the offered, and no other
\* is newer.
LEMMA NewestFits ==
  ASSUME NEW l \in Seq(Update!Spellings)
  PROVE  /\ Update!Usable(l) \subseteq Update!Versions
         /\ Update!Usable(l) = {} => Update!Newest(l) = None
         /\ Update!Usable(l) # {} =>
              /\ Update!Newest(l) \in Update!Usable(l)
              /\ \A v \in Update!Usable(l) : Update!Rank[v] <= Update!Rank[Update!Newest(l)]
  <1> DEFINE U == Update!Usable(l)
             B == Update!Best(U)
  <1>1. U \subseteq Update!Versions
    BY LenProperties, ElementOfSeq DEF Update!Usable, Update!Spellings
  <1>2. \A v \in U : \E i \in DOMAIN l : l[i] = v
    BY DEF Update!Usable
  <1>3. B \subseteq U
    BY DEF Update!Best
  <1>4. CASE B # {}
    <2>1. Update!Newest(l) = Update!FirstOf(l, B)
      BY <1>4 DEF Update!Newest
    <2>2. Update!FirstOf(l, B) \in B
      BY <1>2, <1>3, <1>4, FirstFits
    <2> QED
      BY <1>1, <1>3, <1>4, <2>1, <2>2 DEF Update!Best
  <1>5. CASE B = {} /\ U # {}
    <2>1. Update!Newest(l) = Update!FirstOf(l, U)
      BY <1>5 DEF Update!Newest
    <2>2. Update!FirstOf(l, U) \in U
      BY <1>2, <1>5, FirstFits
    <2>3. \A v \in U : Update!Rank[v] = 0
      BY <1>1, <1>5, BestExists DEF Update!Spellings
    <2> QED
      BY <1>1, <1>5, <2>1, <2>2, <2>3
  <1>6. CASE B = {} /\ U = {}
    BY <1>1, <1>6 DEF Update!Newest
  <1> QED
    BY <1>4, <1>5, <1>6

\* What the entity shows: the newest of what it offers, or the installed one
\* until the entry is set up again.
OfferFits(e, w) ==
  /\ e.offered # {} =>
       /\ e.latest \in e.offered
       /\ \A v \in e.offered : Update!Rank[v] <= Update!Rank[e.latest]
  /\ e.offered = {} => e.latest = e.installed \/ w

Entities == [installed : Update!Versions, latest : Update!Versions, offered : SUBSET Update!Versions]

LEMMA ListsFit == ASSUME NEW c \in Update!Status PROVE c.onv \in Seq(Update!Spellings) /\ c.fwv \in Update!Versions
  BY OffersAssumption DEF Update!Status

\* _apply_value
LEMMA OfferApplies ==
  ASSUME NEW c \in Update!Status, NEW e
  PROVE  LET a == Update!ApplyValue(e, c)
         IN  /\ a \in Entities /\ a.installed = c.fwv /\ a.offered = Update!Usable(c.onv)
             /\ \A w \in BOOLEAN : OfferFits(a, w)
  <1>1. c.onv \in Seq(Update!Spellings) /\ c.fwv \in Update!Versions
    BY ListsFit
  <1>2. None \notin Update!Versions
    BY OffersAssumption DEF Update!Spellings
  <1>3. CASE Update!Usable(c.onv) = {}
    BY <1>1, <1>2, <1>3, NewestFits DEF Update!ApplyValue, Entities, OfferFits
  <1>4. CASE Update!Usable(c.onv) # {}
    <2>1. Update!Newest(c.onv) \in Update!Usable(c.onv) /\ Update!Usable(c.onv) \subseteq Update!Versions
      BY <1>1, <1>4, NewestFits
    <2>2. Update!ApplyValue(e, c) = [installed |-> c.fwv, offered |-> Update!Usable(c.onv),
                                     latest |-> Update!Newest(c.onv)]
      BY <1>2, <2>1 DEF Update!ApplyValue
    <2>3. \A v \in Update!Usable(c.onv) : Update!Rank[v] <= Update!Rank[Update!Newest(c.onv)]
      BY <1>1, <1>4, NewestFits
    <2> QED
      BY <1>1, <1>4, <2>1, <2>2, <2>3 DEF Entities, OfferFits
  <1> QED
    BY <1>3, <1>4

\* The client's part of a state, and what has to hold of it between two pushes.
Clients == [cache : Update!Status, pending : Update!Orders \cup {<<>>}, entity : Entities,
            known : Update!Versions, waiting : BOOLEAN]
PushFits(h) ==
  /\ OfferFits(h.entity, h.waiting)
  /\ h.entity.installed \in {h.known, h.cache.fwv}

LEMMA PushKeeps ==
  ASSUME NEW h \in Clients, PushFits(h), NEW prop \in {"fwv", "onv"}
  PROVE  LET p == Update!Push(h, prop)
         IN  /\ p \in Clients /\ PushFits(p) /\ p.cache = h.cache /\ p.pending = h.pending
             /\ p.entity.installed = h.cache.fwv
             /\ prop = "onv" => p.known = h.known /\ p.entity.offered = Update!Usable(h.cache.onv)
             /\ prop = "fwv" => p.known = h.cache.fwv /\ p.entity.offered = h.entity.offered
  <1> USE DEF Clients, PushFits
  <1>1. CASE prop = "onv"
    <2> DEFINE a == Update!ApplyValue(h.entity, h.cache)
    <2>1. a \in Entities /\ a.installed = h.cache.fwv /\ a.offered = Update!Usable(h.cache.onv)
          /\ OfferFits(a, h.waiting)
      BY OfferApplies
    <2> HIDE DEF a
    <2>2. Update!Push(h, prop) = [h EXCEPT !.entity = a]
      BY <1>1 DEF Update!Push, a
    <2> QED
      BY <1>1, <2>1, <2>2
  <1>2. CASE prop = "fwv"
    <2> DEFINE a == [h.entity EXCEPT !.installed = h.cache.fwv]
    <2>1. Update!Push(h, prop) =
            [h EXCEPT !.entity = a, !.known = h.cache.fwv,
                      !.waiting = h.waiting \/ h.cache.fwv # h.known]
      BY <1>2 DEF Update!Push, Update!HandleInstalledPush
    <2>2. a \in Entities /\ a.installed = h.cache.fwv /\ a.offered = h.entity.offered /\ a.latest = h.entity.latest
      BY ListsFit DEF Entities
    <2> HIDE DEF a
    <2>3. OfferFits(a, h.waiting \/ h.cache.fwv # h.known)
      BY <2>2 DEF OfferFits
    <2>4. h.cache.fwv \in Update!Versions
      BY ListsFit
    <2> QED
      BY <1>2, <2>1, <2>2, <2>3, <2>4
  <1> QED
    BY <1>1, <1>2

HeldIn(h, prop) == \E i \in DOMAIN h.pending : h.pending[i] = prop
ClientFits(h) ==
  /\ OfferFits(h.entity, h.waiting)
  /\ ~offersBuffered => h.pending = <<>>
  /\ h.known = h.entity.installed
  /\ ~HeldIn(h, "fwv") => h.known = h.cache.fwv
  /\ ~HeldIn(h, "onv") => h.entity.offered = Update!Usable(h.cache.onv)

\* The hub's buffer has each property once.
LEMMA HeldOnce ==
  ASSUME NEW p \in Update!Orders \cup {<<>>}, NEW prop \in {"fwv", "onv"},
         ~\E i \in DOMAIN p : p[i] = prop
  PROVE  /\ Append(p, prop) \in Update!Orders
         /\ \A k : (\E i \in DOMAIN Append(p, prop) : Append(p, prop)[i] = k) <=>
                   k = prop \/ \E i \in DOMAIN p : p[i] = k
  <1>1. ASSUME NEW a, NEW b, NEW k
        PROVE  /\ Append(<<>>, a) = <<a>> /\ Append(<<a>>, b) = <<a, b>>
               /\ (\E i \in DOMAIN <<a>> : <<a>>[i] = k) <=> k = a
               /\ (\E i \in DOMAIN <<a, b>> : <<a, b>>[i] = k) <=> k = a \/ k = b
    <2>1. Append(<<>>, a) = <<a>>
      OBVIOUS
    <2>2. Append(<<a>>, b) = <<a, b>>
      <3>1. <<a>> \in Seq({a, b}) /\ <<a, b>> \in Seq({a, b}) /\ Len(<<a>>) = 1 /\ Len(<<a, b>>) = 2
        OBVIOUS
      <3>2. /\ Append(<<a>>, b) \in Seq({a, b}) /\ Len(Append(<<a>>, b)) = 2
            /\ Append(<<a>>, b)[1] = a /\ Append(<<a>>, b)[2] = b
        BY <3>1, AppendProperties
      <3>3. \A i \in 1..Len(<<a, b>>) : Append(<<a>>, b)[i] = <<a, b>>[i]
        BY <3>1, <3>2
      <3> QED
        BY <3>1, <3>2, <3>3, SeqEqual
    <2>3. (\E i \in DOMAIN <<a>> : <<a>>[i] = k) <=> k = a
      OBVIOUS
    <2>4. (\E i \in DOMAIN <<a, b>> : <<a, b>>[i] = k) <=> k = a \/ k = b
      OBVIOUS
    <2> QED
      BY <2>1, <2>2, <2>3, <2>4
  <1>2. CASE p = <<>>
    <2>1. Append(p, prop) = <<prop>> /\ DOMAIN p = {}
      BY <1>1, <1>2
    <2> QED
      BY <1>1, <2>1 DEF Update!Orders
  <1>3. CASE p = <<"onv">>
    <2>1. prop = "fwv"
      BY <1>1, <1>3
    <2>2. Append(p, prop) = <<"onv", "fwv">>
      BY <1>1, <1>3, <2>1
    <2> QED
      BY <1>1, <1>3, <2>1, <2>2 DEF Update!Orders
  <1>4. CASE p = <<"fwv">>
    <2>1. prop = "onv"
      BY <1>1, <1>4
    <2>2. Append(p, prop) = <<"fwv", "onv">>
      BY <1>1, <1>4, <2>1
    <2> QED
      BY <1>1, <1>4, <2>1, <2>2 DEF Update!Orders
  <1>5. CASE p \in {<<"fwv", "onv">>, <<"onv", "fwv">>}
    BY <1>1, <1>5
  <1> QED
    BY <1>2, <1>3, <1>4, <1>5 DEF Update!Orders

\* _update_property with the hub's _handle_property_change, for one property.
LEMMA AppliedKeeps ==
  ASSUME NEW h \in Clients, ClientFits(h), NEW prop \in {"fwv", "onv"},
         Head(offersLink).values \in Update!Status, offersBuffered \in BOOLEAN
  PROVE  Update!Applied(h, prop) \in Clients /\ ClientFits(Update!Applied(h, prop))
  <1> DEFINE values == Head(offersLink).values
             c == IF prop = "onv" THEN [h EXCEPT !.cache.onv = values.onv]
                  ELSE [h EXCEPT !.cache.fwv = values.fwv]
  <1>1. /\ c \in Clients /\ c.entity = h.entity /\ c.waiting = h.waiting /\ c.known = h.known
        /\ c.pending = h.pending
        /\ prop = "onv" => c.cache.fwv = h.cache.fwv
        /\ prop = "fwv" => c.cache.onv = h.cache.onv
    BY DEF Clients, Update!Status
  <1> HIDE DEF c
  <1>2. CASE ~offersBuffered
    <2> DEFINE p == Update!Push(c, prop)
    <2>1. Update!Applied(h, prop) = p
      BY <1>2 DEF Update!Applied, c
    <2>2. PushFits(c) /\ h.pending = <<>> /\ h.known = h.cache.fwv /\ h.entity.offered = Update!Usable(h.cache.onv)
      BY <1>1, <1>2 DEF ClientFits, PushFits, HeldIn
    <2>3. /\ p \in Clients /\ PushFits(p) /\ p.cache = c.cache /\ p.pending = c.pending
          /\ p.entity.installed = c.cache.fwv
          /\ prop = "onv" => p.known = c.known /\ p.entity.offered = Update!Usable(c.cache.onv)
          /\ prop = "fwv" => p.known = c.cache.fwv /\ p.entity.offered = c.entity.offered
      BY <1>1, <2>2, PushKeeps
    <2> HIDE DEF p
    <2>4. p.known = p.cache.fwv /\ p.entity.offered = Update!Usable(p.cache.onv)
      BY <1>1, <2>2, <2>3
    <2> QED
      BY <1>1, <2>1, <2>2, <2>3, <2>4 DEF ClientFits, PushFits
  <1>3. CASE offersBuffered /\ HeldIn(h, prop)
    <2>1. Update!Applied(h, prop) = c
      BY <1>3 DEF Update!Applied, HeldIn, c
    <2> QED
      BY <1>1, <1>3, <2>1 DEF ClientFits, HeldIn
  <1>4. CASE offersBuffered /\ ~HeldIn(h, prop)
    <2> DEFINE d == [c EXCEPT !.pending = Append(c.pending, prop)]
    <2>1. Update!Applied(h, prop) = d
      BY <1>1, <1>4 DEF Update!Applied, HeldIn, c
    <2>2. /\ Append(c.pending, prop) \in Update!Orders
          /\ \A k : (\E i \in DOMAIN Append(c.pending, prop) : Append(c.pending, prop)[i] = k) <=>
                    k = prop \/ \E i \in DOMAIN c.pending : c.pending[i] = k
      <3>1. c.pending \in Update!Orders \cup {<<>>}
        BY <1>1 DEF Clients
      <3>2. ~\E i \in DOMAIN c.pending : c.pending[i] = prop
        BY <1>1, <1>4 DEF HeldIn
      <3> QED
        BY <3>1, <3>2, HeldOnce
    <2>3. /\ d \in Clients /\ d.pending = Append(c.pending, prop)
          /\ d.entity = c.entity /\ d.waiting = c.waiting /\ d.known = c.known /\ d.cache = c.cache
      BY <1>1, <2>2 DEF Clients
    <2> HIDE DEF d
    <2>4. \A k : HeldIn(d, k) <=> k = prop \/ HeldIn(h, k)
      BY <1>1, <2>2, <2>3 DEF HeldIn
    <2> QED
      BY <1>1, <1>4, <2>1, <2>3, <2>4 DEF ClientFits
  <1> QED
    BY <1>2, <1>3, <1>4

\* A frame: one property or both.
LEMMA FrameKeeps ==
  ASSUME NEW h \in Clients, ClientFits(h), NEW keys \in Update!Orders,
         Head(offersLink).values \in Update!Status, offersBuffered \in BOOLEAN
  PROVE  LET r == Update!InTurn(Update!Applied, h, keys) IN r \in Clients /\ ClientFits(r)
  <1>1. \A k \in {"fwv", "onv"} : Update!Applied(h, k) \in Clients /\ ClientFits(Update!Applied(h, k))
    BY AppliedKeeps
  <1>2. \A j, k \in {"fwv", "onv"} :
          /\ Update!Applied(Update!Applied(h, j), k) \in Clients
          /\ ClientFits(Update!Applied(Update!Applied(h, j), k))
    BY <1>1, AppliedKeeps
  <1>3. PICK j, k \in {"fwv", "onv"} : keys = <<j>> \/ keys = <<j, k>>
    BY DEF Update!Orders
  <1>4. CASE keys = <<j>>
    <2>1. Update!InTurn(Update!Applied, h, keys) = Update!Applied(h, j)
      BY <1>4 DEF Update!InTurn
    <2> QED
      BY <1>1, <2>1
  <1>5. CASE keys = <<j, k>>
    <2>1. Update!InTurn(Update!Applied, h, keys) = Update!Applied(Update!Applied(h, j), k)
      BY <1>5 DEF Update!InTurn
    <2> QED
      BY <1>2, <2>1
  <1> QED
    BY <1>3, <1>4, <1>5

\* _flush_pending
LEMMA FlushKeeps ==
  ASSUME NEW h \in Clients, ClientFits(h), NEW keys \in Update!Orders, h.pending = keys
  PROVE  LET r == Update!InTurn(Update!Push, [h EXCEPT !.pending = <<>>], keys)
         IN  r \in Clients /\ ClientFits(r)
  <1> DEFINE g == [h EXCEPT !.pending = <<>>]
  <1>1. /\ g \in Clients /\ g.pending = <<>> /\ g.cache = h.cache /\ g.entity = h.entity
        /\ g.waiting = h.waiting /\ g.known = h.known
    BY DEF Clients
  <1> HIDE DEF g
  <1>2. PushFits(g)
    BY <1>1 DEF PushFits, ClientFits
  \* What is left to show when every held key has been pushed.
  <1>3. ASSUME NEW r \in Clients, PushFits(r), r.pending = <<>>, r.cache = h.cache,
               r.entity.installed = h.cache.fwv, r.known = h.cache.fwv,
               r.entity.offered = Update!Usable(h.cache.onv)
        PROVE  ClientFits(r)
    BY <1>3 DEF ClientFits, PushFits
  <1>4. CASE keys = <<"onv">>
    <2> DEFINE r == Update!Push(g, "onv")
    <2>1. Update!InTurn(Update!Push, g, keys) = r
      BY <1>4 DEF Update!InTurn
    <2>2. /\ r \in Clients /\ PushFits(r) /\ r.cache = g.cache /\ r.pending = g.pending
          /\ r.entity.installed = g.cache.fwv /\ r.known = g.known
          /\ r.entity.offered = Update!Usable(g.cache.onv)
      BY <1>1, <1>2, PushKeeps
    <2>3. h.known = h.cache.fwv
      <3>1. \A i \in DOMAIN keys : keys[i] = "onv"
        BY <1>4
      <3> QED
        BY <3>1 DEF ClientFits, HeldIn
    <2> HIDE DEF r
    <2> QED
      BY <1>1, <1>3, <2>1, <2>2, <2>3 DEF g
  <1>5. CASE keys = <<"fwv">>
    <2> DEFINE r == Update!Push(g, "fwv")
    <2>1. Update!InTurn(Update!Push, g, keys) = r
      BY <1>5 DEF Update!InTurn
    <2>2. /\ r \in Clients /\ PushFits(r) /\ r.cache = g.cache /\ r.pending = g.pending
          /\ r.entity.installed = g.cache.fwv /\ r.known = g.cache.fwv
          /\ r.entity.offered = g.entity.offered
      BY <1>1, <1>2, PushKeeps
    <2>3. h.entity.offered = Update!Usable(h.cache.onv)
      <3>1. \A i \in DOMAIN keys : keys[i] = "fwv"
        BY <1>5
      <3> QED
        BY <3>1 DEF ClientFits, HeldIn
    <2> HIDE DEF r
    <2> QED
      BY <1>1, <1>3, <2>1, <2>2, <2>3 DEF g
  <1>6. ASSUME NEW j \in {"fwv", "onv"}, NEW k \in {"fwv", "onv"}, j # k, keys = <<j, k>>
        PROVE  LET r == Update!InTurn(Update!Push, g, keys) IN r \in Clients /\ ClientFits(r)
    <2> DEFINE q == Update!Push(g, j)
               r == Update!Push(q, k)
    <2>1. Update!InTurn(Update!Push, g, keys) = r
      BY <1>6 DEF Update!InTurn
    <2>2. /\ q \in Clients /\ PushFits(q) /\ q.cache = g.cache /\ q.pending = g.pending
          /\ q.entity.installed = g.cache.fwv
          /\ j = "onv" => q.known = g.known /\ q.entity.offered = Update!Usable(g.cache.onv)
          /\ j = "fwv" => q.known = g.cache.fwv /\ q.entity.offered = g.entity.offered
      BY <1>1, <1>2, PushKeeps
    <2> HIDE DEF q
    <2>3. /\ r \in Clients /\ PushFits(r) /\ r.cache = q.cache /\ r.pending = q.pending
          /\ r.entity.installed = q.cache.fwv
          /\ k = "onv" => r.known = q.known /\ r.entity.offered = Update!Usable(q.cache.onv)
          /\ k = "fwv" => r.known = q.cache.fwv /\ r.entity.offered = q.entity.offered
      BY <2>2, PushKeeps
    <2> HIDE DEF r
    <2>4. r.known = h.cache.fwv /\ r.entity.offered = Update!Usable(h.cache.onv)
      BY <1>1, <1>6, <2>2, <2>3
    <2> QED
      BY <1>1, <1>3, <2>1, <2>2, <2>3, <2>4
  <1>7. CASE keys \in {<<"fwv", "onv">>, <<"onv", "fwv">>}
    BY <1>6, <1>7 DEF g
  <1> QED
    BY <1>4, <1>5, <1>7 DEF Update!Orders

\* The invariant is about the client's part, but for the types of the others.
Elsewhere ==
  /\ offersBuffered \in BOOLEAN /\ offersConnected \in BOOLEAN
  /\ charger \in Update!Status
  /\ offersLink \in Seq([keys : Update!Orders, values : Update!Status])
  /\ oct \in Update!Versions \cup {None}

LEMMA ClientView ==
  /\ Update!Inv <=> Elsewhere /\ Update!Client \in Clients /\ ClientFits(Update!Client)
  /\ Update!Inv' <=> (Elsewhere /\ Update!Client \in Clients /\ ClientFits(Update!Client))'
  <1>1. Update!TypeOK <=> Elsewhere /\ Update!Client \in Clients
    BY DEF Update!TypeOK, Elsewhere, Update!Client, Clients, Entities
  <1>2. Update!EntityFits <=> ClientFits(Update!Client)
    BY DEF Update!EntityFits, Update!Held, ClientFits, OfferFits, HeldIn, Update!Client
  <1>3. Update!TypeOK' <=> (Elsewhere /\ Update!Client \in Clients)'
    BY DEF Update!TypeOK, Elsewhere, Update!Client, Clients, Entities
  <1>4. Update!EntityFits' <=> ClientFits(Update!Client)'
    BY DEF Update!EntityFits, Update!Held, ClientFits, OfferFits, HeldIn, Update!Client
  <1> QED
    BY <1>1, <1>2, <1>3, <1>4 DEF Update!Inv

\* A client as set up over a complete status.
LEMMA SetUpFits ==
  ASSUME NEW c \in Update!Status, NEW e
  PROVE  LET h == [cache |-> c, pending |-> <<>>, entity |-> Update!ApplyValue(e, c),
                   known |-> c.fwv, waiting |-> FALSE]
         IN  h \in Clients /\ ClientFits(h)
  <1> DEFINE a == Update!ApplyValue(e, c)
  <1>1. a \in Entities /\ a.installed = c.fwv /\ a.offered = Update!Usable(c.onv) /\ OfferFits(a, FALSE)
    BY OfferApplies
  <1>2. c.fwv \in Update!Versions
    BY ListsFit
  <1> HIDE DEF a
  <1> DEFINE h == [cache |-> c, pending |-> <<>>, entity |-> a, known |-> c.fwv, waiting |-> FALSE]
  <1>3. h \in Clients
    BY <1>1, <1>2 DEF Clients
  <1>4. ClientFits(h)
    BY <1>1 DEF ClientFits
  <1> QED
    BY <1>3, <1>4 DEF a

LEMMA OffersInit == Update!Init => Update!Inv
  <1> SUFFICES ASSUME Update!Init PROVE Update!Inv
    OBVIOUS
  <1> USE DEF Update!Init
  <1>1. charger \in Update!Status /\ offersCache \in Update!Status
    BY DEF Update!Status, Update!Versions
  <1>2. Elsewhere
    BY <1>1, EmptySeq DEF Elsewhere
  <1>3. Update!Client = [cache |-> offersCache, pending |-> <<>>,
                         entity |-> Update!ApplyValue(Update!NoEntity, offersCache),
                         known |-> offersCache.fwv, waiting |-> FALSE]
    BY DEF Update!Client
  <1>4. Update!Client \in Clients /\ ClientFits(Update!Client)
    BY <1>1, <1>3, SetUpFits
  <1> QED
    BY <1>2, <1>4, ClientView

LEMMA OffersNext == Update!Inv /\ [Update!Next]_(Update!vars) => Update!Inv'
  <1> SUFFICES ASSUME Update!Inv, [Update!Next]_(Update!vars)
               PROVE  (Elsewhere /\ Update!Client \in Clients /\ ClientFits(Update!Client))'
    BY ClientView
  <1>0. Elsewhere /\ Update!Client \in Clients /\ ClientFits(Update!Client)
    BY ClientView
  \* Steps that leave the client as it is.
  <1>1. ASSUME UNCHANGED <<offersBuffered, Update!Client>>,
               charger' \in Update!Status, offersConnected' \in BOOLEAN,
               offersLink' \in Seq([keys : Update!Orders, values : Update!Status]),
               oct' \in Update!Versions \cup {None}
        PROVE  (Elsewhere /\ Update!Client \in Clients /\ ClientFits(Update!Client))'
    BY <1>0, <1>1 DEF Elsewhere, ClientFits, HeldIn
  <1>2. CASE Update!Receives
    <2> DEFINE f == Head(offersLink)
               r == Update!InTurn(Update!Applied, Update!Client, f.keys)
    <2>1. /\ offersLink # <<>> /\ offersLink' = Tail(offersLink) /\ Update!Becomes(r)
          /\ UNCHANGED <<offersBuffered, charger, offersConnected, oct>>
      BY <1>2 DEF Update!Receives
    <2>2. f.keys \in Update!Orders /\ f.values \in Update!Status
          /\ offersLink' \in Seq([keys : Update!Orders, values : Update!Status])
      <3>1. /\ f \in [keys : Update!Orders, values : Update!Status]
            /\ offersLink' \in Seq([keys : Update!Orders, values : Update!Status])
        BY <1>0, <2>1, HeadTailProperties DEF Elsewhere
      <3> QED
        BY <3>1
    <2>3. r \in Clients /\ ClientFits(r)
      BY <1>0, <2>2, FrameKeeps DEF Elsewhere
    <2> HIDE DEF r
    <2>4. Update!Client' = r
      BY <2>1, <2>3 DEF Update!Becomes, Update!Client, Clients
    <2>5. Elsewhere'
      BY <1>0, <2>1, <2>2 DEF Elsewhere
    <2>6. ClientFits(Update!Client)'
      BY <2>1, <2>3, <2>4 DEF ClientFits, HeldIn
    <2> QED
      BY <2>3, <2>4, <2>5, <2>6
  <1>3. CASE Update!FlushPending
    <2> DEFINE r == Update!InTurn(Update!Push, [Update!Client EXCEPT !.pending = <<>>], offersPending)
    <2>1. /\ offersPending # <<>> /\ Update!Becomes(r)
          /\ UNCHANGED <<offersBuffered, charger, offersConnected, offersLink, oct>>
      BY <1>3 DEF Update!FlushPending
    <2>2. Update!Client.pending = offersPending /\ offersPending \in Update!Orders
      BY <1>0, <2>1 DEF Update!Client, Clients
    <2>3. r \in Clients /\ ClientFits(r)
      BY <1>0, <2>2, FlushKeeps
    <2> HIDE DEF r
    <2>4. Update!Client' = r
      BY <2>1, <2>3 DEF Update!Becomes, Update!Client, Clients
    <2>5. Elsewhere'
      BY <1>0, <2>1 DEF Elsewhere
    <2>6. ClientFits(Update!Client)'
      BY <2>1, <2>3, <2>4 DEF ClientFits, HeldIn
    <2> QED
      BY <2>3, <2>4, <2>5, <2>6
  <1>4. CASE Update!Reloads
    <2> DEFINE h == [cache |-> charger, pending |-> <<>>,
                     entity |-> Update!ApplyValue(Update!NoEntity, charger),
                     known |-> charger.fwv, waiting |-> FALSE]
    <2>1. /\ Update!Client' = h
          /\ UNCHANGED <<offersBuffered, charger, offersConnected, offersLink, oct>>
      BY <1>4 DEF Update!Reloads, Update!Client
    <2>2. h \in Clients /\ ClientFits(h)
      BY <1>0, SetUpFits DEF Elsewhere
    <2> HIDE DEF h
    <2>3. Elsewhere'
      BY <1>0, <2>1 DEF Elsewhere
    <2>4. ClientFits(Update!Client)'
      BY <2>1, <2>2 DEF ClientFits, HeldIn
    <2> QED
      BY <2>1, <2>2, <2>3, <2>4
  <1>5. ASSUME NEW choice \in Update!Versions \cup {None}, Update!Installs(choice)
        PROVE  (Elsewhere /\ Update!Client \in Clients /\ ClientFits(Update!Client))'
    <2>1. /\ UNCHANGED <<charger, offersConnected, offersLink, offersCache, offersBuffered, offersPending,
                         entity, known, waiting>>
          /\ oct' \in entity.offered
      BY <1>5 DEF Update!Installs, Update!MayInstall, Update!hub
    <2>2. oct' \in Update!Versions
      BY <1>0, <2>1 DEF Update!Client, Clients, Entities
    <2> QED
      BY <1>0, <1>1, <2>1, <2>2 DEF Elsewhere, Update!Client
  <1>6. CASE Update!InstallEnds
    BY <1>0, <1>1, <1>6 DEF Update!InstallEnds, Update!hub, Elsewhere, Update!Client
  <1>7. ASSUME NEW version \in Update!Versions, Update!Restarts(version), oct' \in Update!Versions \cup {None}
        PROVE  (Elsewhere /\ Update!Client \in Clients /\ ClientFits(Update!Client))'
    BY <1>0, <1>1, <1>7, EmptySeq DEF Update!Restarts, Update!hub, Elsewhere, Update!Client, Update!Status
  <1>8. CASE Update!TakesOrder
    <2>1. oct \in Update!Versions /\ oct' = None /\ Update!Restarts(oct)
      BY <1>0, <1>8 DEF Update!TakesOrder, Elsewhere
    <2> QED
      BY <1>7, <2>1
  <1>9. CASE Update!Refuses
    BY <1>0, <1>1, <1>9 DEF Update!Refuses, Update!hub, Elsewhere, Update!Client
  <1>10. ASSUME NEW version \in {"old", "current", "new"}, Update!AppInstalls(version)
         PROVE  (Elsewhere /\ Update!Client \in Clients /\ ClientFits(Update!Client))'
    BY <1>0, <1>7, <1>10 DEF Update!AppInstalls, Update!Versions, Elsewhere
  <1>11. ASSUME NEW keys \in {<<"fwv", "onv">>, <<"onv", "fwv">>}, Update!Reconnects(keys)
         PROVE  (Elsewhere /\ Update!Client \in Clients /\ ClientFits(Update!Client))'
    <2>1. [keys |-> keys, values |-> charger] \in [keys : Update!Orders, values : Update!Status]
      BY <1>0 DEF Elsewhere, Update!Orders
    <2>2. offersLink' \in Seq([keys : Update!Orders, values : Update!Status])
      BY <1>11, <2>1 DEF Update!Reconnects
    <2> QED
      BY <1>0, <1>1, <1>11, <2>2 DEF Update!Reconnects, Update!hub, Elsewhere, Update!Client
  <1>12. ASSUME NEW l \in Lists, Update!OffersOthers(l)
         PROVE  (Elsewhere /\ Update!Client \in Clients /\ ClientFits(Update!Client))'
    <2>1. charger' \in Update!Status
      BY <1>0, <1>12 DEF Update!OffersOthers, Elsewhere, Update!Status
    <2>2. [keys |-> <<"onv">>, values |-> charger'] \in [keys : Update!Orders, values : Update!Status]
      BY <2>1 DEF Update!Orders
    <2>3. offersLink' \in Seq([keys : Update!Orders, values : Update!Status])
      <3>1. offersLink' = <<[keys |-> <<"onv">>, values |-> charger']>> \/ offersLink' = offersLink
        BY <1>12, Zenon DEF Update!OffersOthers
      <3>2. <<[keys |-> <<"onv">>, values |-> charger']>> \in Seq([keys : Update!Orders, values : Update!Status])
        <4> DEFINE S == [keys : Update!Orders, values : Update!Status]
        <4>1. \A x \in S : <<x>> \in Seq(S)
          <5> HIDE DEF S
          <5> QED
            OBVIOUS
        <4> QED
          BY <2>2, <4>1
      <3>3. offersLink \in Seq([keys : Update!Orders, values : Update!Status])
        BY <1>0 DEF Elsewhere
      <3>4. CASE offersLink' = <<[keys |-> <<"onv">>, values |-> charger']>>
        BY <3>2, <3>4, Zenon
      <3>5. CASE offersLink' = offersLink
        BY <3>3, <3>5, Zenon
      <3> QED
        BY <3>1, <3>4, <3>5
    <2> QED
      BY <1>0, <1>1, <1>12, <2>1, <2>3 DEF Update!OffersOthers, Update!hub, Elsewhere, Update!Client
  <1>13. CASE UNCHANGED Update!vars
    BY <1>0, <1>1, <1>13 DEF Update!vars, Update!hub, Elsewhere, Update!Client
  <1> QED
    BY <1>2, <1>3, <1>4, <1>5, <1>6, <1>8, <1>9, <1>10, <1>11, <1>12, <1>13 DEF Update!Next

\* What the entity shows follows what the charger reported, but for what the
\* hub still holds, in whatever order the two properties come.
THEOREM OffersInvariance == Update!Spec => []Update!Inv
  BY OffersInit, OffersNext, PTL DEF Update!Spec

\* UpdateIsInstallable of run pushed, for any lists of versions.
THEOREM UpdatesAreInstallable == Update!Spec => []UpdateIsInstallable
  <1>1. Update!Inv => UpdateIsInstallable
    <2> SUFFICES ASSUME Update!Inv, offersPending = <<>>
                 PROVE  /\ Update!Usable(offersCache.onv) # {} =>
                             /\ \E i \in DOMAIN offersCache.onv : offersCache.onv[i] = entity.latest
                             /\ \A i \in DOMAIN offersCache.onv :
                                  Update!Rank[offersCache.onv[i]] <= Update!Rank[entity.latest]
                        /\ Update!ShowsUpdate => waiting \/ Update!MayInstall(entity.latest)
      BY DEF UpdateIsInstallable, Update!UpdateIsInstallable
    <2>1. entity.offered = Update!Usable(offersCache.onv)
      BY DEF Update!Inv, Update!EntityFits, Update!Held
    <2>2. entity.latest \in Update!Versions /\ Update!Rank[entity.latest] \in Nat
      BY Ranks DEF Update!Inv, Update!TypeOK, Update!Spellings
    <2>3. Update!Rank["blank"] = 0
      BY DEF Update!Rank, Update!Spellings
    <2>4. ASSUME Update!Usable(offersCache.onv) # {}, NEW i \in DOMAIN offersCache.onv
          PROVE  Update!Rank[offersCache.onv[i]] <= Update!Rank[entity.latest]
      <3>1. offersCache.onv[i] = "blank" \/ offersCache.onv[i] \in entity.offered
        BY <2>1, <2>4 DEF Update!Usable
      <3> QED
        BY <2>1, <2>2, <2>3, <2>4, <3>1 DEF Update!Inv, Update!EntityFits
    <2>5. Update!Usable(offersCache.onv) # {} =>
            \E i \in DOMAIN offersCache.onv : offersCache.onv[i] = entity.latest
      BY <2>1 DEF Update!Inv, Update!EntityFits, Update!Usable
    <2>6. Update!ShowsUpdate => waiting \/ Update!MayInstall(entity.latest)
      BY DEF Update!Inv, Update!EntityFits, Update!ShowsUpdate, Update!MayInstall
    <2> QED
      BY <2>4, <2>5, <2>6
  <1> QED
    BY <1>1, OffersInvariance, PTL

-----------------------------------------------------------------------------
(* CloudApi *)

\* A key that comes behind the frames, if it is one of S, or an answer, changes
\* nothing about what the frames before lead to.
LEMMA SettledBefore ==
  ASSUME NEW k, NEW l \in Seq(Cloud!Frame), NEW f \in Cloud!Frame, NEW n \in 0..Len(l), NEW S,
         Cloud!Settled(k, l, n, S), f.type = "key" => f.key \in S
  PROVE  Cloud!Settled(k, Append(l, f), n, S)
  <1>1. Len(l) \in Nat
    BY LenProperties
  <1>2. Len(Append(l, f)) = Len(l) + 1 /\ \A i \in 1..Len(l) : Append(l, f)[i] = l[i]
        /\ Append(l, f)[Len(l) + 1] = f
    BY AppendProperties
  <1>3. \A i \in 1..n : i \in 1..Len(l)
    BY <1>1
  <1>4. \A i \in (n + 1)..(Len(l) + 1) : (i \in (n + 1)..Len(l) /\ i \in 1..Len(l)) \/ i = Len(l) + 1
    BY <1>1
  <1>5. \A i \in 1..n : Append(l, f)[i] = l[i]
    BY <1>2, <1>3
  <1>6. \A i \in 1..n : \A j \in (i + 1)..n : j \in 1..n
    BY <1>1
  <1>7. \A i \in (n + 1)..Len(Append(l, f)) : Append(l, f)[i].type = "key" => Append(l, f)[i].key \in S
    BY <1>2, <1>4 DEF Cloud!Settled
  <1>8. \/ k \in S /\ \A i \in 1..n : Append(l, f)[i].type # "key"
        \/ \E i \in 1..n : /\ Append(l, f)[i].type = "key" /\ Append(l, f)[i].key \in S
                           /\ \A j \in (i + 1)..n : Append(l, f)[j].type # "key"
    BY <1>5, <1>6 DEF Cloud!Settled
  <1> QED
    BY <1>7, <1>8 DEF Cloud!Settled

\* What all frames lead to is what they and one more lead to, but for a key.
LEMMA SettledAfter ==
  ASSUME NEW k, NEW l \in Seq(Cloud!Frame), NEW f \in Cloud!Frame, NEW S,
         IF f.type = "key" THEN f.key \in S ELSE Cloud!Settled(k, l, Len(l), S)
  PROVE  Cloud!Settled(k, Append(l, f), Len(l) + 1, S)
  <1> DEFINE m == Append(l, f)
  <1>1. Len(l) \in Nat
    BY LenProperties
  <1>2. Len(m) = Len(l) + 1 /\ (\A i \in 1..Len(l) : m[i] = l[i]) /\ m[Len(l) + 1] = f
    BY AppendProperties
  <1>3. \A i \in (Len(l) + 1 + 1)..Len(m) : FALSE
    BY <1>1, <1>2
  <1>4. CASE f.type = "key"
    <2>1. Len(l) + 1 \in 1..(Len(l) + 1) /\ \A j \in ((Len(l) + 1) + 1)..(Len(l) + 1) : FALSE
      BY <1>1
    <2> QED
      BY <1>2, <1>3, <1>4, <2>1 DEF Cloud!Settled
  <1>5. CASE f.type # "key"
    <2>1. \A i \in 1..(Len(l) + 1) : i \in 1..Len(l) \/ i = Len(l) + 1
      BY <1>1
    <2>2. 1..Len(l) \subseteq 1..(Len(l) + 1)
      BY <1>1
    <2>3. \A i \in 1..Len(l) : \A j \in (i + 1)..(Len(l) + 1) : (j \in (i + 1)..Len(l) /\ j \in 1..Len(l)) \/ j = Len(l) + 1
      BY <1>1
    <2>4. CASE k \in S /\ \A i \in 1..Len(l) : l[i].type # "key"
      BY <1>2, <1>3, <1>5, <2>1, <2>4 DEF Cloud!Settled
    <2>5. ASSUME NEW i \in 1..Len(l), l[i].type = "key", l[i].key \in S,
                 \A j \in (i + 1)..Len(l) : l[j].type # "key"
          PROVE  Cloud!Settled(k, m, Len(l) + 1, S)
      <3>1. m[i] = l[i] /\ \A j \in (i + 1)..(Len(l) + 1) : m[j].type # "key"
        BY <1>2, <1>5, <2>3, <2>5
      <3> QED
        BY <1>3, <2>2, <2>5, <3>1 DEF Cloud!Settled
    <2> QED
      BY <1>5, <2>4, <2>5 DEF Cloud!Settled
  <1> QED
    BY <1>4, <1>5

\* The client reads one frame.
LEMMA SettledTail ==
  ASSUME NEW k, NEW l \in Seq(Cloud!Frame), l # <<>>, NEW n \in 0..Len(l), NEW S,
         Cloud!Settled(k, l, n, S)
  PROVE  LET m == IF n = 0 THEN 0 ELSE n - 1
             q == IF Head(l).type = "key" THEN Head(l).key ELSE k
         IN  m \in 0..Len(Tail(l)) /\ Cloud!Settled(q, Tail(l), m, S)
  <1> DEFINE t == Tail(l)
             m == IF n = 0 THEN 0 ELSE n - 1
             q == IF Head(l).type = "key" THEN Head(l).key ELSE k
  <1>1. Len(l) \in Nat \ {0}
    BY EmptySeq, LenProperties
  <1>2. Len(t) = Len(l) - 1 /\ \A i \in 1..Len(t) : t[i] = l[i + 1]
    BY HeadTailProperties
  <1>3. Head(l) = l[1]
    BY <1>1
  <1>4. m \in 0..Len(t)
    BY <1>1, <1>2
  <1>5. ASSUME NEW i \in (m + 1)..Len(t), t[i].type = "key" PROVE t[i].key \in S
    <2>1. i \in 1..Len(t) /\ i + 1 \in (n + 1)..Len(l)
      BY <1>1, <1>2, <1>4
    <2> QED
      BY <1>2, <1>5, <2>1 DEF Cloud!Settled
  <1>6. CASE n = 0
    <2>1. k \in S /\ m = 0
      BY <1>6 DEF Cloud!Settled
    <2>2. Head(l).type = "key" => Head(l).key \in S
      <3>1. 1 \in (n + 1)..Len(l)
        BY <1>1, <1>6
      <3> QED
        BY <1>3, <3>1 DEF Cloud!Settled
    <2>3. q \in S /\ \A i \in 1..m : FALSE
      BY <2>1, <2>2
    <2> QED
      BY <1>4, <1>5, <2>3 DEF Cloud!Settled
  <1>7. CASE n # 0
    <2>1. m = n - 1 /\ \A i \in 1..m : i \in 1..Len(t) /\ i + 1 \in 1..n
      BY <1>1, <1>2, <1>4, <1>7
    <2>2. 1 \in 1..n
      BY <1>7
    <2>3. CASE k \in S /\ \A i \in 1..n : l[i].type # "key"
      <3>1. q \in S /\ \A i \in 1..m : t[i].type # "key"
        BY <1>2, <1>3, <2>1, <2>2, <2>3
      <3> QED
        BY <1>4, <1>5, <3>1 DEF Cloud!Settled
    <2>4. ASSUME NEW i \in 1..n, l[i].type = "key", l[i].key \in S,
                 \A j \in (i + 1)..n : l[j].type # "key"
          PROVE  Cloud!Settled(q, t, m, S)
      <3>1. CASE i = 1
        <4>1. \A j \in 1..m : j + 1 \in (i + 1)..n
          BY <2>1, <3>1
        <4>2. q \in S /\ \A j \in 1..m : t[j].type # "key"
          BY <1>2, <1>3, <2>1, <2>4, <3>1, <4>1
        <4> QED
          BY <1>5, <4>2 DEF Cloud!Settled
      <3>2. CASE i # 1
        <4>1. i - 1 \in 1..m /\ \A j \in ((i - 1) + 1)..m : j \in 1..m /\ j + 1 \in (i + 1)..n
          BY <2>1, <3>2
        <4>2. t[i - 1] = l[i]
          <5>1. (i - 1) + 1 = i
            OBVIOUS
          <5> QED
            BY <1>2, <2>1, <4>1, <5>1
        <4>3. \A j \in ((i - 1) + 1)..m : t[j].type # "key"
          BY <1>2, <2>1, <2>4, <4>1
        <4> QED
          BY <1>5, <2>4, <4>1, <4>2, <4>3 DEF Cloud!Settled
      <3> QED
        BY <3>1, <3>2
    <2> QED
      BY <1>4, <2>3, <2>4 DEF Cloud!Settled
  <1> QED
    BY <1>6, <1>7

\* It depends on the frames' keys alone, and on no more of S than they have.
LEMMA SettledSame ==
  ASSUME NEW k, NEW l, NEW m, NEW n, NEW S, NEW T,
         Len(m) = Len(l), \A i \in 1..Len(l) : m[i].type = l[i].type /\ m[i].key = l[i].key,
         Len(l) \in Nat, n \in 0..Len(l),
         S \subseteq T, Cloud!Settled(k, l, n, S)
  PROVE  Cloud!Settled(k, m, n, T)
  <1>1. 1..n \subseteq 1..Len(l) /\ (n + 1)..Len(l) \subseteq 1..Len(l)
        /\ \A i \in 1..n : (i + 1)..n \subseteq 1..Len(l)
    OBVIOUS
  <1>2. \A i \in (n + 1)..Len(m) : m[i].type = "key" => m[i].key \in T
    BY <1>1 DEF Cloud!Settled
  <1>3. \/ k \in T /\ \A i \in 1..n : m[i].type # "key"
        \/ \E i \in 1..n : /\ m[i].type = "key" /\ m[i].key \in T
                           /\ \A j \in (i + 1)..n : m[j].type # "key"
    BY <1>1 DEF Cloud!Settled
  <1> QED
    BY <1>2, <1>3 DEF Cloud!Settled

LEMMA CloudInit == Cloud!Init => Cloud!Inv
  <1> SUFFICES ASSUME Cloud!Init PROVE Cloud!Inv
    OBVIOUS
  <1> USE DEF Cloud!Init
  <1>1. Len(cloudLink) = 0 /\ DOMAIN cloudLink = {} /\ DOMAIN commands = {}
    OBVIOUS
  <1>2. Cloud!TypeOK
    BY EmptySeq DEF Cloud!TypeOK, Cloud!Stages, Cloud!NoResult
  <1>3. Cloud!CallbacksFit
    BY DEF Cloud!CallbacksFit
  <1>4. Cloud!WritesFit
    BY <1>1 DEF Cloud!WritesFit
  <1>5. Cloud!Settled(cak, cloudLink, 0, {key})
    BY <1>1 DEF Cloud!Settled
  <1>6. Cloud!KeysFit
    BY <1>1, <1>5 DEF Cloud!KeysFit
  <1>7. Cloud!NoLostWakeup /\ Cloud!KeyIsCurrent
    BY DEF Cloud!NoLostWakeup, Cloud!KeyIsCurrent, Cloud!NoResult
  <1> QED
    BY <1>2, <1>3, <1>4, <1>6, <1>7 DEF Cloud!Inv

\* What the sequences hold.
LEMMA CloudSequences ==
  ASSUME Cloud!TypeOK
  PROVE  /\ Len(cloudLink) \in Nat /\ DOMAIN cloudLink = 1..Len(cloudLink)
         /\ Len(commands) \in Nat /\ DOMAIN commands = 1..Len(commands)
         /\ \A i \in DOMAIN cloudLink : cloudLink[i] \in Cloud!Frame
         /\ \A i \in DOMAIN commands : commands[i] \in Cloud!Write
  BY LenProperties, ElementOfSeq DEF Cloud!TypeOK

LEMMA CloudCallsGoOn ==
  ASSUME Cloud!Inv, NEW c \in Callers,
         Cloud!GoesOn(c) \/ Cloud!Disabled(c) \/ Cloud!Wakes(c) \/ Cloud!TimesOut(c)
  PROVE  Cloud!Inv'
  <1> USE DEF Cloud!Inv
  <1>1. UNCHANGED <<enabled, key, since, cloudConnected, commands, cloudLink, cak>>
    BY DEF Cloud!GoesOn, Cloud!Disabled, Cloud!Wakes, Cloud!TimesOut, Cloud!charger
  <1>2. ~Cloud!Pending(c) /\ pc[c] # "idle"
    BY DEF Cloud!GoesOn, Cloud!Disabled, Cloud!Wakes, Cloud!TimesOut, Cloud!Pending
  <1>3. \/ /\ pc[c] = "answered" /\ cak = NoKey
           /\ pc' = [pc EXCEPT ![c] = "waiting"] /\ UNCHANGED <<callbacks, arrived, result>>
        \/ /\ pc[c] \in {"answered", "waiting"}
           /\ pc' = [pc EXCEPT ![c] = "idle"]
           /\ callbacks' = callbacks \ {c} /\ arrived' = arrived \ {c}
           /\ \/ result' = [result EXCEPT ![c] = [how |-> "enabled", key |-> cak]]
              \/ \E how \in {"empty", "timeout"} :
                   result' = [result EXCEPT ![c] = [how |-> how, key |-> NoKey]]
        \/ /\ pc[c] = "disabled"
           /\ pc' = [pc EXCEPT ![c] = "idle"] /\ UNCHANGED <<callbacks, arrived, result>>
    BY DEF Cloud!GoesOn, Cloud!Disabled, Cloud!Wakes, Cloud!TimesOut, Cloud!Take, Cloud!End
  <1>4. Cloud!TypeOK'
    BY <1>1, <1>3 DEF Cloud!TypeOK, Cloud!Stages
  <1>5. Cloud!CallbacksFit'
    BY <1>3 DEF Cloud!CallbacksFit, Cloud!TypeOK
  <1>6. \A d \in Callers : Cloud!Pending(d) => d # c /\ pc'[d] = pc[d]
    BY <1>2, <1>3 DEF Cloud!TypeOK
  <1>7. Cloud!WritesFit'
    BY <1>1, <1>6, CloudSequences DEF Cloud!WritesFit, Cloud!Pending, Cloud!Frame, Cloud!Write
  <1>8. Cloud!KeysFit'
    <2>1. \A d \in Callers : pc'[d] \in {"answered", "waiting"} => pc[d] \in {"answered", "waiting"}
      BY <1>3 DEF Cloud!TypeOK
    <2>2. \A i \in DOMAIN cloudLink :
            cloudLink[i].live /\ pc'[cloudLink[i].caller] = "sending" => pc[cloudLink[i].caller] = "sending"
      BY <1>6, CloudSequences DEF Cloud!WritesFit, Cloud!Pending, Cloud!Frame
    <2> QED
      BY <1>1, <2>1, <2>2 DEF Cloud!KeysFit
  <1>9. Cloud!NoLostWakeup'
    BY <1>1, <1>3 DEF Cloud!NoLostWakeup, Cloud!TypeOK
  <1>10. Cloud!KeyIsCurrent'
    <2>1. pc[c] \in {"answered", "waiting"} => cak \in since[c]
      BY DEF Cloud!KeysFit, Cloud!Settled
    <2>2. \A d \in Callers : d # c => result'[d] = result[d]
      BY <1>3 DEF Cloud!TypeOK
    <2>3. result'[c].how = "enabled" => result'[c].key \in since[c]
      <3>1. result \in [Callers -> [how : {"none", "enabled", "empty", "timeout", "failed"},
                                     key : Keys \cup {NoKey}]]
        BY DEF Cloud!TypeOK
      <3> QED
        BY <1>3, <2>1, <3>1 DEF Cloud!KeyIsCurrent
    <2> QED
      BY <1>1, <2>2, <2>3 DEF Cloud!KeyIsCurrent
  <1> QED
    BY <1>4, <1>5, <1>7, <1>8, <1>9, <1>10

LEMMA CloudCallsBegin ==
  ASSUME Cloud!Inv, NEW c \in Callers, Cloud!Enable(c) \/ Cloud!Disable(c)
  PROVE  Cloud!Inv'
  <1> USE DEF Cloud!Inv
  <1>1. PICK v \in BOOLEAN :
          /\ UNCHANGED <<enabled, key, cloudConnected, cloudLink, cak, arrived>>
          /\ cloudConnected /\ pc[c] = "idle"
          /\ pc' = [pc EXCEPT ![c] = IF v THEN "sending" ELSE "disabling"]
          /\ callbacks' = IF v THEN callbacks \cup {c} ELSE callbacks
          /\ commands' = Append(commands, Cloud!Command(c, v))
          /\ since' = [since EXCEPT ![c] = {}]
          /\ result' = [result EXCEPT ![c] = Cloud!NoResult]
    <2>1. CASE Cloud!Enable(c)
      BY <2>1 DEF Cloud!Enable
    <2>2. CASE Cloud!Disable(c)
      BY <2>2 DEF Cloud!Disable
    <2> QED
      BY <2>1, <2>2
  <1>2. Cloud!Command(c, v) \in Cloud!Write
    BY DEF Cloud!Command, Cloud!Write
  <1>3. /\ commands' \in Seq(Cloud!Write) /\ Len(commands') = Len(commands) + 1
        /\ DOMAIN commands' = 1..(Len(commands) + 1)
        /\ commands'[Len(commands) + 1] = Cloud!Command(c, v)
        /\ \A i \in DOMAIN commands : commands'[i] = commands[i]
    BY <1>1, <1>2, CloudSequences, AppendProperties, LenProperties DEF Cloud!TypeOK
  <1>4. Cloud!TypeOK'
    BY <1>1, <1>3 DEF Cloud!TypeOK, Cloud!Stages, Cloud!NoResult
  <1>5. Cloud!CallbacksFit'
    BY <1>1 DEF Cloud!CallbacksFit, Cloud!TypeOK
  <1>6. \A d \in Callers : Cloud!Pending(d) => d # c /\ pc'[d] = pc[d]
    BY <1>1 DEF Cloud!TypeOK, Cloud!Pending
  <1>7. Cloud!WritesFit'
    <2>1. \A i \in DOMAIN commands' : i \in DOMAIN commands \/ i = Len(commands) + 1
      BY <1>3, CloudSequences
    <2>2. \A i \in DOMAIN commands : commands[i].live => commands[i].caller # c /\ commands'[i] = commands[i]
      BY <1>3, <1>6, CloudSequences DEF Cloud!WritesFit, Cloud!Pending, Cloud!Write
    <2>3. \A i \in DOMAIN cloudLink : cloudLink[i].live => cloudLink[i].caller # c
      BY <1>6, CloudSequences DEF Cloud!WritesFit, Cloud!Frame
    <2>4. \A i \in DOMAIN commands' : commands'[i].live =>
            pc'[commands'[i].caller] = (IF commands'[i].value THEN "sending" ELSE "disabling")
      BY <1>1, <1>3, <2>1, <2>2, CloudSequences
         DEF Cloud!WritesFit, Cloud!TypeOK, Cloud!Write, Cloud!Command
    <2>5. \A i \in DOMAIN cloudLink : cloudLink[i].live => cloudLink[i].type = "answer" /\ Cloud!Pending(cloudLink[i].caller)'
      BY <1>1, <1>6, CloudSequences DEF Cloud!WritesFit, Cloud!Pending, Cloud!Frame
    <2>6. \A i, j \in DOMAIN commands' : Cloud!Same(commands'[i], commands'[j]) => i = j
      BY <1>3, <2>1, <2>2 DEF Cloud!WritesFit, Cloud!Same, Cloud!Command
    <2>7. \A i \in DOMAIN commands', j \in DOMAIN cloudLink : ~Cloud!Same(commands'[i], cloudLink[j])
      BY <1>3, <2>1, <2>3 DEF Cloud!WritesFit, Cloud!Same, Cloud!Command
    <2> QED
      BY <1>1, <2>4, <2>5, <2>6, <2>7 DEF Cloud!WritesFit
  <1>8. Cloud!KeysFit'
    <2>1. \A d \in Callers : pc'[d] \in {"answered", "waiting"} =>
            pc[d] \in {"answered", "waiting"} /\ since'[d] = since[d]
      BY <1>1 DEF Cloud!TypeOK
    <2>2. \A i \in DOMAIN cloudLink :
            cloudLink[i].live /\ pc'[cloudLink[i].caller] = "sending" =>
              pc[cloudLink[i].caller] = "sending" /\ since'[cloudLink[i].caller] = since[cloudLink[i].caller]
      BY <1>1, <1>6, CloudSequences DEF Cloud!WritesFit, Cloud!Pending, Cloud!Frame, Cloud!TypeOK
    <2>3. \A d \in Callers : since'[d] # {} => key' \in since'[d]
      BY <1>1 DEF Cloud!KeysFit, Cloud!TypeOK
    <2> QED
      BY <1>1, <2>1, <2>2, <2>3 DEF Cloud!KeysFit
  <1>9. Cloud!NoLostWakeup'
    BY <1>1 DEF Cloud!NoLostWakeup, Cloud!TypeOK
  <1>10. Cloud!KeyIsCurrent'
    BY <1>1 DEF Cloud!KeyIsCurrent, Cloud!TypeOK, Cloud!NoResult
  <1> QED
    BY <1>4, <1>5, <1>7, <1>8, <1>9, <1>10

\* A call that has ended is no one's any more: the messages stay.
LEMMA ForgottenWrites ==
  ASSUME NEW c, NEW l \in Seq(Cloud!Write)
  PROVE  /\ Cloud!Forget(c, l) \in Seq(Cloud!Write) /\ Len(Cloud!Forget(c, l)) = Len(l)
         /\ DOMAIN Cloud!Forget(c, l) = DOMAIN l
         /\ \A i \in DOMAIN l :
              Cloud!Forget(c, l)[i] = IF l[i].caller = c THEN [l[i] EXCEPT !.live = FALSE] ELSE l[i]
  <1>1. Len(l) \in Nat /\ DOMAIN l = 1..Len(l) /\ \A i \in 1..Len(l) : l[i] \in Cloud!Write
    BY LenProperties, ElementOfSeq
  <1>2. \A f \in Cloud!Write : f.live \in BOOLEAN /\ [f EXCEPT !.live = FALSE] \in Cloud!Write
    BY DEF Cloud!Write
  <1> QED
    BY <1>1, <1>2 DEF Cloud!Forget

LEMMA ForgottenFrames ==
  ASSUME NEW c, NEW l \in Seq(Cloud!Frame)
  PROVE  /\ Cloud!Forget(c, l) \in Seq(Cloud!Frame) /\ Len(Cloud!Forget(c, l)) = Len(l)
         /\ DOMAIN Cloud!Forget(c, l) = DOMAIN l
         /\ \A i \in DOMAIN l :
              Cloud!Forget(c, l)[i] = IF l[i].caller = c THEN [l[i] EXCEPT !.live = FALSE] ELSE l[i]
  <1>1. Len(l) \in Nat /\ DOMAIN l = 1..Len(l) /\ \A i \in 1..Len(l) : l[i] \in Cloud!Frame
    BY LenProperties, ElementOfSeq
  <1>2. \A f \in Cloud!Frame : f.live \in BOOLEAN /\ [f EXCEPT !.live = FALSE] \in Cloud!Frame
    BY DEF Cloud!Frame
  <1> QED
    BY <1>1, <1>2 DEF Cloud!Forget

LEMMA CloudWriteTimesOut ==
  ASSUME Cloud!Inv, NEW c \in Callers, Cloud!WriteTimesOut(c)
  PROVE  Cloud!Inv'
  <1> USE DEF Cloud!Inv
  <1>1. /\ UNCHANGED <<enabled, key, since, cloudConnected, cak>>
        /\ Cloud!Pending(c)
        /\ pc' = [pc EXCEPT ![c] = "idle"]
        /\ callbacks' = callbacks \ {c} /\ arrived' = arrived \ {c}
        /\ result' = [result EXCEPT ![c] = [how |-> "failed", key |-> NoKey]]
        /\ commands' = Cloud!Forget(c, commands) /\ cloudLink' = Cloud!Forget(c, cloudLink)
    BY DEF Cloud!WriteTimesOut, Cloud!End, Cloud!charger
  <1>2. /\ commands' \in Seq(Cloud!Write) /\ DOMAIN commands' = DOMAIN commands
        /\ Len(commands') = Len(commands)
        /\ \A i \in DOMAIN commands :
             commands'[i] = IF commands[i].caller = c THEN [commands[i] EXCEPT !.live = FALSE] ELSE commands[i]
    BY <1>1, ForgottenWrites DEF Cloud!TypeOK
  <1>3. /\ cloudLink' \in Seq(Cloud!Frame) /\ DOMAIN cloudLink' = DOMAIN cloudLink
        /\ Len(cloudLink') = Len(cloudLink)
        /\ \A i \in DOMAIN cloudLink :
             cloudLink'[i] = IF cloudLink[i].caller = c THEN [cloudLink[i] EXCEPT !.live = FALSE] ELSE cloudLink[i]
    BY <1>1, ForgottenFrames DEF Cloud!TypeOK
  <1>4. \A i \in DOMAIN commands :
          /\ commands'[i].caller = commands[i].caller /\ commands'[i].value = commands[i].value
          /\ commands'[i].live => commands[i].live /\ commands[i].caller \in Callers \ {c}
    BY <1>2, CloudSequences DEF Cloud!Write
  <1>5. \A i \in DOMAIN cloudLink :
          /\ cloudLink'[i].caller = cloudLink[i].caller /\ cloudLink'[i].type = cloudLink[i].type
          /\ cloudLink'[i].key = cloudLink[i].key /\ cloudLink'[i].ok = cloudLink[i].ok
          /\ cloudLink'[i].live => cloudLink[i].live /\ cloudLink[i].caller \in Callers \ {c}
    BY <1>3, CloudSequences DEF Cloud!Frame
  <1>6. \A d \in Callers \ {c} : pc'[d] = pc[d]
    BY <1>1 DEF Cloud!TypeOK
  <1>7. Cloud!TypeOK'
    BY <1>1, <1>2, <1>3 DEF Cloud!TypeOK, Cloud!Stages
  <1>8. Cloud!CallbacksFit'
    BY <1>1 DEF Cloud!CallbacksFit, Cloud!TypeOK, Cloud!Pending
  <1>9. Cloud!WritesFit'
    <2>1. \A i \in DOMAIN commands' : commands'[i].live =>
            pc'[commands'[i].caller] = (IF commands'[i].value THEN "sending" ELSE "disabling")
      BY <1>2, <1>4, <1>6 DEF Cloud!WritesFit
    <2>2. \A i \in DOMAIN cloudLink' : cloudLink'[i].live =>
            cloudLink'[i].type = "answer" /\ Cloud!Pending(cloudLink[i].caller)'
      BY <1>3, <1>5, <1>6 DEF Cloud!WritesFit, Cloud!Pending
    <2>3. \A i, j \in DOMAIN commands' : Cloud!Same(commands'[i], commands'[j]) => i = j
      BY <1>2, <1>4 DEF Cloud!WritesFit, Cloud!Same
    <2>4. \A i, j \in DOMAIN cloudLink' : Cloud!Same(cloudLink'[i], cloudLink'[j]) => i = j
      BY <1>3, <1>5 DEF Cloud!WritesFit, Cloud!Same
    <2>5. \A i \in DOMAIN commands', j \in DOMAIN cloudLink' : ~Cloud!Same(commands'[i], cloudLink'[j])
      BY <1>2, <1>3, <1>4, <1>5 DEF Cloud!WritesFit, Cloud!Same
    <2> QED
      BY <2>1, <2>2, <2>3, <2>4, <2>5 DEF Cloud!WritesFit, Cloud!Pending
  <1>10. Cloud!KeysFit'
    <2>1. \A n \in 0..Len(cloudLink), S \in SUBSET (Keys \cup {NoKey}) :
            Cloud!Settled(cak, cloudLink, n, S) => Cloud!Settled(cak', cloudLink', n, S)
      BY <1>1, <1>3, <1>5, SettledSame, CloudSequences
    <2>2. cloudConnected' => Cloud!Settled(cak', cloudLink', Len(cloudLink'), {key'})
      <3>1. Len(cloudLink) \in 0..Len(cloudLink) /\ {key} \in SUBSET (Keys \cup {NoKey})
        BY CloudSequences DEF Cloud!TypeOK
      <3> QED
        BY <1>1, <1>3, <2>1, <3>1 DEF Cloud!KeysFit
    <2>3. ~cloudConnected' => commands' = <<>> /\ cloudLink' = <<>>
      BY <1>1 DEF Cloud!KeysFit, Cloud!Forget
    <2>4. \A d \in Callers : pc'[d] \in {"answered", "waiting"} => Cloud!Settled(cak', cloudLink', 0, since'[d])
      BY <1>1, <1>6, <2>1, CloudSequences DEF Cloud!KeysFit, Cloud!TypeOK
    <2>5. ASSUME NEW i \in DOMAIN cloudLink', cloudLink'[i].live, cloudLink'[i].ok,
                 pc'[cloudLink'[i].caller] = "sending"
          PROVE  Cloud!Settled(cak', cloudLink', i, since'[cloudLink'[i].caller])
      <3>1. /\ i \in DOMAIN cloudLink /\ i \in 0..Len(cloudLink)
            /\ cloudLink[i].caller \in Callers \ {c} /\ cloudLink'[i].caller = cloudLink[i].caller
            /\ cloudLink[i].live /\ cloudLink[i].ok
        BY <1>3, <1>5, <2>5, CloudSequences
      <3>2. Cloud!Settled(cak, cloudLink, i, since[cloudLink[i].caller])
        BY <1>6, <2>5, <3>1 DEF Cloud!KeysFit
      <3> QED
        BY <1>1, <2>1, <3>1, <3>2 DEF Cloud!TypeOK
    <2> QED
      BY <1>1, <2>2, <2>3, <2>4, <2>5 DEF Cloud!KeysFit
  <1>11. Cloud!NoLostWakeup'
    BY <1>1, <1>6 DEF Cloud!NoLostWakeup, Cloud!TypeOK
  <1>12. Cloud!KeyIsCurrent'
    BY <1>1 DEF Cloud!KeyIsCurrent, Cloud!TypeOK
  <1> QED
    BY <1>7, <1>8, <1>9, <1>10, <1>11, <1>12

\* A frame comes behind the others: what it does to what they lead to.
LEMMA CloudFrameCame ==
  ASSUME Cloud!TypeOK, NEW f \in Cloud!Frame, cloudLink' = Append(cloudLink, f)
  PROVE  /\ cloudLink' \in Seq(Cloud!Frame)
         /\ Len(cloudLink') = Len(cloudLink) + 1
         /\ DOMAIN cloudLink' = 1..(Len(cloudLink) + 1)
         /\ cloudLink'[Len(cloudLink) + 1] = f
         /\ \A i \in DOMAIN cloudLink : i \in DOMAIN cloudLink' /\ cloudLink'[i] = cloudLink[i]
         /\ \A i \in DOMAIN cloudLink' : i \in DOMAIN cloudLink \/ i = Len(cloudLink) + 1
  BY CloudSequences, AppendProperties, LenProperties DEF Cloud!TypeOK

LEMMA CloudTakes ==
  ASSUME Cloud!Inv, Cloud!Takes
  PROVE  Cloud!Inv'
  <1> USE DEF Cloud!Inv
  <1> DEFINE m == Head(commands)
  <1>0. PICK ok \in BOOLEAN :
          /\ commands # <<>> /\ commands' = Tail(commands)
          /\ enabled' = IF ok THEN m.value ELSE enabled
          /\ cloudLink' = Append(cloudLink, Cloud!Answer(m, ok))
          /\ since' = IF ok /\ m.value /\ m.live
                      THEN [since EXCEPT ![m.caller] = {key}] ELSE since
          /\ UNCHANGED <<key, cloudConnected, cak, pc, callbacks, arrived, result>>
    BY DEF Cloud!Takes
  <1>1. /\ m \in Cloud!Write /\ m = commands[1] /\ 1 \in DOMAIN commands
        /\ commands' \in Seq(Cloud!Write) /\ Len(commands') = Len(commands) - 1
        /\ \A i \in DOMAIN commands' : i + 1 \in DOMAIN commands /\ commands'[i] = commands[i + 1]
    BY <1>0, HeadTailProperties, LenProperties, CloudSequences, EmptySeq DEF Cloud!TypeOK
  <1>2. Cloud!Answer(m, ok) \in Cloud!Frame
    BY <1>1 DEF Cloud!Answer, Cloud!Frame, Cloud!Write
  <1>3. /\ cloudLink' \in Seq(Cloud!Frame) /\ Len(cloudLink') = Len(cloudLink) + 1
        /\ DOMAIN cloudLink' = 1..(Len(cloudLink) + 1)
        /\ cloudLink'[Len(cloudLink) + 1] = Cloud!Answer(m, ok)
        /\ \A i \in DOMAIN cloudLink : i \in DOMAIN cloudLink' /\ cloudLink'[i] = cloudLink[i]
        /\ \A i \in DOMAIN cloudLink' : i \in DOMAIN cloudLink \/ i = Len(cloudLink) + 1
    BY <1>0, <1>2, CloudFrameCame
  <1>4. Cloud!TypeOK'
    BY <1>0, <1>1, <1>3 DEF Cloud!TypeOK, Cloud!Write
  <1>5. Cloud!CallbacksFit'
    BY <1>0 DEF Cloud!CallbacksFit
  <1>6. m.live => pc[m.caller] = (IF m.value THEN "sending" ELSE "disabling")
    BY <1>1 DEF Cloud!WritesFit
  <1>7. \A j \in DOMAIN cloudLink : ~Cloud!Same(m, cloudLink[j]) /\ ~Cloud!Same(cloudLink[j], m)
    BY <1>1 DEF Cloud!WritesFit, Cloud!Same
  <1>8. Cloud!WritesFit'
    <2>1. \A i \in DOMAIN commands' : commands'[i].live =>
            pc'[commands'[i].caller] = (IF commands'[i].value THEN "sending" ELSE "disabling")
      BY <1>0, <1>1 DEF Cloud!WritesFit
    <2>2. \A i \in DOMAIN cloudLink' : cloudLink'[i].live =>
            cloudLink'[i].type = "answer" /\ Cloud!Pending(cloudLink'[i].caller)
      BY <1>3, <1>6 DEF Cloud!WritesFit, Cloud!Pending, Cloud!Answer
    <2>3. \A i, j \in DOMAIN commands' : Cloud!Same(commands'[i], commands'[j]) => i = j
      <3>1. \A i, j \in DOMAIN commands' : i + 1 = j + 1 => i = j
        BY <1>1, LenProperties
      <3> QED
        BY <1>1, <3>1 DEF Cloud!WritesFit
    <2>4. \A i, j \in DOMAIN cloudLink' : Cloud!Same(cloudLink'[i], cloudLink'[j]) => i = j
      BY <1>3, <1>7 DEF Cloud!WritesFit, Cloud!Same, Cloud!Answer
    <2>5. \A i \in DOMAIN commands' : ~Cloud!Same(commands'[i], m)
      <3>1. \A i \in DOMAIN commands' : i + 1 # 1
        BY <1>1, LenProperties
      <3> QED
        BY <1>1, <3>1 DEF Cloud!WritesFit
    <2>6. \A i \in DOMAIN commands', j \in DOMAIN cloudLink' : ~Cloud!Same(commands'[i], cloudLink'[j])
      BY <1>1, <1>3, <2>5 DEF Cloud!WritesFit, Cloud!Same, Cloud!Answer
    <2> QED
      BY <1>0, <2>1, <2>2, <2>3, <2>4, <2>6 DEF Cloud!WritesFit, Cloud!Pending
  <1>9. \A d \in Callers : since'[d] = since[d] \/ (d = m.caller /\ m.live /\ m.value /\ since'[d] = {key})
    BY <1>0, <1>1 DEF Cloud!TypeOK, Cloud!Write
  <1>10. Cloud!KeysFit'
    <2>1. cloudConnected /\ Cloud!Settled(cak, cloudLink, Len(cloudLink), {key})
      BY <1>0 DEF Cloud!KeysFit, Cloud!TypeOK
    <2>2. Cloud!Settled(cak', cloudLink', Len(cloudLink) + 1, {key})
      BY <1>0, <1>2, <2>1, SettledAfter DEF Cloud!TypeOK, Cloud!Answer
    <2>3. \A n \in 0..Len(cloudLink), S \in SUBSET (Keys \cup {NoKey}) :
            Cloud!Settled(cak, cloudLink, n, S) => Cloud!Settled(cak', cloudLink', n, S)
      BY <1>0, <1>2, SettledBefore DEF Cloud!TypeOK, Cloud!Answer
    <2>4. \A d \in Callers : since'[d] # {} => key \in since'[d]
      BY <1>9 DEF Cloud!KeysFit
    <2>5. ASSUME NEW d \in Callers, pc'[d] \in {"answered", "waiting"}
          PROVE  Cloud!Settled(cak', cloudLink', 0, since'[d])
      <3>1. since'[d] = since[d] /\ pc[d] \in {"answered", "waiting"}
        BY <1>0, <1>6, <1>9, <2>5
      <3> QED
        BY <2>3, <3>1, CloudSequences DEF Cloud!KeysFit, Cloud!TypeOK
    <2>6. ASSUME NEW i \in DOMAIN cloudLink', cloudLink'[i].live, cloudLink'[i].ok,
                 pc'[cloudLink'[i].caller] = "sending"
          PROVE  Cloud!Settled(cak', cloudLink', i, since'[cloudLink'[i].caller])
      <3>1. CASE i \in DOMAIN cloudLink
        <4>1. cloudLink[i].caller \in Callers /\ since'[cloudLink[i].caller] = since[cloudLink[i].caller]
          BY <1>3, <1>7, <1>9, <2>6, <3>1, CloudSequences DEF Cloud!Same, Cloud!Frame
        <4>2. Cloud!Settled(cak, cloudLink, i, since[cloudLink[i].caller])
          BY <1>0, <1>3, <2>6, <3>1 DEF Cloud!KeysFit
        <4> QED
          BY <1>3, <2>3, <3>1, <4>1, <4>2, CloudSequences DEF Cloud!TypeOK
      <3>2. CASE i = Len(cloudLink) + 1
        <4>1. cloudLink'[i].caller = m.caller /\ m.live /\ ok /\ m.value
          BY <1>0, <1>3, <1>6, <2>6, <3>2 DEF Cloud!Answer
        <4>2. since'[m.caller] = {key}
          BY <1>0, <1>1, <4>1 DEF Cloud!TypeOK, Cloud!Write
        <4> QED
          BY <2>2, <3>2, <4>1, <4>2
      <3> QED
        BY <1>3, <3>1, <3>2
    <2> QED
      BY <1>0, <1>3, <2>1, <2>2, <2>4, <2>5, <2>6 DEF Cloud!KeysFit
  <1>11. Cloud!NoLostWakeup'
    BY <1>0 DEF Cloud!NoLostWakeup
  <1>12. Cloud!KeyIsCurrent'
    <2>1. \A d \in Callers : result'[d].how = "enabled" => since'[d] = since[d]
      BY <1>0, <1>6, <1>9 DEF Cloud!CallbacksFit, Cloud!NoResult
    <2> QED
      BY <1>0, <2>1 DEF Cloud!KeyIsCurrent
  <1> QED
    BY <1>4, <1>5, <1>8, <1>10, <1>11, <1>12

LEMMA KeyFrameFits ==
  ASSUME NEW k \in Keys \cup {NoKey}
  PROVE  /\ Cloud!KeyFrame(k) \in Cloud!Frame
         /\ Cloud!KeyFrame(k).type = "key" /\ Cloud!KeyFrame(k).key = k /\ ~Cloud!KeyFrame(k).live
  <1>1. (CHOOSE c \in Callers : TRUE) \in Callers
    BY CallersAssumption, Zenon
  <1> QED
    BY <1>1 DEF Cloud!KeyFrame, Cloud!Frame

LEMMA CloudKeyChanges ==
  ASSUME Cloud!Inv, Cloud!ChangesKey
  PROVE  Cloud!Inv'
  <1> USE DEF Cloud!Inv
  <1>1. /\ key' \in Keys \cup {NoKey}
        /\ cloudLink' = IF cloudConnected THEN Append(cloudLink, Cloud!KeyFrame(key')) ELSE cloudLink
        /\ since' = [c \in Callers |-> IF since[c] = {} THEN {} ELSE since[c] \cup {key'}]
        /\ UNCHANGED <<enabled, cloudConnected, commands, cak, pc, callbacks, arrived, result>>
    BY DEF Cloud!ChangesKey
  <1>2. /\ Cloud!KeyFrame(key') \in Cloud!Frame
        /\ Cloud!KeyFrame(key').type = "key" /\ Cloud!KeyFrame(key').key = key'
        /\ ~Cloud!KeyFrame(key').live
    BY <1>1, KeyFrameFits
  <1>3. CASE cloudConnected
    <2>1. /\ cloudLink' \in Seq(Cloud!Frame) /\ Len(cloudLink') = Len(cloudLink) + 1
          /\ DOMAIN cloudLink' = 1..(Len(cloudLink) + 1)
          /\ cloudLink'[Len(cloudLink) + 1] = Cloud!KeyFrame(key')
          /\ \A i \in DOMAIN cloudLink : i \in DOMAIN cloudLink' /\ cloudLink'[i] = cloudLink[i]
          /\ \A i \in DOMAIN cloudLink' : i \in DOMAIN cloudLink \/ i = Len(cloudLink) + 1
      BY <1>1, <1>2, <1>3, CloudFrameCame
    <2>2. Cloud!TypeOK'
      BY <1>1, <2>1 DEF Cloud!TypeOK
    <2>3. Cloud!WritesFit'
      BY <1>1, <1>2, <2>1 DEF Cloud!WritesFit, Cloud!Same, Cloud!Pending
    <2>4. Cloud!Settled(cak', cloudLink', Len(cloudLink) + 1, {key'})
      BY <1>1, <1>2, <1>3, SettledAfter DEF Cloud!TypeOK
    <2>5. ASSUME NEW n \in 0..Len(cloudLink), NEW c \in Callers, Cloud!Settled(cak, cloudLink, n, since[c]),
                 since[c] # {}
          PROVE  Cloud!Settled(cak', cloudLink', n, since'[c])
      <3>1. Cloud!Settled(cak, cloudLink, n, since'[c])
        <4>1. since[c] \subseteq since'[c]
          BY <1>1
        <4> QED
          BY <2>5, <4>1, SettledSame, CloudSequences
      <3>2. key' \in since'[c]
        BY <1>1, <2>5
      <3> QED
        BY <1>1, <1>2, <1>3, <3>1, <3>2, SettledBefore DEF Cloud!TypeOK
    <2>6. ASSUME NEW n \in 0..Len(cloudLink), NEW c \in Callers, Cloud!Settled(cak, cloudLink, n, since[c])
          PROVE  since[c] # {}
      BY <2>6 DEF Cloud!Settled
    <2>7. ASSUME NEW c \in Callers, pc'[c] \in {"answered", "waiting"}
          PROVE  Cloud!Settled(cak', cloudLink', 0, since'[c])
      <3>1. Cloud!Settled(cak, cloudLink, 0, since[c]) /\ 0 \in 0..Len(cloudLink)
        BY <1>1, <2>7, CloudSequences DEF Cloud!KeysFit
      <3> QED
        BY <2>5, <2>6, <3>1
    <2>8. ASSUME NEW i \in DOMAIN cloudLink', cloudLink'[i].live, cloudLink'[i].ok,
                 pc'[cloudLink'[i].caller] = "sending"
          PROVE  Cloud!Settled(cak', cloudLink', i, since'[cloudLink'[i].caller])
      <3>1. i \in DOMAIN cloudLink /\ cloudLink'[i] = cloudLink[i] /\ i \in 0..Len(cloudLink)
            /\ cloudLink[i].caller \in Callers
        BY <1>2, <2>1, <2>8, CloudSequences DEF Cloud!Frame
      <3>2. Cloud!Settled(cak, cloudLink, i, since[cloudLink[i].caller])
        BY <1>1, <2>8, <3>1 DEF Cloud!KeysFit
      <3> QED
        BY <2>5, <2>6, <3>1, <3>2
    <2>9. \A c \in Callers : since'[c] # {} => key' \in since'[c]
      BY <1>1
    <2>10. Cloud!KeysFit'
      BY <1>1, <1>3, <2>1, <2>4, <2>7, <2>8, <2>9 DEF Cloud!KeysFit
    <2> QED
      BY <1>1, <2>2, <2>3, <2>10
         DEF Cloud!CallbacksFit, Cloud!NoLostWakeup, Cloud!KeyIsCurrent, Cloud!TypeOK
  <1>4. CASE ~cloudConnected
    <2>1. cloudLink' = <<>> /\ cloudLink = <<>> /\ commands' = <<>> /\ Len(cloudLink) = 0 /\ DOMAIN cloudLink = {}
      BY <1>1, <1>4 DEF Cloud!KeysFit
    <2>2. Cloud!TypeOK'
      BY <1>1, <1>4 DEF Cloud!TypeOK
    <2>3. Cloud!WritesFit'
      BY <1>1, <1>4 DEF Cloud!WritesFit, Cloud!Pending
    <2>4. \A c \in Callers : pc'[c] \in {"answered", "waiting"} => Cloud!Settled(cak', cloudLink', 0, since'[c])
      BY <1>1, <1>4, <2>1 DEF Cloud!KeysFit, Cloud!Settled
    <2>5. Cloud!KeysFit'
      BY <1>1, <1>4, <2>1, <2>4 DEF Cloud!KeysFit
    <2> QED
      BY <1>1, <2>2, <2>3, <2>5
         DEF Cloud!CallbacksFit, Cloud!NoLostWakeup, Cloud!KeyIsCurrent, Cloud!TypeOK
  <1> QED
    BY <1>3, <1>4

LEMMA CloudLost ==
  ASSUME Cloud!Inv, Cloud!ConnectionLost
  PROVE  Cloud!Inv'
  <1> USE DEF Cloud!Inv
  <1>1. /\ UNCHANGED <<enabled, key, since, cak>>
        /\ cloudConnected' = FALSE /\ commands' = <<>> /\ cloudLink' = <<>>
        /\ pc' = [c \in Callers |-> IF Cloud!Pending(c) THEN "idle" ELSE pc[c]]
        /\ callbacks' = {c \in callbacks : ~Cloud!Pending(c)}
        /\ arrived' = {c \in arrived : ~Cloud!Pending(c)}
        /\ result' = [c \in Callers |->
                        IF Cloud!Pending(c) THEN [how |-> "failed", key |-> NoKey] ELSE result[c]]
    BY DEF Cloud!ConnectionLost, Cloud!charger, Cloud!Fails
  <1>2. Cloud!TypeOK'
    BY <1>1, EmptySeq DEF Cloud!TypeOK, Cloud!Stages
  <1>3. Cloud!CallbacksFit'
    BY <1>1 DEF Cloud!CallbacksFit, Cloud!Pending
  <1>4. Len(cloudLink') = 0 /\ DOMAIN cloudLink' = {} /\ DOMAIN commands' = {}
    BY <1>1
  <1>5. Cloud!WritesFit'
    BY <1>4 DEF Cloud!WritesFit
  <1>6. Cloud!KeysFit'
    <2>1. \A c \in Callers : pc'[c] \in {"answered", "waiting"} => Cloud!Settled(cak', cloudLink', 0, since'[c])
      BY <1>1, <1>4 DEF Cloud!KeysFit, Cloud!Settled
    <2> QED
      BY <1>1, <1>4, <2>1 DEF Cloud!KeysFit
  <1>7. Cloud!NoLostWakeup' /\ Cloud!KeyIsCurrent'
    BY <1>1 DEF Cloud!NoLostWakeup, Cloud!KeyIsCurrent, Cloud!TypeOK, Cloud!Pending
  <1> QED
    BY <1>2, <1>3, <1>5, <1>6, <1>7

LEMMA CloudReconnects ==
  ASSUME Cloud!Inv, Cloud!Reconnects
  PROVE  Cloud!Inv'
  <1> USE DEF Cloud!Inv
  <1>1. /\ ~cloudConnected /\ cloudConnected' = TRUE
        /\ cloudLink = <<>> /\ commands' = <<>>
        /\ cloudLink' = Append(cloudLink, Cloud!KeyFrame(key))
        /\ UNCHANGED <<enabled, key, since, commands, cak, pc, callbacks, arrived, result>>
    BY DEF Cloud!Reconnects, Cloud!KeysFit, Cloud!charger
  <1>2. /\ Cloud!KeyFrame(key) \in Cloud!Frame
        /\ Cloud!KeyFrame(key).type = "key" /\ Cloud!KeyFrame(key).key = key
        /\ ~Cloud!KeyFrame(key).live
    BY KeyFrameFits DEF Cloud!TypeOK
  <1>3. /\ cloudLink' \in Seq(Cloud!Frame) /\ Len(cloudLink) = 0 /\ Len(cloudLink') = 1
        /\ DOMAIN cloudLink' = 1..1 /\ cloudLink'[1] = Cloud!KeyFrame(key)
    BY <1>1, <1>2, CloudFrameCame
  <1>4. DOMAIN commands' = {} /\ \A i \in DOMAIN cloudLink' : i = 1
    BY <1>1, <1>3
  <1>5. Cloud!TypeOK'
    BY <1>1, <1>3 DEF Cloud!TypeOK
  <1>6. Cloud!WritesFit'
    BY <1>2, <1>3, <1>4 DEF Cloud!WritesFit, Cloud!Same
  <1>7. Cloud!Settled(cak', cloudLink', 1, {key'})
    <2>1. Cloud!Settled(cak, cloudLink', Len(cloudLink) + 1, {key})
      BY <1>1, <1>2, SettledAfter DEF Cloud!TypeOK
    <2> QED
      BY <1>1, <1>3, <2>1
  <1>8. ASSUME NEW c \in Callers, pc'[c] \in {"answered", "waiting"}
        PROVE  Cloud!Settled(cak', cloudLink', 0, since'[c])
    <2>1. Cloud!Settled(cak, cloudLink, 0, since[c])
      BY <1>1, <1>8 DEF Cloud!KeysFit
    <2>2. key \in since[c]
      BY <2>1 DEF Cloud!Settled, Cloud!KeysFit
    <2>3. cloudLink \in Seq(Cloud!Frame) /\ 0 \in 0..Len(cloudLink)
      BY <1>3 DEF Cloud!TypeOK
    <2>4. Cloud!Settled(cak, Append(cloudLink, Cloud!KeyFrame(key)), 0, since[c])
      BY <1>2, <2>1, <2>2, <2>3, SettledBefore
    <2> QED
      BY <1>1, <2>4
  <1>9. Cloud!KeysFit'
    BY <1>1, <1>2, <1>3, <1>4, <1>7, <1>8 DEF Cloud!KeysFit
  <1> QED
    BY <1>1, <1>5, <1>6, <1>9
       DEF Cloud!CallbacksFit, Cloud!NoLostWakeup, Cloud!KeyIsCurrent

\* The first frame is read.
LEMMA CloudFrameRead ==
  ASSUME Cloud!TypeOK, cloudLink # <<>>, cloudLink' = Tail(cloudLink)
  PROVE  /\ Head(cloudLink) \in Cloud!Frame /\ Head(cloudLink) = cloudLink[1] /\ 1 \in DOMAIN cloudLink
         /\ cloudLink' \in Seq(Cloud!Frame) /\ Len(cloudLink') = Len(cloudLink) - 1
         /\ DOMAIN cloudLink' = 1..Len(cloudLink')
         /\ \A i \in DOMAIN cloudLink' :
              i + 1 \in DOMAIN cloudLink /\ cloudLink'[i] = cloudLink[i + 1] /\ i + 1 # 1
         /\ \A i, j \in DOMAIN cloudLink' : i + 1 = j + 1 => i = j
  <1>1. Len(cloudLink) \in Nat \ {0} /\ DOMAIN cloudLink = 1..Len(cloudLink)
    BY CloudSequences, EmptySeq DEF Cloud!TypeOK
  <1>2. /\ Head(cloudLink) \in Cloud!Frame /\ cloudLink' \in Seq(Cloud!Frame)
        /\ Len(cloudLink') = Len(cloudLink) - 1
        /\ \A i \in 1..Len(cloudLink') : cloudLink'[i] = cloudLink[i + 1]
    BY HeadTailProperties DEF Cloud!TypeOK
  <1>3. DOMAIN cloudLink' = 1..Len(cloudLink')
    BY <1>2, LenProperties
  <1> QED
    BY <1>1, <1>2, <1>3

LEMMA CloudReceives ==
  ASSUME Cloud!Inv, Cloud!ReceivesKey \/ Cloud!ReceivesAnswer
  PROVE  Cloud!Inv'
  <1> USE DEF Cloud!Inv
  <1> DEFINE a == Head(cloudLink)
  <1>1. /\ cloudLink # <<>> /\ cloudLink' = Tail(cloudLink)
        /\ UNCHANGED <<enabled, key, since, cloudConnected, commands>>
        /\ cak' = IF a.type = "key" THEN a.key ELSE cak
    BY DEF Cloud!ReceivesKey, Cloud!ReceivesAnswer, Cloud!charger
  <1>2. /\ a \in Cloud!Frame /\ a = cloudLink[1] /\ 1 \in DOMAIN cloudLink
        /\ cloudLink' \in Seq(Cloud!Frame) /\ Len(cloudLink') = Len(cloudLink) - 1
        /\ DOMAIN cloudLink' = 1..Len(cloudLink')
        /\ \A i \in DOMAIN cloudLink' :
             i + 1 \in DOMAIN cloudLink /\ cloudLink'[i] = cloudLink[i + 1] /\ i + 1 # 1
        /\ \A i, j \in DOMAIN cloudLink' : i + 1 = j + 1 => i = j
    BY <1>1, CloudFrameRead
  \* What becomes of the calls.
  <1>3. \/ /\ UNCHANGED <<pc, callbacks, result>>
           /\ arrived' = IF a.type = "key" /\ cak' # NoKey THEN arrived \cup callbacks ELSE arrived
           /\ a.type = "key" \/ ~a.live
        \/ /\ a.type = "answer" /\ a.live /\ Cloud!Pending(a.caller) /\ ~a.ok
           /\ pc' = [pc EXCEPT ![a.caller] = "idle"]
           /\ callbacks' = callbacks \ {a.caller} /\ arrived' = arrived \ {a.caller}
           /\ result' = [result EXCEPT ![a.caller] = [how |-> "failed", key |-> NoKey]]
        \/ /\ a.type = "answer" /\ a.live /\ Cloud!Pending(a.caller) /\ a.ok
           /\ pc' = [pc EXCEPT ![a.caller] = IF @ = "sending" THEN "answered" ELSE "disabled"]
           /\ UNCHANGED <<callbacks, arrived, result>>
    <2>1. CASE Cloud!ReceivesKey
      BY <1>1, <2>1 DEF Cloud!ReceivesKey
    <2>2. CASE Cloud!ReceivesAnswer
      <3>1. a.live => Cloud!Pending(a.caller)
        BY <1>2 DEF Cloud!WritesFit
      <3> QED
        BY <1>1, <2>2, <3>1 DEF Cloud!ReceivesAnswer, Cloud!End
    <2> QED
      BY <2>1, <2>2
  <1>4. a.caller \in Callers
    BY <1>2 DEF Cloud!Frame
  <1>5. Cloud!TypeOK'
    <2>1. cak' \in Keys \cup {NoKey}
      BY <1>1, <1>2 DEF Cloud!TypeOK, Cloud!Frame
    <2>2. pc' \in [Callers -> Cloud!Stages]
      BY <1>3, <1>4 DEF Cloud!TypeOK, Cloud!Stages
    <2>3. callbacks' \subseteq Callers /\ arrived' \subseteq Callers
      BY <1>3 DEF Cloud!TypeOK
    <2>4. result' \in [Callers -> [how : {"none", "enabled", "empty", "timeout", "failed"},
                                  key : Keys \cup {NoKey}]]
      BY <1>3, <1>4 DEF Cloud!TypeOK
    <2> QED
      BY <1>1, <1>2, <2>1, <2>2, <2>3, <2>4 DEF Cloud!TypeOK
  <1>6. Cloud!CallbacksFit'
    BY <1>3, <1>4 DEF Cloud!CallbacksFit, Cloud!TypeOK, Cloud!Pending, Cloud!NoResult
  <1>7. \A d \in Callers : pc'[d] = pc[d] \/ (d = a.caller /\ a.live /\ a.type = "answer")
    BY <1>3, <1>4 DEF Cloud!TypeOK
  <1>8. Cloud!WritesFit'
    <2>1. \A i \in DOMAIN commands : commands[i].live => pc'[commands[i].caller] = pc[commands[i].caller]
      BY <1>2, <1>7, CloudSequences DEF Cloud!WritesFit, Cloud!Same, Cloud!Write
    <2>2. \A i \in DOMAIN cloudLink' : cloudLink'[i].live => pc'[cloudLink'[i].caller] = pc[cloudLink'[i].caller]
      BY <1>2, <1>7, CloudSequences DEF Cloud!WritesFit, Cloud!Same, Cloud!Frame
    <2>3. \A i \in DOMAIN cloudLink' : cloudLink'[i].live =>
            cloudLink'[i].type = "answer" /\ Cloud!Pending(cloudLink'[i].caller)
      BY <1>2 DEF Cloud!WritesFit
    <2>4. \A i, j \in DOMAIN cloudLink' : Cloud!Same(cloudLink'[i], cloudLink'[j]) => i = j
      BY <1>2 DEF Cloud!WritesFit
    <2>5. \A i \in DOMAIN commands, j \in DOMAIN cloudLink' : ~Cloud!Same(commands[i], cloudLink'[j])
      BY <1>2 DEF Cloud!WritesFit
    <2> QED
      BY <1>1, <2>1, <2>2, <2>3, <2>4, <2>5 DEF Cloud!WritesFit, Cloud!Pending
  <1>9. ASSUME NEW n \in 0..Len(cloudLink), NEW S, Cloud!Settled(cak, cloudLink, n, S)
        PROVE  Cloud!Settled(cak', cloudLink', IF n = 0 THEN 0 ELSE n - 1, S)
    BY <1>1, <1>9, SettledTail DEF Cloud!TypeOK
  <1>10. Cloud!KeysFit'
    <2>1. cloudConnected /\ Len(cloudLink) \in 0..Len(cloudLink) /\ Len(cloudLink) # 0
      BY <1>1, <1>2, CloudSequences DEF Cloud!KeysFit, Cloud!TypeOK
    <2>2. Cloud!Settled(cak', cloudLink', Len(cloudLink'), {key})
      BY <1>2, <1>9, <2>1 DEF Cloud!KeysFit
    <2>3. ASSUME NEW d \in Callers, pc'[d] \in {"answered", "waiting"}
          PROVE  Cloud!Settled(cak', cloudLink', 0, since[d])
      <3>1. CASE pc[d] \in {"answered", "waiting"}
        BY <1>9, <3>1, CloudSequences DEF Cloud!KeysFit
      <3>2. CASE pc[d] \notin {"answered", "waiting"}
        <4>1. d = a.caller /\ a.live /\ a.ok /\ pc[d] = "sending"
          BY <1>3, <1>4, <2>3, <3>2 DEF Cloud!TypeOK
        <4>2. Cloud!Settled(cak, cloudLink, 1, since[d])
          BY <1>2, <4>1 DEF Cloud!KeysFit
        <4> QED
          BY <1>9, <2>1, <4>2, CloudSequences
      <3> QED
        BY <3>1, <3>2
    <2>4. ASSUME NEW i \in DOMAIN cloudLink', cloudLink'[i].live, cloudLink'[i].ok,
                 pc'[cloudLink'[i].caller] = "sending"
          PROVE  Cloud!Settled(cak', cloudLink', i, since[cloudLink'[i].caller])
      <3>1. /\ i + 1 \in DOMAIN cloudLink /\ cloudLink'[i] = cloudLink[i + 1] /\ i + 1 \in 0..Len(cloudLink)
            /\ i + 1 # 0 /\ (i + 1) - 1 = i
        BY <1>2, CloudSequences
      <3>2. pc[cloudLink[i + 1].caller] = "sending"
        <4>1. cloudLink[i + 1].caller \in Callers
          BY <3>1, CloudSequences DEF Cloud!Frame
        <4> QED
          BY <1>3, <1>4, <2>4, <3>1, <4>1 DEF Cloud!TypeOK
      <3>3. Cloud!Settled(cak, cloudLink, i + 1, since[cloudLink[i + 1].caller])
        BY <2>4, <3>1, <3>2 DEF Cloud!KeysFit
      <3> QED
        BY <1>9, <3>1, <3>3
    <2> QED
      BY <1>1, <2>1, <2>2, <2>3, <2>4 DEF Cloud!KeysFit
  <1>11. Cloud!NoLostWakeup'
    <2> SUFFICES ASSUME NEW d \in Callers, pc'[d] = "waiting", cak' # NoKey PROVE d \in arrived'
      BY DEF Cloud!NoLostWakeup
    <2>1. pc[d] = "waiting" /\ d \in callbacks
      BY <1>3, <1>4 DEF Cloud!TypeOK, Cloud!CallbacksFit
    <2>2. d # a.caller \/ ~Cloud!Pending(a.caller)
      BY <2>1 DEF Cloud!Pending
    <2> QED
      BY <1>1, <1>3, <2>1, <2>2 DEF Cloud!NoLostWakeup
  <1>12. Cloud!KeyIsCurrent'
    <2>1. \A d \in Callers : result'[d] = result[d] \/ result'[d] = [how |-> "failed", key |-> NoKey]
      BY <1>3, <1>4 DEF Cloud!TypeOK
    <2> QED
      BY <1>1, <2>1 DEF Cloud!KeyIsCurrent
  <1> QED
    BY <1>5, <1>6, <1>8, <1>10, <1>11, <1>12

LEMMA CloudNext == Cloud!Inv /\ [Cloud!Next]_(Cloud!vars) => Cloud!Inv'
  <1> SUFFICES ASSUME Cloud!Inv, [Cloud!Next]_(Cloud!vars) PROVE Cloud!Inv'
    OBVIOUS
  <1>1. CASE Cloud!AppSwitches
    BY <1>1 DEF Cloud!AppSwitches, Cloud!Inv, Cloud!TypeOK, Cloud!CallbacksFit, Cloud!WritesFit,
                Cloud!KeysFit, Cloud!NoLostWakeup, Cloud!KeyIsCurrent, Cloud!Pending
  <1>2. CASE UNCHANGED Cloud!vars
    BY <1>2 DEF Cloud!vars, Cloud!charger, Cloud!Inv, Cloud!TypeOK, Cloud!CallbacksFit, Cloud!WritesFit,
                Cloud!KeysFit, Cloud!NoLostWakeup, Cloud!KeyIsCurrent, Cloud!Pending
  <1> QED
    BY <1>1, <1>2, CloudCallsBegin, CloudCallsGoOn, CloudWriteTimesOut, CloudTakes, CloudKeyChanges,
       CloudLost, CloudReconnects, CloudReceives DEF Cloud!Next

THEOREM CloudInvariance == Cloud!Spec => []Cloud!Inv
  BY CloudInit, CloudNext, PTL DEF Cloud!Spec

\* SwitchGetsItsKey of run pushed.
THEOREM SwitchesGetTheirKeys == Cloud!Spec => []SwitchGetsItsKey
  <1>1. Cloud!Inv => SwitchGetsItsKey
    BY DEF Cloud!Inv, SwitchGetsItsKey, Cloud!SwitchGetsItsKey
  <1> QED
    BY <1>1, CloudInvariance, PTL

-----------------------------------------------------------------------------
(* MCPushed *)

\* A behaviour of run pushed is one of each of the five: a step of the watched
\* one is a stutter of the others.
THEOREM WatchedOneByOne ==
  MCSpec => Spec /\ Counter!Spec /\ Duration!Spec /\ Update!Spec /\ Cloud!Spec
  <1>1. MCInit => Init /\ Counter!Init /\ Duration!Init /\ Update!Init /\ Cloud!Init
    BY DEF MCInit
  <1> DEFINE Step == [MCNext]_<<watched, vars, counterVars, durationVars, offersVars, cloudVars>>
  <1>2. Step => [Next]_vars
    BY DEF MCNext
  <1>3. Step => [Counter!Next]_(Counter!vars)
    BY DEF MCNext, counterVars, Counter!vars
  <1>4. Step => [Duration!Next]_(Duration!vars)
    BY DEF MCNext, durationVars, Duration!vars, Duration!charger, Duration!connection, Duration!entity
  <1>5. Step => [Update!Next]_(Update!vars)
    BY DEF MCNext, offersVars, Update!vars, Update!hub
  <1>6. Step => [Cloud!Next]_(Cloud!vars)
    BY DEF MCNext, cloudVars, Cloud!vars, Cloud!charger
  <1> QED
    BY <1>1, <1>2, <1>3, <1>4, <1>5, <1>6, PTL
    DEF MCSpec, Spec, Counter!Spec, Duration!Spec, Update!Spec, Cloud!Spec

=============================================================================
