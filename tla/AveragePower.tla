---- MODULE AveragePower ----
\* The sensor of the average charging power (sensor.py, class
\* WattpilotAveragePowerSensor): what it shows of the charger's 30 s average
\* "tpa" while "nrg" says that current flows, that none does, or nothing.
\* A hub with an update interval (hub.py) hands both over when it flushes.
EXTENDS Integers

CONSTANTS
  Averages,   \* the averages "tpa" can report
  Null,       \* Python's None: no average, nothing shown, nothing stale
  Bad,        \* a "tpa" that is no number
  Limit,      \* _IDLE_AFTER_SECONDS, in ticks
  Intervals   \* what CONF_UPDATE_INTERVAL may be, in ticks; 0 hands over at once

ASSUME AveragesAssumption == Averages \subseteq Nat
ASSUME MarksAssumption == Null \notin Nat /\ Bad \notin Nat /\ Null # Bad
ASSUME TimesAssumption == Limit \in Nat \ {0} /\ Intervals \subseteq Nat

VARIABLES
  interval, \* the hub's; another one is another hub
  live,     \* the cached total power: "flows", "idle", or "unknown"
  tpa,      \* the cached average
  due,      \* a push of either waits in the hub for the flush
  flushIn,  \* ticks until the hub flushes
  up,       \* the entity is added
  sensor,   \* the entity's own state
  idleFor,  \* (history) ticks since the current stopped, up to LongIdle
  ended,    \* (history) a session ended, and no current flowed since
  left      \* (history) "tpa" is still the average that session left behind

vars == <<interval, live, tpa, due, flushIn, up, sensor, idleFor, ended, left>>

Readings == {"flows", "idle", "unknown"}
Values == Averages \cup {Null, Bad}

\* Past the minute and the wait in the hub, with every call made that was due.
LongIdle == Limit + interval + 1

\* `_attr_native_value`, `_stale`, and `_cancel_idle` as timer: a handle, which
\* stays behind once the call it stands for was "made".
Fresh == [shown |-> Null, stale |-> Null, timer |-> "none", wait |-> 0]

----
\* What a reading does to the entity

StopIdleTimer(e) == [e EXCEPT !.timer = "none", !.wait = 0]

ShowIdle(e, v) == [e EXCEPT !.shown = 0, !.stale = v]

Nothing(e) == e.shown \in {0, Null}

HoldWhileIdle(e, v) ==
  IF Nothing(e) THEN ShowIdle(e, v)
  ELSE IF e.timer # "none" THEN e
  ELSE [e EXCEPT !.timer = "running", !.wait = Limit]

\* A "tpa" that is no number keeps what is shown (WattpilotSensor).
ShowLive(e, l, v) ==
  CASE l = "unknown" \/ v = Null -> [e EXCEPT !.shown = Null]
    [] l = "flows" /\ v # Null /\ v = e.stale -> [e EXCEPT !.shown = 0]
    [] l = "flows" /\ v = Bad /\ v # e.stale -> [e EXCEPT !.stale = Null]
    [] l = "flows" /\ v \in Averages /\ v # e.stale -> [e EXCEPT !.shown = v, !.stale = Null]

ApplyValueFaulty(e, l, v) ==
  IF l = "idle" THEN HoldWhileIdle(e, v) ELSE ShowLive(e, l, v)
ApplyValue(e, l, v) ==
  IF l = "idle" THEN HoldWhileIdle(e, v) ELSE ShowLive(StopIdleTimer(e), l, v)

----
Init ==
  /\ interval \in Intervals
  /\ live \in Readings /\ tpa \in Values
  /\ due = FALSE /\ flushIn = interval
  /\ up = FALSE /\ sensor = Fresh
  /\ idleFor = 0 /\ ended = FALSE /\ left = FALSE

\* A property of the charger changes: at once to the entity, or to the buffer.
PropertyChange(l, v) ==
  /\ live' = l /\ tpa' = v
  /\ due' = (due \/ (up /\ interval > 0))
  /\ sensor' = IF up /\ interval = 0 THEN ApplyValue(sensor, l, v) ELSE sensor
  /\ UNCHANGED <<interval, flushIn, up>>

\* "nrg". The next session begins when current flows after one has ended.
PowerPush(l) ==
  /\ PropertyChange(l, tpa)
  /\ idleFor' = IF l = "idle" THEN idleFor ELSE 0
  /\ ended' = (ended /\ l # "flows")
  /\ left' = (left \/ (ended /\ l = "flows"))

\* "tpa", with another value: one that comes while nobody knows of any current
\* can be the next session's own.
AveragePush(v) ==
  /\ v # tpa
  /\ PropertyChange(live, v)
  /\ left' = FALSE
  /\ ended' = (ended /\ live # "unknown")
  /\ UNCHANGED idleFor

\* WattpilotHub._flush_pending: on its timer, or before it announces a change
\* of availability.
FlushPending ==
  /\ up /\ interval > 0
  /\ flushIn' = interval /\ due' = FALSE
  /\ sensor' = IF due THEN ApplyValue(sensor, live, tpa) ELSE sensor
  /\ UNCHANGED <<interval, live, tpa, up, idleFor, ended, left>>

\* WattpilotAveragePowerSensor._went_idle
WentIdle ==
  /\ sensor.timer = "running" /\ sensor.wait = 0
  /\ sensor' = [ShowIdle(sensor, tpa) EXCEPT !.timer = "made"]
  /\ UNCHANGED <<interval, live, tpa, due, flushIn, up, idleFor, ended, left>>

\* A second passes; a call that is due is made before the next one does.
Tick ==
  /\ sensor.timer = "running" => sensor.wait > 0
  /\ (up /\ interval > 0) => flushIn > 0
  /\ flushIn' = IF up /\ interval > 0 THEN flushIn - 1 ELSE flushIn
  /\ sensor' = IF sensor.timer = "running" THEN [sensor EXCEPT !.wait = @ - 1] ELSE sensor
  /\ idleFor' = IF live = "idle" /\ idleFor < LongIdle THEN idleFor + 1 ELSE idleFor
  /\ ended' = (ended \/ (up /\ idleFor' = LongIdle))
  /\ UNCHANGED <<interval, live, tpa, due, up, left>>

\* The entity is set up, with the values the hub already has. What an earlier
\* one knew of the last session is gone with it.
Added ==
  /\ ~up /\ up' = TRUE
  /\ sensor' = ApplyValue(Fresh, live, tpa)
  /\ due' = FALSE /\ flushIn' = interval
  /\ ended' = FALSE /\ left' = FALSE
  /\ UNCHANGED <<interval, live, tpa, idleFor>>

\* async_will_remove_from_hass, and the hub that shuts down with it.
Removed ==
  /\ up /\ up' = FALSE
  /\ sensor' = StopIdleTimer(sensor)
  /\ due' = FALSE
  /\ UNCHANGED <<interval, live, tpa, flushIn, idleFor, ended, left>>

Next ==
  \/ \E l \in Readings : PowerPush(l)
  \/ \E v \in Values : AveragePush(v)
  \/ FlushPending
  \/ WentIdle
  \/ Tick
  \/ Added
  \/ Removed

Spec == Init /\ [][Next]_vars

----
\* Invariants

Sensors ==
  [shown : Averages \cup {0, Null}, stale : Values,
   timer : {"none", "running", "made"}, wait : 0..Limit]

TypeOK ==
  /\ interval \in Intervals
  /\ live \in Readings /\ tpa \in Values
  /\ due \in BOOLEAN /\ up \in BOOLEAN
  /\ flushIn \in 0..interval
  /\ sensor \in Sensors
  /\ idleFor \in 0..LongIdle
  /\ ended \in BOOLEAN /\ left \in BOOLEAN

\* A timer that runs has its handle and an average to end; a handle that stayed
\* behind has none; an average on show is not one known to be stale.
Fits(e) ==
  /\ e.timer = "running" => ~Nothing(e)
  /\ e.timer = "made" => Nothing(e)
  /\ ~Nothing(e) => e.stale = Null

\* The entity is as its last reading left it, and only what the hub still holds
\* back keeps it behind the charger. No timer outlives it.
InStep ==
  /\ Fits(sensor)
  /\ sensor.timer = "running" => up
  /\ due => up /\ interval > 0
  /\ (up /\ ~due /\ live = "idle") =>
        sensor.timer = "running" \/ (sensor.shown = 0 /\ sensor.stale = tpa)
  /\ (up /\ ~due /\ live # "idle") => sensor.timer = "none"

\* How long the current has been off bounds what is left of the waits.
InTime ==
  /\ (idleFor > 0) => live = "idle"
  /\ ended => live # "flows"
  /\ (up /\ due /\ live = "idle") =>
        idleFor + flushIn <= interval \/ sensor.timer = "running" \/ sensor.shown = 0
  /\ (up /\ live = "idle" /\ sensor.timer = "running") => idleFor + sensor.wait <= Limit + interval

Inv == TypeOK /\ InStep /\ InTime

\* Once no current has flowed for the minute, and for the time a push waits in
\* the hub, the sensor shows 0 (class WattpilotAveragePowerSensor), whatever
\* readings came, stopped or were replaced meanwhile.
ZeroWhenIdle == (up /\ idleFor = LongIdle) => sensor.shown = 0

\* After a session the entity saw the end of, the average that session left
\* behind is never shown for the next one (sensor.py:361-362): the charger
\* repeats it until it has one of its own. So without an update interval: the
\* flush may hand over an average pushed while idle with the next session's start.
LeftoverIsNotShown == (interval = 0 /\ up /\ ~due /\ left /\ live = "flows") => Nothing(sensor)

\* The sensor falls to 0 only after the current has been off for the whole
\* minute: a pause inside a session is not its end (sensor.py:58). So without an
\* update interval: a flush that comes too late does not stop the timer.
PauseIsNotEnd ==
  [][(interval = 0 /\ up /\ up' /\ ~Nothing(sensor) /\ sensor'.shown = 0 /\ tpa' # 0) => idleFor >= Limit]_vars

====
