---- MODULE Counters ----
\* A counter of the charger as a sensor (sensor.py): the total energy, which
\* WattpilotTotalSensor never lets fall, or the session's energy, where only a
\* step back as small as noise is held. Home Assistant removes the entity and
\* adds it again, with what it stored of the last state.
EXTENDS Integers

CONSTANTS
  Max,     \* the counter runs to Max, in steps of the charger's own precision
  Unit,    \* that many steps are one of suggested_display_precision, not 0
  Null     \* Python's None: unknown

VARIABLES
  kind,      \* "total" (monotonic) or "session" (reset_tolerant_monotonic)
  nulls,     \* whether the charger ever reports null for the counter
  counter,   \* the charger's value, as the hub has it
  up,        \* the entity is added
  sensor,    \* the entity's own state
  stored,    \* the number Home Assistant kept of the removed entity
  reported,  \* (history) the last number on show, over all entities
  first      \* (history) this entity has not shown a number of the charger yet

vars == <<kind, nulls, counter, up, sensor, stored, reported, first>>

\* Noise takes a counter below zero.
Numbers == (-1)..Max
Readings == IF nulls THEN Numbers \cup {Null} ELSE Numbers

\* `_attr_native_value`, `_last_number` and `_restored_total`
Fresh == [shown |-> Null, last |-> Null, restored |-> Null]

----
\* round() to the displayed precision, half to even
Round(x) ==
  LET low == Unit * (x \div Unit)
      over == 2 * (x - low)
  IN  IF over < Unit \/ (over = Unit /\ (x \div Unit) % 2 = 0) THEN low ELSE low + Unit

\* What the sensor makes of a number before it decides whether to hold.
Reading(v) ==
  LET clamped == IF v < 0 THEN 0 ELSE v
  IN  IF kind = "session" THEN Round(clamped) ELSE clamped

\* Less than _RESET_THRESHOLD_RATIO of the number before.
IsReset(value, previous) == 10 * value < 9 * previous

\* _should_suppress_decrease of both classes
Suppresses(s, value) ==
  /\ s.last # Null /\ value < s.last
  /\ kind = "session" => ~IsReset(value, s.last)
  /\ s.restored # Null => ~IsReset(value, s.restored)

Held(s, value) ==
  LET shown == IF Suppresses(s, value) THEN s.last ELSE value
  IN  [shown |-> shown, last |-> shown, restored |-> Null]

\* An unknown is shown and held against nothing.
ApplyValue(s, v) ==
  IF v = Null THEN [s EXCEPT !.shown = Null] ELSE Held(s, Reading(v))

SeededFaulty == Fresh
\* WattpilotTotalSensor.async_added_to_hass, before the first value
Seeded ==
  IF kind = "total" THEN [shown |-> stored, last |-> stored, restored |-> stored]
  ELSE Fresh

----
Init ==
  /\ kind \in {"total", "session"} /\ nulls \in BOOLEAN
  /\ counter \in Readings /\ up = FALSE
  /\ sensor = Fresh /\ stored = Null
  /\ reported = Null /\ first = TRUE

Shows(s) ==
  /\ sensor' = s
  /\ reported' = IF s.shown = Null THEN reported ELSE s.shown

\* The charger reports: it counts on, steps back after a restart, was
\* replaced, begins a session, or says null.
Push(v) ==
  /\ v # counter /\ counter' = v
  /\ IF up THEN Shows(ApplyValue(sensor, v)) ELSE UNCHANGED <<sensor, reported>>
  /\ first' = (first /\ (~up \/ v = Null))
  /\ UNCHANGED <<kind, nulls, up, stored>>

\* async_added_to_hass, with the value the hub already has.
Added ==
  /\ ~up /\ up' = TRUE
  /\ Shows(ApplyValue(Seeded, counter))
  /\ first' = (counter = Null)
  /\ UNCHANGED <<kind, nulls, counter, stored>>

\* A reload, or a restart: Home Assistant keeps the native value on show.
Removed ==
  /\ up /\ up' = FALSE
  /\ stored' = sensor.shown
  /\ sensor' = Fresh /\ first' = TRUE
  /\ UNCHANGED <<kind, nulls, counter, reported>>

Next ==
  \/ \E v \in Readings : Push(v)
  \/ Added
  \/ Removed

Spec == Init /\ [][Next]_vars

----
Shown == Nat \cup {Null}

TypeOK ==
  /\ kind \in {"total", "session"} /\ nulls \in BOOLEAN
  /\ counter \in Readings
  /\ up \in BOOLEAN /\ first \in BOOLEAN
  /\ sensor \in [shown : Shown, last : Shown, restored : Shown]
  /\ stored \in Shown /\ reported \in Shown

\* The number held against is the last one on show; a restored one waits only
\* for the charger's first number. Only the total has one.
HoldFits ==
  /\ sensor.shown # Null => sensor.last = sensor.shown
  /\ (up /\ ~first) => sensor.last # Null /\ sensor.last = reported /\ sensor.restored = Null
  /\ (up /\ counter # Null) => ~first
  /\ up => sensor.restored \in {Null, sensor.last}
  /\ (up /\ first) => sensor.restored = sensor.last /\ sensor.last \in {Null, stored}
  /\ kind = "session" => (first => sensor.last = Null)
  /\ ~up => sensor = Fresh /\ first
  /\ ~up => stored \in {Null, reported}
  /\ (~up /\ ~nulls) => stored = reported
  /\ sensor.shown = Null <=> (~up \/ counter = Null)

Inv == TypeOK /\ HoldFits

\* "A total that never falls, also across a reload or restart" (sensor.py:304):
\* the next number on show is not lower than the last, or so much lower that it
\* is another charger's. The session's energy has this within one entity, and
\* so has a total that the charger reports null for: a null on show when the
\* entity is removed is what Home Assistant stores, and the hold is lost.
\* Within one entity a total that has shown a number never falls at all.
NeverDips ==
  [][(sensor'.shown # Null /\ reported # Null) =>
       /\ (kind = "total" /\ ~nulls) \/ ~first =>
            sensor'.shown >= reported \/ IsReset(sensor'.shown, reported)
       /\ kind = "total" /\ up /\ ~first => sensor'.shown >= reported]_vars

====
