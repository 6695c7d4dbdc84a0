---- MODULE ChargingDuration ----
\* The charging duration (sensor.py, readings.charging_minutes): while a session
\* runs the charger sends the boot clock at its start (cdi) and the boot clock
\* itself (rbt), and the sensor subtracts; a restart of the charger sets the
\* clock back and moves the start below zero. The two come as two pushes of one
\* frame, through the hub (hub.py), which shows the charger as available or not.
EXTENDS Integers, Sequences

CONSTANTS
  Minute,    \* clock ticks of a minute, not 0
  Longest,   \* bound: no session outlasts so many ticks
  Uptime,    \* bound: the boot clock runs so far
  Sessions   \* bound: so many sessions

VARIABLES
  buffered,   \* an update interval is set: pushes wait for the next flush
  clock,      \* the charger's boot clock
  cdi,        \* its charging duration information
  elapsed,    \* (history) how long the current or last session has charged
  told,       \* the charger has sent this cdi
  connected, initialized,   \* the client's flags
  link,       \* status frames on their way
  frame,      \* what the client's reader has still to apply of its frame
  cache,      \* the client's rbt and cdi
  pending,    \* the keys the hub holds until the next flush
  last,       \* WattpilotHub._last_available
  shown,      \* the sensor's native value, with its session (history)
  written     \* the state Home Assistant has of it

charger == <<clock, cdi, elapsed, told>>
connection == <<buffered, connected, initialized>>
entity == <<shown, written>>
vars == <<charger, connection, link, frame, cache, pending, last, entity>>

\* `session` is history: which session the two numbers are about.
Charging(start, s) == [type |-> "charging", value |-> start, session |-> s]
Stopped(duration, s) == [type |-> "stopped", value |-> duration, session |-> s]

----
\* charging_minutes, with Python's floor division
MinutesFaulty(d, rbt) ==
  LET start == IF d.value < 0 THEN 0 ELSE d.value
  IN  (IF d.type = "charging" THEN rbt - start ELSE d.value) \div Minute
Ticks(d, rbt) == IF d.type = "charging" THEN rbt - d.value ELSE d.value
Minutes(d, rbt) == Ticks(d, rbt) \div Minute

State(d, rbt) == [minutes |-> Minutes(d, rbt), session |-> d.session, type |-> d.type]
Written(state, available) == [state |-> state, available |-> available]

Available == connected /\ (initialized \/ last)

\* The entity is added over a complete status, before the first session.
Init ==
  /\ buffered \in BOOLEAN
  /\ clock = 0 /\ cdi = Stopped(0, 0) /\ elapsed = 0 /\ told = TRUE
  /\ connected = TRUE /\ initialized = TRUE
  /\ link = <<>> /\ frame = {}
  /\ cache = [rbt |-> clock, cdi |-> cdi]
  /\ pending = {}
  /\ last = TRUE
  /\ shown = State(cdi, clock)
  /\ written = Written(shown, TRUE)

----
\* The charger.
\* Nothing runs between the pushes of one frame.
Between == frame = {}

Tick ==
  /\ Between /\ clock < Uptime
  /\ cdi.type = "charging" => elapsed < Longest
  /\ clock' = clock + 1
  /\ elapsed' = IF cdi.type = "charging" THEN elapsed + 1 ELSE elapsed
  /\ UNCHANGED <<cdi, told, connection, link, frame, cache, pending, last, entity>>

Starts ==
  /\ Between /\ cdi.type = "stopped" /\ cdi.session < Sessions
  /\ cdi' = Charging(clock, cdi.session + 1)
  /\ elapsed' = 0 /\ told' = FALSE
  /\ UNCHANGED <<clock, connection, link, frame, cache, pending, last, entity>>

Stops ==
  /\ Between /\ cdi.type = "charging"
  /\ cdi' = Stopped(elapsed, cdi.session)
  /\ told' = FALSE
  /\ UNCHANGED <<clock, elapsed, connection, link, frame, cache, pending, last, entity>>

\* A delta: the clock in every one, the duration when it has changed.
Pushes ==
  /\ Between /\ connected /\ initialized /\ link = <<>>
  /\ link' = <<[rbt |-> clock, cdi |-> cdi, keys |-> IF told THEN {"rbt"} ELSE {"rbt", "cdi"}]>>
  /\ told' = TRUE
  /\ UNCHANGED <<clock, cdi, elapsed, connection, frame, cache, pending, last, entity>>

\* The charger restarts and goes on charging: the clock starts anew and the
\* start of the session moves with it. Or only the connection is lost.
Loses(restarts) ==
  /\ Between /\ connected
  /\ connected' = FALSE /\ initialized' = FALSE
  /\ link' = <<>>
  /\ clock' = IF restarts THEN 0 ELSE clock
  /\ cdi' = IF restarts /\ cdi.type = "charging" THEN [cdi EXCEPT !.value = @ - clock] ELSE cdi
  /\ told' = FALSE
  /\ UNCHANGED <<buffered, elapsed, frame, cache, pending, last, entity>>

\* The full status of the new connection comes in chunks, one of them with both.
Reconnects ==
  /\ Between /\ ~connected
  /\ connected' = TRUE
  /\ link' = <<[rbt |-> clock, cdi |-> cdi, keys |-> {"rbt", "cdi"}]>>
  /\ told' = TRUE
  /\ UNCHANGED <<buffered, clock, cdi, elapsed, initialized, frame, cache, pending, last, entity>>

\* The last chunk, with neither: the status is complete.
Completes ==
  /\ Between /\ connected /\ ~initialized /\ link = <<>>
  /\ initialized' = TRUE
  /\ UNCHANGED <<buffered, charger, connected, link, frame, cache, pending, last, entity>>

----
\* The client's reader takes a frame; its properties are applied one by one,
\* the clock first, as the charger sends them.
Receives ==
  /\ Between /\ link # <<>>
  /\ frame' = Head(link).keys
  /\ UNCHANGED <<charger, connection, link, cache, pending, last, entity>>

\* The push of one property: held, or applied to the entity at once. The
\* clock is the sensor's companion: its push applies the cached duration anew.
\* Then _update_availability, which flushes before it says that the charger is back.
HandleCompanionPush == State(cache.cdi, cache'.rbt)
Push(state) ==
  IF buffered
  THEN /\ last' = Available
       /\ IF ~last /\ Available
          THEN /\ pending' = {}
               /\ shown' = State(cache'.cdi, cache'.rbt)
               /\ written' = Written(shown', TRUE)
          ELSE /\ pending' = pending \cup {IF "rbt" \in frame THEN "rbt" ELSE "cdi"}
               /\ UNCHANGED entity
  ELSE /\ last' = Available
       /\ shown' = state /\ written' = Written(state, Available)
       /\ UNCHANGED pending

AppliesClock ==
  /\ "rbt" \in frame
  /\ frame' = frame \ {"rbt"}
  /\ cache' = [cache EXCEPT !.rbt = Head(link).rbt]
  /\ link' = IF frame' = {} THEN Tail(link) ELSE link
  /\ Push(HandleCompanionPush)
  /\ UNCHANGED <<charger, connection>>

AppliesDuration ==
  /\ frame = {"cdi"}
  /\ frame' = {}
  /\ cache' = [cache EXCEPT !.cdi = Head(link).cdi]
  /\ link' = Tail(link)
  /\ Push(State(cache'.cdi, cache.rbt))
  /\ UNCHANGED <<charger, connection>>

\* The hub's timers: the flush, and the availability check.
FlushPending ==
  /\ Between /\ pending # {}
  /\ pending' = {}
  /\ shown' = State(cache.cdi, cache.rbt)
  /\ written' = Written(shown', Available)
  /\ UNCHANGED <<charger, connection, link, frame, cache, last>>

CheckAvailability ==
  /\ Between /\ last # Available
  /\ last' = Available
  /\ pending' = IF Available THEN {} ELSE pending
  /\ shown' = IF Available /\ pending # {} THEN State(cache.cdi, cache.rbt) ELSE shown
  /\ written' = Written(shown', Available)
  /\ UNCHANGED <<charger, connection, link, frame, cache>>

Next ==
  \/ Tick \/ Starts \/ Stops \/ Pushes
  \/ \E restarts \in BOOLEAN : Loses(restarts)
  \/ Reconnects \/ Completes
  \/ Receives \/ AppliesClock \/ AppliesDuration
  \/ FlushPending \/ CheckAvailability

Spec == Init /\ [][Next]_vars

----
\* The session a snapshot, clock and duration, is in goes on to another: it ends
\* there, or charges on, and only a restart moves its start, backwards.
Precedes(a, b) ==
  \/ a.cdi.session < b.cdi.session
  \/ /\ a.cdi.session = b.cdi.session
     /\ b.cdi.type = "charging" =>
          /\ a.cdi.type = "charging" /\ a.cdi.value >= b.cdi.value
          /\ Ticks(a.cdi, a.rbt) <= Ticks(b.cdi, b.rbt)
ShownPrecedes(state, b) ==
  \/ state.session < b.cdi.session
  \/ /\ state.session = b.cdi.session
     /\ b.cdi.type = "charging" =>
          state.type = "charging" /\ state.minutes <= Minutes(b.cdi, b.rbt)

Now == [rbt |-> clock, cdi |-> cdi]
Newest == IF link = <<>> THEN Now ELSE [rbt |-> link[1].rbt, cdi |-> link[1].cdi]

Durations == [type : {"charging", "stopped"}, value : Int, session : Nat]
TimerFrames == [rbt : Nat, cdi : Durations, keys : {{"rbt"}, {"rbt", "cdi"}}]
States == [minutes : Int, session : Nat, type : {"charging", "stopped"}]

TypeOK ==
  /\ buffered \in BOOLEAN /\ told \in BOOLEAN /\ last \in BOOLEAN
  /\ connected \in BOOLEAN /\ initialized \in BOOLEAN
  /\ clock \in Nat /\ elapsed \in Nat /\ cdi \in Durations
  /\ link = <<>> \/ (link = <<link[1]>> /\ link[1] \in TimerFrames)
  /\ frame \in {{}, {"rbt"}, {"cdi"}, {"rbt", "cdi"}}
  /\ cache \in [rbt : Nat, cdi : Durations]
  /\ pending \in SUBSET {"rbt", "cdi"}
  /\ shown \in States /\ written \in [state : States, available : BOOLEAN]

\* The start the charger sends is the one its own clock yields.
ChargerFits ==
  /\ cdi.type = "charging" => clock - cdi.value = elapsed
  /\ cdi.type = "stopped" => cdi.value = elapsed

\* A frame is ahead of the cache and behind the charger, in the clock too while
\* the charger has not restarted. It leaves the duration out only when the one
\* before had the same. The clock of a frame is applied before its duration.
LinkFits ==
  /\ ~connected => ~initialized /\ ~told /\ link = <<>>
  /\ frame # {} => link # <<>> /\ frame \subseteq link[1].keys
  /\ frame = {"rbt"} => link[1].keys = {"rbt"}
  /\ Precedes(Newest, Now)
  /\ connected => Newest.rbt <= clock
  /\ told => Newest.cdi = cdi
  /\ IF frame = {"cdi"} THEN cache.rbt = Newest.rbt
     ELSE /\ Precedes(cache, Newest)
          /\ initialized \/ (connected /\ link = <<>>) => cache.rbt <= Newest.rbt
          /\ IF link = <<>> THEN told => cache.cdi = cdi
             ELSE link[1].keys = {"rbt"} => cache.cdi = Newest.cdi

\* What is held back is about an entity that shows something older or the same.
\* While a frame is half applied, clock and start may be of two boots.
SensorFits ==
  /\ written.state = shown
  /\ frame = {} /\ pending = {} => shown = State(cache.cdi, cache.rbt)
  /\ buffered => ShownPrecedes(shown, IF frame = {"cdi"} THEN Newest ELSE cache)

Inv == TypeOK /\ ChargerFits /\ LinkFits /\ SensorFits

\* "A reboot mid-session makes the start negative, so the subtraction holds
\* across it (...) the minutes carried on" (charging_minutes): while a session
\* charges, the minutes on show never fall. (At its end they may: the clock of
\* that frame comes before the duration.) So with an update interval: without
\* one the clock of a new boot is shown with the start of the old.
MinutesCarryOn ==
  [][buffered /\ written.available /\ written'.available
       /\ written.state.type = "charging" /\ written'.state.type = "charging"
       /\ written'.state.session = written.state.session
     => written'.state.minutes >= written.state.minutes]_vars

====
