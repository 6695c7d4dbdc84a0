-------------------------------- MODULE Hub --------------------------------
(***************************************************************************)
(* The hub of one config entry (hub.py) between the client below it and    *)
(* the entities above it (entity.py), from the entry's setup to its end    *)
(* (__init__.py), with service calls that disconnect and reconnect at any  *)
(* time.  What an entity shows is the state it last wrote to Home          *)
(* Assistant: a value, and whether it was available.                       *)
(*                                                                         *)
(* The client is reduced to what the hub can tell of it: Connection and    *)
(* ConnectionPromise say more.  A charger replays its complete status      *)
(* after every sign-in, in chunks, with deltas in between.                 *)
(*                                                                         *)
(* A definition whose name ends in Faulty is a slip the code does not      *)
(* make; nothing uses it but the tests of the properties.                  *)
(***************************************************************************)
EXTENDS FiniteSets

CONSTANTS
  Keys,     \* the charger's properties, each shown by one entity
  Values,   \* the values of a property
  Services, \* concurrent calls of the services
  Entry,    \* the call in which the entry itself connects or shuts down
  Unsent    \* no value: not sent yet, or not carried by a frame

ASSUME EntryAssumption == Entry \notin Services
ASSUME UnsentAssumption == Unsent \notin Values

Calls == Services \cup {Entry}

VARIABLES
  connected,       \* charger.connected
  initialized,     \* charger.properties_initialized
  refusal,         \* charger.refusal, by its class
  told,            \* the keys replayed since the last sign-in
  cache,           \* charger.all_properties
  running,         \* whether the client reconnects by itself
  ended,           \* whether its reader has ended on a refusal that is final
  attempt,         \* its attempt to open: "none", "start" or "trying"
  closing,         \* its deliberate close: "none", "start" or "shutting"
  tornDown,        \* self._torn_down
  retired,         \* self._retired
  subscribed,      \* self._unsubscribe_properties, _cancel_timer and _cancel_flush
  lastAvailable,   \* self._last_available
  updateInterval,  \* whether self._update_interval coalesces pushes
  pending,         \* self._pending, Unsent for a key it does not hold
  issues,          \* the repair issues, and "reauth" for an open reauth flow
  phase,           \* how far the entry is, see Phases
  call,            \* where each call is suspended
  present,         \* the keys whose entities were added
  shown,           \* the value each entity wrote last
  shownAvailable   \* the keys whose entities wrote last that they are available

clientVars == <<connected, initialized, refusal, told, cache, running, ended, attempt, closing>>
flagVars   == <<tornDown, retired, subscribed>>
stateVars  == <<lastAvailable, pending, issues, shown, shownAvailable>>
entryVars  == <<updateInterval, phase, present>>
vars == <<clientVars, flagVars, stateVars, entryVars, call>>

\* "gone" is an entry whose hub was shut down, or never connected.
Phases   == {"setup", "finishing", "forwarding", "loaded", "removing", "closing", "gone"}
Refusals == {"none", "auth", "identity", "unusable", "unsupported"}
Final    == {"auth", "identity", "unsupported"}
OwnIssues == {"wrong_charger", "charger_refused"}
\* "queued" is an open() behind a close; "opened", "failed", "closed" and "raised"
\* are outcomes the caller has not seen yet, of a close the last two.
CallStates == {"idle", "queued", "opening", "opened", "failed", "closing", "closed", "raised"}
Closed == {"closed", "raised"}
Readings == [Keys -> Values \cup {Unsent}]

TypeOK ==
  /\ connected \in BOOLEAN /\ initialized \in BOOLEAN
  /\ running \in BOOLEAN /\ ended \in BOOLEAN
  /\ refusal \in Refusals
  /\ told \subseteq Keys
  /\ cache \in Readings
  /\ attempt \in {"none", "start", "trying"}
  /\ closing \in {"none", "start", "shutting"}
  /\ tornDown \in BOOLEAN /\ retired \in BOOLEAN /\ subscribed \in BOOLEAN
  /\ lastAvailable \in {"unknown", "up", "down"}
  /\ updateInterval \in BOOLEAN
  /\ pending \in Readings
  /\ issues \subseteq OwnIssues \cup {"reauth"}
  /\ phase \in Phases
  /\ call \in [Calls -> CallStates]
  /\ present \subseteq Keys
  /\ shown \in Readings
  /\ shownAvailable \subseteq present

Nothing == [k \in Keys |-> Unsent]

\* Setup has built the hub and awaits its async_connect.
Init ==
  /\ connected = FALSE /\ initialized = FALSE /\ running = FALSE /\ ended = FALSE
  /\ refusal = "none" /\ told = {} /\ cache = Nothing
  /\ attempt = "start" /\ closing = "none"
  /\ tornDown = FALSE /\ retired = FALSE /\ subscribed = FALSE
  /\ lastAvailable = "unknown"
  /\ updateInterval \in BOOLEAN
  /\ pending = Nothing /\ issues = {}
  /\ phase = "setup"
  /\ call = [c \in Calls |-> IF c = Entry THEN "opening" ELSE "idle"]
  /\ present = {} /\ shown = Nothing /\ shownAvailable = {}

-----------------------------------------------------------------------------
(* What the handlers share. *)

Carried(frame) == {k \in Keys : frame[k] # Unsent}

\* The readings of old, overwritten by those that newer carries.
Merged(old, newer) == [k \in Keys |-> IF newer[k] # Unsent THEN newer[k] ELSE old[k]]

Only(frame, k) == [Nothing EXCEPT ![k] = frame[k]]

\* The property `available`, for a last announcement `last`.
ReachableFaulty(last) == ~tornDown /\ connected /\ initialized
Reachable(last) == ~tornDown /\ connected /\ (initialized \/ last = "up")

Available == Reachable(lastAvailable)

\* Entities whose keys values carries apply them and write their state.
ShownAfter(values) == [k \in Keys |-> IF k \in present THEN Merged(shown, values)[k] ELSE shown[k]]

ShownAvailableAfter(values) ==
  IF Available THEN shownAvailable \cup (Carried(values) \cap present)
               ELSE shownAvailable \ Carried(values)

\* The state entities write when told that the charger is up or down.
AllShownAvailable(last) == IF Reachable(last) THEN present ELSE {}

\* _update_availability, called behind the delivery of `values` with `buffer`
\* in self._pending; of a frame it interrupts, `rest` is buffered after it.
\* It flushes the buffer, then announces: the values come first.
UpdateAvailabilityFaulty(status, values, buffer, rest) ==
  /\ lastAvailable' = status
  /\ shown' = ShownAfter(values)
  /\ shownAvailable' = IF status = lastAvailable THEN ShownAvailableAfter(values)
                       ELSE AllShownAvailable(status)
  /\ pending' = Merged(buffer, rest)
UpdateAvailability(status, values, buffer, rest) ==
  LET changes == status # lastAvailable
      flushes == changes /\ status = "up"
  IN
  /\ lastAvailable' = status
  /\ shown' = IF flushes THEN ShownAfter(Merged(values, buffer)) ELSE ShownAfter(values)
  /\ shownAvailable' = IF changes THEN AllShownAvailable(status)
                       ELSE ShownAvailableAfter(values)
  /\ pending' = Merged(IF flushes THEN Nothing ELSE buffer, rest)

Status == IF Available THEN "up" ELSE "down"

\* Its last act on the way up: both issues go.
IssuesAfter(status) ==
  IF status = "up" /\ lastAvailable # "up" THEN issues \ OwnIssues ELSE issues

-----------------------------------------------------------------------------
(* Pushes: _handle_property_change for each key of a frame in turn. *)

\* Every key is dispatched as it comes.
PushAtOnce(frame) ==
  /\ ~updateInterval
  /\ UpdateAvailability(Status, frame, Nothing, Nothing)

\* Every key is buffered; the first also announces a recovery.
PushBuffered(frame) ==
  /\ updateInterval
  /\ \E k \in Carried(frame) :
       UpdateAvailability(Status, Nothing, Merged(pending, Only(frame, k)),
                          [frame EXCEPT ![k] = Unsent])

\* _update_property for every key of a frame.  Nothing but the cache learns of
\* it while nobody is subscribed.
Apply(frame) ==
  /\ cache' = Merged(cache, frame)
  /\ \/ /\ subscribed
        /\ PushAtOnce(frame) \/ PushBuffered(frame)
        /\ issues' = IssuesAfter(Status)
     \/ /\ ~subscribed
        /\ UNCHANGED stateVars

\* The timer of self._update_interval.
FlushPending ==
  /\ subscribed /\ updateInterval /\ pending # Nothing
  /\ shown' = ShownAfter(pending)
  /\ shownAvailable' = ShownAvailableAfter(pending)
  /\ pending' = Nothing
  /\ UNCHANGED <<clientVars, flagVars, lastAvailable, issues, entryVars, call>>

\* What a refusal asks of the user.
Reported ==
  CASE refusal = "none" -> {}
    [] refusal = "auth" -> {"reauth"}
    [] refusal = "identity" -> {"wrong_charger"}
    [] OTHER -> {"charger_refused"}

\* The 30-second timer.
CheckAvailabilityFaulty ==
  /\ subscribed
  /\ issues' = issues \cup Reported
  /\ UNCHANGED <<clientVars, flagVars, lastAvailable, pending, shown, shownAvailable,
                 entryVars, call>>
CheckAvailability ==
  /\ subscribed
  /\ UpdateAvailability(Status, Nothing, pending, Nothing)
  /\ issues' = IssuesAfter(Status) \cup Reported
  /\ UNCHANGED <<clientVars, flagVars, entryVars, call>>

-----------------------------------------------------------------------------
(* The calls of the services. *)

\* client.connect(): Connection.open() waits for a close, then joins the
\* attempt under way or starts one.
OpenOrQueue(c) ==
  /\ call' = [call EXCEPT ![c] = IF closing = "none" THEN "opening" ELSE "queued"]
  /\ attempt' = IF closing = "none" /\ attempt = "none" THEN "start" ELSE attempt
  /\ UNCHANGED <<connected, initialized, refusal, told, cache, running, ended, closing>>

\* runtime_data is set before the platforms are forwarded and outlives a
\* shutdown until the unload has ended.
Serviceable(c) ==
  c \in Services /\ call[c] = "idle" /\ phase \in {"forwarding", "loaded", "removing", "closing"}

\* async_reconnect: refused by a retired hub, else it subscribes, then connects.
MayReconnectFaulty == TRUE
MayReconnect == ~retired

\* start_dispatch(): the push callback and both timers, once.
StartDispatchFaulty == UNCHANGED subscribed
StartDispatch == subscribed' = TRUE

Reconnect(c) ==
  /\ Serviceable(c) /\ MayReconnect
  /\ tornDown' = FALSE
  /\ StartDispatch
  /\ OpenOrQueue(c)
  /\ UNCHANGED <<retired, stateVars, entryVars>>

\* async_disconnect up to the await of the client's close.
TearDown(c) ==
  /\ tornDown' = TRUE /\ subscribed' = FALSE
  /\ pending' = Nothing
  /\ closing' = IF closing = "none" THEN "start" ELSE closing
  /\ call' = [call EXCEPT ![c] = "closing"]
  /\ UNCHANGED <<connected, initialized, refusal, told, cache, running, ended, attempt,
                 lastAvailable, shown, shownAvailable>>

Disconnect(c) ==
  /\ Serviceable(c)
  /\ TearDown(c)
  /\ UNCHANGED <<retired, issues, entryVars>>

\* async_connect returns or raises.
ConnectReturns(c) ==
  /\ call[c] = "opened"
  /\ call' = [call EXCEPT ![c] = "idle"]
  /\ UpdateAvailability("up", Nothing, pending, Nothing)
  /\ issues' = IssuesAfter("up")
  /\ phase' = IF c = Entry THEN "finishing" ELSE phase
  /\ UNCHANGED <<clientVars, flagVars, updateInterval, present>>

ConnectRaises(c) ==
  /\ call[c] = "failed"
  /\ call' = [call EXCEPT ![c] = "idle"]
  /\ phase' = IF c = Entry THEN "gone" ELSE phase
  /\ UNCHANGED <<clientVars, flagVars, stateVars, updateInterval, present>>

\* The `finally` of async_disconnect: whether the close returned or raised, or
\* the caller was cancelled.
AnnouncedOnTheWayOutFaulty(how) == IF how = "closed" THEN "down" ELSE lastAvailable
AnnouncedOnTheWayOut(how) == "down"

\* A shutdown ends in either case: it logs a close that raised.
DisconnectReturns(c) ==
  /\ call[c] \in Closed
  /\ call' = [call EXCEPT ![c] = "idle"]
  /\ UpdateAvailability(AnnouncedOnTheWayOut(call[c]), Nothing, pending, Nothing)
  /\ phase' = IF c = Entry THEN "gone" ELSE phase
  /\ UNCHANGED <<clientVars, flagVars, issues, updateInterval, present>>

\* A service call is cancelled while the socket shuts: the close goes on without
\* it, shielded, and whoever was to go on before it has done so.
DisconnectCancelled(c) ==
  /\ c \in Services /\ call[c] = "closing"
  /\ closing = "shutting" /\ \A d \in Calls : call[d] # "opened"
  /\ call' = [call EXCEPT ![c] = "idle"]
  /\ UpdateAvailability(AnnouncedOnTheWayOut("cancelled"), Nothing, pending, Nothing)
  /\ UNCHANGED <<clientVars, flagVars, issues, entryVars>>

-----------------------------------------------------------------------------
(* The entry: async_setup_entry and async_unload_entry. *)

\* Dispatch starts before the platforms are forwarded.
FinishSetup ==
  /\ phase = "finishing"
  /\ phase' = "forwarding"
  /\ StartDispatch
  /\ UNCHANGED <<clientVars, tornDown, retired, stateVars, updateInterval, present, call>>

\* An entity subscribes, reads the cache and writes its state.
AddEntity(k) ==
  /\ phase = "forwarding" /\ k \notin present
  /\ present' = present \cup {k}
  /\ shown' = [shown EXCEPT ![k] = cache[k]]
  /\ shownAvailable' = IF Available THEN shownAvailable \cup {k} ELSE shownAvailable
  /\ UNCHANGED <<clientVars, flagVars, lastAvailable, pending, issues, updateInterval,
                 phase, call>>

SetupDone ==
  /\ phase = "forwarding" /\ present = Keys
  /\ phase' = "loaded"
  /\ UNCHANGED <<clientVars, flagVars, stateVars, updateInterval, present, call>>

\* The platforms are unloaded first, an entity at a time.
RemoveEntity(k) ==
  /\ phase \in {"loaded", "removing"} /\ k \in present
  /\ phase' = "removing"
  /\ present' = present \ {k} /\ shownAvailable' = shownAvailable \ {k}
  /\ shown' = [shown EXCEPT ![k] = Unsent]
  /\ UNCHANGED <<clientVars, flagVars, lastAvailable, pending, issues, updateInterval, call>>

\* async_shutdown: behind a setup that failed after its connect, with Home
\* Assistant, or at the end of an unload.
Shutdown ==
  /\ \/ phase \in {"finishing", "forwarding", "loaded"}
     \/ phase = "removing" /\ present = {}
  /\ phase' = "closing"
  /\ retired' = TRUE
  /\ issues' = issues \ OwnIssues
  /\ TearDown(Entry)
  /\ UNCHANGED <<updateInterval, present>>

-----------------------------------------------------------------------------
(* The client, as far as the hub can tell. *)

\* Callers whose call is over, and a close, go on before the network answers.
LoopIsIdle ==
  closing # "start" /\ \A c \in Calls : call[c] \notin {"opened", "failed"} \cup Closed

Outcome(outcome, of) == [c \in Calls |-> IF call[c] = of THEN outcome ELSE call[c]]

\* Connection.begin().
Begins ==
  /\ initialized' = FALSE /\ told' = {}
  /\ refusal' = "none"

\* The attempt goes for a new socket, or for the status of the one it has.
AttemptStarts ==
  /\ attempt = "start"
  /\ attempt' = "trying"
  /\ IF connected THEN UNCHANGED <<initialized, told, refusal>> ELSE Begins
  /\ UNCHANGED <<connected, cache, running, ended, closing, flagVars, stateVars, entryVars, call>>

\* The reader of a lost or refused connection tries again.
Retries ==
  /\ LoopIsIdle
  /\ running \/ attempt = "trying"
  /\ ~connected /\ refusal \notin Final /\ (initialized \/ told # {} \/ refusal # "none")
  /\ attempt = "trying" => refusal = "none"
  /\ Begins
  /\ UNCHANGED <<connected, cache, running, ended, attempt, closing, flagVars, stateVars,
                 entryVars, call>>

Fresh == (running \/ attempt = "trying") /\ refusal = "none" /\ ~initialized /\ told = {}

SignIn ==
  /\ Fresh /\ ~connected /\ LoopIsIdle
  /\ connected' = TRUE
  /\ UNCHANGED <<initialized, refusal, told, cache, running, ended, attempt, closing, flagVars,
                 stateVars, entryVars, call>>

\* The charger answers with another serial, refuses the password, sends a
\* handshake that cannot be used or a scheme the client does not know.
Refuse(kind) ==
  /\ Fresh \/ (connected /\ kind = "auth")
  /\ refusal' = kind
  /\ connected' = FALSE
  /\ running' = (running /\ kind \notin Final)
  /\ ended' = (ended \/ (running /\ kind \in Final))
  /\ UNCHANGED <<initialized, told, cache, attempt, closing, flagVars, stateVars,
                 entryVars, call>>

\* A chunk of the full status; the last one completes it.
Chunk(frame) ==
  /\ connected /\ told # Keys
  /\ Apply(frame)
  /\ told' = told \cup Carried(frame)
  /\ initialized' = (told' = Keys)
  /\ UNCHANGED <<connected, refusal, running, ended, attempt, closing, flagVars, entryVars, call>>

\* What changed meanwhile, once the stream has begun.
Delta(frame) ==
  /\ connected /\ told # {}
  /\ Apply(frame)
  /\ UNCHANGED <<connected, initialized, refusal, told, running, ended, attempt, closing,
                 flagVars, entryVars, call>>

Lose ==
  /\ connected
  /\ connected' = FALSE
  /\ UNCHANGED <<initialized, refusal, told, cache, running, ended, attempt, closing, flagVars,
                 stateVars, entryVars, call>>

AttemptSucceeds ==
  /\ attempt = "trying" /\ initialized /\ refusal = "none"
  /\ attempt' = "none" /\ running' = TRUE /\ ended' = FALSE
  /\ call' = Outcome("opened", "opening")
  /\ UNCHANGED <<connected, initialized, refusal, told, cache, closing, flagVars,
                 stateVars, entryVars>>

\* Refused, timed out or not reached: a reader it took over from is restarted,
\* one that had ended as well, but not behind a refusal that is final.
AttemptFails ==
  /\ attempt = "trying" /\ (refusal # "none" \/ ~initialized)
  /\ attempt' = "none" /\ connected' = FALSE
  /\ running' = (running \/ (ended /\ refusal \notin Final)) /\ ended' = FALSE
  /\ call' = Outcome("failed", "opening")
  /\ UNCHANGED <<initialized, refusal, told, cache, closing, flagVars, stateVars,
                 entryVars>>

\* _cancel_and_close(): attempt and reader end, then the socket is shut.
ClosingCancels ==
  /\ closing = "start"
  /\ closing' = "shutting"
  /\ attempt' = "none" /\ running' = FALSE /\ ended' = FALSE /\ connected' = FALSE
  /\ call' = Outcome("failed", "opening")
  /\ UNCHANGED <<initialized, refusal, told, cache, flagVars, stateVars, entryVars>>

\* The socket is forgotten, whether its close() returned or raised.
ClosingEnds ==
  /\ closing = "shutting" /\ \A c \in Calls : call[c] # "opened"
  /\ closing' = "none"
  /\ \E how \in Closed : call' = Outcome(how, "closing")
  /\ UNCHANGED <<connected, initialized, refusal, told, cache, running, ended, attempt,
                 flagVars, stateVars, entryVars>>

\* The wait in Connection.open() for a close is over.
Unqueue(c) ==
  /\ call[c] = "queued" /\ closing = "none"
  /\ OpenOrQueue(c)
  /\ UNCHANGED <<flagVars, stateVars, entryVars>>

-----------------------------------------------------------------------------
CallNext ==
  \E c \in Calls : ConnectReturns(c) \/ ConnectRaises(c) \/ DisconnectReturns(c) \/ Unqueue(c)

EntryNext == FinishSetup \/ SetupDone \/ \E k \in Keys : AddEntity(k) \/ RemoveEntity(k)

Frame == \E frame \in Readings \ {Nothing} : Chunk(frame) \/ Delta(frame)

ClientNext ==
  \/ AttemptStarts \/ AttemptSucceeds \/ AttemptFails
  \/ ClosingCancels \/ ClosingEnds
  \/ Retries \/ SignIn \/ Lose \/ Frame
  \/ \E kind \in Refusals \ {"none"} : Refuse(kind)

Timers == FlushPending \/ CheckAvailability

ReconnectNext == \E c \in Services : Reconnect(c)
CancelNext == \E c \in Services : DisconnectCancelled(c)

Next ==
  \/ ReconnectNext \/ CancelNext \/ CallNext \/ EntryNext \/ ClientNext \/ Timers
  \/ Shutdown
  \/ \E c \in Services : Disconnect(c)

Spec == Init /\ [][Next]_vars

\* Nobody tears the hub down while an open waits for an earlier close.  What
\* becomes of that open otherwise is the subject of ShutdownIsForGood.
InTurn == \A c \in Calls : call[c] # "queued"

InTurnNext ==
  \/ ReconnectNext \/ CancelNext \/ CallNext \/ EntryNext \/ ClientNext \/ Timers
  \/ InTurn /\ Shutdown
  \/ \E c \in Services : InTurn /\ Disconnect(c)

InTurnSpec == Init /\ [][InTurnNext]_vars

\* The timers fire, what was asked of the event loop is done, and a close comes
\* to its end (CloseCompletes in Connection).
Fairness ==
  /\ WF_vars(FlushPending) /\ WF_vars(CheckAvailability)
  /\ WF_vars(CallNext)
  /\ WF_vars(ClosingCancels \/ ClosingEnds)

FairSpec == InTurnSpec /\ Fairness

-----------------------------------------------------------------------------
(* Safety. *)

\* Coalescing holds back the latest value, never an older one: no flush can
\* take an entity back.
LatestIsBuffered == \A k \in Keys : pending[k] # Unsent => pending[k] = cache[k]

\* While the charger counts as reachable every entity shows the value the
\* charger sent last, or that value waits for the next flush -- through
\* setup, outages, disconnects and reconnects.
ShownIsCurrent ==
  Available /\ closing = "none" =>
    \A k \in present : shown[k] = cache[k] \/ pending[k] = cache[k]

\* No repair issue stays up beside a charger that works.
IssueMeansDown == issues \cap OwnIssues # {} => lastAvailable # "up"

\* A hub that was shut down dispatches nothing and holds nothing back.
GoneIsSilent ==
  phase = "gone" => ~subscribed /\ pending = Nothing /\ issues \cap OwnIssues = {}

\* Of the entry's own call nothing is left but what its phase awaits.
EntryPart ==
  /\ phase = "setup" <=> call[Entry] \in {"opening", "opened", "failed"}
  /\ phase = "closing" <=> call[Entry] \in {"closing"} \cup Closed
  /\ call[Entry] # "queued"

\* Nothing is dispatched before the end of the setup nor behind a shutdown, and
\* nothing is held back without a timer to flush it.
DispatchPart ==
  /\ phase \in {"setup", "finishing", "closing", "gone"} =>
       ~subscribed /\ issues \cap OwnIssues = {}
  /\ phase = "closing" => retired
  /\ ~subscribed => pending = Nothing

\* A refusal outlives no sign-in, and who is signed in was not refused.
RefusalPart == connected => refusal = "none"

\* A close leaves no connection, and none comes up before its callers go on.
ClosedPart ==
  /\ closing = "shutting" => ~connected /\ ~running /\ attempt = "none"
  /\ (\E c \in Calls : call[c] \in Closed) => ~connected

\* The inductive invariant behind the theorems of HubProofs.
Inv ==
  /\ TypeOK /\ EntryPart /\ DispatchPart /\ RefusalPart /\ ClosedPart
  /\ LatestIsBuffered /\ IssueMeansDown

\* A tear-down has a caller that announces it, unless all of them were cancelled
\* and have; and who waits for it to end has subscribed again.
CallerPart ==
  /\ closing = "start" => \E c \in Calls : call[c] = "closing"
  /\ closing = "shutting" =>
       \/ \E c \in Calls : call[c] = "closing"
       \/ lastAvailable # "up" /\ \A c \in Calls : call[c] # "opened"
  /\ (\E c \in Calls : call[c] = "queued") => subscribed

\* Without a subscription no client is at work beside entities.
QuietPart ==
  /\ phase \in {"setup", "finishing"} => present = {}
  /\ present # {} \/ phase \in {"forwarding", "loaded", "removing", "closing"} =>
       subscribed \/ closing # "none" \/ (~connected /\ ~running /\ attempt = "none")

\* The entity has the current value, or the next flush brings it.
Shows(k) == shown[k] = cache[k] \/ (pending[k] # Unsent /\ pending[k] = cache[k])

\* What a charger sent while nobody was subscribed comes again with its status,
\* and until then nobody is told that it is up.
Waits(k) ==
  /\ lastAvailable = "up" => \E c \in Calls : call[c] \in Closed
  /\ \A c \in Calls : call[c] # "opened"
  /\ connected \/ attempt = "trying" => ~initialized /\ k \notin told

CatchUpPart == closing = "none" => \A k \in present : Shows(k) \/ Waits(k)

\* What holds beside Inv when calls take their turns.
InTurnInv ==
  /\ CallerPart /\ QuietPart /\ CatchUpPart
  /\ ~updateInterval => pending = Nothing

-----------------------------------------------------------------------------
(* Action properties. *)

\* Before entities are told that the charger is back they have every value that
\* arrived up to then, held back or not (the comment in _update_availability).
ValuesBeforeAnnouncement ==
  [][ lastAvailable # "up" /\ lastAvailable' = "up" /\ ~tornDown /\ closing = "none" =>
      \A k \in present : shown'[k] \in {cache[k], cache'[k]} ]_vars

\* A reconnect between two checks goes unnoticed (README, How data updates):
\* nothing but an outage or a tear-down takes entities down.
OutageTakesDown ==
  [][ lastAvailable = "up" /\ lastAvailable' = "down" => ~connected \/ tornDown ]_vars

\* When the connection is still down at a check, every entity goes unavailable
\* (README, How data updates).
\* The code does not keep this: see the README.
CheckTakesDown == [][CheckAvailability /\ ~connected => shownAvailable' = {}]_vars

\* A shutdown is for good: a reconnect under way loses its attempt to the
\* close, a later one is refused (the docstring of async_shutdown).
\* The code does not keep this: see the README.
ShutdownIsForGood == phase = "gone" => ~running /\ ~connected /\ attempt = "none"

-----------------------------------------------------------------------------
(* Liveness. *)

\* Whoever tears the hub down, the entities hear of it: no timer is left to tell
\* them later (the comment in async_disconnect).
TearDownIsTold == tornDown ~> lastAvailable = "down" \/ ~tornDown

\* A charger that stays reachable is shown as available by every entity.
RecoveryIsShown ==
  <>[](subscribed /\ connected /\ initialized) => <>[](shownAvailable = present)
=============================================================================
