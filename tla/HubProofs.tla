----------------------------- MODULE HubProofs -----------------------------
(***************************************************************************)
(* Proofs about Hub, for any properties, values and number of services:    *)
(* Inv is inductive, and LatestIsBuffered, IssueMeansDown and GoneIsSilent *)
(* follow from it, and with them OutageTakesDown.  These theorems are      *)
(* about Spec: they hold for a disconnect in any place too.  What entities *)
(* show is proved for InTurnSpec.                                          *)
(***************************************************************************)
EXTENDS Hub, TLAPS

USE EntryAssumption, UnsentAssumption
USE DEF Calls, Phases, Refusals, Final, OwnIssues, CallStates, Closed, Nothing,
        clientVars, flagVars, stateVars, entryVars

\* The type of what the client keeps, of the hub's flags and of the calls.
ControlTypes ==
  /\ connected \in BOOLEAN /\ initialized \in BOOLEAN
  /\ running \in BOOLEAN /\ ended \in BOOLEAN
  /\ refusal \in Refusals
  /\ told \subseteq Keys
  /\ attempt \in {"none", "start", "trying"}
  /\ closing \in {"none", "start", "shutting"}
  /\ tornDown \in BOOLEAN /\ retired \in BOOLEAN /\ subscribed \in BOOLEAN
  /\ updateInterval \in BOOLEAN
  /\ phase \in Phases
  /\ call \in [Calls -> CallStates]

\* The type of the readings and of what the entities show of them.
StateTypes ==
  /\ cache \in Readings
  /\ lastAvailable \in {"unknown", "up", "down"}
  /\ pending \in Readings
  /\ issues \subseteq OwnIssues \cup {"reauth"}
  /\ present \subseteq Keys
  /\ shown \in Readings
  /\ shownAvailable \subseteq present

LEMMA TypesSplit == TypeOK <=> ControlTypes /\ StateTypes
BY DEF TypeOK, ControlTypes, StateTypes

\* The properties are conjuncts of Inv: the rest of the module uses it in parts.
LEMMA InvSplit ==
  Inv <=> /\ ControlTypes /\ StateTypes
          /\ EntryPart /\ DispatchPart /\ RefusalPart /\ ClosedPart
          /\ LatestIsBuffered /\ IssueMeansDown
BY TypesSplit DEF Inv

\* The same for the state after a step.
LEMMA InvJoin ==
  ASSUME ControlTypes', StateTypes', EntryPart', DispatchPart', RefusalPart', ClosedPart',
         LatestIsBuffered', IssueMeansDown'
  PROVE  Inv'
BY DEF Inv, TypeOK, ControlTypes, StateTypes

LEMMA InvInit == Init => Inv
<1>. SUFFICES ASSUME Init PROVE Inv
  OBVIOUS
<1>1. ControlTypes
  BY DEF Init, ControlTypes
<1>2. StateTypes
  BY DEF Init, StateTypes, Readings
<1>3. EntryPart /\ DispatchPart /\ RefusalPart /\ ClosedPart
  BY DEF Init, EntryPart, DispatchPart, RefusalPart, ClosedPart
<1>4. LatestIsBuffered /\ IssueMeansDown
  BY DEF Init, LatestIsBuffered, IssueMeansDown
<1>. QED
  BY <1>1, <1>2, <1>3, <1>4, InvSplit

-----------------------------------------------------------------------------
(* What the operators on readings keep. *)

LEMMA MergedType ==
  ASSUME NEW old \in Readings, NEW newer \in Readings
  PROVE  Merged(old, newer) \in Readings
BY DEF Merged, Readings

LEMMA OnlyType ==
  ASSUME NEW frame \in Readings, NEW k \in Keys
  PROVE  Only(frame, k) \in Readings
BY DEF Only, Readings

LEMMA WithoutType ==
  ASSUME NEW frame \in Readings, NEW k \in Keys
  PROVE  [frame EXCEPT ![k] = Unsent] \in Readings
BY DEF Readings

\* An update keeps the types of the readings, whatever it delivers.
LEMMA UpdateTypes ==
  ASSUME StateTypes, NEW status \in {"up", "down"}, NEW values \in Readings,
         NEW buffer \in Readings, NEW rest \in Readings,
         UpdateAvailability(status, values, buffer, rest), present' = present
  PROVE  /\ lastAvailable' = status
         /\ shown' \in Readings /\ pending' \in Readings
         /\ shownAvailable' \subseteq present
<1>1. Nothing \in Readings
  BY DEF Readings
<1>2. ASSUME NEW v \in Readings PROVE ShownAfter(v) \in Readings
  <2>1. Merged(shown, v) \in Readings
    BY <1>2, MergedType DEF StateTypes
  <2>. QED
    BY <2>1 DEF ShownAfter, StateTypes, Readings
<1>3. shown' \in Readings
  <2>1. Merged(values, buffer) \in Readings
    BY MergedType
  <2>. QED
    BY <1>2, <2>1 DEF UpdateAvailability
<1>4. pending' \in Readings
  <2>1. Merged(buffer, rest) \in Readings /\ Merged(Nothing, rest) \in Readings
    BY <1>1, MergedType
  <2>. QED
    BY <2>1 DEF UpdateAvailability
<1>5. shownAvailable' \subseteq present
  BY DEF UpdateAvailability, AllShownAvailable, ShownAvailableAfter, StateTypes
<1>. QED
  BY <1>3, <1>4, <1>5 DEF UpdateAvailability

\* Available says that the charger is connected, and so that it was not refused.
LEMMA StatusUp == Status \in {"up", "down"} /\ (Status = "up" => connected)
BY DEF Status, Available, Reachable

\* What UpdateAvailability leaves in the buffer was there before it.
LEMMA PendingAfter ==
  ASSUME NEW status, NEW values, NEW buffer \in Readings, NEW rest \in Readings,
         UpdateAvailability(status, values, buffer, rest)
  PROVE  \A k \in Keys : pending'[k] # Unsent =>
           pending'[k] = IF rest[k] # Unsent THEN rest[k] ELSE buffer[k]
BY DEF UpdateAvailability, Merged, Readings

-----------------------------------------------------------------------------
(* The hub's own steps. *)

\* A step of the hub that updates by `status` and delivers no reading beyond
\* those it held back.
LEMMA UpdateKeeps ==
  ASSUME Inv, NEW status \in {"up", "down"},
         UpdateAvailability(status, Nothing, pending, Nothing),
         cache' = cache, present' = present
  PROVE  /\ lastAvailable' = status
         /\ shown' \in Readings /\ pending' \in Readings /\ shownAvailable' \subseteq present
         /\ LatestIsBuffered'
         /\ pending = Nothing => pending' = Nothing
<1>. USE InvSplit
<1>1. Nothing \in Readings /\ pending \in Readings
  BY DEF Readings, StateTypes
<1>2. lastAvailable' = status /\ shown' \in Readings /\ pending' \in Readings
      /\ shownAvailable' \subseteq present
  BY <1>1, UpdateTypes
<1>3. LatestIsBuffered'
  BY <1>1, PendingAfter DEF LatestIsBuffered
<1>4. pending = Nothing => pending' = Nothing
  BY DEF UpdateAvailability, Merged
<1>. QED
  BY <1>2, <1>3, <1>4

\* The flush of the coalescing interval.
LEMMA FlushPendingKeeps == ASSUME Inv, FlushPending PROVE Inv'
<1>. USE InvSplit DEF FlushPending
<1>1. ControlTypes'
  BY DEF ControlTypes
<1>2. StateTypes'
  <2>1. Merged(shown, pending) \in Readings
    BY MergedType DEF StateTypes
  <2>2. shown' \in Readings
    BY <2>1 DEF ShownAfter, StateTypes, Readings
  <2>. QED
    BY <2>2 DEF StateTypes, Readings, ShownAvailableAfter
<1>3. EntryPart' /\ DispatchPart' /\ RefusalPart' /\ ClosedPart'
  BY DEF EntryPart, DispatchPart, RefusalPart, ClosedPart
<1>4. LatestIsBuffered' /\ IssueMeansDown'
  BY DEF LatestIsBuffered, IssueMeansDown
<1>. QED
  BY <1>1, <1>2, <1>3, <1>4, InvJoin

\* The 30-second timer: who is up was not refused, and so leaves no issue.
LEMMA CheckAvailabilityKeeps == ASSUME Inv, CheckAvailability PROVE Inv'
<1>. USE InvSplit DEF CheckAvailability
<1>1. ControlTypes'
  BY DEF ControlTypes
<1>2. /\ lastAvailable' = Status
      /\ shown' \in Readings /\ pending' \in Readings /\ shownAvailable' \subseteq present
      /\ LatestIsBuffered'
      /\ cache' = cache /\ present' = present
  BY UpdateKeeps, StatusUp
<1>3. StateTypes'
  BY <1>2, StatusUp DEF StateTypes, IssuesAfter, Reported
<1>4. EntryPart' /\ DispatchPart' /\ RefusalPart' /\ ClosedPart'
  BY DEF EntryPart, DispatchPart, RefusalPart, ClosedPart
<1>5. IssueMeansDown'
  <2>1. CASE Status = "up"
    <3>1. Reported = {}
      BY <2>1, StatusUp DEF Reported, RefusalPart
    <3>. QED
      BY <2>1, <3>1 DEF IssuesAfter, IssueMeansDown
  <2>2. CASE Status = "down"
    BY <1>2, <2>2 DEF IssueMeansDown
  <2>. QED
    BY <2>1, <2>2, StatusUp
<1>. QED
  BY <1>1, <1>3, <1>4, <1>5, <1>2, InvJoin

\* A frame: what is still buffered of it is what the cache now holds.
LEMMA ApplyKeeps ==
  ASSUME Inv, NEW frame \in Readings, Apply(frame), present' = present
  PROVE  StateTypes' /\ LatestIsBuffered' /\ IssueMeansDown'
         /\ (~subscribed => UNCHANGED stateVars)
<1>. USE InvSplit
<1>1. Nothing \in Readings /\ pending \in Readings /\ cache \in Readings
  BY DEF Readings, StateTypes
<1>2. cache' \in Readings
  BY <1>1, MergedType DEF Apply
<1>3. CASE ~subscribed /\ UNCHANGED stateVars
  <2>1. pending = Nothing
    BY <1>3 DEF DispatchPart
  <2>. QED
    BY <1>2, <1>3, <2>1 DEF StateTypes, LatestIsBuffered, IssueMeansDown
<1>4. CASE subscribed /\ PushAtOnce(frame) /\ issues' = IssuesAfter(Status)
  <2>1. UpdateAvailability(Status, frame, Nothing, Nothing)
    BY <1>4 DEF PushAtOnce
  <2>2. lastAvailable' = Status /\ shown' \in Readings /\ pending' \in Readings
        /\ shownAvailable' \subseteq present
    BY <1>1, <2>1, StatusUp, UpdateTypes
  <2>3. LatestIsBuffered'
    BY <1>1, <2>1, PendingAfter DEF LatestIsBuffered
  <2>. QED
    BY <1>2, <1>4, <2>2, <2>3, StatusUp DEF StateTypes, IssuesAfter, IssueMeansDown
<1>5. CASE subscribed /\ PushBuffered(frame) /\ issues' = IssuesAfter(Status)
  <2>1. PICK k \in Keys : UpdateAvailability(Status, Nothing, Merged(pending, Only(frame, k)),
                                             [frame EXCEPT ![k] = Unsent])
    BY <1>5 DEF PushBuffered, Carried
  <2>. DEFINE buffer == Merged(pending, Only(frame, k))
              rest   == [frame EXCEPT ![k] = Unsent]
  <2>2. buffer \in Readings /\ rest \in Readings
    BY <1>1, MergedType, OnlyType, WithoutType
  <2>3. \A j \in Keys : /\ buffer[j] # Unsent /\ rest[j] = Unsent => buffer[j] = cache'[j]
                        /\ rest[j] # Unsent => rest[j] = cache'[j]
    BY <1>1 DEF Apply, Merged, Only, LatestIsBuffered, Readings
  <2>4. UpdateAvailability(Status, Nothing, buffer, rest)
    BY <2>1
  <2>. HIDE DEF buffer, rest
  <2>5. lastAvailable' = Status /\ shown' \in Readings /\ pending' \in Readings
        /\ shownAvailable' \subseteq present
    BY <1>1, <2>2, <2>4, StatusUp, UpdateTypes
  <2>6. LatestIsBuffered'
    BY <2>2, <2>3, <2>4, PendingAfter DEF LatestIsBuffered
  <2>. QED
    BY <1>2, <1>5, <2>5, <2>6, StatusUp DEF StateTypes, IssuesAfter, IssueMeansDown
<1>. QED
  BY <1>3, <1>4, <1>5 DEF Apply

-----------------------------------------------------------------------------
(* The calls, the entry and the client. *)

\* A retired hub is not reconnected: what is torn down for good stays silent.
LEMMA ReconnectKeeps == ASSUME Inv, NEW c \in Services, Reconnect(c) PROVE Inv'
<1>. USE InvSplit DEF Reconnect, Serviceable, MayReconnect, StartDispatch, OpenOrQueue
<1>1. ControlTypes'
  BY DEF ControlTypes
<1>2. StateTypes'
  BY DEF StateTypes
<1>3. EntryPart' /\ DispatchPart' /\ RefusalPart' /\ ClosedPart'
  BY DEF ControlTypes, EntryPart, DispatchPart, RefusalPart, ClosedPart
<1>4. LatestIsBuffered' /\ IssueMeansDown'
  BY DEF LatestIsBuffered, IssueMeansDown
<1>. QED
  BY <1>1, <1>2, <1>3, <1>4, InvJoin

\* A tear-down drops the buffer with its timer.
LEMMA DisconnectKeeps == ASSUME Inv, NEW c \in Services, Disconnect(c) PROVE Inv'
<1>. USE InvSplit DEF Disconnect, Serviceable, TearDown
<1>1. ControlTypes'
  <2>1. c \in Calls
    OBVIOUS
  <2>2. call' \in [Calls -> CallStates]
    BY <2>1 DEF ControlTypes
  <2>3. closing' \in {"none", "start", "shutting"}
    BY DEF ControlTypes
  <2>4. UNCHANGED <<connected, initialized, refusal, told, running, ended, attempt, retired,
                    updateInterval, phase>>
        /\ tornDown' = TRUE /\ subscribed' = FALSE
    OBVIOUS
  <2>. HIDE DEF Disconnect, Phases, Refusals, CallStates
  <2>. QED
    BY <2>2, <2>3, <2>4 DEF ControlTypes
<1>2. StateTypes'
  BY DEF StateTypes, Readings
<1>3. EntryPart' /\ DispatchPart' /\ RefusalPart' /\ ClosedPart'
  BY DEF ControlTypes, EntryPart, DispatchPart, RefusalPart, ClosedPart
<1>4. LatestIsBuffered' /\ IssueMeansDown'
  BY DEF LatestIsBuffered, IssueMeansDown
<1>. QED
  BY <1>1, <1>2, <1>3, <1>4, InvJoin

\* Only the entry's own connect ends the setup.
LEMMA ConnectReturnsKeeps == ASSUME Inv, NEW c \in Calls, ConnectReturns(c) PROVE Inv'
<1>. USE InvSplit DEF ConnectReturns
<1>1. /\ lastAvailable' = "up"
      /\ shown' \in Readings /\ pending' \in Readings /\ shownAvailable' \subseteq present
      /\ LatestIsBuffered' /\ (pending = Nothing => pending' = Nothing)
  BY UpdateKeeps
<1>2. ControlTypes'
  BY DEF ControlTypes
<1>3. StateTypes'
  BY <1>1 DEF StateTypes, IssuesAfter
<1>4. EntryPart' /\ DispatchPart' /\ RefusalPart' /\ ClosedPart'
  BY <1>1 DEF ControlTypes, EntryPart, DispatchPart, RefusalPart, ClosedPart, IssuesAfter
<1>5. IssueMeansDown'
  BY <1>1 DEF IssueMeansDown, IssuesAfter
<1>. QED
  BY <1>1, <1>2, <1>3, <1>4, <1>5, InvJoin

\* A connect that failed.
LEMMA ConnectRaisesKeeps == ASSUME Inv, NEW c \in Calls, ConnectRaises(c) PROVE Inv'
<1>. USE InvSplit DEF ConnectRaises
<1>1. ControlTypes'
  BY DEF ControlTypes
<1>2. StateTypes'
  BY DEF StateTypes
<1>3. EntryPart' /\ DispatchPart' /\ RefusalPart' /\ ClosedPart'
  BY DEF ControlTypes, EntryPart, DispatchPart, RefusalPart, ClosedPart
<1>4. LatestIsBuffered' /\ IssueMeansDown'
  BY DEF LatestIsBuffered, IssueMeansDown
<1>. QED
  BY <1>1, <1>2, <1>3, <1>4, InvJoin

\* Only the entry's own close ends the unload.
LEMMA DisconnectReturnsKeeps == ASSUME Inv, NEW c \in Calls, DisconnectReturns(c) PROVE Inv'
<1>. USE InvSplit DEF DisconnectReturns, AnnouncedOnTheWayOut
<1>1. /\ lastAvailable' = "down"
      /\ shown' \in Readings /\ pending' \in Readings /\ shownAvailable' \subseteq present
      /\ LatestIsBuffered' /\ (pending = Nothing => pending' = Nothing)
  BY UpdateKeeps
<1>2. ControlTypes'
  BY DEF ControlTypes
<1>3. StateTypes'
  BY <1>1 DEF StateTypes
<1>4. EntryPart' /\ DispatchPart' /\ RefusalPart' /\ ClosedPart'
  BY <1>1 DEF ControlTypes, EntryPart, DispatchPart, RefusalPart, ClosedPart
<1>5. IssueMeansDown'
  BY <1>1 DEF IssueMeansDown
<1>. QED
  BY <1>1, <1>2, <1>3, <1>4, <1>5, InvJoin

\* A cancelled service call leaves the close and the entry as they were.
LEMMA DisconnectCancelledKeeps ==
  ASSUME Inv, NEW c \in Services, DisconnectCancelled(c) PROVE Inv'
<1>. USE InvSplit DEF DisconnectCancelled, AnnouncedOnTheWayOut
<1>1. /\ lastAvailable' = "down"
      /\ shown' \in Readings /\ pending' \in Readings /\ shownAvailable' \subseteq present
      /\ LatestIsBuffered' /\ (pending = Nothing => pending' = Nothing)
  BY UpdateKeeps
<1>2. ControlTypes'
  BY DEF ControlTypes
<1>3. StateTypes'
  BY <1>1 DEF StateTypes
<1>4. EntryPart' /\ DispatchPart' /\ RefusalPart' /\ ClosedPart'
  BY <1>1 DEF ControlTypes, EntryPart, DispatchPart, RefusalPart, ClosedPart
<1>5. IssueMeansDown'
  BY <1>1 DEF IssueMeansDown
<1>. QED
  BY <1>1, <1>2, <1>3, <1>4, <1>5, InvJoin

\* The entry's own call never waits for a close.
LEMMA UnqueueKeeps == ASSUME Inv, NEW c \in Calls, Unqueue(c) PROVE Inv'
<1>. USE InvSplit DEF Unqueue, OpenOrQueue
<1>1. ControlTypes'
  BY DEF ControlTypes
<1>2. StateTypes'
  BY DEF StateTypes
<1>3. EntryPart' /\ DispatchPart' /\ RefusalPart' /\ ClosedPart'
  BY DEF ControlTypes, EntryPart, DispatchPart, RefusalPart, ClosedPart
<1>4. LatestIsBuffered' /\ IssueMeansDown'
  BY DEF LatestIsBuffered, IssueMeansDown
<1>. QED
  BY <1>1, <1>2, <1>3, <1>4, InvJoin

\* Dispatch starts with an empty buffer.
LEMMA FinishSetupKeeps == ASSUME Inv, FinishSetup PROVE Inv'
<1>. USE InvSplit DEF FinishSetup, StartDispatch
<1>1. ControlTypes'
  BY DEF ControlTypes
<1>2. StateTypes'
  BY DEF StateTypes
<1>3. EntryPart' /\ DispatchPart' /\ RefusalPart' /\ ClosedPart'
  BY DEF ControlTypes, EntryPart, DispatchPart, RefusalPart, ClosedPart
<1>4. LatestIsBuffered' /\ IssueMeansDown'
  BY DEF LatestIsBuffered, IssueMeansDown
<1>. QED
  BY <1>1, <1>2, <1>3, <1>4, InvJoin

\* An entity reads the cache.
LEMMA AddEntityKeeps == ASSUME Inv, NEW k \in Keys, AddEntity(k) PROVE Inv'
<1>. USE InvSplit DEF AddEntity
<1>1. ControlTypes'
  BY DEF ControlTypes
<1>2. StateTypes'
  BY DEF StateTypes, Readings
<1>3. EntryPart' /\ DispatchPart' /\ RefusalPart' /\ ClosedPart'
  BY DEF ControlTypes, EntryPart, DispatchPart, RefusalPart, ClosedPart
<1>4. LatestIsBuffered' /\ IssueMeansDown'
  BY DEF LatestIsBuffered, IssueMeansDown
<1>. QED
  BY <1>1, <1>2, <1>3, <1>4, InvJoin

\* The end of the setup.
LEMMA SetupDoneKeeps == ASSUME Inv, SetupDone PROVE Inv'
<1>. USE InvSplit DEF SetupDone
<1>1. ControlTypes'
  BY DEF ControlTypes
<1>2. StateTypes'
  BY DEF StateTypes
<1>3. EntryPart' /\ DispatchPart' /\ RefusalPart' /\ ClosedPart'
  BY DEF ControlTypes, EntryPart, DispatchPart, RefusalPart, ClosedPart
<1>4. LatestIsBuffered' /\ IssueMeansDown'
  BY DEF LatestIsBuffered, IssueMeansDown
<1>. QED
  BY <1>1, <1>2, <1>3, <1>4, InvJoin

\* An entity takes what it showed with it.
LEMMA RemoveEntityKeeps == ASSUME Inv, NEW k \in Keys, RemoveEntity(k) PROVE Inv'
<1>. USE InvSplit DEF RemoveEntity
<1>1. ControlTypes'
  BY DEF ControlTypes
<1>2. StateTypes'
  BY DEF StateTypes, Readings
<1>3. EntryPart' /\ DispatchPart' /\ RefusalPart' /\ ClosedPart'
  BY DEF ControlTypes, EntryPart, DispatchPart, RefusalPart, ClosedPart
<1>4. LatestIsBuffered' /\ IssueMeansDown'
  BY DEF LatestIsBuffered, IssueMeansDown
<1>. QED
  BY <1>1, <1>2, <1>3, <1>4, InvJoin

\* A shutdown takes the subscription, the buffer and the issues.
LEMMA ShutdownKeeps == ASSUME Inv, Shutdown PROVE Inv'
<1>. USE InvSplit DEF Shutdown, TearDown
<1>1. ControlTypes'
  BY DEF ControlTypes
<1>2. StateTypes'
  BY DEF StateTypes, Readings
<1>3. EntryPart' /\ DispatchPart' /\ RefusalPart' /\ ClosedPart'
  BY DEF ControlTypes, EntryPart, DispatchPart, RefusalPart, ClosedPart
<1>4. LatestIsBuffered' /\ IssueMeansDown'
  BY DEF LatestIsBuffered, IssueMeansDown
<1>. QED
  BY <1>1, <1>2, <1>3, <1>4, InvJoin

\* A chunk of the full status.
LEMMA ChunkKeeps == ASSUME Inv, NEW frame \in Readings, Chunk(frame) PROVE Inv'
<1>. USE InvSplit DEF Chunk, Carried
<1>1. StateTypes' /\ LatestIsBuffered' /\ IssueMeansDown' /\ (~subscribed => UNCHANGED stateVars)
  BY ApplyKeeps
<1>2. ControlTypes'
  BY DEF ControlTypes
<1>3. EntryPart' /\ DispatchPart' /\ RefusalPart' /\ ClosedPart'
  BY <1>1 DEF EntryPart, DispatchPart, RefusalPart, ClosedPart
<1>. QED
  BY <1>1, <1>2, <1>3, InvJoin

\* A change.
LEMMA DeltaKeeps == ASSUME Inv, NEW frame \in Readings, Delta(frame) PROVE Inv'
<1>. USE InvSplit DEF Delta
<1>1. StateTypes' /\ LatestIsBuffered' /\ IssueMeansDown' /\ (~subscribed => UNCHANGED stateVars)
  BY ApplyKeeps
<1>2. ControlTypes'
  BY DEF ControlTypes
<1>3. EntryPart' /\ DispatchPart' /\ RefusalPart' /\ ClosedPart'
  BY <1>1 DEF EntryPart, DispatchPart, RefusalPart, ClosedPart
<1>. QED
  BY <1>1, <1>2, <1>3, InvJoin

\* What the client does beside handling frames reaches the hub later.
LEMMA ClientKeeps ==
  ASSUME Inv,
         \/ AttemptStarts \/ AttemptSucceeds \/ AttemptFails
         \/ ClosingCancels \/ ClosingEnds
         \/ Retries \/ SignIn \/ Lose
         \/ \E kind \in Refusals \ {"none"} : Refuse(kind)
  PROVE  Inv'
<1>. USE InvSplit DEF AttemptStarts, AttemptSucceeds, AttemptFails, ClosingCancels, ClosingEnds,
                      Retries, SignIn, Fresh, Lose, Refuse, Begins, Outcome
<1>1. ControlTypes'
  <2>1. call' \in [Calls -> CallStates]
    BY DEF ControlTypes
  <2>2. /\ connected' \in BOOLEAN /\ initialized' \in BOOLEAN
        /\ running' \in BOOLEAN /\ ended' \in BOOLEAN
        /\ refusal' \in Refusals /\ told' \subseteq Keys
    BY DEF ControlTypes
  <2>3. attempt' \in {"none", "start", "trying"} /\ closing' \in {"none", "start", "shutting"}
    BY DEF ControlTypes
  <2>4. UNCHANGED <<tornDown, retired, subscribed, updateInterval, phase>>
    OBVIOUS
  <2>. HIDE DEF Phases, Refusals, CallStates
  <2>. QED
    BY <2>1, <2>2, <2>3, <2>4, InvSplit DEF ControlTypes
<1>2. UNCHANGED <<flagVars, stateVars, entryVars, cache>>
  OBVIOUS
<1>3. StateTypes' /\ LatestIsBuffered' /\ IssueMeansDown'
  BY <1>2 DEF StateTypes, LatestIsBuffered, IssueMeansDown
<1>4. EntryPart' /\ DispatchPart'
  BY DEF ControlTypes, EntryPart, DispatchPart
<1>5. RefusalPart'
  BY DEF RefusalPart
<1>6. ClosedPart'
  <2>1. CASE AttemptSucceeds \/ AttemptFails \/ ClosingCancels
    BY <2>1 DEF ControlTypes, ClosedPart
  <2>2. CASE ClosingEnds
    BY <2>2 DEF ControlTypes, ClosedPart
  <2>3. CASE SignIn
    BY <2>3 DEF ControlTypes, ClosedPart, LoopIsIdle
  <2>4. CASE AttemptStarts \/ Retries \/ Lose \/ \E kind \in Refusals \ {"none"} : Refuse(kind)
    BY <2>4 DEF ControlTypes, ClosedPart
  <2>. QED
    BY <2>1, <2>2, <2>3, <2>4
<1>. QED
  BY <1>1, <1>3, <1>4, <1>5, <1>6, InvJoin

-----------------------------------------------------------------------------
LEMMA InvStep == ASSUME Inv, [Next]_vars PROVE Inv'
<1>1. CASE ReconnectNext \/ CancelNext \/ Shutdown \/ \E c \in Services : Disconnect(c)
  BY <1>1, ReconnectKeeps, DisconnectCancelledKeeps, ShutdownKeeps, DisconnectKeeps
     DEF ReconnectNext, CancelNext
<1>2. CASE CallNext
  BY <1>2, ConnectReturnsKeeps, ConnectRaisesKeeps, DisconnectReturnsKeeps, UnqueueKeeps DEF CallNext
<1>3. CASE EntryNext
  BY <1>3, FinishSetupKeeps, SetupDoneKeeps, AddEntityKeeps, RemoveEntityKeeps
     DEF EntryNext
<1>4. CASE ClientNext
  BY <1>4, ClientKeeps, ChunkKeeps, DeltaKeeps DEF ClientNext, Frame
<1>5. CASE Timers
  BY <1>5, FlushPendingKeeps, CheckAvailabilityKeeps DEF Timers
<1>6. CASE UNCHANGED vars
  BY <1>6 DEF vars, Inv, TypeOK, EntryPart, DispatchPart, RefusalPart, ClosedPart,
              LatestIsBuffered, IssueMeansDown
<1>. QED
  BY <1>1, <1>2, <1>3, <1>4, <1>5, <1>6 DEF Next

-----------------------------------------------------------------------------
\* The inductive invariant: what is dispatched, held back and reported fits the
\* phase of the entry, in hub.py and __init__.py.
THEOREM Invariance == Spec => []Inv
BY InvInit, InvStep, PTL DEF Spec

\* Every variable of the hub, the entry and the client keeps its type.
THEOREM TypeCorrect == Spec => []TypeOK
<1>1. Inv => TypeOK
  BY DEF Inv
<1>. QED
  BY <1>1, Invariance, PTL

\* _flush_pending delivers the value the charger sent last, never an older one.
THEOREM BufferHoldsTheLatest == Spec => []LatestIsBuffered
<1>1. Inv => LatestIsBuffered
  BY DEF Inv
<1>. QED
  BY <1>1, Invariance, PTL

\* No repair issue stands beside a charger that was announced as up.
THEOREM IssuesMeanDown == Spec => []IssueMeansDown
<1>1. Inv => IssueMeansDown
  BY DEF Inv
<1>. QED
  BY <1>1, Invariance, PTL

LEMMA OutageStep ==
  ASSUME Inv, Next, lastAvailable = "up", lastAvailable' = "down"
  PROVE  ~connected \/ tornDown
<1>. USE InvSplit
<1>1. Status = "down" => ~connected \/ tornDown
  BY DEF Status, Available, Reachable
<1>2. CASE ReconnectNext \/ CancelNext \/ Shutdown \/ \E c \in Services : Disconnect(c)
  BY <1>2 DEF ReconnectNext, Reconnect, CancelNext, DisconnectCancelled, ClosedPart, Shutdown,
              Disconnect, TearDown
<1>3. CASE CallNext
  BY <1>3 DEF CallNext, ConnectReturns, ConnectRaises, DisconnectReturns, Unqueue,
              UpdateAvailability, ClosedPart
<1>4. CASE EntryNext
  BY <1>4 DEF EntryNext, FinishSetup, SetupDone, AddEntity, RemoveEntity
<1>5. CASE ClientNext
  <2>1. ASSUME NEW frame \in Readings, Apply(frame) PROVE ~connected \/ tornDown
    BY <1>1, <2>1 DEF Apply, PushAtOnce, PushBuffered, UpdateAvailability
  <2>. QED
    BY <1>5, <2>1 DEF ClientNext, Frame, Chunk, Delta, AttemptStarts, AttemptSucceeds, AttemptFails,
                      ClosingCancels, ClosingEnds, Retries, SignIn, Lose, Refuse
<1>6. CASE Timers
  BY <1>1, <1>6 DEF Timers, FlushPending, CheckAvailability, UpdateAvailability
<1>. QED
  BY <1>2, <1>3, <1>4, <1>5, <1>6 DEF Next

\* Availability does not flap: a reconnect is no outage to `available`.
THEOREM OnlyOutagesTakeDown == Spec => OutageTakesDown
<1>1. ASSUME Inv, [Next]_vars
      PROVE  [lastAvailable = "up" /\ lastAvailable' = "down" => ~connected \/ tornDown]_vars
  BY <1>1, OutageStep
<1>. QED
  BY <1>1, Invariance, PTL DEF Spec, OutageTakesDown

\* Behind async_shutdown, and behind a connect that failed, the hub dispatches
\* nothing, holds nothing back and has no issue open, whatever services do.
THEOREM GoneHubsAreSilent == Spec => []GoneIsSilent
<1>1. Inv => GoneIsSilent
  BY DEF Inv, DispatchPart, GoneIsSilent
<1>. QED
  BY <1>1, Invariance, PTL

-----------------------------------------------------------------------------
(* What entities show when calls take their turns: under InTurnSpec. *)

LEMMA InTurnInit == Init => InTurnInv
BY DEF Init, InTurnInv, CallerPart, QuietPart, CatchUpPart

LEMMA InTurnStep == ASSUME InTurnNext PROVE Next
BY DEF InTurnNext, Next

LEMMA CallerKeeps ==
  ASSUME Inv, InTurnInv, InTurnNext
  PROVE  CallerPart'
<1>. USE InvSplit DEF InTurnInv, CallerPart
<1>1. ASSUME NEW c \in Services, Reconnect(c) PROVE CallerPart'
  BY <1>1 DEF Reconnect, Serviceable, StartDispatch, OpenOrQueue, ControlTypes
<1>2. ASSUME NEW c \in Calls, ConnectReturns(c) \/ ConnectRaises(c) \/ DisconnectReturns(c) \/ Unqueue(c)
      PROVE  CallerPart'
  <2>1. CASE ConnectReturns(c)
    BY <2>1 DEF ConnectReturns, ControlTypes
  <2>2. CASE ConnectRaises(c)
    BY <2>2 DEF ConnectRaises, ControlTypes
  <2>3. CASE DisconnectReturns(c)
    <3>1. lastAvailable' = "down"
      BY <2>3 DEF DisconnectReturns, AnnouncedOnTheWayOut, UpdateAvailability
    <3>2. /\ \A d \in Calls : (call[d] = "closing" <=> call'[d] = "closing")
                             /\ (call'[d] = "opened" => call[d] = "opened")
                             /\ (call'[d] = "queued" => call[d] = "queued")
          /\ closing' = closing /\ subscribed' = subscribed
      BY <2>3 DEF DisconnectReturns, ControlTypes
    <3>. QED
      BY <3>1, <3>2
  <2>4. CASE Unqueue(c)
    BY <2>4 DEF Unqueue, OpenOrQueue, ControlTypes
  <2>. QED
    BY <1>2, <2>1, <2>2, <2>3, <2>4
<1>3. CASE EntryNext
  BY <1>3 DEF EntryNext, FinishSetup, StartDispatch, SetupDone, AddEntity, RemoveEntity
<1>4. CASE ClientNext
  <2>1. CASE AttemptSucceeds \/ AttemptFails \/ ClosingCancels \/ ClosingEnds
    BY <2>1 DEF AttemptSucceeds, AttemptFails, ClosingCancels, ClosingEnds, Outcome, ControlTypes,
                ClosedPart
  <2>2. CASE Frame
    BY <2>2 DEF Frame, Chunk, Delta, ClosedPart
  <2>3. CASE AttemptStarts \/ Retries \/ SignIn \/ Lose \/ \E kind \in Refusals \ {"none"} : Refuse(kind)
    BY <2>3 DEF AttemptStarts, Retries, SignIn, Lose, Refuse
  <2>. QED
    BY <1>4, <2>1, <2>2, <2>3 DEF ClientNext
<1>5. CASE Timers
  <2>1. CASE FlushPending
    BY <2>1 DEF FlushPending
  <2>2. CASE CheckAvailability
    <3>1. closing = "shutting" => lastAvailable' # "up"
      BY <2>2, StatusUp DEF CheckAvailability, UpdateAvailability, ClosedPart
    <3>. QED
      BY <2>2, <3>1 DEF CheckAvailability
  <2>. QED
    BY <1>5, <2>1, <2>2 DEF Timers
<1>6. CASE InTurn /\ Shutdown
  BY <1>6 DEF InTurn, Shutdown, TearDown, ControlTypes
<1>7. ASSUME NEW c \in Services, InTurn /\ Disconnect(c) PROVE CallerPart'
  BY <1>7 DEF InTurn, Disconnect, TearDown, ControlTypes
<1>8. ASSUME NEW c \in Services, DisconnectCancelled(c) PROVE CallerPart'
  <2>1. lastAvailable' = "down"
    BY <1>8 DEF DisconnectCancelled, UpdateAvailability, AnnouncedOnTheWayOut
  <2>2. closing' = "shutting" /\ subscribed' = subscribed
    BY <1>8 DEF DisconnectCancelled
  <2>3. \A d \in Calls : call'[d] # "opened" /\ (call'[d] = "queued" => call[d] = "queued")
    BY <1>8 DEF DisconnectCancelled, ControlTypes
  <2>. QED
    BY <2>1, <2>2, <2>3
<1>. QED
  BY <1>1, <1>2, <1>3, <1>4, <1>5, <1>6, <1>7, <1>8
     DEF InTurnNext, ReconnectNext, CancelNext, CallNext

LEMMA QuietKeeps ==
  ASSUME Inv, InTurnInv, InTurnNext
  PROVE  QuietPart'
<1>. USE InvSplit DEF InTurnInv, QuietPart
<1>1. ASSUME NEW c \in Services, Reconnect(c) PROVE QuietPart'
  BY <1>1 DEF Reconnect, Serviceable, StartDispatch, OpenOrQueue
<1>2. ASSUME NEW c \in Calls, ConnectReturns(c) \/ ConnectRaises(c) \/ DisconnectReturns(c)
      PROVE  QuietPart'
  BY <1>2 DEF ConnectReturns, ConnectRaises, DisconnectReturns, EntryPart
<1>3. ASSUME NEW c \in Calls, Unqueue(c) PROVE QuietPart'
  BY <1>3 DEF Unqueue, OpenOrQueue, CallerPart
<1>4. CASE EntryNext
  BY <1>4 DEF EntryNext, FinishSetup, StartDispatch, SetupDone, AddEntity, RemoveEntity
<1>5. CASE ClientNext
  BY <1>5 DEF ClientNext, Frame, Chunk, Delta, AttemptStarts, AttemptSucceeds, AttemptFails,
              ClosingCancels, ClosingEnds, ClosedPart, Retries, SignIn, Fresh, Lose, Refuse
<1>6. CASE Timers
  BY <1>6 DEF Timers, FlushPending, CheckAvailability
<1>7. CASE Shutdown \/ \E c \in Services : Disconnect(c)
  BY <1>7 DEF Shutdown, Disconnect, Serviceable, TearDown
<1>8. ASSUME NEW c \in Services, DisconnectCancelled(c) PROVE QuietPart'
  BY <1>8 DEF DisconnectCancelled
<1>. QED
  BY <1>1, <1>2, <1>3, <1>4, <1>5, <1>6, <1>7, <1>8
     DEF InTurnNext, ReconnectNext, CancelNext, CallNext

\* Who pushes at once holds nothing back.
LEMMA NothingHeldKeeps ==
  ASSUME Inv, InTurnInv, InTurnNext
  PROVE  (~updateInterval => pending = Nothing)'
<1>. USE InvSplit DEF InTurnInv
<1>1. updateInterval' = updateInterval
  BY DEF InTurnNext, ReconnectNext, Reconnect, CallNext, ConnectReturns, ConnectRaises,
         DisconnectReturns, CancelNext, DisconnectCancelled, Unqueue, EntryNext, FinishSetup, SetupDone, AddEntity, RemoveEntity,
         ClientNext, Frame, Chunk, Delta, AttemptStarts, AttemptSucceeds, AttemptFails,
         ClosingCancels, ClosingEnds, Retries, SignIn, Lose, Refuse, Timers, FlushPending,
         CheckAvailability, Shutdown, Disconnect
<1>. SUFFICES ASSUME ~updateInterval PROVE pending' = Nothing
  BY <1>1
<1>2. pending = Nothing
  OBVIOUS
<1>3. ASSUME NEW status, NEW values, UpdateAvailability(status, values, Nothing, Nothing)
      PROVE  pending' = Nothing
  BY <1>3 DEF UpdateAvailability, Merged
<1>4. ASSUME NEW frame, Apply(frame) PROVE pending' = Nothing
  BY <1>2, <1>3, <1>4 DEF Apply, PushAtOnce, PushBuffered
<1>. QED
  BY <1>2, <1>3, <1>4
     DEF InTurnNext, ReconnectNext, Reconnect, OpenOrQueue, CallNext, ConnectReturns, ConnectRaises,
         DisconnectReturns, CancelNext, DisconnectCancelled, Unqueue, EntryNext, FinishSetup, SetupDone, AddEntity, RemoveEntity,
         ClientNext, Frame, Chunk, Delta, AttemptStarts, AttemptSucceeds, AttemptFails,
         ClosingCancels, ClosingEnds, Retries, SignIn, Lose, Refuse, Timers, FlushPending,
         CheckAvailability, Shutdown, Disconnect, TearDown

\* An update that delivers no frame shows an entity what it held back, or goes
\* on holding it back.
LEMMA UpdateShows ==
  ASSUME Inv, NEW status \in {"up", "down"},
         UpdateAvailability(status, Nothing, pending, Nothing),
         cache' = cache, NEW k \in Keys, k \in present, Shows(k)
  PROVE  /\ present' = present => Shows(k)'
         /\ lastAvailable # "up" /\ status = "up" => shown'[k] = cache[k]
<1>. USE InvSplit DEF StateTypes, Readings, Shows, Merged, ShownAfter, LatestIsBuffered
<1>1. CASE status # lastAvailable /\ status = "up"
  BY <1>1 DEF UpdateAvailability
<1>2. CASE ~(status # lastAvailable /\ status = "up")
  <2>1. shown' = ShownAfter(Nothing) /\ pending' = Merged(pending, Nothing)
    BY <1>2 DEF UpdateAvailability
  <2>2. shown'[k] = shown[k] /\ pending'[k] = pending[k]
    BY <2>1
  <2>. QED
    BY <1>2, <2>2
<1>. QED
  BY <1>1, <1>2

\* A frame shows every entity the value it carries, at once or with the next
\* flush, and leaves the others what they had.
LEMMA ApplyShows ==
  ASSUME Inv, InTurnInv, NEW frame \in Readings, Apply(frame), subscribed, present' = present,
         NEW k \in Keys, k \in present, Shows(k) \/ frame[k] # Unsent
  PROVE  /\ Shows(k)'
         /\ Shows(k) /\ lastAvailable # "up" /\ lastAvailable' = "up"
              => shown'[k] \in {cache[k], cache'[k]}
<1>. USE InvSplit DEF StateTypes, Readings, Shows, Merged, ShownAfter, LatestIsBuffered
<1>1. cache'[k] = IF frame[k] # Unsent THEN frame[k] ELSE cache[k]
  BY DEF Apply
<1>2. CASE PushAtOnce(frame)
  <2>1. pending = Nothing
    BY <1>2 DEF PushAtOnce, InTurnInv
  <2>2. shown'[k] = IF frame[k] # Unsent THEN frame[k] ELSE shown[k]
    BY <1>2 DEF PushAtOnce, UpdateAvailability
  <2>. QED
    BY <1>1, <2>1, <2>2
<1>3. CASE PushBuffered(frame)
  <2>1. PICK j \in Keys : UpdateAvailability(Status, Nothing, Merged(pending, Only(frame, j)),
                                             [frame EXCEPT ![j] = Unsent])
    BY <1>3 DEF PushBuffered, Carried
  <2>. DEFINE buffer == Merged(pending, Only(frame, j))
              rest   == [frame EXCEPT ![j] = Unsent]
  <2>2. /\ buffer[k] = IF k = j /\ frame[k] # Unsent THEN frame[k] ELSE pending[k]
        /\ rest[k] = IF k = j THEN Unsent ELSE frame[k]
    BY DEF Only
  <2>3. UpdateAvailability(Status, Nothing, buffer, rest)
    BY <2>1
  <2>. HIDE DEF buffer, rest
  <2>4. CASE Status # lastAvailable /\ Status = "up"
    <3>1. /\ shown'[k] = IF buffer[k] # Unsent THEN buffer[k] ELSE shown[k]
          /\ pending'[k] = rest[k]
      BY <2>3, <2>4 DEF UpdateAvailability
    <3>. QED
      BY <1>1, <2>2, <3>1
  <2>5. CASE ~(Status # lastAvailable /\ Status = "up")
    <3>1. /\ shown'[k] = shown[k] /\ lastAvailable' = Status
          /\ pending'[k] = IF rest[k] # Unsent THEN rest[k] ELSE buffer[k]
      BY <2>3, <2>5 DEF UpdateAvailability
    <3>. QED
      BY <1>1, <2>2, <2>5, <3>1
  <2>. QED
    BY <2>4, <2>5
<1>. QED
  BY <1>2, <1>3 DEF Apply

\* Who waits is not announced as up by what the hub reads of the client.
LEMMA WaitsIsDown ==
  ASSUME Inv, NEW k, Waits(k)
  PROVE  Status = "down" /\ (connected => lastAvailable # "up")
BY InvSplit DEF ClosedPart, Waits, Status, Available, Reachable

LEMMA CatchUpKeeps ==
  ASSUME Inv, InTurnInv, InTurnNext
  PROVE  CatchUpPart'
<1>. USE InvSplit DEF InTurnInv
<1>. SUFFICES ASSUME closing' = "none", NEW k \in present' PROVE Shows(k)' \/ Waits(k)'
  BY DEF CatchUpPart
<1>0. k \in Keys
  <2>1. Inv'
    BY InTurnStep, InvStep
  <2>. QED
    BY <2>1 DEF Inv, TypeOK
<1>1. ASSUME closing = "none", k \in present PROVE Shows(k) \/ Waits(k)
  BY <1>1 DEF CatchUpPart
<1>2. ASSUME NEW c \in Services, Reconnect(c) PROVE Shows(k)' \/ Waits(k)'
  BY <1>1, <1>2 DEF Reconnect, Serviceable, OpenOrQueue, Shows, Waits, ControlTypes
<1>3. ASSUME NEW c \in Calls, ConnectReturns(c) PROVE Shows(k)' \/ Waits(k)'
  <2>1. Shows(k)
    BY <1>1, <1>3 DEF ConnectReturns, Waits
  <2>. QED
    BY <1>0, <1>3, <2>1, UpdateShows DEF ConnectReturns
<1>4. ASSUME NEW c \in Calls, ConnectRaises(c) \/ Unqueue(c) PROVE Shows(k)' \/ Waits(k)'
  BY <1>1, <1>4 DEF ConnectRaises, Unqueue, OpenOrQueue, Shows, Waits, ControlTypes
<1>5. ASSUME NEW c \in Calls, DisconnectReturns(c) PROVE Shows(k)' \/ Waits(k)'
  <2>1. /\ UpdateAvailability("down", Nothing, pending, Nothing)
        /\ cache' = cache /\ present' = present /\ closing' = closing
        /\ UNCHANGED <<connected, attempt, initialized, told>>
    BY <1>5 DEF DisconnectReturns, AnnouncedOnTheWayOut
  <2>2. CASE Shows(k)
    BY <1>0, <2>1, <2>2, UpdateShows
  <2>3. CASE Waits(k)
    <3>1. lastAvailable' = "down"
      BY <2>1 DEF UpdateAvailability
    <3>2. \A d \in Calls : call'[d] # "opened"
      BY <1>5, <2>3 DEF DisconnectReturns, Waits, ControlTypes
    <3>. QED
      BY <2>1, <2>3, <3>1, <3>2 DEF Waits
  <2>. QED
    BY <1>1, <2>1, <2>2, <2>3
<1>6. CASE EntryNext
  <2>1. CASE FinishSetup \/ SetupDone
    BY <1>1, <2>1 DEF FinishSetup, SetupDone, Shows, Waits
  <2>2. ASSUME NEW j \in Keys, AddEntity(j) PROVE Shows(k)' \/ Waits(k)'
    BY <1>0, <1>1, <2>2 DEF AddEntity, Shows, Waits, StateTypes, Readings
  <2>3. ASSUME NEW j \in Keys, RemoveEntity(j) PROVE Shows(k)' \/ Waits(k)'
    BY <1>0, <1>1, <2>3 DEF RemoveEntity, Shows, Waits, StateTypes, Readings
  <2>. QED
    BY <1>6, <2>1, <2>2, <2>3 DEF EntryNext
<1>7. ASSUME NEW frame \in Readings, Chunk(frame) \/ Delta(frame) PROVE Shows(k)' \/ Waits(k)'
  <2>1. /\ Apply(frame) /\ connected /\ closing' = closing /\ present' = present
        /\ UNCHANGED <<subscribed, phase, call, attempt, connected>>
    BY <1>7 DEF Chunk, Delta
  <2>2. subscribed
    BY <1>0, <2>1 DEF QuietPart, ControlTypes
  <2>3. CASE Shows(k) \/ frame[k] # Unsent
    BY <1>0, <2>1, <2>2, <2>3, ApplyShows
  <2>4. CASE Waits(k) /\ frame[k] = Unsent
    <3>1. Status = "down" /\ lastAvailable' = Status
      BY <2>1, <2>2, <2>4, WaitsIsDown DEF Apply, PushAtOnce, PushBuffered, UpdateAvailability
    <3>2. k \notin told /\ k \notin Carried(frame) /\ ~initialized
      BY <2>1, <2>4 DEF Carried, Waits
    <3>3. k \notin told' /\ ~initialized'
      <4>1. k \notin told'
        BY <1>7, <3>2 DEF Chunk, Delta
      <4>2. told' # Keys
        BY <1>0, <4>1
      <4>3. ~initialized'
        BY <1>7, <3>2, <4>2, Zenon DEF Chunk, Delta
      <4>. QED
        BY <4>1, <4>3
    <3>. QED
      BY <2>1, <2>4, <3>1, <3>3 DEF Waits
  <2>. QED
    BY <1>1, <2>1, <2>3, <2>4
<1>8. CASE AttemptStarts \/ Retries \/ SignIn \/ Lose \/ \E kind \in Refusals \ {"none"} : Refuse(kind)
  BY <1>1, <1>8 DEF AttemptStarts, Retries, SignIn, Fresh, LoopIsIdle, Lose, Refuse, Begins,
                    Shows, Waits
<1>9. CASE AttemptSucceeds
  BY <1>1, <1>9 DEF AttemptSucceeds, Shows, Waits
<1>10. CASE AttemptFails
  BY <1>1, <1>10 DEF AttemptFails, Outcome, Shows, Waits, ControlTypes
<1>11. CASE ClosingEnds
  <2>1. ~connected /\ attempt = "none"
    BY <1>11 DEF ClosingEnds, ClosedPart
  <2>2. lastAvailable' = "up" => \E c \in Calls : call'[c] \in Closed
    BY <1>11 DEF ClosingEnds, Outcome, CallerPart, ControlTypes
  <2>3. \A c \in Calls : call'[c] # "opened"
    BY <1>11 DEF ClosingEnds, Outcome, ControlTypes
  <2>. QED
    BY <1>11, <2>1, <2>2, <2>3 DEF ClosingEnds, Waits
<1>12. ~ClosingCancels
  BY DEF ClosingCancels
<1>13. CASE FlushPending
  <2>1. UNCHANGED <<cache, lastAvailable, call, connected, attempt, initialized, told, closing, present>>
    BY <1>13 DEF FlushPending
  <2>2. CASE Shows(k)
    BY <1>0, <1>13, <2>1, <2>2
       DEF FlushPending, ShownAfter, Merged, Shows, StateTypes, Readings, LatestIsBuffered
  <2>. QED
    BY <1>1, <2>1, <2>2 DEF Waits
<1>14. CASE CheckAvailability
  <2>1. /\ UpdateAvailability(Status, Nothing, pending, Nothing)
        /\ cache' = cache /\ present' = present /\ closing' = closing
        /\ UNCHANGED <<call, connected, attempt, initialized, told>>
    BY <1>14 DEF CheckAvailability
  <2>2. CASE Shows(k)
    BY <1>0, <2>1, <2>2, StatusUp, UpdateShows
  <2>3. CASE Waits(k)
    BY <2>1, <2>3, WaitsIsDown DEF UpdateAvailability, Waits
  <2>. QED
    BY <1>1, <2>1, <2>2, <2>3
<1>15. ~Shutdown /\ \A c \in Services : ~Disconnect(c) /\ ~DisconnectCancelled(c)
  BY DEF Shutdown, Disconnect, TearDown, DisconnectCancelled
<1>. QED
  BY <1>2, <1>3, <1>4, <1>5, <1>6, <1>7, <1>8, <1>9, <1>10, <1>11, <1>12, <1>13, <1>14, <1>15
     DEF InTurnNext, ReconnectNext, CancelNext, CallNext, ClientNext, Frame, Timers

LEMMA InTurnInvStep ==
  ASSUME Inv, InTurnInv, [InTurnNext]_vars
  PROVE  Inv' /\ InTurnInv'
<1>1. CASE InTurnNext
  BY <1>1, InTurnStep, InvStep, CallerKeeps, QuietKeeps, NothingHeldKeeps, CatchUpKeeps
     DEF InTurnInv
<1>2. CASE UNCHANGED vars
  <2>1. Inv'
    BY <1>2, InvStep
  <2>2. InTurnInv'
    BY <1>2 DEF vars, InTurnInv, CallerPart, QuietPart, CatchUpPart, Shows, Waits
  <2>. QED
    BY <2>1, <2>2
<1>. QED
  BY <1>1, <1>2

\* What entities lack while nobody is subscribed comes again before they are told
\* that the charger is up.
THEOREM InTurnInvariance == InTurnSpec => [](Inv /\ InTurnInv)
<1>1. Init => Inv /\ InTurnInv
  BY InvInit, InTurnInit
<1>2. Inv /\ InTurnInv /\ [InTurnNext]_vars => (Inv /\ InTurnInv)'
  BY InTurnInvStep
<1>. QED
  BY <1>1, <1>2, PTL DEF InTurnSpec

LEMMA InTurnShows == ASSUME Inv, InTurnInv PROVE ShownIsCurrent
<1>. USE InvSplit DEF InTurnInv
<1>. SUFFICES ASSUME Available, closing = "none", NEW k \in present PROVE Shows(k)
  BY DEF ShownIsCurrent, Shows
<1>1. Status = "up"
  BY DEF Status
<1>. QED
  BY <1>1, WaitsIsDown DEF CatchUpPart

\* Through setup, outages, disconnects and reconnects, no entity of a reachable
\* charger shows a value the charger has replaced, unless the next flush mends it.
THEOREM ShownStaysCurrent == InTurnSpec => []ShownIsCurrent
BY InTurnInvariance, InTurnShows, PTL

LEMMA AnnouncementStep ==
  ASSUME Inv, InTurnInv, InTurnNext, lastAvailable # "up", lastAvailable' = "up", closing = "none",
         NEW k \in present
  PROVE  shown'[k] \in {cache[k], cache'[k]}
<1>. USE InvSplit DEF InTurnInv
<1>0. k \in Keys /\ (Shows(k) \/ Waits(k))
  BY DEF StateTypes, CatchUpPart
<1>1. ASSUME NEW c \in Calls, ConnectReturns(c) PROVE shown'[k] \in {cache[k], cache'[k]}
  <2>1. Shows(k)
    BY <1>0, <1>1 DEF ConnectReturns, Waits
  <2>. QED
    BY <1>0, <1>1, <2>1, UpdateShows DEF ConnectReturns
<1>2. ASSUME NEW frame \in Readings, Chunk(frame) \/ Delta(frame)
      PROVE  shown'[k] \in {cache[k], cache'[k]}
  <2>1. Apply(frame) /\ present' = present
    BY <1>2 DEF Chunk, Delta
  <2>2. subscribed /\ lastAvailable' = Status
    BY <2>1 DEF Apply, PushAtOnce, PushBuffered, UpdateAvailability
  <2>3. Shows(k)
    BY <1>0, <2>2, WaitsIsDown
  <2>. QED
    BY <1>0, <2>1, <2>2, <2>3, ApplyShows
<1>3. CASE CheckAvailability
  <2>1. UpdateAvailability(Status, Nothing, pending, Nothing) /\ cache' = cache
    BY <1>3 DEF CheckAvailability
  <2>2. Status = "up"
    BY <2>1 DEF UpdateAvailability
  <2>3. Shows(k)
    BY <1>0, <2>2, WaitsIsDown
  <2>. QED
    BY <1>0, <2>1, <2>2, <2>3, UpdateShows
<1>4. ASSUME NEW c \in Calls, DisconnectReturns(c) PROVE FALSE
  BY <1>4 DEF DisconnectReturns, AnnouncedOnTheWayOut, UpdateAvailability
<1>. QED
  BY <1>1, <1>2, <1>3, <1>4
     DEF InTurnNext, ReconnectNext, Reconnect, OpenOrQueue, CancelNext, DisconnectCancelled,
         CallNext, ConnectRaises, Unqueue, EntryNext, FinishSetup, SetupDone, AddEntity, RemoveEntity, ClientNext, Frame,
         AttemptStarts, AttemptSucceeds, AttemptFails, ClosingCancels, ClosingEnds, Retries,
         SignIn, Lose, Refuse, Timers, FlushPending, Shutdown, Disconnect, TearDown

\* The announcement that the charger is back finds every entity with what arrived
\* up to then, buffered or not.
THEOREM ValuesComeFirst == InTurnSpec => ValuesBeforeAnnouncement
<1>1. ASSUME Inv, InTurnInv, [InTurnNext]_vars
      PROVE  [ lastAvailable # "up" /\ lastAvailable' = "up" /\ ~tornDown /\ closing = "none" =>
                 \A k \in present : shown'[k] \in {cache[k], cache'[k]} ]_vars
  BY <1>1, AnnouncementStep
<1>. QED
  BY <1>1, InTurnInvariance, PTL DEF InTurnSpec, ValuesBeforeAnnouncement

=============================================================================
