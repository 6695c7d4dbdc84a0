------------------------------ MODULE Firmware ------------------------------
(***************************************************************************)
(* One hub while the charger's firmware changes: install_firmware_update   *)
(* (api/client.py), which waits for the reboot and reconnects against a    *)
(* deadline, and _reload_when_firmware_changes (__init__.py), which        *)
(* rebuilds the entry when another version reports.  Both share the        *)
(* connection with its own retries, with the disconnect and reconnect      *)
(* services and with the end of the entry.                                 *)
(*                                                                         *)
(* The connection is what ConnectionPromise says of it, which Connection   *)
(* implements.  The story begins where setup starts to forward the         *)
(* platforms, and ends with the entry; a new setup is another story.       *)
(*                                                                         *)
(* A definition whose name ends in Faulty is a slip the code does not      *)
(* make; nothing uses it but the tests of the properties.                  *)
(***************************************************************************)
EXTENDS Naturals

CONSTANTS
  MaxVersion,     \* bound: versions of the firmware
  MaxDisconnects  \* bound: calls of the disconnect service

ASSUME BoundsAssumption == MaxVersion \in Nat \ {0} /\ MaxDisconnects \in Nat

VARIABLES
  phase, connected, refusal, trying,  \* the connection, see ConnectionPromise
  initialized,   \* charger.properties_initialized
  told,          \* whether the version came on this socket
  closeCount,    \* Connection.close_count
  running,       \* external: the version the charger runs
  firmware,      \* charger.firmware
  pending,       \* whether a push of "fwv" waits in the hub's buffer
  subscribed,    \* whether the hub dispatches pushes
  retired,       \* hub._retired
  reconnecting,  \* async_reconnect: "none", "queued" behind a close, "opening"
  install,       \* install_firmware_update: where it waits, see Installs
  closes,        \* its count of closes when it started
  overdue,       \* whether its deadline passed
  known,         \* the version _on_firmware compares with
  knew,          \* history: whether setup found a version to compare with
  waiting,       \* its flag
  poll,          \* _reload_once_settled: "none", "polling", "scheduled"
  entry,         \* how far the entry is
  present,       \* whether the update entity is added
  built          \* the versions the platforms filtered their tables by

connection == <<phase, connected, refusal, trying>>
charger    == <<running, initialized, told, firmware>>
hub        == <<closeCount, subscribed, retired, reconnecting>>
update     == <<install, closes, overdue>>
reload     == <<known, knew, waiting, poll>>
entryVars  == <<entry, present, built>>
vars == <<connection, charger, hub, pending, update, reload, entryVars>>

Promise == INSTANCE ConnectionPromise

\* A charger does not go back to a version it ran before.
Versions  == 1 .. MaxVersion
NoVersion == 0
\* "writing" until the command is answered, "rebooting" until the disconnect,
\* "connecting" in connect(), "pausing" before the next try.
Installs  == {"idle", "writing", "rebooting", "connecting", "pausing"}

ConnectionTypes ==
  /\ phase \in {"running", "stopping", "stopped"} /\ connected \in BOOLEAN
  /\ refusal \in {"none", "transient", "final"} /\ trying \in BOOLEAN
  /\ running \in Versions /\ initialized \in BOOLEAN /\ told \in BOOLEAN
  /\ firmware \in Versions \cup {NoVersion}

HubTypes ==
  /\ closeCount \in Nat /\ subscribed \in BOOLEAN /\ retired \in BOOLEAN
  /\ reconnecting \in {"none", "queued", "opening"} /\ pending \in BOOLEAN
  /\ install \in Installs /\ closes \in Nat /\ overdue \in BOOLEAN

EntryTypes ==
  /\ known \in Versions \cup {NoVersion} /\ knew \in BOOLEAN /\ waiting \in BOOLEAN
  /\ poll \in {"none", "polling", "scheduled"}
  /\ entry \in {"forwarding", "loaded", "unloading", "closing", "gone"}
  /\ present \in BOOLEAN /\ built \subseteq Versions \cup {NoVersion}

TypeOK == ConnectionTypes /\ HubTypes /\ EntryTypes

\* start_dispatch and _reload_when_firmware_changes just ran.  A status that
\* ended early carried no version.
Init ==
  /\ phase = "running" /\ connected = TRUE /\ refusal = "none" /\ trying = FALSE
  /\ running = 1 /\ initialized = TRUE
  /\ told \in BOOLEAN /\ firmware = (IF told THEN 1 ELSE NoVersion)
  /\ closeCount = 0 /\ subscribed = TRUE /\ retired = FALSE /\ reconnecting = "none"
  /\ pending = FALSE
  /\ install = "idle" /\ closes = 0 /\ overdue = FALSE
  /\ known = firmware /\ knew = told /\ waiting = FALSE /\ poll = "none"
  /\ entry = "forwarding" /\ present = FALSE /\ built = {}

-----------------------------------------------------------------------------
(* The connection and the charger. *)

\* Whoever waited for the disconnect runs before the network is looked at again.
Quiet == ~(install = "rebooting" /\ ~connected)

\* begin(): a reader's next try, or an attempt's.
Begins ==
  /\ Quiet /\ ~connected /\ phase = "running"
  /\ connected' = FALSE
  /\ \/ Promise!Retry
     \/ refusal = "none" /\ UNCHANGED connection
  /\ initialized' = FALSE
  /\ UNCHANGED <<running, told, firmware, hub, pending, update, reload, entryVars>>

SignsIn ==
  /\ Quiet /\ ~connected /\ ~initialized
  /\ connected' = TRUE /\ Promise!SignIn
  /\ told' = FALSE
  /\ UNCHANGED <<running, initialized, firmware, hub, pending, update, reload, entryVars>>

\* The client stores the version and pushes it.
Tells ==
  /\ connected
  /\ firmware' = running /\ told' = TRUE
  /\ pending' = (pending \/ subscribed)
  /\ UNCHANGED <<connection, running, initialized, hub, update, reload, entryVars>>

\* The status ends, early perhaps.
Completes ==
  /\ connected /\ ~initialized
  /\ initialized' = TRUE
  /\ UNCHANGED <<connection, running, told, firmware, hub, pending, update, reload, entryVars>>

Drops ==
  /\ connected
  /\ connected' = FALSE /\ Promise!SignOut
  /\ UNCHANGED <<charger, hub, pending, update, reload, entryVars>>

Refuses ==
  /\ Quiet
  /\ connected' = FALSE /\ Promise!Refuse
  /\ UNCHANGED <<charger, hub, pending, update, reload, entryVars>>

\* It restarts into another version, whoever asked for it.
Reboots ==
  /\ running' \in running + 1 .. MaxVersion
  /\ connected' = FALSE /\ Promise!SignOut
  /\ UNCHANGED <<initialized, told, firmware, hub, pending, update, reload, entryVars>>

Closed ==
  /\ connected' = FALSE /\ Promise!Closed
  /\ UNCHANGED <<charger, hub, pending, update, reload, entryVars>>

-----------------------------------------------------------------------------
(* install_firmware_update. *)

\* The entity calls the hub, which flags the installation until it ends.
Installing == install # "idle"

\* Counted before the command goes out.
Install ==
  /\ install = "idle" /\ present
  /\ install' = "writing" /\ closes' = closeCount /\ overdue' = FALSE
  /\ UNCHANGED <<connection, charger, hub, pending, reload, entryVars>>

\* No answer is read once a close stopped the reader.
AcceptedFaulty ==
  /\ install = "writing" /\ connected
  /\ install' = "rebooting"
  /\ UNCHANGED <<connection, charger, hub, pending, closes, overdue, reload, entryVars>>
Accepted ==
  /\ install = "writing" /\ connected /\ phase = "running"
  /\ install' = "rebooting"
  /\ UNCHANGED <<connection, charger, hub, pending, closes, overdue, reload, entryVars>>

WriteFails ==
  /\ install = "writing"
  /\ install' = "idle"
  /\ UNCHANGED <<connection, charger, hub, pending, closes, overdue, reload, entryVars>>

\* The head of the loop in _reconnect_before.  Nothing here waits for a close:
\* none is under way, or it would have been counted.
MayTry == ~overdue /\ closeCount = closes

Tries ==
  \/ /\ MayTry
     /\ install' = "connecting"
     /\ phase' = "running" /\ trying' = TRUE
     /\ UNCHANGED <<connected, refusal>>
  \/ /\ ~MayTry
     /\ install' = "idle"
     /\ UNCHANGED connection

\* The wait for the disconnect ends, with the disconnect or at the deadline.
RebootedFaulty ==
  /\ install = "rebooting" /\ ~connected
  /\ Tries
  /\ UNCHANGED <<charger, hub, pending, closes, overdue, reload, entryVars>>
Rebooted ==
  /\ install = "rebooting"
  /\ \/ ~connected /\ Tries
     \/ connected /\ overdue /\ install' = "idle" /\ UNCHANGED connection
  /\ UNCHANGED <<charger, hub, pending, closes, overdue, reload, entryVars>>

Paused ==
  /\ install = "pausing"
  /\ Tries
  /\ UNCHANGED <<charger, hub, pending, closes, overdue, reload, entryVars>>

\* The reader goes on by itself (resume_reconnecting) where the update gives up.
AfterFailure(reason) == IF reason = "final" \/ overdue THEN "idle" ELSE "pausing"

Deadline ==
  /\ install \in {"rebooting", "connecting", "pausing"} /\ ~overdue
  /\ overdue' = TRUE
  /\ UNCHANGED <<connection, charger, hub, pending, install, closes, reload, entryVars>>

\* Home Assistant cancels the call of the service.
CancelInstall ==
  /\ Installing /\ install # "connecting"
  /\ install' = "idle"
  /\ UNCHANGED <<connection, charger, hub, pending, closes, overdue, reload, entryVars>>

-----------------------------------------------------------------------------
(* An attempt ends for everyone who awaits it. *)

\* connect() returns with a complete status.  The deadline makes a timeout of
\* it all the same.
AttemptSucceeds ==
  /\ trying /\ phase = "running" /\ initialized /\ refusal = "none"
  /\ UNCHANGED connected /\ trying' = FALSE /\ Promise!OpenEnds
  /\ install' = IF install = "connecting" THEN (IF overdue THEN AfterFailure("none") ELSE "idle")
                ELSE install
  /\ reconnecting' = IF reconnecting = "opening" THEN "none" ELSE reconnecting
  /\ UNCHANGED <<charger, closeCount, subscribed, retired, pending, closes, overdue,
                 reload, entryVars>>

\* It fails, times out, or is cancelled with its caller or by a close.
AttemptFails ==
  /\ trying
  /\ connected' = FALSE /\ trying' = FALSE /\ Promise!OpenEnds
  /\ \/ install' = IF install = "connecting" THEN AfterFailure(refusal) ELSE install
     \/ install = "connecting" /\ install' = "idle"
  /\ reconnecting' = IF reconnecting = "opening" THEN "none" ELSE reconnecting
  /\ UNCHANGED <<charger, closeCount, subscribed, retired, pending, closes, overdue,
                 reload, entryVars>>

-----------------------------------------------------------------------------
(* The services and the end of the entry. *)

Reconnect ==
  /\ entry # "gone" /\ ~retired /\ reconnecting = "none"
  /\ subscribed' = TRUE
  /\ \/ phase = "stopping" /\ reconnecting' = "queued" /\ UNCHANGED connection
     \/ Promise!Open /\ reconnecting' = "opening"
  /\ UNCHANGED <<charger, closeCount, retired, pending, update, reload, entryVars>>

QueuedOpens ==
  /\ reconnecting = "queued" /\ phase # "stopping"
  /\ Promise!Open /\ reconnecting' = "opening"
  /\ UNCHANGED <<charger, closeCount, subscribed, retired, pending, update, reload, entryVars>>

\* async_disconnect up to its await: the buffer is dropped with the subscription.
\* Nobody tears the hub down while a reconnect is queued; what becomes of it
\* otherwise is the subject of ShutdownIsForGood in Hub.
TearDown ==
  /\ reconnecting # "queued"
  /\ subscribed' = FALSE /\ pending' = FALSE
  /\ closeCount' = closeCount + 1
  /\ Promise!Close

Disconnect ==
  /\ entry # "gone" /\ closeCount < MaxDisconnects
  /\ TearDown
  /\ UNCHANGED <<charger, retired, reconnecting, update, reload, entryVars>>

\* A platform filters its table; one of them has the update entity.
Forward ==
  /\ entry = "forwarding"
  /\ built' = built \cup {firmware}
  /\ present' \in {present, TRUE}
  /\ UNCHANGED <<connection, charger, hub, pending, update, reload, entry>>

SetupDone ==
  /\ entry = "forwarding" /\ present
  /\ entry' = "loaded"
  /\ UNCHANGED <<connection, charger, hub, pending, update, reload, present, built>>

\* The platforms are unloaded before the hub is shut down.  The entry's lock is
\* first come, first served.
Unload ==
  /\ entry = "loaded" /\ poll # "scheduled"
  /\ entry' = "unloading" /\ present' = FALSE
  /\ UNCHANGED <<connection, charger, hub, pending, update, reload, built>>

\* async_shutdown, behind an unload or a setup that failed.
Shutdown ==
  /\ entry \in {"forwarding", "unloading"}
  /\ entry' = "closing" /\ present' = FALSE
  /\ retired' = TRUE
  /\ TearDown
  /\ UNCHANGED <<charger, reconnecting, update, reload, built>>

\* The entry's background tasks end with it.
Gone ==
  /\ entry = "closing" /\ phase # "stopping"
  /\ entry' = "gone"
  /\ poll' = IF poll = "polling" THEN "none" ELSE poll
  /\ UNCHANGED <<connection, charger, hub, pending, update, known, knew, waiting, present, built>>

-----------------------------------------------------------------------------
(* _reload_when_firmware_changes. *)

Settled == connected /\ initialized /\ ~Installing

\* _on_firmware, called by the dispatcher with the push or behind the buffer.
DeliverFaulty ==
  /\ pending /\ subscribed
  /\ pending' = FALSE
  /\ known' = firmware
  /\ LET rebuild == firmware # known /\ known # NoVersion /\ ~waiting IN
       /\ waiting' = (waiting \/ rebuild)
       /\ poll' = IF rebuild /\ ~Installing THEN "polling" ELSE poll
  /\ UNCHANGED <<connection, charger, hub, update, knew, entryVars>>
Deliver ==
  /\ pending /\ subscribed
  /\ pending' = FALSE
  /\ known' = firmware
  /\ LET rebuild == firmware # known /\ known # NoVersion /\ ~waiting IN
       /\ waiting' = (waiting \/ rebuild)
       /\ poll' = IF rebuild THEN "polling" ELSE poll
  /\ UNCHANGED <<connection, charger, hub, update, knew, entryVars>>

\* The reload starts at once, unless setup still holds the entry's lock.
ScheduleFaulty ==
  /\ poll = "polling" /\ Settled
  /\ IF entry = "loaded" THEN poll' = "scheduled" /\ entry' = "unloading" /\ present' = FALSE
     ELSE poll' = "none" /\ UNCHANGED <<entry, present>>
  /\ UNCHANGED <<connection, charger, hub, pending, update, known, knew, waiting, built>>

Schedule ==
  /\ poll = "polling" /\ Settled
  /\ poll' = "scheduled"
  /\ IF entry = "loaded" THEN entry' = "unloading" /\ present' = FALSE
     ELSE UNCHANGED <<entry, present>>
  /\ UNCHANGED <<connection, charger, hub, pending, update, known, knew, waiting, built>>

ReloadStarts ==
  /\ poll = "scheduled" /\ entry = "loaded"
  /\ entry' = "unloading" /\ present' = FALSE
  /\ UNCHANGED <<connection, charger, hub, pending, update, reload, built>>

-----------------------------------------------------------------------------
Network == Begins \/ SignsIn \/ Tells \/ Completes \/ Drops \/ Refuses \/ Reboots

InstallNext ==
  \/ Install \/ Accepted \/ WriteFails \/ Rebooted \/ Paused \/ Deadline \/ CancelInstall

EntryNext ==
  \/ Reconnect \/ QueuedOpens \/ Disconnect \/ Closed
  \/ Forward \/ SetupDone \/ Unload \/ Shutdown \/ Gone
  \/ Deliver \/ Schedule \/ ReloadStarts

\* The end of the entry is where this story may stop.
Over == entry = "gone" /\ install = "idle" /\ reconnecting = "none" /\ UNCHANGED vars

Next ==
  \/ Network \/ InstallNext \/ AttemptSucceeds \/ AttemptFails \/ EntryNext \/ Over

Spec == Init /\ [][Next]_vars
-----------------------------------------------------------------------------
(* Safety. *)

\* An update that waits for the charger counts as one nobody closed under
\* only while nobody did: whatever closed the connection since its command
\* went out moved the count.
UncountedIsOpen ==
  install \in {"rebooting", "connecting", "pausing"} /\ closeCount = closes
    => phase = "running"

\* A version the charger reported on this very socket is the one the reload
\* compares with, or on its way to it, over disconnects, reconnects and a
\* dropped buffer.
VersionNoticed ==
  subscribed /\ phase = "running" /\ connected /\ told => known = firmware \/ pending

\* Entities built for a version the charger no longer reports do not stay:
\* the reload is on its way.  An entry that was set up without a version is
\* excepted, as in _on_firmware: it has none to compare with.
StaleIsRebuilt ==
  /\ entry \in {"forwarding", "loaded"} /\ subscribed /\ phase = "running" /\ connected /\ told
  /\ knew /\ \E v \in built : v # firmware
  => pending \/ poll # "none"

\* What the hub knows of versions only grows, and the count of closes too.
GrowthPart ==
  /\ known <= firmware /\ firmware <= running
  /\ closes <= closeCount

\* Nothing but a reconnect, which subscribes first, opens what was closed.
OpenPart ==
  /\ phase = "running" => subscribed
  /\ reconnecting = "queued" => subscribed
  /\ phase = "stopped" => ~connected

\* Whatever version was noticed and is not in all the tables started the reload.
ReloadPart ==
  /\ knew => known # NoVersion
  /\ waiting => poll # "none" \/ entry = "gone"
  /\ knew /\ poll = "none" /\ entry # "gone" /\ known = firmware => built \subseteq {firmware}

\* The inductive invariant behind the theorems of FirmwareProofs.
Inv ==
  TypeOK /\ GrowthPart /\ OpenPart /\ ReloadPart /\ UncountedIsOpen /\ VersionNoticed

-----------------------------------------------------------------------------
(* Action properties. *)

\* Only a user brings a closed connection back, never an update that still
\* waits for its reboot (the comment in _reconnect_before).
ClosedStaysClosed ==
  [][phase # "running" /\ phase' = "running"
       => reconnecting # "opening" /\ reconnecting' = "opening"]_vars

\* All of them together use the connection as its promise allows.
PromiseKept == [][Promise!Next]_connection

\* The reload does not close the connection an install is waiting on (the
\* docstring of _reload_when_firmware_changes).  The code does not keep this.
InstallIsSpared == [][ReloadStarts => ~Installing]_vars

-----------------------------------------------------------------------------
(* Liveness. *)

\* The loop runs what is ready, timers fire and attempts end (OpenAnswered of
\* Connection), as do commands (CommandReturns of Commands) and closes
\* (CloseCompletes of Connection).
Fairness ==
  /\ WF_vars(Deliver) /\ WF_vars(Schedule) /\ WF_vars(ReloadStarts)
  /\ WF_vars(WriteFails) /\ WF_vars(Rebooted) /\ WF_vars(Paused) /\ WF_vars(Deadline)
  /\ WF_vars(AttemptFails) /\ WF_vars(Closed) /\ WF_vars(QueuedOpens)
  /\ WF_vars(Forward) /\ WF_vars(SetupDone) /\ WF_vars(Tells)

LiveSpec == Spec /\ Fairness

\* An update ends, with its deadline at the latest, and with it the flag that
\* holds up the reload.
InstallEnds == Installing ~> ~Installing

\* With a charger that stays connected and no further update, entities of an
\* old version make way for those of the new one.
Stale == entry = "loaded" /\ knew /\ \E v \in built : v # firmware

Rebuilt ==
  <>[](connected /\ initialized /\ told /\ phase = "running" /\ subscribed /\ ~Installing)
    => (Stale ~> entry # "loaded")
=============================================================================
