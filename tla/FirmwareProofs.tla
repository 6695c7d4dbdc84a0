--------------------------- MODULE FirmwareProofs ---------------------------
(***************************************************************************)
(* Proofs about Firmware, for any number of versions and disconnects: Inv  *)
(* is inductive, and what the update and the reload promise follows.       *)
(***************************************************************************)
EXTENDS Firmware, TLAPS

USE BoundsAssumption
USE DEF connection, charger, hub, update, reload, entryVars, Versions, NoVersion, Installs

-----------------------------------------------------------------------------
(* The inductive invariant: Init establishes it, each action keeps it. *)

LEMMA InvInit == Init => Inv
<1>. SUFFICES ASSUME Init PROVE Inv
  OBVIOUS
<1>. USE DEF Init
<1>1. ConnectionTypes
  <2>1. running \in Versions /\ firmware \in Versions \cup {NoVersion}
    OBVIOUS
  <2>. QED
    BY <2>1 DEF ConnectionTypes
<1>2. HubTypes
  BY DEF HubTypes
<1>3. EntryTypes
  <2>1. known \in Versions \cup {NoVersion}
    OBVIOUS
  <2>. QED
    BY <2>1 DEF EntryTypes
<1>4. GrowthPart /\ OpenPart /\ UncountedIsOpen /\ VersionNoticed
  BY DEF GrowthPart, OpenPart, UncountedIsOpen, VersionNoticed
<1>5. ReloadPart
  BY DEF ReloadPart
<1>. QED
  BY <1>1, <1>2, <1>3, <1>4, <1>5 DEF Inv, TypeOK

LEMMA BeginsKeeps == ASSUME Inv, Begins PROVE Inv'
<1>. USE DEF Inv, TypeOK, Begins, Promise!Retry
<1>1. ConnectionTypes'
  BY DEF ConnectionTypes
<1>2. HubTypes'
  BY DEF HubTypes
<1>3. EntryTypes'
  BY DEF EntryTypes
<1>4. GrowthPart'
  BY DEF GrowthPart
<1>5. OpenPart'
  BY DEF OpenPart
<1>6. ReloadPart'
  BY DEF ReloadPart
<1>7. UncountedIsOpen'
  BY DEF UncountedIsOpen
<1>8. VersionNoticed'
  BY DEF VersionNoticed
<1>. QED
  BY <1>1, <1>2, <1>3, <1>4, <1>5, <1>6, <1>7, <1>8

LEMMA SignsInKeeps == ASSUME Inv, SignsIn PROVE Inv'
<1>. USE DEF Inv, TypeOK, SignsIn, Promise!SignIn
<1>1. ConnectionTypes'
  BY DEF ConnectionTypes
<1>2. HubTypes'
  BY DEF HubTypes
<1>3. EntryTypes'
  BY DEF EntryTypes
<1>4. GrowthPart'
  BY DEF GrowthPart
<1>5. OpenPart'
  BY DEF OpenPart
<1>6. ReloadPart'
  BY DEF ReloadPart
<1>7. UncountedIsOpen'
  BY DEF UncountedIsOpen
<1>8. VersionNoticed'
  BY DEF VersionNoticed
<1>. QED
  BY <1>1, <1>2, <1>3, <1>4, <1>5, <1>6, <1>7, <1>8

LEMMA TellsKeeps == ASSUME Inv, Tells PROVE Inv'
<1>. USE DEF Inv, TypeOK, Tells
<1>1. ConnectionTypes'
  BY DEF ConnectionTypes
<1>2. HubTypes'
  BY DEF HubTypes
<1>3. EntryTypes'
  BY DEF EntryTypes
<1>4. GrowthPart'
  BY DEF GrowthPart, ConnectionTypes, EntryTypes
<1>5. OpenPart'
  BY DEF OpenPart
<1>6. ReloadPart'
  BY DEF ReloadPart, GrowthPart, ConnectionTypes
<1>7. UncountedIsOpen'
  BY DEF UncountedIsOpen
<1>8. VersionNoticed'
  BY DEF VersionNoticed
<1>. QED
  BY <1>1, <1>2, <1>3, <1>4, <1>5, <1>6, <1>7, <1>8

LEMMA CompletesKeeps == ASSUME Inv, Completes PROVE Inv'
<1>. USE DEF Inv, TypeOK, Completes
<1>1. ConnectionTypes'
  BY DEF ConnectionTypes
<1>2. HubTypes'
  BY DEF HubTypes
<1>3. EntryTypes'
  BY DEF EntryTypes
<1>4. GrowthPart'
  BY DEF GrowthPart
<1>5. OpenPart'
  BY DEF OpenPart
<1>6. ReloadPart'
  BY DEF ReloadPart
<1>7. UncountedIsOpen'
  BY DEF UncountedIsOpen
<1>8. VersionNoticed'
  BY DEF VersionNoticed
<1>. QED
  BY <1>1, <1>2, <1>3, <1>4, <1>5, <1>6, <1>7, <1>8

LEMMA DropsKeeps == ASSUME Inv, Drops PROVE Inv'
<1>. USE DEF Inv, TypeOK, Drops, Promise!SignOut
<1>1. ConnectionTypes'
  BY DEF ConnectionTypes
<1>2. HubTypes'
  BY DEF HubTypes
<1>3. EntryTypes'
  BY DEF EntryTypes
<1>4. GrowthPart'
  BY DEF GrowthPart
<1>5. OpenPart'
  BY DEF OpenPart
<1>6. ReloadPart'
  BY DEF ReloadPart
<1>7. UncountedIsOpen'
  BY DEF UncountedIsOpen
<1>8. VersionNoticed'
  BY DEF VersionNoticed
<1>. QED
  BY <1>1, <1>2, <1>3, <1>4, <1>5, <1>6, <1>7, <1>8

LEMMA RefusesKeeps == ASSUME Inv, Refuses PROVE Inv'
<1>. USE DEF Inv, TypeOK, Refuses, Promise!Refuse
<1>1. ConnectionTypes'
  BY DEF ConnectionTypes
<1>2. HubTypes'
  BY DEF HubTypes
<1>3. EntryTypes'
  BY DEF EntryTypes
<1>4. GrowthPart'
  BY DEF GrowthPart
<1>5. OpenPart'
  BY DEF OpenPart
<1>6. ReloadPart'
  BY DEF ReloadPart
<1>7. UncountedIsOpen'
  BY DEF UncountedIsOpen
<1>8. VersionNoticed'
  BY DEF VersionNoticed
<1>. QED
  BY <1>1, <1>2, <1>3, <1>4, <1>5, <1>6, <1>7, <1>8

LEMMA RebootsKeeps == ASSUME Inv, Reboots PROVE Inv'
<1>. USE DEF Inv, TypeOK, Reboots, Promise!SignOut
<1>1. ConnectionTypes'
  <2>1. running' \in Versions
    BY DEF ConnectionTypes
  <2>. QED
    BY <2>1 DEF ConnectionTypes
<1>2. HubTypes'
  BY DEF HubTypes
<1>3. EntryTypes'
  BY DEF EntryTypes
<1>4. GrowthPart'
  BY DEF GrowthPart, ConnectionTypes
<1>5. OpenPart'
  BY DEF OpenPart
<1>6. ReloadPart'
  BY DEF ReloadPart
<1>7. UncountedIsOpen'
  BY DEF UncountedIsOpen
<1>8. VersionNoticed'
  BY DEF VersionNoticed
<1>. QED
  BY <1>1, <1>2, <1>3, <1>4, <1>5, <1>6, <1>7, <1>8

LEMMA ClosedKeeps == ASSUME Inv, Closed PROVE Inv'
<1>. USE DEF Inv, TypeOK, Closed, Promise!Closed
<1>1. ConnectionTypes'
  BY DEF ConnectionTypes
<1>2. HubTypes'
  BY DEF HubTypes
<1>3. EntryTypes'
  BY DEF EntryTypes
<1>4. GrowthPart'
  BY DEF GrowthPart
<1>5. OpenPart'
  BY DEF OpenPart
<1>6. ReloadPart'
  BY DEF ReloadPart
<1>7. UncountedIsOpen'
  BY DEF UncountedIsOpen
<1>8. VersionNoticed'
  BY DEF VersionNoticed
<1>. QED
  BY <1>1, <1>2, <1>3, <1>4, <1>5, <1>6, <1>7, <1>8

LEMMA InstallKeeps == ASSUME Inv, Install PROVE Inv'
<1>. USE DEF Inv, TypeOK, Install
<1>1. ConnectionTypes'
  BY DEF ConnectionTypes
<1>2. HubTypes'
  BY DEF HubTypes
<1>3. EntryTypes'
  BY DEF EntryTypes
<1>4. GrowthPart'
  BY DEF GrowthPart, HubTypes
<1>5. OpenPart'
  BY DEF OpenPart
<1>6. ReloadPart'
  BY DEF ReloadPart
<1>7. UncountedIsOpen'
  BY DEF UncountedIsOpen
<1>8. VersionNoticed'
  BY DEF VersionNoticed
<1>. QED
  BY <1>1, <1>2, <1>3, <1>4, <1>5, <1>6, <1>7, <1>8

LEMMA AcceptedKeeps == ASSUME Inv, Accepted PROVE Inv'
<1>. USE DEF Inv, TypeOK, Accepted
<1>1. ConnectionTypes'
  BY DEF ConnectionTypes
<1>2. HubTypes'
  BY DEF HubTypes
<1>3. EntryTypes'
  BY DEF EntryTypes
<1>4. GrowthPart'
  BY DEF GrowthPart
<1>5. OpenPart'
  BY DEF OpenPart
<1>6. ReloadPart'
  BY DEF ReloadPart
<1>7. UncountedIsOpen'
  BY DEF UncountedIsOpen
<1>8. VersionNoticed'
  BY DEF VersionNoticed
<1>. QED
  BY <1>1, <1>2, <1>3, <1>4, <1>5, <1>6, <1>7, <1>8

LEMMA WriteFailsKeeps == ASSUME Inv, WriteFails PROVE Inv'
<1>. USE DEF Inv, TypeOK, WriteFails
<1>1. ConnectionTypes'
  BY DEF ConnectionTypes
<1>2. HubTypes'
  BY DEF HubTypes
<1>3. EntryTypes'
  BY DEF EntryTypes
<1>4. GrowthPart'
  BY DEF GrowthPart
<1>5. OpenPart'
  BY DEF OpenPart
<1>6. ReloadPart'
  BY DEF ReloadPart
<1>7. UncountedIsOpen'
  BY DEF UncountedIsOpen
<1>8. VersionNoticed'
  BY DEF VersionNoticed
<1>. QED
  BY <1>1, <1>2, <1>3, <1>4, <1>5, <1>6, <1>7, <1>8

LEMMA RebootedKeeps == ASSUME Inv, Rebooted PROVE Inv'
<1>. USE DEF Inv, TypeOK, Rebooted, Tries, MayTry
<1>1. ConnectionTypes'
  BY DEF ConnectionTypes
<1>2. HubTypes'
  BY DEF HubTypes
<1>3. EntryTypes'
  BY DEF EntryTypes
<1>4. GrowthPart'
  BY DEF GrowthPart
<1>5. OpenPart'
  BY DEF OpenPart, UncountedIsOpen
<1>6. ReloadPart'
  BY DEF ReloadPart
<1>7. UncountedIsOpen'
  BY DEF UncountedIsOpen
<1>8. VersionNoticed'
  BY DEF VersionNoticed
<1>. QED
  BY <1>1, <1>2, <1>3, <1>4, <1>5, <1>6, <1>7, <1>8

LEMMA PausedKeeps == ASSUME Inv, Paused PROVE Inv'
<1>. USE DEF Inv, TypeOK, Paused, Tries, MayTry
<1>1. ConnectionTypes'
  BY DEF ConnectionTypes
<1>2. HubTypes'
  BY DEF HubTypes
<1>3. EntryTypes'
  BY DEF EntryTypes
<1>4. GrowthPart'
  BY DEF GrowthPart
<1>5. OpenPart'
  BY DEF OpenPart, UncountedIsOpen
<1>6. ReloadPart'
  BY DEF ReloadPart
<1>7. UncountedIsOpen'
  BY DEF UncountedIsOpen
<1>8. VersionNoticed'
  BY DEF VersionNoticed, UncountedIsOpen
<1>. QED
  BY <1>1, <1>2, <1>3, <1>4, <1>5, <1>6, <1>7, <1>8

LEMMA DeadlineKeeps == ASSUME Inv, Deadline PROVE Inv'
<1>. USE DEF Inv, TypeOK, Deadline
<1>1. ConnectionTypes'
  BY DEF ConnectionTypes
<1>2. HubTypes'
  BY DEF HubTypes
<1>3. EntryTypes'
  BY DEF EntryTypes
<1>4. GrowthPart'
  BY DEF GrowthPart
<1>5. OpenPart'
  BY DEF OpenPart
<1>6. ReloadPart'
  BY DEF ReloadPart
<1>7. UncountedIsOpen'
  BY DEF UncountedIsOpen
<1>8. VersionNoticed'
  BY DEF VersionNoticed
<1>. QED
  BY <1>1, <1>2, <1>3, <1>4, <1>5, <1>6, <1>7, <1>8

LEMMA CancelInstallKeeps == ASSUME Inv, CancelInstall PROVE Inv'
<1>. USE DEF Inv, TypeOK, CancelInstall, Installing
<1>1. ConnectionTypes'
  BY DEF ConnectionTypes
<1>2. HubTypes'
  BY DEF HubTypes
<1>3. EntryTypes'
  BY DEF EntryTypes
<1>4. GrowthPart'
  BY DEF GrowthPart
<1>5. OpenPart'
  BY DEF OpenPart
<1>6. ReloadPart'
  BY DEF ReloadPart
<1>7. UncountedIsOpen'
  BY DEF UncountedIsOpen
<1>8. VersionNoticed'
  BY DEF VersionNoticed
<1>. QED
  BY <1>1, <1>2, <1>3, <1>4, <1>5, <1>6, <1>7, <1>8

LEMMA AttemptSucceedsKeeps == ASSUME Inv, AttemptSucceeds PROVE Inv'
<1>. USE DEF Inv, TypeOK, AttemptSucceeds, Promise!OpenEnds, AfterFailure
<1>1. ConnectionTypes'
  BY DEF ConnectionTypes
<1>2. HubTypes'
  BY DEF HubTypes
<1>3. EntryTypes'
  BY DEF EntryTypes
<1>4. GrowthPart'
  BY DEF GrowthPart
<1>5. OpenPart'
  BY DEF OpenPart
<1>6. ReloadPart'
  BY DEF ReloadPart
<1>7. UncountedIsOpen'
  BY DEF UncountedIsOpen
<1>8. VersionNoticed'
  BY DEF VersionNoticed
<1>. QED
  BY <1>1, <1>2, <1>3, <1>4, <1>5, <1>6, <1>7, <1>8

LEMMA AttemptFailsKeeps == ASSUME Inv, AttemptFails PROVE Inv'
<1>. USE DEF Inv, TypeOK, AttemptFails, Promise!OpenEnds, AfterFailure
<1>1. ConnectionTypes'
  BY DEF ConnectionTypes
<1>2. HubTypes'
  BY DEF HubTypes
<1>3. EntryTypes'
  BY DEF EntryTypes
<1>4. GrowthPart'
  BY DEF GrowthPart
<1>5. OpenPart'
  BY DEF OpenPart
<1>6. ReloadPart'
  BY DEF ReloadPart
<1>7. UncountedIsOpen'
  BY DEF UncountedIsOpen
<1>8. VersionNoticed'
  BY DEF VersionNoticed
<1>. QED
  BY <1>1, <1>2, <1>3, <1>4, <1>5, <1>6, <1>7, <1>8

LEMMA ReconnectKeeps == ASSUME Inv, Reconnect PROVE Inv'
<1>. USE DEF Inv, TypeOK, Reconnect, Promise!Open
<1>1. ConnectionTypes'
  BY DEF ConnectionTypes
<1>2. HubTypes'
  BY DEF HubTypes
<1>3. EntryTypes'
  BY DEF EntryTypes
<1>4. GrowthPart'
  BY DEF GrowthPart
<1>5. OpenPart'
  BY DEF OpenPart
<1>6. ReloadPart'
  BY DEF ReloadPart
<1>7. UncountedIsOpen'
  BY DEF UncountedIsOpen
<1>8. VersionNoticed'
  BY DEF VersionNoticed, OpenPart, ConnectionTypes
<1>. QED
  BY <1>1, <1>2, <1>3, <1>4, <1>5, <1>6, <1>7, <1>8

LEMMA QueuedOpensKeeps == ASSUME Inv, QueuedOpens PROVE Inv'
<1>. USE DEF Inv, TypeOK, QueuedOpens, Promise!Open
<1>1. ConnectionTypes'
  BY DEF ConnectionTypes
<1>2. HubTypes'
  BY DEF HubTypes
<1>3. EntryTypes'
  BY DEF EntryTypes
<1>4. GrowthPart'
  BY DEF GrowthPart
<1>5. OpenPart'
  BY DEF OpenPart
<1>6. ReloadPart'
  BY DEF ReloadPart
<1>7. UncountedIsOpen'
  BY DEF UncountedIsOpen
<1>8. VersionNoticed'
  BY DEF VersionNoticed, OpenPart, ConnectionTypes
<1>. QED
  BY <1>1, <1>2, <1>3, <1>4, <1>5, <1>6, <1>7, <1>8

LEMMA DisconnectKeeps == ASSUME Inv, Disconnect PROVE Inv'
<1>. USE DEF Inv, TypeOK, Disconnect, TearDown, Promise!Close
<1>1. ConnectionTypes'
  BY DEF ConnectionTypes
<1>2. HubTypes'
  <2>1. closeCount' \in Nat
    BY DEF HubTypes
  <2>. QED
    BY <2>1 DEF HubTypes
<1>3. EntryTypes'
  BY DEF EntryTypes
<1>4. GrowthPart'
  BY DEF GrowthPart, HubTypes
<1>5. OpenPart'
  BY DEF OpenPart
<1>6. ReloadPart'
  BY DEF ReloadPart
<1>7. UncountedIsOpen'
  BY DEF UncountedIsOpen, GrowthPart, HubTypes
<1>8. VersionNoticed'
  BY DEF VersionNoticed
<1>. QED
  BY <1>1, <1>2, <1>3, <1>4, <1>5, <1>6, <1>7, <1>8

LEMMA ForwardKeeps == ASSUME Inv, Forward PROVE Inv'
<1>. USE DEF Inv, TypeOK, Forward
<1>1. ConnectionTypes'
  BY DEF ConnectionTypes
<1>2. HubTypes'
  BY DEF HubTypes
<1>3. EntryTypes'
  BY DEF EntryTypes, ConnectionTypes
<1>4. GrowthPart'
  BY DEF GrowthPart
<1>5. OpenPart'
  BY DEF OpenPart
<1>6. ReloadPart'
  BY DEF ReloadPart
<1>7. UncountedIsOpen'
  BY DEF UncountedIsOpen
<1>8. VersionNoticed'
  BY DEF VersionNoticed
<1>. QED
  BY <1>1, <1>2, <1>3, <1>4, <1>5, <1>6, <1>7, <1>8

LEMMA SetupDoneKeeps == ASSUME Inv, SetupDone PROVE Inv'
<1>. USE DEF Inv, TypeOK, SetupDone
<1>1. ConnectionTypes'
  BY DEF ConnectionTypes
<1>2. HubTypes'
  BY DEF HubTypes
<1>3. EntryTypes'
  BY DEF EntryTypes
<1>4. GrowthPart'
  BY DEF GrowthPart
<1>5. OpenPart'
  BY DEF OpenPart
<1>6. ReloadPart'
  BY DEF ReloadPart
<1>7. UncountedIsOpen'
  BY DEF UncountedIsOpen
<1>8. VersionNoticed'
  BY DEF VersionNoticed
<1>. QED
  BY <1>1, <1>2, <1>3, <1>4, <1>5, <1>6, <1>7, <1>8

LEMMA UnloadKeeps == ASSUME Inv, Unload PROVE Inv'
<1>. USE DEF Inv, TypeOK, Unload
<1>1. ConnectionTypes'
  BY DEF ConnectionTypes
<1>2. HubTypes'
  BY DEF HubTypes
<1>3. EntryTypes'
  BY DEF EntryTypes
<1>4. GrowthPart'
  BY DEF GrowthPart
<1>5. OpenPart'
  BY DEF OpenPart
<1>6. ReloadPart'
  BY DEF ReloadPart
<1>7. UncountedIsOpen'
  BY DEF UncountedIsOpen
<1>8. VersionNoticed'
  BY DEF VersionNoticed
<1>. QED
  BY <1>1, <1>2, <1>3, <1>4, <1>5, <1>6, <1>7, <1>8

LEMMA ShutdownKeeps == ASSUME Inv, Shutdown PROVE Inv'
<1>. USE DEF Inv, TypeOK, Shutdown, TearDown, Promise!Close
<1>1. ConnectionTypes'
  BY DEF ConnectionTypes
<1>2. HubTypes'
  <2>1. closeCount' \in Nat
    BY DEF HubTypes
  <2>. QED
    BY <2>1 DEF HubTypes
<1>3. EntryTypes'
  BY DEF EntryTypes
<1>4. GrowthPart'
  BY DEF GrowthPart, HubTypes
<1>5. OpenPart'
  BY DEF OpenPart
<1>6. ReloadPart'
  BY DEF ReloadPart
<1>7. UncountedIsOpen'
  BY DEF UncountedIsOpen, GrowthPart, HubTypes
<1>8. VersionNoticed'
  BY DEF VersionNoticed
<1>. QED
  BY <1>1, <1>2, <1>3, <1>4, <1>5, <1>6, <1>7, <1>8

LEMMA GoneKeeps == ASSUME Inv, Gone PROVE Inv'
<1>. USE DEF Inv, TypeOK, Gone
<1>1. ConnectionTypes'
  BY DEF ConnectionTypes
<1>2. HubTypes'
  BY DEF HubTypes
<1>3. EntryTypes'
  BY DEF EntryTypes
<1>4. GrowthPart'
  BY DEF GrowthPart
<1>5. OpenPart'
  BY DEF OpenPart
<1>6. ReloadPart'
  BY DEF ReloadPart
<1>7. UncountedIsOpen'
  BY DEF UncountedIsOpen
<1>8. VersionNoticed'
  BY DEF VersionNoticed
<1>. QED
  BY <1>1, <1>2, <1>3, <1>4, <1>5, <1>6, <1>7, <1>8

LEMMA DeliverKeeps == ASSUME Inv, Deliver PROVE Inv'
<1>. USE DEF Inv, TypeOK, Deliver
<1>1. ConnectionTypes'
  BY DEF ConnectionTypes
<1>2. HubTypes'
  BY DEF HubTypes
<1>3. EntryTypes'
  BY DEF EntryTypes, ConnectionTypes
<1>4. GrowthPart'
  BY DEF GrowthPart, ConnectionTypes
<1>5. OpenPart'
  BY DEF OpenPart
<1>6. ReloadPart'
  BY DEF ReloadPart, GrowthPart, EntryTypes
<1>7. UncountedIsOpen'
  BY DEF UncountedIsOpen
<1>8. VersionNoticed'
  BY DEF VersionNoticed
<1>. QED
  BY <1>1, <1>2, <1>3, <1>4, <1>5, <1>6, <1>7, <1>8

LEMMA ScheduleKeeps == ASSUME Inv, Schedule PROVE Inv'
<1>. USE DEF Inv, TypeOK, Schedule
<1>1. ConnectionTypes'
  BY DEF ConnectionTypes
<1>2. HubTypes'
  BY DEF HubTypes
<1>3. EntryTypes'
  BY DEF EntryTypes
<1>4. GrowthPart'
  BY DEF GrowthPart
<1>5. OpenPart'
  BY DEF OpenPart
<1>6. ReloadPart'
  BY DEF ReloadPart
<1>7. UncountedIsOpen'
  BY DEF UncountedIsOpen
<1>8. VersionNoticed'
  BY DEF VersionNoticed
<1>. QED
  BY <1>1, <1>2, <1>3, <1>4, <1>5, <1>6, <1>7, <1>8

LEMMA ReloadStartsKeeps == ASSUME Inv, ReloadStarts PROVE Inv'
<1>. USE DEF Inv, TypeOK, ReloadStarts
<1>1. ConnectionTypes'
  BY DEF ConnectionTypes
<1>2. HubTypes'
  BY DEF HubTypes
<1>3. EntryTypes'
  BY DEF EntryTypes
<1>4. GrowthPart'
  BY DEF GrowthPart
<1>5. OpenPart'
  BY DEF OpenPart
<1>6. ReloadPart'
  BY DEF ReloadPart
<1>7. UncountedIsOpen'
  BY DEF UncountedIsOpen
<1>8. VersionNoticed'
  BY DEF VersionNoticed
<1>. QED
  BY <1>1, <1>2, <1>3, <1>4, <1>5, <1>6, <1>7, <1>8

LEMMA InvNext == ASSUME Inv, [Next]_vars PROVE Inv'
<1>1. CASE Network
  BY <1>1, BeginsKeeps, SignsInKeeps, TellsKeeps, CompletesKeeps, DropsKeeps, RefusesKeeps,
     RebootsKeeps DEF Network
<1>2. CASE InstallNext
  BY <1>2, InstallKeeps, AcceptedKeeps, WriteFailsKeeps, RebootedKeeps, PausedKeeps,
     DeadlineKeeps, CancelInstallKeeps DEF InstallNext
<1>3. CASE EntryNext
  BY <1>3, ReconnectKeeps, QueuedOpensKeeps, DisconnectKeeps, ClosedKeeps, ForwardKeeps,
     SetupDoneKeeps, UnloadKeeps, ShutdownKeeps, GoneKeeps, DeliverKeeps, ScheduleKeeps,
     ReloadStartsKeeps DEF EntryNext
<1>4. CASE AttemptSucceeds \/ AttemptFails
  BY <1>4, AttemptSucceedsKeeps, AttemptFailsKeeps
<1>5. CASE UNCHANGED vars
  BY <1>5 DEF vars, Inv, TypeOK, ConnectionTypes, HubTypes, EntryTypes, GrowthPart, OpenPart,
       ReloadPart, UncountedIsOpen, VersionNoticed
<1>. QED
  BY <1>1, <1>2, <1>3, <1>4, <1>5 DEF Next, Over

\* What the update, the hub and the reload keep true, whatever the connection
\* does within its promise and whenever the entry ends.
THEOREM Invariance == Spec => []Inv
BY InvInit, InvNext, PTL DEF Spec

-----------------------------------------------------------------------------
(* What follows. *)

\* An update that is still counting on its connection has one that nobody closed.
THEOREM UncountedStaysOpen == Spec => []UncountedIsOpen
<1>1. Inv => UncountedIsOpen
  BY DEF Inv
<1>. QED
  BY <1>1, Invariance, PTL

\* The reload compares with the version reported last, or is about to.
THEOREM VersionsAreNoticed == Spec => []VersionNoticed
<1>1. Inv => VersionNoticed
  BY DEF Inv
<1>. QED
  BY <1>1, Invariance, PTL

\* Entities of a version that is gone do not stay without a reload on its way.
THEOREM StaleAreRebuilt == Spec => []StaleIsRebuilt
<1>1. Inv => StaleIsRebuilt
  BY DEF Inv, ReloadPart, VersionNoticed, StaleIsRebuilt
<1>. QED
  BY <1>1, Invariance, PTL

-----------------------------------------------------------------------------
(* Steps. *)

\* An update that tries again leaves the phase of the connection alone.
LEMMA TriesStayOpen ==
  ASSUME Inv, install \in {"rebooting", "pausing"}, Tries
  PROVE  UNCHANGED phase
  BY DEF Inv, UncountedIsOpen, Tries, MayTry

\* Only a user's reconnect opens what was closed.
THEOREM ClosedConnectionsStayClosed == Spec => ClosedStaysClosed
<1>. DEFINE Kept ==
       phase # "running" /\ phase' = "running" => reconnecting # "opening" /\ reconnecting' = "opening"
<1>1. ASSUME Inv, [Next]_vars PROVE Kept
  <2>1. CASE Network
    BY <2>1 DEF Network, Begins, SignsIn, Tells, Completes, Drops, Refuses, Reboots,
         Promise!Retry, Promise!SignIn, Promise!SignOut, Promise!Refuse
  <2>2. CASE InstallNext
    <3>1. CASE Rebooted \/ Paused
      BY <1>1, <3>1, TriesStayOpen DEF Rebooted, Paused
    <3>. QED
      BY <2>2, <3>1 DEF InstallNext, Install, Accepted, WriteFails, Deadline, CancelInstall
  <2>3. CASE Reconnect \/ QueuedOpens
    BY <2>3 DEF Reconnect, QueuedOpens, Promise!Open
  <2>4. CASE EntryNext /\ ~(Reconnect \/ QueuedOpens)
    BY <2>4 DEF EntryNext, Disconnect, Closed, Forward, SetupDone, Unload, Shutdown, Gone,
         Deliver, Schedule, ReloadStarts, TearDown, Promise!Close, Promise!Closed
  <2>5. CASE AttemptSucceeds \/ AttemptFails
    BY <2>5 DEF AttemptSucceeds, AttemptFails, Promise!OpenEnds
  <2>6. CASE UNCHANGED vars
    BY <2>6 DEF vars
  <2>. QED
    BY <1>1, <2>1, <2>2, <2>3, <2>4, <2>5, <2>6 DEF Next, Over
<1>2. Kept => [Kept]_vars
  OBVIOUS
<1>. QED
  BY <1>1, <1>2, Invariance, PTL DEF Spec, ClosedStaysClosed

\* Update, hub and entry use the connection as ConnectionPromise allows: the
\* properties proved of it hold with them around it.
THEOREM PromiseIsKept == Spec => PromiseKept
<1>1. ASSUME Inv, [Next]_vars PROVE [Promise!Next]_connection
  <2>1. CASE Network
    BY <2>1 DEF Network, Begins, SignsIn, Tells, Completes, Drops, Refuses, Reboots, Promise!Next
  <2>2. CASE Rebooted \/ Paused
    <3>1. Tries => Promise!Open \/ UNCHANGED connection
      BY <1>1, <2>2, TriesStayOpen DEF Rebooted, Paused, Tries, MayTry, Promise!Open, Inv, UncountedIsOpen
    <3>. QED
      BY <2>2, <3>1 DEF Rebooted, Paused, Promise!Next
  <2>3. CASE InstallNext /\ ~(Rebooted \/ Paused)
    BY <2>3 DEF InstallNext, Install, Accepted, WriteFails, Deadline, CancelInstall
  <2>4. CASE EntryNext
    BY <2>4 DEF EntryNext, Reconnect, QueuedOpens, Disconnect, Closed, Forward, SetupDone,
         Unload, Shutdown, Gone, Deliver, Schedule, ReloadStarts, TearDown, Promise!Next
  <2>5. CASE AttemptSucceeds \/ AttemptFails
    BY <2>5 DEF AttemptSucceeds, AttemptFails, Promise!Next
  <2>6. CASE UNCHANGED vars
    BY <2>6 DEF vars
  <2>. QED
    BY <1>1, <2>1, <2>2, <2>3, <2>4, <2>5, <2>6 DEF Next, Over
<1>. QED
  BY <1>1, Invariance, PTL DEF Spec, PromiseKept
=============================================================================
