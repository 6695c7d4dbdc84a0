------------------------------ MODULE MCPushed ------------------------------
(***************************************************************************)
(* Instances for TLC of what works its result out from several pushes and  *)
(* from what came before: the average power, a counter, the charging       *)
(* duration, the firmware update, and a call that waits for the cloud key. *)
(* They share no state, so a behaviour is one of one of them, the          *)
(* `watched` one; the others stay as they begin.                           *)
(***************************************************************************)
EXTENDS AveragePower, Sequences

CONSTANTS
  Max, Unit,                          \* of Counters
  Minute, Longest, Uptime, Sessions,  \* of ChargingDuration
  Lists, None,                        \* of Offers
  Callers, Keys, NoKey, Frames        \* of CloudApi

VARIABLES
  watched,
  kind, nulls, counter, counterUp, counterSensor, stored, reported, first,
  buffered, clock, cdi, elapsed, told, connected, initialized, link, frame, cache,
  pending, last, shown, written,
  offersBuffered, charger, offersConnected, offersLink, offersCache, offersPending,
  entity, known, waiting, installing, oct,
  enabled, key, since, cloudConnected, commands, cloudLink, cak, pc, callbacks,
  arrived, result

\* The charger's unknown is no number, its counters have a precision.
ASSUME CountersAssumption == Max \in Nat /\ Unit \in Nat \ {0} /\ Null \notin Int
\* A minute has a tick.
ASSUME DurationAssumption == Minute \in Nat \ {0}
\* Some call switches the API.
ASSUME CallersAssumption == Callers # {}

counterVars == <<kind, nulls, counter, counterUp, counterSensor, stored, reported, first>>
durationVars == <<buffered, clock, cdi, elapsed, told, connected, initialized, link, frame,
                  cache, pending, last, shown, written>>
offersVars == <<offersBuffered, charger, offersConnected, offersLink, offersCache,
                offersPending, entity, known, waiting, installing, oct>>
cloudVars == <<enabled, key, since, cloudConnected, commands, cloudLink, cak, pc,
               callbacks, arrived, result>>

Counter == INSTANCE Counters WITH up <- counterUp, sensor <- counterSensor
Duration == INSTANCE ChargingDuration
Update == INSTANCE Offers WITH
  buffered <- offersBuffered, connected <- offersConnected, link <- offersLink,
  cache <- offersCache, pending <- offersPending
Cloud == INSTANCE CloudApi WITH connected <- cloudConnected, link <- cloudLink, Limit <- Frames

ASSUME OffersAssumption ==
  /\ \A l \in Lists : l \in Seq(Update!Spellings)
  /\ None \notin Update!Spellings

\* Nothing on offer, what cannot be read, and a list that is not in order.
OfferedLists == {<<>>, <<"beta">>, <<"old", "blank", "newAgain", "new">>}

\* One beginning for each that nobody watches.
MCInit ==
  /\ watched \in {"average", "counter", "duration", "update", "cloud"}
  /\ Init
  /\ watched # "average" => interval = 0 /\ live = "idle" /\ tpa = Null
  /\ Counter!Init
  /\ watched # "counter" => kind = "total" /\ ~nulls /\ counter = 0
  /\ Duration!Init
  /\ watched # "duration" => ~buffered
  /\ Update!Init
  /\ watched # "update" => ~offersBuffered /\ charger = [fwv |-> "current", onv |-> <<>>]
  /\ Cloud!Init
  /\ watched # "cloud" => ~enabled /\ key = NoKey

MCNext ==
  \/ /\ watched = "average" /\ Next
     /\ UNCHANGED <<watched, counterVars, durationVars, offersVars, cloudVars>>
  \/ /\ watched = "counter" /\ Counter!Next
     /\ UNCHANGED <<watched, vars, durationVars, offersVars, cloudVars>>
  \/ /\ watched = "duration" /\ Duration!Next
     /\ UNCHANGED <<watched, vars, counterVars, offersVars, cloudVars>>
  \/ /\ watched = "update" /\ Update!Next
     /\ UNCHANGED <<watched, vars, counterVars, durationVars, cloudVars>>
  \/ /\ watched = "cloud" /\ Cloud!Next
     /\ UNCHANGED <<watched, vars, counterVars, durationVars, offersVars>>

MCSpec ==
  MCInit /\ [][MCNext]_<<watched, vars, counterVars, durationVars, offersVars, cloudVars>>

-----------------------------------------------------------------------------
(* The properties of the instances, by their own names.                    *)

\* A counter on show falls only as far as a reset, over reloads and restarts,
\* and a total never while its entity lives.
NeverDips == Counter!NeverDips

\* The minutes of a session never fall while it charges.
MinutesCarryOn == Duration!MinutesCarryOn

\* The newest offer is on show, and an update on show can be installed.
UpdateIsInstallable == Update!UpdateIsInstallable

\* A call returns a key of its own switch and waits for none the client has.
SwitchGetsItsKey == Cloud!SwitchGetsItsKey
=============================================================================
