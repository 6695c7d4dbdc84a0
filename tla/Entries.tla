------------------------------ MODULE Entries ------------------------------
(***************************************************************************)
(* Which entry owns which charger: the config entries of the integration   *)
(* (__init__.py, const.py), the cards of chargers that announce themselves *)
(* and the flows people fill in (config_flow.py), all at once.             *)
(*                                                                         *)
(* A charger is its serial.  Any charger may answer at any address, at any *)
(* time: addresses are handed out anew, and a host name and an address may *)
(* reach the same one.  Home Assistant runs one setup, reload or removal   *)
(* of an entry at a time, and tells the flows what it knows.               *)
(*                                                                         *)
(* A definition whose name ends in Faulty is a slip the code does not      *)
(* make; nothing uses it but the tests of the properties.                  *)
(***************************************************************************)
EXTENDS Naturals, FiniteSets

CONSTANTS
  Ids,            \* entry ids
  Serials, Hosts, \* chargers, and the addresses they answer at
  HostNames,      \* those of Hosts that are no IPv4 address
  People,         \* who fills in a form, one at a time each
  NoSerial, ForkKey, NoHost, NoId

ASSUME NamesAssumption ==
  /\ HostNames \subseteq Hosts
  /\ {NoSerial, ForkKey} \cap Serials = {} /\ NoSerial # ForkKey
  /\ NoHost \notin Hosts /\ NoId \notin Ids

VARIABLES
  kind,      \* "none" for an id without an entry, else what the entry is
  old,       \* whether it is still of version 1
  uid,       \* entry.unique_id
  marker,    \* CONF_AWAITING_SERIAL
  host,      \* entry.data["host"]
  state,     \* how far its setup is, see States
  reload,    \* whether a reload of it is scheduled
  tried,     \* the address its setup took, while it runs or met another charger
  strict,    \* whether this setup gave the client a serial to insist on
  found,     \* the charger its hub is connected to
  card,      \* by charger: the address on its open card
  form       \* by person: the form being checked, see Forms

entryVars == <<kind, old, uid, marker, host>>
setupVars == <<state, reload, tried, strict, found>>
vars == <<entryVars, setupVars, card, form>>

\* "ignored" is a card with SOURCE_IGNORE, the others are by connection type.
Kinds  == {"none", "ignored", "local", "cloud"}
Keys   == Serials \cup {NoSerial, ForkKey}
\* SETUP_ERROR is split: "mistaken" met another charger at its address.
\* SETUP_IN_PROGRESS: "connecting" in async_connect, "answered" after it.
Busy   == {"connecting", "answered"}
States == Busy \cup {"not_loaded", "loaded", "setup_retry", "setup_error", "mistaken"}
\* "about" is the entry of a reconfigure or reauth, "serial" the charger of a
\* card or the one such an entry insists on, "got" the one that answered.
Forms  == [step : {"none", "user", "card", "reconfigure", "reauth"},
           about : Ids \cup {NoId}, at : Hosts \cup {NoHost},
           serial : Serials \cup {NoSerial}, got : Serials \cup {NoSerial}]
NoForm == [step |-> "none", about |-> NoId, at |-> NoHost,
           serial |-> NoSerial, got |-> NoSerial]

TypeOK ==
  /\ kind \in [Ids -> Kinds]
  /\ old \in [Ids -> BOOLEAN] /\ uid \in [Ids -> Keys] /\ marker \in [Ids -> BOOLEAN]
  /\ host \in [Ids -> Hosts \cup {NoHost}] /\ state \in [Ids -> States]
  /\ reload \in [Ids -> BOOLEAN] /\ tried \in [Ids -> Hosts \cup {NoHost}]
  /\ strict \in [Ids -> BOOLEAN] /\ found \in [Ids -> Serials \cup {NoSerial}]
  /\ card \in [Serials -> Hosts \cup {NoHost}] /\ form \in [People -> Forms]

\* async_entries(DOMAIN, include_ignore=False)
Real(i) == kind[i] \in {"local", "cloud"}

\* awaits_serial.
AwaitsSerial(i) == uid[i] = NoSerial \/ marker[i] \/ kind[i] = "cloud"

\* serial_taken_by_other_entry: an ignored card takes nothing.
TakenByOtherFaulty(i, s) == \E j \in Ids \ {i}: state[j] = "loaded" /\ uid[j] = s
TakenByOther(i, s) == \E j \in Ids \ {i}: Real(j) /\ uid[j] = s

\* entry_awaiting_serial_at: the host is compared as written, and an entry of
\* version 1 has another name for it.
AwaitingAt(i, h) == Real(i) /\ ~old[i] /\ AwaitsSerial(i) /\ host[i] = h

\* Forks may hold anything; no two of them one charger.
Init ==
  /\ kind \in [Ids -> Kinds]
  /\ old = [i \in Ids |-> Real(i)]
  /\ uid \in [Ids -> Keys]
  /\ \A i \in Ids: CASE kind[i] = "none" -> uid[i] = NoSerial
                     [] kind[i] = "ignored" -> uid[i] \in Serials
                     [] kind[i] = "local" -> uid[i] \in {NoSerial, ForkKey}
                     [] kind[i] = "cloud" -> uid[i] \in Serials \cup {ForkKey}
  /\ \A i, j \in Ids: i # j /\ uid[i] = uid[j] => uid[i] \notin Serials
  /\ marker = [i \in Ids |-> FALSE]
  /\ host \in [Ids -> Hosts \cup {NoHost}]
  /\ \A i \in Ids: host[i] = NoHost <=> kind[i] # "local"
  /\ state = [i \in Ids |-> "not_loaded"] /\ reload = [i \in Ids |-> FALSE]
  /\ tried = [i \in Ids |-> NoHost] /\ strict = [i \in Ids |-> FALSE]
  /\ found = [i \in Ids |-> NoSerial]
  /\ card = [s \in Serials |-> NoHost]
  /\ form = [p \in People |-> NoForm]

-----------------------------------------------------------------------------
(* The setup of an entry. *)

Idle(i) == state[i] \notin Busy

\* async_migrate_entry, for an entry of version 1: a local one may take the
\* serial it meets.
Migrates(i) ==
  /\ Real(i) /\ old[i] /\ Idle(i)
  /\ old' = [old EXCEPT ![i] = FALSE]
  /\ marker' = [marker EXCEPT ![i] = kind[i] = "local"]
  /\ UNCHANGED <<kind, uid, host, setupVars, card, form>>

\* The head of async_setup_entry: a cloud entry has nothing to connect to.
CloudFails(i) ==
  /\ kind[i] = "cloud" /\ ~old[i] /\ state[i] \in {"not_loaded", "setup_retry"}
  /\ state' = [state EXCEPT ![i] = "setup_error"]
  /\ UNCHANGED <<entryVars, reload, tried, strict, found, card, form>>

StartsFaulty(i) ==
  /\ kind[i] = "local" /\ ~old[i] /\ state[i] \in {"not_loaded", "setup_retry"}
  /\ state' = [state EXCEPT ![i] = "connecting"]
  /\ tried' = [tried EXCEPT ![i] = host[i]]
  /\ strict' = [strict EXCEPT ![i] = FALSE]
  /\ UNCHANGED <<entryVars, reload, found, card, form>>
Starts(i) ==
  /\ kind[i] = "local" /\ ~old[i] /\ state[i] \in {"not_loaded", "setup_retry"}
  /\ state' = [state EXCEPT ![i] = "connecting"]
  /\ tried' = [tried EXCEPT ![i] = host[i]]
  /\ strict' = [strict EXCEPT ![i] = ~AwaitsSerial(i)]
  /\ UNCHANGED <<entryVars, reload, found, card, form>>

\* A setup ends; only a loaded entry keeps its hub.
EndsWith(i, next) ==
  /\ state' = [state EXCEPT ![i] = next]
  /\ tried' = [tried EXCEPT ![i] = NoHost] /\ strict' = [strict EXCEPT ![i] = FALSE]
  /\ found' = [found EXCEPT ![i] = IF next = "loaded" THEN @ ELSE NoSerial]

\* What async_connect comes back with: DeviceIdentityError, no answer or a
\* refused password, or the charger.
Mistaken(i) ==
  /\ state[i] = "connecting" /\ strict[i]
  /\ \E s \in Serials: s # uid[i]
  /\ state' = [state EXCEPT ![i] = "mistaken"]
  /\ strict' = [strict EXCEPT ![i] = FALSE]
  /\ UNCHANGED <<entryVars, reload, tried, found, card, form>>

ConnectFails(i) ==
  /\ state[i] = "connecting"
  /\ \E failed \in {"setup_retry", "setup_error"}:
       EndsWith(i, failed)
  /\ UNCHANGED <<entryVars, reload, card, form>>

Answers(i, s) ==
  /\ state[i] = "connecting" /\ (strict[i] => s = uid[i])
  /\ state' = [state EXCEPT ![i] = "answered"]
  /\ found' = [found EXCEPT ![i] = s]
  /\ UNCHANGED <<entryVars, reload, tried, strict, card, form>>

\* _adopt_serial raises, and the hub is shut down.
Refuses(i) == ~AwaitsSerial(i) \/ TakenByOther(i, found[i])
AdoptionFails(i) ==
  /\ state[i] = "answered" /\ (uid[i] # found[i] \/ AwaitsSerial(i)) /\ Refuses(i)
  /\ EndsWith(i, "setup_error")
  /\ UNCHANGED <<entryVars, reload, card, form>>

\* The cards _remove_ignored_card takes away.
IgnoredCards(s) == {j \in Ids: kind[j] = "ignored" /\ uid[j] = s}

Without(f, S, none) == [i \in Ids |-> IF i \in S THEN none ELSE f[i]]

\* async_update_entry and _close_open_cards.
WritesFaulty(i, s, gone) ==
  /\ kind' = Without(kind, gone, "none")
  /\ uid' = [Without(uid, gone, NoSerial) EXCEPT ![i] = s]
  /\ marker' = [marker EXCEPT ![i] = FALSE]
  /\ UNCHANGED card
Writes(i, s, gone) ==
  /\ kind' = Without(kind, gone, "none")
  /\ uid' = [Without(uid, gone, NoSerial) EXCEPT ![i] = s]
  /\ marker' = [marker EXCEPT ![i] = FALSE]
  /\ card' = [card EXCEPT ![s] = NoHost]

\* The rest of _finish_setup, which may still fail.
Forwards(i) == \E next \in {"loaded", "setup_error"}: EndsWith(i, next)

Confirms(i) ==
  /\ state[i] = "answered" /\ uid[i] = found[i] /\ ~AwaitsSerial(i)
  /\ Forwards(i)
  /\ UNCHANGED <<entryVars, reload, card, form>>

\* Home Assistant removes an ignored card, which was never loaded, without
\* letting another task run: the question and the answer are one step.
Adopts(i) ==
  /\ state[i] = "answered" /\ (uid[i] # found[i] \/ AwaitsSerial(i)) /\ ~Refuses(i)
  /\ Writes(i, found[i], IgnoredCards(found[i]))
  /\ Forwards(i)
  /\ UNCHANGED <<old, host, reload, form>>

\* Home Assistant cancels a setup that runs too long.
Cancelled(i) ==
  /\ state[i] \in Busy /\ EndsWith(i, "setup_error")
  /\ UNCHANGED <<entryVars, reload, card, form>>

\* async_unload_entry under a reload; the setup follows.
Reloads(i) ==
  /\ reload[i] /\ Idle(i)
  /\ reload' = [reload EXCEPT ![i] = FALSE]
  /\ EndsWith(i, "not_loaded")
  /\ UNCHANGED <<entryVars, card, form>>

Setup(i) ==
  \/ Migrates(i) \/ CloudFails(i) \/ Starts(i) \/ Mistaken(i) \/ ConnectFails(i)
  \/ \E s \in Serials: Answers(i, s)
  \/ AdoptionFails(i) \/ Confirms(i) \/ Adopts(i)
  \/ Cancelled(i) \/ Reloads(i)

-----------------------------------------------------------------------------
(* Entries come and go, by Home Assistant's hand. *)

\* _abort_if_unique_id_configured counts ignored cards too, but not in a flow
\* the user started.
Configured(s) == \E j \in Ids: kind[j] # "none" /\ uid[j] = s
ConfiguredForUser(s) == \E j \in Ids: Real(j) /\ uid[j] = s

Holders(s) == {j \in Ids: kind[j] # "none" /\ uid[j] = s}

\* Entry i begins, as given, and those in gone end with the forms about them.
Replaces(gone, i, k, s, h) ==
  /\ kind'   = [Without(kind, gone, "none") EXCEPT ![i] = k]
  /\ uid'    = [Without(uid, gone, NoSerial) EXCEPT ![i] = s]
  /\ host'   = [Without(host, gone, NoHost) EXCEPT ![i] = h]
  /\ marker' = [Without(marker, gone, FALSE) EXCEPT ![i] = FALSE]
  /\ old'    = [Without(old, gone, FALSE) EXCEPT ![i] = FALSE]
  /\ state'  = [Without(state, gone, "not_loaded") EXCEPT ![i] = "not_loaded"]
  /\ reload' = [Without(reload, gone, FALSE) EXCEPT ![i] = FALSE]
  /\ tried'  = [Without(tried, gone, NoHost) EXCEPT ![i] = NoHost]
  /\ strict' = [Without(strict, gone, FALSE) EXCEPT ![i] = FALSE]
  /\ found'  = [Without(found, gone, NoSerial) EXCEPT ![i] = NoSerial]

FormsWithout(gone) == [p \in People |-> IF form[p].about \in gone THEN NoForm ELSE form[p]]

\* _create_local_entry.  Home Assistant ends an entry with the same unique_id,
\* and the cards for it.
Creates(p, s, h) ==
  \E i \in Ids:
    /\ kind[i] = "none"
    /\ Replaces(Holders(s), i, "local", s, h)
    /\ card' = [card EXCEPT ![s] = NoHost]
    /\ form' = [FormsWithout(Holders(s)) EXCEPT ![p] = NoForm]

Removes(i) ==
  /\ kind[i] # "none" /\ Idle(i)
  /\ Replaces({}, i, "none", NoSerial, NoHost)
  /\ form' = FormsWithout({i}) /\ UNCHANGED card

\* async_step_ignore.
Ignores(s) ==
  /\ ~Configured(s)
  /\ \E i \in Ids:
       /\ kind[i] = "none"
       /\ Replaces(Holders(s), i, "ignored", s, NoHost)
       /\ form' = FormsWithout(Holders(s))
  /\ card' = [card EXCEPT ![s] = NoHost]

\* The user reloads an entry, or changes its options.
AsksReload(i) ==
  /\ Real(i) /\ ~reload[i]
  /\ reload' = [reload EXCEPT ![i] = TRUE]
  /\ UNCHANGED <<entryVars, state, tried, strict, found, card, form>>

-----------------------------------------------------------------------------
(* A charger announces itself: async_step_zeroconf. *)

\* _abort_if_awaiting_entry_at: its charger is in reach, so a retry is due.
AbortsAwaiting(h) ==
  \E i \in Ids:
    /\ AwaitingAt(i, h)
    /\ reload' = [reload EXCEPT ![i] = @ \/ state[i] = "setup_retry"]

\* _address_update: an entry that talks to its charger stays where it is.
Follows(i, available) ==
  /\ kind[i] = "local" /\ host[i] \in Hosts \ HostNames
  /\ ~(state[i] = "loaded" /\ available)

\* A known charger.  Its entry is reloaded with the address: by
\* reload_failed_entry when it failed, by Home Assistant when it runs, and when
\* it retries anyway.
AnnouncesKnown(s, h, available) ==
  /\ card[s] = NoHost
  /\ \E i \in Holders(s):
       LET moves == Follows(i, available)
           news  == moves /\ host[i] # h
       IN /\ host' = IF moves THEN [host EXCEPT ![i] = h] ELSE host
          /\ reload' = [reload EXCEPT ![i] =
               \/ @
               \/ news /\ state[i] \in {"setup_error", "mistaken", "loaded"}
               \/ Real(i) /\ state[i] = "setup_retry"]
  /\ UNCHANGED <<kind, old, uid, marker, state, tried, strict, found, card, form>>

AnnouncesAwaited(s, h) ==
  /\ card[s] = NoHost /\ Holders(s) = {}
  /\ AbortsAwaiting(h)
  /\ UNCHANGED <<entryVars, state, tried, strict, found, card, form>>

OpensCard(s, h) ==
  /\ card[s] = NoHost /\ Holders(s) = {}
  /\ ~\E i \in Ids: AwaitingAt(i, h)
  /\ card' = [card EXCEPT ![s] = h]
  /\ UNCHANGED <<entryVars, setupVars, form>>

DismissesCard(s) ==
  /\ card[s] # NoHost
  /\ card' = [card EXCEPT ![s] = NoHost]
  /\ UNCHANGED <<entryVars, setupVars, form>>

Announces(s, h) ==
  \/ \E available \in BOOLEAN: AnnouncesKnown(s, h, available)
  \/ AnnouncesAwaited(s, h) \/ OpensCard(s, h)

-----------------------------------------------------------------------------
(* A form is sent, its probe connects and is closed, and the rest of the step *)
(* runs on what it came back with.                                            *)

Sends(p, step, about, at, serial) ==
  /\ form[p] = NoForm
  /\ form' = [form EXCEPT ![p] = [step |-> step, about |-> about, at |-> at,
                                  serial |-> serial, got |-> NoSerial]]

\* async_step_user.
SendsUser(p, h) ==
  /\ ~\E i \in Ids: AwaitingAt(i, h)
  /\ Sends(p, "user", NoId, h, NoSerial)
  /\ UNCHANGED <<entryVars, setupVars, card>>
UserAborts(h) ==
  /\ AbortsAwaiting(h)
  /\ UNCHANGED <<entryVars, state, tried, strict, found, card, form>>

\* async_step_zeroconf_confirm: one person at a time has the card.
SendsCard(p, s) ==
  /\ card[s] # NoHost
  /\ ~\E q \in People: form[q].step = "card" /\ form[q].serial = s
  /\ Sends(p, "card", NoId, card[s], s)
  /\ UNCHANGED <<entryVars, setupVars, card>>

\* _async_validate_for insists on a serial the entry knows.
Insists(i) == IF AwaitsSerial(i) THEN NoSerial ELSE uid[i]

\* async_step_reconfigure, and async_step_reauth_confirm, which only a refused
\* password starts.
SendsReconfigure(p, i, h) ==
  /\ Real(i) /\ ~old[i]
  /\ Sends(p, "reconfigure", i, h, Insists(i))
  /\ UNCHANGED <<entryVars, setupVars, card>>
SendsReauth(p, i) ==
  /\ kind[i] = "local" /\ ~old[i] /\ state[i] = "setup_error"
  /\ Sends(p, "reauth", i, host[i], Insists(i))
  /\ UNCHANGED <<entryVars, setupVars, card>>

\* The form is shown again.
ProbeFails(p) ==
  /\ form[p] # NoForm /\ form[p].got = NoSerial
  /\ form' = [form EXCEPT ![p] = NoForm]
  /\ UNCHANGED <<entryVars, setupVars, card>>

ProbeAnswers(p, s) ==
  /\ form[p] # NoForm /\ form[p].got = NoSerial
  /\ form[p].step \in {"reconfigure", "reauth"} => form[p].serial \in {NoSerial, s}
  /\ form' = [form EXCEPT ![p].got = s]
  /\ UNCHANGED <<entryVars, setupVars, card>>

Probed(p, steps) == form[p].step \in steps /\ form[p].got # NoSerial

Ends(p) == form' = [form EXCEPT ![p] = NoForm]

UserCreates(p) ==
  /\ Probed(p, {"user"}) /\ ~ConfiguredForUser(form[p].got)
  /\ Creates(p, form[p].got, form[p].at)
UserKnows(p) ==
  /\ Probed(p, {"user"}) /\ ConfiguredForUser(form[p].got)
  /\ Ends(p) /\ UNCHANGED <<entryVars, setupVars, card>>

\* Nothing comes of a card that was closed meanwhile.
CardCreates(p) ==
  /\ Probed(p, {"card"}) /\ card[form[p].serial] # NoHost
  /\ form[p].got = form[p].serial /\ ~Configured(form[p].got)
  /\ Creates(p, form[p].got, form[p].at)
CardEnds(p) ==
  /\ Probed(p, {"card"})
  /\ \/ card[form[p].serial] = NoHost
     \/ form[p].got # form[p].serial
     \/ Configured(form[p].got)
  /\ card' = [card EXCEPT ![form[p].serial] = NoHost]
  /\ Ends(p) /\ UNCHANGED <<entryVars, setupVars>>

\* _identity_error, and the form is shown again.
Mismatches(i, s) == (~AwaitsSerial(i) /\ s # uid[i]) \/ TakenByOther(i, s)
Rejects(p) ==
  /\ Probed(p, {"reconfigure", "reauth"})
  /\ Mismatches(form[p].about, form[p].got)
  /\ Ends(p) /\ UNCHANGED <<entryVars, setupVars, card>>

\* _local_entry_data: a local entry, which keeps the permission it has now.
Reconfigures(p) ==
  LET i == form[p].about
  IN /\ Probed(p, {"reconfigure"}) /\ ~Mismatches(i, form[p].got)
     /\ kind' = [kind EXCEPT ![i] = "local"]
     /\ host' = [host EXCEPT ![i] = form[p].at]
     /\ marker' = [marker EXCEPT ![i] = AwaitsSerial(i)]
     /\ reload' = [reload EXCEPT ![i] = TRUE]
     /\ Ends(p) /\ UNCHANGED <<old, uid, state, tried, strict, found, card>>

Reauths(p) ==
  LET i == form[p].about
  IN /\ Probed(p, {"reauth"}) /\ ~Mismatches(i, form[p].got)
     /\ reload' = [reload EXCEPT ![i] = TRUE]
     /\ Ends(p) /\ UNCHANGED <<entryVars, state, tried, strict, found, card>>

Flow(p) ==
  \/ \E h \in Hosts: SendsUser(p, h)
  \/ \E s \in Serials: SendsCard(p, s) \/ ProbeAnswers(p, s)
  \/ \E i \in Ids: SendsReauth(p, i) \/ \E h \in Hosts: SendsReconfigure(p, i, h)
  \/ ProbeFails(p) \/ UserCreates(p) \/ UserKnows(p) \/ CardCreates(p) \/ CardEnds(p)
  \/ Rejects(p) \/ Reconfigures(p) \/ Reauths(p)

Next ==
  \/ \E i \in Ids: Setup(i) \/ Removes(i) \/ AsksReload(i)
  \/ \E s \in Serials: Ignores(s) \/ DismissesCard(s) \/ \E h \in Hosts: Announces(s, h)
  \/ \E h \in Hosts: UserAborts(h)
  \/ \E p \in People: Flow(p)

Spec == Init /\ [][Next]_vars

-----------------------------------------------------------------------------
(* Properties. *)

\* A setup insists on a serial just when its entry knows it, and goes on with
\* what the flows write meanwhile; a hub is there while it is answered.
Fits(i) ==
  /\ Real(i) /\ ~old[i] /\ ~AwaitsSerial(i) => uid[i] \in Serials
  /\ state[i] \in Busy \cup {"loaded"} => kind[i] = "local" /\ ~old[i]
  /\ state[i] \in {"connecting", "answered"} => strict[i] = ~AwaitsSerial(i)
  /\ found[i] # NoSerial <=> state[i] \in {"answered", "loaded"}
SetupFits == \A i \in Ids: Fits(i)
\* A form about an entry ends with it.
FormsFit ==
  \A p \in People:
    /\ form[p].step \in {"reconfigure", "reauth"}
         => form[p].about \in Ids /\ Real(form[p].about) /\ ~old[form[p].about]
    /\ form[p].step = "card" => form[p].serial \in Serials
    /\ form[p].step \in {"user", "card", "reconfigure"} => form[p].at \in Hosts
Inv == TypeOK /\ SetupFits /\ FormsFit

\* A charger has one entry at most, and no ignored card beside it: "a second
\* entry for the same charger would fight over the device" (const.py).
OneHolder ==
  \A i, j \in Ids:
    i # j /\ kind[i] # "none" /\ kind[j] # "none" /\ uid[i] = uid[j]
      => uid[i] \notin Serials

\* No card is open for a charger that has an entry: ignoring or finishing it
\* would make Home Assistant replace the entry.
CardsAreFree == \A s \in Serials: card[s] # NoHost => Holders(s) = {}

\* A hub whose entry knows its serial is connected to no other charger,
\* whatever the flows wrote to the entry during its setup, and a loaded entry
\* does know it.
ConnectedIsOwn ==
  \A i \in Ids:
    /\ found[i] # NoSerial /\ ~AwaitsSerial(i) => found[i] = uid[i]
    /\ state[i] = "loaded" => found[i] = uid[i] /\ ~AwaitsSerial(i)

\* No entry is ended but by the user: Home Assistant deletes one whose
\* unique_id another entry takes.
NoneReplaced == [][\A i \in Ids: Real(i) /\ ~Real(i)' => Removes(i)]_vars

\* An entry that knows its serial keeps it, and never again takes another
\* charger's: entity ids and history would go to that one (_adopt_serial).
IdentityIsFinal ==
  [][\A i \in Ids: Real(i) /\ ~old[i] /\ ~AwaitsSerial(i) /\ Real(i)'
       => uid'[i] = uid[i] /\ ~AwaitsSerial(i)']_vars

\* As documented of reload_failed_entry (const.py): no entry stays failed at the
\* old address of its charger with another one stored.
FailedWhereStored ==
  \A i \in Ids: state[i] = "mistaken" => reload[i] \/ tried[i] = host[i]

\* As documented of _local_entry_data (config_flow.py): the permission a
\* reconfigure leaves an entry is for the setup that follows it, at its address.
AdoptsAtItsAddress ==
  [][\A i \in Ids: Real(i) /\ Real(i)' /\ uid'[i] # uid[i] => tried[i] = host[i]]_vars
=============================================================================
