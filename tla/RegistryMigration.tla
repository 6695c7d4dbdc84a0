---- MODULE RegistryMigration ----
\* The migration of unique IDs at every setup of an entry
\* (registry_migration.py), on the part of Home Assistant's entity registry
\* that belongs to the entry: entities of older installations, of earlier
\* setups and of firmware that reported other properties, and the notice about
\* those it leaves as they are.
EXTENDS Integers, FiniteSets

CONSTANTS
  Entities,     \* registry IDs
  OldPrefixes,  \* what stood before the suffix: host names, addresses
  OldSuffixes,  \* the suffixes older installations have entities of
  Gone,         \* no such registry entry
  Renames       \* an entity ID is changed at most that often

Serial == "serial"
Prefixes == OldPrefixes \cup {Serial}

\* One description, or pair of descriptions, for each way a suffix is treated;
\* "other" stands for the unique IDs no description knows.
Suffixes ==
  {"amp", "amp_22kw", "trx", "cards_0", "chip_0", "AccessState", "access_state", "other"}

DomainsOf(s) ==
  CASE s \in {"amp", "amp_22kw"} -> {"number"}
    [] s = "trx" -> {"sensor", "button"}
    [] s \in Suffixes \ {"amp", "amp_22kw", "trx"} -> {"sensor"}

Domains == {"number", "sensor", "button"}

Items == {i \in [domain : Domains, prefix : Prefixes, suffix : Suffixes] :
            i.domain \in DomainsOf(i.suffix)}

ASSUME GoneAssumption == Gone \notin Items
ASSUME PrefixesAssumption == Serial \notin OldPrefixes
\* Suffixes of this integration's own: only its entities have them.
ASSUME SuffixesAssumption == OldSuffixes \subseteq Suffixes \ {"amp_22kw", "chip_0"}
ASSUME RenamesAssumption == Renames \in Nat

VARIABLES
  registry,    \* the entry's registry entries: domain and unique ID
  entityId,    \* how often an entity ID was changed: the name it has
  variant22,   \* the charger is the 22 kW variant
  reports,     \* the shapes it reports an ID chip in, "cards" and "chip"
  phase,       \* of the config entry
  todo,        \* entities async_migrate_entries has still to visit
  existing,    \* the unique IDs taken, as the migration counts them
  collisions,  \* the entities it has left as they are
  listed,      \* those the listener recounts
  issue        \* the notice: entities with the entity IDs it names

migrationVars == <<registry, entityId, variant22, reports, phase, todo,
                   existing, collisions, listed, issue>>

Present == {e \in Entities : registry[e] # Gone}

----
\* What the entry's charger makes of a suffix

\* _flat_chip_suffixes
FlatChips == "cards" \notin reports /\ "chip" \in reports

\* _known_suffixes, for a suffix that is known
KnownSuffixes(s) ==
  CASE s = "amp" /\ variant22 -> "amp_22kw"
    [] s = "cards_0" /\ FlatChips -> "chip_0"
    [] s = "AccessState" -> "access_state"
    [] s # "AccessState" /\ ~(s = "amp" /\ variant22) /\ ~(s = "cards_0" /\ FlatChips) -> s

\* The unique ID the migration wants for an entity.
TargetOf(i) ==
  [domain |-> i.domain, prefix |-> Serial, suffix |-> KnownSuffixes(i.suffix)]

Unmigrated(e) ==
  /\ registry[e] # Gone /\ registry[e].suffix # "other"
  /\ registry[e] # TargetOf(registry[e])

\* filter_supported: the entities this charger has.
Supported ==
  {[domain |-> "sensor", prefix |-> Serial, suffix |-> "trx"],
   [domain |-> "button", prefix |-> Serial, suffix |-> "trx"],
   [domain |-> "sensor", prefix |-> Serial, suffix |-> "access_state"],
   [domain |-> "number", prefix |-> Serial,
    suffix |-> IF variant22 THEN "amp_22kw" ELSE "amp"]}
  \cup {[domain |-> "sensor", prefix |-> Serial, suffix |-> s] :
          s \in {x \in {"cards_0", "chip_0"} :
                   (x = "cards_0" /\ "cards" \in reports) \/ (x = "chip_0" /\ "chip" \in reports)}}

\* Suffixes that stand for the same thing.
SameThing(s, t) ==
  \/ s = t
  \/ {s, t} \subseteq {"amp", "amp_22kw"}
  \/ {s, t} \subseteq {"cards_0", "chip_0"}
  \/ {s, t} \subseteq {"AccessState", "access_state"}

Named(S) == {<<e, entityId[e]>> : e \in S}

----
\* What an installation of this or another integration left, or nothing.
MigrationInit ==
  /\ registry \in [Entities -> {Gone} \cup {i \in Items : i.suffix \in OldSuffixes}]
  /\ \A e, f \in Entities : (e # f /\ registry[e] = registry[f]) => registry[e] = Gone
  /\ entityId = [e \in Entities |-> 0]
  /\ variant22 \in BOOLEAN /\ reports \in SUBSET {"cards", "chip"}
  /\ phase = "unloaded"
  /\ todo = {} /\ existing = {} /\ collisions = {} /\ listed = {} /\ issue = {}

\* async_migrate_legacy_unique_ids begins, with the status complete.
Begins ==
  /\ phase = "unloaded" /\ phase' = "migrating"
  /\ todo' = Present
  /\ existing' = {registry[e] : e \in Present}
  /\ collisions' = {}
  /\ UNCHANGED <<registry, entityId, variant22, reports, listed, issue>>

MigrateFaulty(e) ==
  /\ phase = "migrating" /\ e \in todo
  /\ todo' = todo \ {e}
  /\ IF Unmigrated(e) /\ TargetOf(registry[e]) \notin existing
     THEN registry' = [registry EXCEPT ![e] = TargetOf(registry[e])] /\ UNCHANGED collisions
     ELSE collisions' = collisions \cup (IF Unmigrated(e) THEN {e} ELSE {}) /\ UNCHANGED registry
  /\ UNCHANGED <<existing, entityId, variant22, reports, phase, listed, issue>>
\* _migrate, for one entity after the other in the registry's order: nothing
\* else runs meanwhile.
Migrate(e) ==
  /\ phase = "migrating" /\ e \in todo
  /\ todo' = todo \ {e}
  /\ IF Unmigrated(e) /\ TargetOf(registry[e]) \notin existing
     THEN /\ registry' = [registry EXCEPT ![e] = TargetOf(registry[e])]
          /\ existing' = existing \cup {TargetOf(registry[e])}
          /\ UNCHANGED collisions
     ELSE /\ collisions' = collisions \cup (IF Unmigrated(e) THEN {e} ELSE {})
          /\ UNCHANGED <<registry, existing>>
  /\ UNCHANGED <<entityId, variant22, reports, phase, listed, issue>>

\* _report_collisions: the notice, and a listener if there is one.
Reports ==
  /\ phase = "migrating" /\ todo = {}
  /\ phase' = "loaded"
  /\ issue' = Named(collisions)
  /\ listed' = collisions
  /\ existing' = {} /\ collisions' = {}
  /\ UNCHANGED <<registry, entityId, variant22, reports, todo>>

\* A platform adds an entity the registry does not know yet.
CreatesEntity(e) ==
  /\ phase = "loaded" /\ registry[e] = Gone
  /\ \E i \in Supported :
       /\ \A f \in Present : registry[f] # i
       /\ registry' = [registry EXCEPT ![e] = i]
  /\ UNCHANGED <<entityId, variant22, reports, phase, todo, existing, collisions, listed, issue>>

RecountedFaulty ==
  IF phase = "loaded" /\ listed # {}
  THEN {n \in issue : registry'[n[1]] # Gone}
  ELSE issue
\* _recount, while the entry is loaded and something was listed.
Recounted ==
  IF phase = "loaded" /\ listed # {}
  THEN {<<e, entityId'[e]>> : e \in {f \in listed : registry'[f] # Gone}}
  ELSE issue

\* The user deletes an entity, or changes its entity ID.
Deletes(e) ==
  /\ phase \in {"loaded", "unloaded"} /\ registry[e] # Gone
  /\ registry' = [registry EXCEPT ![e] = Gone]
  /\ entityId' = [entityId EXCEPT ![e] = 0]
  /\ listed' = listed \ {e}
  /\ issue' = Recounted
  /\ UNCHANGED <<variant22, reports, phase, todo, existing, collisions>>

ChangesId(e) ==
  /\ phase \in {"loaded", "unloaded"} /\ registry[e] # Gone
  /\ entityId[e] < Renames
  /\ registry' = registry
  /\ entityId' = [entityId EXCEPT ![e] = @ + 1]
  /\ issue' = Recounted
  /\ UNCHANGED <<variant22, reports, phase, todo, existing, collisions, listed>>

\* The entry is unloaded, and its listener with it.
Unloads ==
  /\ phase = "loaded" /\ phase' = "unloaded"
  /\ listed' = {}
  /\ UNCHANGED <<registry, entityId, variant22, reports, todo, existing, collisions, issue>>

\* Firmware that reports the ID chips in another shape: the charger restarts,
\* and the entry is reloaded for the version.
Firmware(r) ==
  /\ phase = "unloaded" /\ r # reports
  /\ reports' = r
  /\ UNCHANGED <<registry, entityId, variant22, phase, todo, existing, collisions, listed, issue>>

\* async_remove_entry: the notice goes with the entry, as its entities do.
RemovesEntry ==
  /\ phase = "unloaded" /\ phase' = "removed"
  /\ registry' = [e \in Entities |-> Gone] /\ entityId' = [e \in Entities |-> 0]
  /\ issue' = {}
  /\ UNCHANGED <<variant22, reports, todo, existing, collisions, listed>>

MigrationNext ==
  \/ Begins
  \/ \E e \in Entities : Migrate(e) \/ CreatesEntity(e) \/ Deletes(e) \/ ChangesId(e)
  \/ Reports
  \/ Unloads
  \/ \E r \in SUBSET {"cards", "chip"} : Firmware(r)
  \/ RemovesEntry

MigrationSpec == MigrationInit /\ [][MigrationNext]_migrationVars

----
RegistryTypeOK ==
  /\ registry \in [Entities -> Items \cup {Gone}]
  /\ entityId \in [Entities -> 0..Renames]
  /\ variant22 \in BOOLEAN /\ reports \in SUBSET {"cards", "chip"}
  /\ phase \in {"unloaded", "migrating", "loaded", "removed"}
  /\ todo \subseteq Entities /\ existing \subseteq Items
  /\ collisions \subseteq Entities /\ listed \subseteq Entities
  /\ issue \subseteq Entities \X (0..Renames)

\* What the migration keeps while it runs: every unique ID there is counts as
\* taken, what counts as taken and can be a target has its entity, and what it
\* has visited is where it belongs or noted.
Bookkeeping ==
  /\ phase = "migrating" =>
       /\ todo \subseteq Present /\ collisions \subseteq Present
       /\ \A e \in Present : registry[e] \in existing
       /\ \A i \in existing : (i.suffix # "other" /\ TargetOf(i) = i) => \E e \in Present : registry[e] = i
       /\ \A e \in Present : (Unmigrated(e) /\ e \notin todo) <=> e \in collisions
  /\ phase = "loaded" => listed = {e \in Present : Unmigrated(e)}
  /\ phase # "loaded" => listed = {}

\* The suffixes of its own are on entities this charger got from it.
Origins ==
  \A e \in Present :
    /\ registry[e].suffix = "amp_22kw" => variant22
    /\ registry[e].suffix = "chip_0" => registry[e].prefix = Serial

MigrationInv == RegistryTypeOK /\ Bookkeeping /\ Origins

\* No two entities of the entry have one unique ID, at any point of the
\* migration: Home Assistant would raise, and the setup fail half-way through.
UniqueIds == \A e, f \in Present : registry[e] = registry[f] => e = f

\* While the entry is loaded, the notice names exactly the entities that were
\* left as they are, by the entity IDs they have, and no notice outlives it.
IssueIsExact ==
  /\ phase = "loaded" => issue = Named({e \in Present : Unmigrated(e)})
  /\ phase = "removed" => issue = {}

\* An entity is left as it is only for another that has the unique ID it was
\* to get, not for one that has moved on (`existing` only grows).
CollisionsAreReal ==
  phase = "migrating" =>
    \A e \in collisions : \E f \in Present : f # e /\ registry[f] = TargetOf(registry[e])

\* An entity moves to the unique ID of the entity this charger will add for the
\* same thing, if it adds one, and never away from one that it adds: or its
\* history is stranded beside a new entity.
BoundToDevice ==
  [][\A e \in Present :
       (registry'[e] # Gone /\ registry'[e] # registry[e]) =>
         /\ registry[e] \notin Supported
         /\ registry'[e] \in Supported
            \/ \A i \in Supported : ~SameThing(i.suffix, registry[e].suffix)]_migrationVars

====
