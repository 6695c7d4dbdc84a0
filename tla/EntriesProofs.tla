--------------------------- MODULE EntriesProofs ---------------------------
(***************************************************************************)
(* Proofs about the config entries.                                        *)
(*                                                                         *)
(* The first part is about RegistryMigration, one entry's part of the      *)
(* entity registry, for any number of entities and whatever older          *)
(* installations left.  The second is about Entries, for any number of     *)
(* entries, chargers, addresses and people: who owns a charger, and that   *)
(* it stays so.                                                            *)
(***************************************************************************)
EXTENDS Entries, RegistryMigration, TLAPS

-----------------------------------------------------------------------------
(* The migration of unique IDs *)

\* _known_suffixes: what a suffix becomes is known, stands for the same thing
\* and stays as it is.
LEMMA SuffixesAreStable ==
  ASSUME NEW s \in Suffixes, s # "other"
  PROVE  /\ KnownSuffixes(s) \in Suffixes /\ KnownSuffixes(s) # "other"
         /\ KnownSuffixes(KnownSuffixes(s)) = KnownSuffixes(s)
         /\ DomainsOf(KnownSuffixes(s)) = DomainsOf(s)
  BY DEF Suffixes, KnownSuffixes, DomainsOf

\* The unique ID the migration wants is one it leaves alone.
LEMMA TargetsAreStable ==
  ASSUME NEW i \in Items, i.suffix # "other"
  PROVE  /\ TargetOf(i) \in Items /\ TargetOf(i).suffix # "other"
         /\ TargetOf(TargetOf(i)) = TargetOf(i)
  <1>1. i.suffix \in Suffixes /\ i.domain \in Domains /\ i.domain \in DomainsOf(i.suffix)
    BY DEF Items
  <1>2. Serial \in Prefixes
    BY DEF Prefixes
  <1> QED
    BY <1>1, <1>2, SuffixesAreStable DEF TargetOf, Items

\* What a suffix becomes is of this charger's own only if it was, or has to be.
LEMMA TargetOrigins ==
  ASSUME NEW i \in Items, i.suffix # "other", i.suffix = "amp_22kw" => variant22
  PROVE  /\ TargetOf(i).prefix = Serial
         /\ TargetOf(i).suffix = "amp_22kw" => variant22
  <1>1. i.suffix \in Suffixes
    BY DEF Items
  <1> QED
    BY <1>1 DEF TargetOf, KnownSuffixes, Suffixes

\* The unique ID the migration wants is one the charger has an entity for, if it
\* has one for the same thing.
LEMMA TargetsAreSupported ==
  ASSUME NEW i \in Items, i.suffix # "other", i # TargetOf(i),
         i.suffix = "amp_22kw" => variant22,
         i.suffix = "chip_0" => i.prefix = Serial
  PROVE  TargetOf(i) \in Supported \/ \A j \in Supported : ~SameThing(j.suffix, i.suffix)
  <1>1. /\ i.suffix \in Suffixes /\ i.domain \in DomainsOf(i.suffix)
        /\ i = [domain |-> i.domain, prefix |-> i.prefix, suffix |-> i.suffix]
    BY DEF Items
  <1>2. CASE i.suffix = "amp"
    BY <1>1, <1>2 DEF TargetOf, KnownSuffixes, Supported, DomainsOf
  <1>3. CASE i.suffix = "amp_22kw"
    BY <1>1, <1>3 DEF TargetOf, KnownSuffixes, Supported, DomainsOf
  <1>4. CASE i.suffix = "trx"
    BY <1>1, <1>4 DEF TargetOf, KnownSuffixes, Supported, DomainsOf
  <1>5. CASE i.suffix \in {"AccessState", "access_state"}
    BY <1>1, <1>5 DEF TargetOf, KnownSuffixes, Supported, DomainsOf
  <1>6. CASE i.suffix = "cards_0"
    <2>1. i.domain = "sensor"
      BY <1>1, <1>6 DEF DomainsOf
    <2>2. CASE FlatChips
      BY <1>6, <2>1, <2>2 DEF TargetOf, KnownSuffixes, Supported, FlatChips
    <2>3. CASE ~FlatChips /\ "cards" \in reports
      BY <1>6, <2>1, <2>3 DEF TargetOf, KnownSuffixes, Supported, FlatChips
    <2>4. CASE ~FlatChips /\ "cards" \notin reports
      BY <1>6, <2>4 DEF Supported, SameThing, FlatChips
    <2> QED
      BY <2>2, <2>3, <2>4
  <1>7. CASE i.suffix = "chip_0"
    BY <1>1, <1>7 DEF TargetOf, KnownSuffixes, DomainsOf
  <1> QED
    BY <1>1, <1>2, <1>3, <1>4, <1>5, <1>6, <1>7 DEF Suffixes

LEMMA MigrationInitInv == MigrationInit => MigrationInv
  <1> SUFFICES ASSUME MigrationInit PROVE MigrationInv
    OBVIOUS
  <1>1. RegistryTypeOK
    BY RenamesAssumption DEF MigrationInit, RegistryTypeOK
  <1>2. Bookkeeping
    BY DEF MigrationInit, Bookkeeping
  <1>3. Origins
    BY SuffixesAssumption DEF MigrationInit, Origins, Present
  <1> QED
    BY <1>1, <1>2, <1>3 DEF MigrationInv

LEMMA BeginsBook == MigrationInv /\ Begins => RegistryTypeOK' /\ Bookkeeping'
  <1> SUFFICES ASSUME MigrationInv, Begins PROVE RegistryTypeOK' /\ Bookkeeping'
    OBVIOUS
  <1>1. Present' = Present /\ \A e : Unmigrated(e)' <=> Unmigrated(e)
    BY DEF Begins, Present, Unmigrated, TargetOf, KnownSuffixes, FlatChips
  <1>2. \A e \in Present : registry[e] \in Items
    BY DEF MigrationInv, RegistryTypeOK, Present
  <1>3. RegistryTypeOK'
    BY <1>2 DEF Begins, MigrationInv, RegistryTypeOK, Present
  <1>4. Bookkeeping'
    BY <1>1 DEF Begins, MigrationInv, Bookkeeping
  <1> QED
    BY <1>3, <1>4

\* One step of the migration: the entity moves to a unique ID nothing has, or is
\* noted, or is where it belongs.
LEMMA MigrateCases ==
  ASSUME MigrationInv, NEW e \in Entities, Migrate(e)
  PROVE  /\ phase = "migrating" /\ phase' = "migrating" /\ e \in todo /\ e \in Present
         /\ todo' = todo \ {e} /\ Present' = Present
         /\ \A i : TargetOf(i)' = TargetOf(i)
         /\ UNCHANGED <<entityId, variant22, reports, listed, issue>>
         /\ \/ /\ Unmigrated(e) /\ TargetOf(registry[e]) \notin existing
               /\ registry' = [registry EXCEPT ![e] = TargetOf(registry[e])]
               /\ existing' = existing \cup {TargetOf(registry[e])}
               /\ collisions' = collisions
            \/ /\ Unmigrated(e) /\ TargetOf(registry[e]) \in existing
               /\ collisions' = collisions \cup {e} /\ registry' = registry /\ existing' = existing
            \/ /\ ~Unmigrated(e)
               /\ collisions' = collisions /\ registry' = registry /\ existing' = existing
  <1>1. phase = "migrating" /\ phase' = "migrating" /\ e \in todo /\ e \in Present /\ todo' = todo \ {e}
    BY DEF Migrate, MigrationInv, Bookkeeping
  <1>2. \A i : TargetOf(i)' = TargetOf(i)
    BY DEF Migrate, TargetOf, KnownSuffixes, FlatChips
  <1>3. UNCHANGED <<entityId, variant22, reports, listed, issue>>
    BY DEF Migrate
  <1>4. CASE Unmigrated(e) /\ TargetOf(registry[e]) \notin existing
    <2>1. /\ registry' = [registry EXCEPT ![e] = TargetOf(registry[e])]
          /\ existing' = existing \cup {TargetOf(registry[e])}
          /\ collisions' = collisions
      BY <1>4 DEF Migrate
    <2>2. registry[e] \in Items /\ TargetOf(registry[e]) \in Items
      BY <1>1, <1>4, TargetsAreStable DEF MigrationInv, RegistryTypeOK, Present, Unmigrated
    <2>3. Present' = Present
      BY <1>1, <2>1, <2>2, GoneAssumption DEF MigrationInv, RegistryTypeOK, Present
    <2> QED
      BY <1>1, <1>2, <1>3, <1>4, <2>1, <2>3
  <1>5. CASE ~(Unmigrated(e) /\ TargetOf(registry[e]) \notin existing)
    <2>1. /\ registry' = registry /\ existing' = existing
          /\ collisions' = collisions \cup (IF Unmigrated(e) THEN {e} ELSE {})
      BY <1>5 DEF Migrate
    <2>2. Present' = Present
      BY <2>1 DEF Present
    <2> QED
      BY <1>1, <1>2, <1>3, <1>5, <2>1, <2>2
  <1> QED
    BY <1>4, <1>5

LEMMA MigrateBook ==
  ASSUME MigrationInv, NEW e \in Entities, Migrate(e) PROVE RegistryTypeOK' /\ Bookkeeping'
  <1>1. CASE /\ Unmigrated(e) /\ TargetOf(registry[e]) \notin existing
             /\ registry' = [registry EXCEPT ![e] = TargetOf(registry[e])]
             /\ existing' = existing \cup {TargetOf(registry[e])}
             /\ collisions' = collisions
    <2> DEFINE t == TargetOf(registry[e])
    <2>1. registry[e] \in Items /\ t \in Items /\ t.suffix # "other" /\ TargetOf(t) = t
      BY <1>1, TargetsAreStable DEF MigrationInv, RegistryTypeOK, Unmigrated
    <2> HIDE DEF t
    <2>2. registry'[e] = t /\ \A f \in Entities : f # e => registry'[f] = registry[f]
      BY <1>1 DEF MigrationInv, RegistryTypeOK, t
    <2>3. RegistryTypeOK'
      BY <1>1, <2>1, MigrateCases DEF MigrationInv, RegistryTypeOK, t
    <2>4. \A f \in Present : f # e => (Unmigrated(f)' <=> Unmigrated(f))
      BY <2>2, MigrateCases DEF Unmigrated, Present
    <2>5. ~Unmigrated(e)'
      BY <2>1, <2>2, MigrateCases DEF Unmigrated
    <2>6. \A f \in Present : registry'[f] \in existing'
      BY <1>1, <2>2, MigrateCases DEF MigrationInv, Bookkeeping, Present, t
    <2>7. \A f \in Present : (Unmigrated(f)' /\ f \notin todo') <=> f \in collisions'
      BY <1>1, <2>4, <2>5, MigrateCases DEF MigrationInv, Bookkeeping
    <2>8. ASSUME NEW i \in existing', i.suffix # "other", TargetOf(i) = i
          PROVE  \E f \in Present : registry'[f] = i
      <3>1. CASE i = t
        BY <2>2, <3>1, MigrateCases
      <3>2. CASE i # t
        <4>1. i \in existing
          BY <1>1, <3>2 DEF t
        <4>2. PICK f \in Present : registry[f] = i
          BY <2>8, <4>1, MigrateCases DEF MigrationInv, Bookkeeping
        <4>3. f # e
          BY <1>1, <2>8, <4>2 DEF Unmigrated
        <4> QED
          BY <2>2, <4>2, <4>3 DEF Present
      <3> QED
        BY <3>1, <3>2
    <2>9. todo' \subseteq Present' /\ collisions' \subseteq Present' /\ phase' = "migrating" /\ listed' = {}
      BY <1>1, MigrateCases DEF MigrationInv, Bookkeeping
    <2>10. Bookkeeping'
      BY <2>6, <2>7, <2>8, <2>9, MigrateCases DEF Bookkeeping
    <2> QED
      BY <2>3, <2>10
  <1>2. CASE /\ registry' = registry /\ existing' = existing
             /\ collisions' = collisions \cup (IF Unmigrated(e) THEN {e} ELSE {})
    <2>1. RegistryTypeOK'
      BY <1>2, MigrateCases DEF MigrationInv, RegistryTypeOK
    <2>2. \A f : Unmigrated(f)' <=> Unmigrated(f)
      BY <1>2, MigrateCases DEF Unmigrated
    <2>3. \A f \in Present : (Unmigrated(f)' /\ f \notin todo') <=> f \in collisions'
      BY <1>2, <2>2, MigrateCases DEF MigrationInv, Bookkeeping
    <2>4. todo' \subseteq Present' /\ collisions' \subseteq Present' /\ phase' = "migrating" /\ listed' = {}
      BY <1>2, MigrateCases DEF MigrationInv, Bookkeeping
    <2>5. Bookkeeping'
      BY <1>2, <2>3, <2>4, MigrateCases DEF MigrationInv, Bookkeeping
    <2> QED
      BY <2>1, <2>5
  <1> QED
    BY <1>1, <1>2, MigrateCases

LEMMA OthersBook ==
  ASSUME MigrationInv, Reports \/ Unloads \/ RemovesEntry \/ UNCHANGED migrationVars
              \/ \E r \in SUBSET {"cards", "chip"} : Firmware(r)
              \/ \E e \in Entities : CreatesEntity(e) \/ Deletes(e) \/ ChangesId(e)
  PROVE  RegistryTypeOK' /\ Bookkeeping'
  <1>1. CASE Reports
    <2>1. Present' = Present /\ \A e : Unmigrated(e)' <=> Unmigrated(e)
      BY <1>1 DEF Reports, Present, Unmigrated, TargetOf, KnownSuffixes, FlatChips
    <2>2. collisions = {e \in Present : Unmigrated(e)}
      BY <1>1 DEF Reports, MigrationInv, Bookkeeping
    <2>3. Named(collisions) \subseteq Entities \X (0..Renames)
      BY DEF MigrationInv, RegistryTypeOK, Named
    <2>4. RegistryTypeOK'
      BY <1>1, <2>3 DEF Reports, MigrationInv, RegistryTypeOK
    <2>5. Bookkeeping'
      BY <1>1, <2>1, <2>2 DEF Reports, Bookkeeping
    <2> QED
      BY <2>4, <2>5
  <1>2. CASE Unloads
    BY <1>2 DEF Unloads, MigrationInv, RegistryTypeOK, Bookkeeping
  <1>3. CASE RemovesEntry
    <2>1. RegistryTypeOK'
      BY <1>3, RenamesAssumption DEF RemovesEntry, MigrationInv, RegistryTypeOK
    <2>2. Bookkeeping'
      BY <1>3 DEF RemovesEntry, MigrationInv, Bookkeeping
    <2> QED
      BY <2>1, <2>2
  <1>4. CASE UNCHANGED migrationVars
    BY <1>4 DEF migrationVars, MigrationInv, RegistryTypeOK, Bookkeeping, Present, Unmigrated, TargetOf, KnownSuffixes, FlatChips
  <1>5. ASSUME NEW r \in SUBSET {"cards", "chip"}, Firmware(r) PROVE RegistryTypeOK' /\ Bookkeeping'
    BY <1>5 DEF Firmware, MigrationInv, RegistryTypeOK, Bookkeeping
  <1>6. ASSUME NEW e \in Entities, CreatesEntity(e) PROVE RegistryTypeOK' /\ Bookkeeping'
    <2>1. PICK i \in Supported : registry' = [registry EXCEPT ![e] = i]
      BY <1>6 DEF CreatesEntity
    <2>2. i \in Items /\ i.suffix # "other" /\ TargetOf(i) = i
      BY DEF Supported, Items, Domains, DomainsOf, Prefixes, Suffixes, TargetOf, KnownSuffixes,
             FlatChips
    <2>3. RegistryTypeOK'
      BY <1>6, <2>1, <2>2 DEF CreatesEntity, MigrationInv, RegistryTypeOK
    <2>4. {f \in Present' : Unmigrated(f)'} = {f \in Present : Unmigrated(f)}
      BY <1>6, <2>1, <2>2
         DEF CreatesEntity, MigrationInv, RegistryTypeOK, Present, Unmigrated, TargetOf, KnownSuffixes, FlatChips
    <2>5. Bookkeeping'
      BY <1>6, <2>4 DEF CreatesEntity, MigrationInv, Bookkeeping
    <2> QED
      BY <2>3, <2>5
  <1>7. ASSUME NEW e \in Entities, Deletes(e) PROVE RegistryTypeOK' /\ Bookkeeping'
    <2>1. issue' \subseteq Entities \X (0..Renames)
      BY <1>7, RenamesAssumption DEF Deletes, Recounted, MigrationInv, RegistryTypeOK
    <2>2. RegistryTypeOK'
      BY <1>7, <2>1, RenamesAssumption DEF Deletes, MigrationInv, RegistryTypeOK
    <2>3. {f \in Present' : Unmigrated(f)'} = {f \in Present : Unmigrated(f)} \ {e}
      BY <1>7 DEF Deletes, MigrationInv, RegistryTypeOK, Present, Unmigrated, TargetOf, KnownSuffixes, FlatChips
    <2>4. Bookkeeping'
      BY <1>7, <2>3 DEF Deletes, MigrationInv, Bookkeeping
    <2> QED
      BY <2>2, <2>4
  <1>8. ASSUME NEW e \in Entities, ChangesId(e) PROVE RegistryTypeOK' /\ Bookkeeping'
    <2>1. entityId' \in [Entities -> 0..Renames]
      BY <1>8, RenamesAssumption DEF ChangesId, MigrationInv, RegistryTypeOK
    <2>2. issue' \subseteq Entities \X (0..Renames)
      BY <1>8, <2>1 DEF ChangesId, Recounted, MigrationInv, RegistryTypeOK
    <2>3. RegistryTypeOK'
      BY <1>8, <2>1, <2>2 DEF ChangesId, MigrationInv, RegistryTypeOK
    <2>4. {f \in Present' : Unmigrated(f)'} = {f \in Present : Unmigrated(f)}
      BY <1>8 DEF ChangesId, Present, Unmigrated, TargetOf, KnownSuffixes, FlatChips
    <2>5. Bookkeeping'
      BY <1>8, <2>4 DEF ChangesId, MigrationInv, Bookkeeping
    <2> QED
      BY <2>3, <2>5
  <1> QED
    BY <1>1, <1>2, <1>3, <1>4, <1>5, <1>6, <1>7, <1>8

LEMMA NextOrigins == MigrationInv /\ [MigrationNext]_migrationVars => Origins'
  <1> SUFFICES ASSUME MigrationInv, [MigrationNext]_migrationVars PROVE Origins'
    OBVIOUS
  <1>0. Present \subseteq Entities /\ \A f \in Present : registry[f] \in Items
    BY DEF Present, MigrationInv, RegistryTypeOK
  <1>1. ASSUME NEW e \in Entities, Migrate(e) PROVE Origins'
    <2>1. variant22' = variant22 /\ Present' = Present
      BY <1>1, MigrateCases
    <2>2. CASE registry' = registry
      BY <2>1, <2>2 DEF MigrationInv, Origins
    <2>3. CASE Unmigrated(e) /\ registry' = [registry EXCEPT ![e] = TargetOf(registry[e])]
      <3>1. registry'[e].prefix = Serial /\ (registry'[e].suffix = "amp_22kw" => variant22)
        BY <1>0, <2>3, TargetOrigins DEF Unmigrated, MigrationInv, RegistryTypeOK, Origins, Present
      <3>2. \A f \in Present : f # e => registry'[f] = registry[f]
        BY <1>0, <2>3 DEF MigrationInv, RegistryTypeOK
      <3> QED
        BY <2>1, <3>1, <3>2 DEF MigrationInv, Origins
    <2> QED
      BY <1>1, <2>2, <2>3, MigrateCases
  <1>2. ASSUME NEW e \in Entities, CreatesEntity(e) PROVE Origins'
    <2>1. PICK i \in Supported : registry' = [registry EXCEPT ![e] = i]
      BY <1>2 DEF CreatesEntity
    <2>2. i.prefix = Serial /\ (i.suffix = "amp_22kw" => variant22)
      BY DEF Supported
    <2> QED
      BY <1>2, <2>1, <2>2 DEF CreatesEntity, MigrationInv, RegistryTypeOK, Origins, Present
  <1>3. ASSUME NEW e \in Entities, Deletes(e) PROVE Origins'
    BY <1>3 DEF Deletes, MigrationInv, RegistryTypeOK, Origins, Present
  <1>4. CASE RemovesEntry
    BY <1>4 DEF RemovesEntry, Origins, Present
  <1>5. CASE UNCHANGED <<registry, variant22>>
    BY <1>5 DEF MigrationInv, Origins, Present
  <1>6. \/ \E e \in Entities : Migrate(e) \/ CreatesEntity(e) \/ Deletes(e)
        \/ RemovesEntry \/ UNCHANGED <<registry, variant22>>
    BY DEF MigrationNext, Begins, ChangesId, Reports, Unloads, Firmware, migrationVars
  <1> QED
    BY <1>1, <1>2, <1>3, <1>4, <1>5, <1>6

LEMMA MigrationNextInv == MigrationInv /\ [MigrationNext]_migrationVars => MigrationInv'
  <1> SUFFICES ASSUME MigrationInv, [MigrationNext]_migrationVars PROVE RegistryTypeOK' /\ Bookkeeping'
    BY NextOrigins DEF MigrationInv
  <1> QED
    BY BeginsBook, MigrateBook, OthersBook DEF MigrationNext

\* What the migration counts as taken and leaves aside fits the registry: for
\* any number of entities, prefixes and firmware changes.
THEOREM MigrationInvariance == MigrationSpec => []MigrationInv
  BY MigrationInitInv, MigrationNextInv, PTL DEF MigrationSpec

\* No two entities of the entry ever have one unique ID.
THEOREM IdsAreUnique == MigrationSpec => []UniqueIds
  <1>1. MigrationInit => UniqueIds
    BY DEF MigrationInit, UniqueIds, Present
  <1>2. MigrationInv /\ UniqueIds /\ [MigrationNext]_migrationVars => UniqueIds'
    <2> SUFFICES ASSUME MigrationInv, UniqueIds, [MigrationNext]_migrationVars PROVE UniqueIds'
      OBVIOUS
    <2>1. ASSUME NEW e \in Entities, Migrate(e) PROVE UniqueIds'
      <3>1. CASE registry' = registry
        BY <3>1 DEF UniqueIds, Present
      <3>2. CASE registry' = [registry EXCEPT ![e] = TargetOf(registry[e])] /\ TargetOf(registry[e]) \notin existing
        <4>1. \A f \in Present : registry[f] # TargetOf(registry[e])
          BY <2>1, <3>2, MigrateCases DEF MigrationInv, Bookkeeping
        <4>2. Present' = Present /\ Present \subseteq Entities
          BY <2>1, MigrateCases DEF Present
        <4> QED
          BY <3>2, <4>1, <4>2 DEF UniqueIds, MigrationInv, RegistryTypeOK
      <3> QED
        BY <2>1, <3>1, <3>2, MigrateCases
    <2>2. ASSUME NEW e \in Entities, CreatesEntity(e) PROVE UniqueIds'
      BY <2>2 DEF CreatesEntity, UniqueIds, Present, MigrationInv, RegistryTypeOK
    <2>3. ASSUME NEW e \in Entities, Deletes(e) PROVE UniqueIds'
      BY <2>3 DEF Deletes, UniqueIds, Present, MigrationInv, RegistryTypeOK
    <2>4. CASE RemovesEntry
      BY <2>4 DEF RemovesEntry, UniqueIds, Present
    <2>5. CASE UNCHANGED registry
      BY <2>5 DEF UniqueIds, Present
    <2>6. \/ \E e \in Entities : Migrate(e) \/ CreatesEntity(e) \/ Deletes(e)
          \/ RemovesEntry \/ UNCHANGED registry
      BY DEF MigrationNext, Begins, ChangesId, Reports, Unloads, Firmware, migrationVars
    <2> QED
      BY <2>1, <2>2, <2>3, <2>4, <2>5, <2>6
  <1> QED
    BY <1>1, <1>2, MigrationInvariance, PTL DEF MigrationSpec

\* The notice names exactly what was left as it is, for as long as the entry is
\* loaded, and goes with the entry.
THEOREM IssuesAreExact == MigrationSpec => []IssueIsExact
  <1> DEFINE Listed == phase = "loaded" => issue = Named(listed)
  <1> DEFINE Cleared == phase = "removed" => issue = {}
  <1>1. MigrationInit => Listed /\ Cleared
    BY DEF MigrationInit
  <1>2. MigrationInv /\ MigrationInv' /\ Listed /\ Cleared /\ [MigrationNext]_migrationVars => Listed' /\ Cleared'
    <2> SUFFICES ASSUME MigrationInv, MigrationInv', Listed, Cleared, [MigrationNext]_migrationVars PROVE Listed' /\ Cleared'
      OBVIOUS
    <2>1. CASE Begins
      BY <2>1 DEF Begins
    <2>2. ASSUME NEW e \in Entities, Migrate(e) PROVE Listed' /\ Cleared'
      BY <2>2, MigrateCases
    <2>3. CASE Reports
      BY <2>3 DEF Reports, Named
    <2>4. ASSUME NEW e \in Entities, CreatesEntity(e) PROVE Listed' /\ Cleared'
      BY <2>4 DEF CreatesEntity, Named
    <2>5. ASSUME NEW e \in Entities, Deletes(e) PROVE Listed' /\ Cleared'
      <3>1. CASE phase = "loaded" /\ listed # {}
        <4>1. {f \in listed : registry'[f] # Gone} = listed \ {e}
          BY <2>5, <3>1 DEF Deletes, MigrationInv, RegistryTypeOK, Bookkeeping, Present
        <4> QED
          BY <2>5, <3>1, <4>1 DEF Deletes, Recounted, Named
      <3>2. CASE ~(phase = "loaded" /\ listed # {})
        BY <2>5, <3>2 DEF Deletes, Recounted, Named
      <3> QED
        BY <3>1, <3>2
    <2>6. ASSUME NEW e \in Entities, ChangesId(e) PROVE Listed' /\ Cleared'
      <3>1. CASE phase = "loaded" /\ listed # {}
        <4>1. {f \in listed : registry'[f] # Gone} = listed
          BY <2>6, <3>1 DEF ChangesId, MigrationInv, Bookkeeping, Present
        <4> QED
          BY <2>6, <3>1, <4>1 DEF ChangesId, Recounted, Named
      <3>2. CASE ~(phase = "loaded" /\ listed # {})
        BY <2>6, <3>2 DEF ChangesId, Recounted, Named
      <3> QED
        BY <3>1, <3>2
    <2>7. CASE Unloads
      BY <2>7 DEF Unloads
    <2>8. ASSUME NEW r \in SUBSET {"cards", "chip"}, Firmware(r) PROVE Listed' /\ Cleared'
      BY <2>8 DEF Firmware
    <2>9. CASE RemovesEntry
      BY <2>9 DEF RemovesEntry
    <2>10. CASE UNCHANGED migrationVars
      BY <2>10 DEF migrationVars, Named
    <2> QED
      BY <2>1, <2>2, <2>3, <2>4, <2>5, <2>6, <2>7, <2>8, <2>9, <2>10 DEF MigrationNext
  <1>3. MigrationInv /\ Listed /\ Cleared => IssueIsExact
    BY DEF MigrationInv, Bookkeeping, IssueIsExact
  <1> QED
    BY <1>1, <1>2, <1>3, MigrationInvariance, PTL DEF MigrationSpec

\* An entity is left as it is only for another one that has its unique ID.
THEOREM CollisionsStayReal == MigrationSpec => []CollisionsAreReal
  <1>1. MigrationInit => CollisionsAreReal
    BY DEF MigrationInit, CollisionsAreReal
  <1>2. MigrationInv /\ CollisionsAreReal /\ [MigrationNext]_migrationVars => CollisionsAreReal'
    <2> SUFFICES ASSUME MigrationInv, CollisionsAreReal, [MigrationNext]_migrationVars PROVE CollisionsAreReal'
      OBVIOUS
    <2>1. ASSUME NEW e \in Entities, Migrate(e) PROVE CollisionsAreReal'
      <3> SUFFICES ASSUME NEW c \in collisions'
                   PROVE  \E f \in Present : f # c /\ registry'[f] = TargetOf(registry'[c])
        BY <2>1, MigrateCases DEF CollisionsAreReal
      <3>1. CASE c = e
        <4>1. Unmigrated(e) /\ TargetOf(registry[e]) \in existing /\ registry' = registry
          BY <2>1, <3>1, MigrateCases DEF MigrationInv, Bookkeeping
        <4>2. registry[e] \in Items /\ registry[e].suffix # "other" /\ registry[e] # TargetOf(registry[e])
          BY <4>1 DEF MigrationInv, RegistryTypeOK, Unmigrated
        <4>3. PICK f \in Present : registry[f] = TargetOf(registry[e])
          BY <2>1, <4>1, <4>2, TargetsAreStable, MigrateCases DEF MigrationInv, Bookkeeping
        <4> QED
          BY <3>1, <4>1, <4>2, <4>3
      <3>2. CASE c # e
        <4>1. c \in collisions /\ c \in Present /\ Unmigrated(c)
          BY <2>1, <3>2, MigrateCases DEF MigrationInv, Bookkeeping
        <4>2. PICK f \in Present : f # c /\ registry[f] = TargetOf(registry[c])
          BY <2>1, <4>1, MigrateCases DEF CollisionsAreReal
        <4>3. registry'[c] = registry[c]
          BY <2>1, <3>2, <4>1, MigrateCases DEF MigrationInv, RegistryTypeOK, Present
        <4>4. ~Unmigrated(f)
          BY <4>1, <4>2, TargetsAreStable DEF MigrationInv, RegistryTypeOK, Unmigrated, Present
        <4>5. registry'[f] = registry[f]
          BY <2>1, <4>4, MigrateCases DEF MigrationInv, RegistryTypeOK, Present
        <4> QED
          BY <4>2, <4>3, <4>5
      <3> QED
        BY <3>1, <3>2
    <2>2. CASE phase' # "migrating"
      BY <2>2 DEF CollisionsAreReal
    <2>3. CASE collisions' = {}
      BY <2>3 DEF CollisionsAreReal
    <2>4. CASE UNCHANGED migrationVars
      BY <2>4 DEF migrationVars, CollisionsAreReal, Present, TargetOf, KnownSuffixes, FlatChips
    <2>5. \/ \E e \in Entities : Migrate(e)
          \/ phase' # "migrating" \/ collisions' = {} \/ UNCHANGED migrationVars
      BY DEF MigrationNext, Begins, CreatesEntity, Deletes, ChangesId, Reports, Unloads, Firmware, RemovesEntry
    <2> QED
      BY <2>1, <2>2, <2>3, <2>4, <2>5
  <1> QED
    BY <1>1, <1>2, MigrationInvariance, PTL DEF MigrationSpec

\* A migrated entity is one this charger has, if it has one for the same thing,
\* and none is moved away from what the charger has.
THEOREM EntitiesStayBound == MigrationSpec => BoundToDevice
  <1> DEFINE Bound ==
        \A e \in Present :
          (registry'[e] # Gone /\ registry'[e] # registry[e]) =>
            /\ registry[e] \notin Supported
            /\ registry'[e] \in Supported
               \/ \A i \in Supported : ~SameThing(i.suffix, registry[e].suffix)
  <1>1. MigrationInv /\ [MigrationNext]_migrationVars => [Bound]_migrationVars
    <2> SUFFICES ASSUME MigrationInv, [MigrationNext]_migrationVars, NEW e \in Present,
                        registry'[e] # Gone, registry'[e] # registry[e]
                 PROVE  /\ registry[e] \notin Supported
                        /\ registry'[e] \in Supported
                           \/ \A i \in Supported : ~SameThing(i.suffix, registry[e].suffix)
      OBVIOUS
    <2>0. e \in Entities /\ registry[e] # Gone
      BY DEF Present
    <2>1. PICK f \in Entities : Migrate(f)
      BY <2>0 DEF MigrationNext, Begins, CreatesEntity, Deletes, ChangesId, Reports, Unloads, Firmware, RemovesEntry, migrationVars,
                  MigrationInv, RegistryTypeOK
    <2>2. f = e /\ registry'[e] = TargetOf(registry[e]) /\ registry[e] \in Items
          /\ registry[e].suffix # "other" /\ registry[e] # TargetOf(registry[e])
      BY <2>0, <2>1, MigrateCases DEF MigrationInv, RegistryTypeOK, Unmigrated
    <2>3. registry[e] \notin Supported
      BY <2>2 DEF Supported, TargetOf, KnownSuffixes, FlatChips
    <2>4. TargetOf(registry[e]) \in Supported
          \/ \A i \in Supported : ~SameThing(i.suffix, registry[e].suffix)
      BY <2>0, <2>2, TargetsAreSupported DEF MigrationInv, Origins, Present
    <2> QED
      BY <2>2, <2>3, <2>4
  <1> QED
    BY <1>1, MigrationInvariance, PTL DEF MigrationSpec, BoundToDevice

-----------------------------------------------------------------------------
(* Who owns which charger *)

USE NamesAssumption
USE DEF entryVars, setupVars, Keys, Busy, States, Real, AwaitsSerial, Idle

\* Inv with the properties it takes to keep it.
IInv == TypeOK /\ SetupFits /\ FormsFit /\ ConnectedIsOwn /\ CardsAreFree

-----------------------------------------------------------------------------
(* The inductive invariant: Init establishes it, each action keeps it. *)

LEMMA InvInit == Init => IInv
<1>. SUFFICES ASSUME Init PROVE IInv
  OBVIOUS
<1>. USE DEF Init
<1>1. TypeOK
  <2>1. old \in [Ids -> BOOLEAN]
    OBVIOUS
  <2>2. form \in [People -> Forms]
    BY DEF Forms, NoForm
  <2>. QED
    BY <2>1, <2>2 DEF TypeOK
<1>2. SetupFits /\ ConnectedIsOwn /\ CardsAreFree
  BY DEF SetupFits, Fits, ConnectedIsOwn, CardsAreFree
<1>3. FormsFit
  BY DEF FormsFit, NoForm
<1>. QED
  BY <1>1, <1>2, <1>3 DEF IInv

LEMMA MigratesKeeps == ASSUME IInv, NEW i \in Ids, Migrates(i) PROVE IInv'
<1>. USE DEF IInv, Migrates
<1>1. TypeOK'
  BY DEF TypeOK
<1>2. SetupFits'
  BY DEF SetupFits, Fits, TypeOK
<1>3. FormsFit'
  BY DEF FormsFit
<1>4. ConnectedIsOwn'
  BY DEF ConnectedIsOwn, SetupFits, Fits
<1>5. CardsAreFree'
  BY DEF CardsAreFree, Holders
<1>. QED
  BY <1>1, <1>2, <1>3, <1>4, <1>5

LEMMA CloudFailsKeeps == ASSUME IInv, NEW i \in Ids, CloudFails(i) PROVE IInv'
<1>. USE DEF IInv, CloudFails
<1>1. TypeOK'
  BY DEF TypeOK
<1>2. SetupFits'
  BY DEF SetupFits, Fits
<1>3. FormsFit'
  BY DEF FormsFit
<1>4. ConnectedIsOwn'
  BY DEF ConnectedIsOwn
<1>5. CardsAreFree'
  BY DEF CardsAreFree, Holders
<1>. QED
  BY <1>1, <1>2, <1>3, <1>4, <1>5

LEMMA StartsKeeps == ASSUME IInv, NEW i \in Ids, Starts(i) PROVE IInv'
<1>. USE DEF IInv, Starts
<1>1. TypeOK'
  BY DEF TypeOK
<1>2. SetupFits'
  BY DEF SetupFits, Fits, TypeOK
<1>3. FormsFit'
  BY DEF FormsFit
<1>4. ConnectedIsOwn'
  BY DEF ConnectedIsOwn
<1>5. CardsAreFree'
  BY DEF CardsAreFree, Holders
<1>. QED
  BY <1>1, <1>2, <1>3, <1>4, <1>5

LEMMA MistakenKeeps == ASSUME IInv, NEW i \in Ids, Mistaken(i) PROVE IInv'
<1>. USE DEF IInv, Mistaken
<1>1. TypeOK'
  BY DEF TypeOK
<1>2. SetupFits'
  BY DEF SetupFits, Fits, TypeOK
<1>3. FormsFit'
  BY DEF FormsFit
<1>4. ConnectedIsOwn'
  BY DEF ConnectedIsOwn
<1>5. CardsAreFree'
  BY DEF CardsAreFree, Holders
<1>. QED
  BY <1>1, <1>2, <1>3, <1>4, <1>5

LEMMA ConnectFailsKeeps == ASSUME IInv, NEW i \in Ids, ConnectFails(i) PROVE IInv'
<1>. USE DEF IInv, ConnectFails, EndsWith
<1>1. TypeOK'
  BY DEF TypeOK
<1>2. SetupFits'
  <2>. SUFFICES ASSUME NEW j \in Ids PROVE Fits(j)'
    BY DEF SetupFits
  <2>1. Fits(j) /\ Fits(i)
    BY DEF SetupFits
  <2>2. CASE j = i
    BY <2>1, <2>2 DEF Fits, TypeOK
  <2>3. CASE j # i
    BY <2>1, <2>3 DEF Fits, TypeOK
  <2>. QED
    BY <2>2, <2>3
<1>3. FormsFit'
  BY DEF FormsFit
<1>4. ConnectedIsOwn'
  BY DEF ConnectedIsOwn
<1>5. CardsAreFree'
  BY DEF CardsAreFree, Holders
<1>. QED
  BY <1>1, <1>2, <1>3, <1>4, <1>5

LEMMA AnswersKeeps == ASSUME IInv, NEW i \in Ids, NEW s \in Serials, Answers(i, s) PROVE IInv'
<1>. USE DEF IInv, Answers
<1>1. TypeOK'
  BY DEF TypeOK
<1>2. SetupFits'
  BY DEF SetupFits, Fits, TypeOK
<1>3. FormsFit'
  BY DEF FormsFit
<1>4. ConnectedIsOwn'
  BY DEF ConnectedIsOwn, TypeOK, SetupFits, Fits
<1>5. CardsAreFree'
  BY DEF CardsAreFree, Holders
<1>. QED
  BY <1>1, <1>2, <1>3, <1>4, <1>5

LEMMA AdoptionFailsKeeps == ASSUME IInv, NEW i \in Ids, AdoptionFails(i) PROVE IInv'
<1>. USE DEF IInv, AdoptionFails, EndsWith
<1>1. TypeOK'
  BY DEF TypeOK
<1>2. SetupFits'
  BY DEF SetupFits, Fits, TypeOK
<1>3. FormsFit'
  BY DEF FormsFit
<1>4. ConnectedIsOwn'
  BY DEF ConnectedIsOwn
<1>5. CardsAreFree'
  BY DEF CardsAreFree, Holders
<1>. QED
  BY <1>1, <1>2, <1>3, <1>4, <1>5

LEMMA ConfirmsKeeps == ASSUME IInv, NEW i \in Ids, Confirms(i) PROVE IInv'
<1>. USE DEF IInv, Confirms, EndsWith, Forwards
<1>1. TypeOK'
  BY DEF TypeOK
<1>2. SetupFits'
  <2>. SUFFICES ASSUME NEW j \in Ids PROVE Fits(j)'
    BY DEF SetupFits
  <2>1. Fits(j) /\ Fits(i)
    BY DEF SetupFits
  <2>2. CASE j = i
    BY <2>1, <2>2 DEF Fits, TypeOK
  <2>3. CASE j # i
    BY <2>1, <2>3 DEF Fits, TypeOK
  <2>. QED
    BY <2>2, <2>3
<1>3. FormsFit'
  BY DEF FormsFit
<1>4. ConnectedIsOwn'
  BY DEF ConnectedIsOwn
<1>5. CardsAreFree'
  BY DEF CardsAreFree, Holders
<1>. QED
  BY <1>1, <1>2, <1>3, <1>4, <1>5

LEMMA AdoptsKeeps == ASSUME IInv, NEW i \in Ids, Adopts(i) PROVE IInv'
<1>. USE DEF IInv, Adopts, EndsWith, Forwards, Writes, Without, Refuses, IgnoredCards
<1>1. TypeOK'
  <2>1. kind' \in [Ids -> Kinds] /\ uid' \in [Ids -> Keys]
    BY DEF TypeOK, Kinds, Fits, SetupFits
  <2>2. marker' \in [Ids -> BOOLEAN] /\ card' \in [Serials -> Hosts \cup {NoHost}]
    BY DEF TypeOK
  <2>3. tried' \in [Ids -> Hosts \cup {NoHost}] /\ strict' \in [Ids -> BOOLEAN]
    BY DEF TypeOK
  <2>4. found' \in [Ids -> Serials \cup {NoSerial}] /\ state' \in [Ids -> States]
    BY DEF TypeOK
  <2>. QED
    BY <2>1, <2>2, <2>3, <2>4 DEF TypeOK
<1>2. SetupFits'
  <2>. SUFFICES ASSUME NEW j \in Ids PROVE Fits(j)'
    BY DEF SetupFits
  <2>1. Fits(j) /\ Fits(i)
    BY DEF SetupFits
  <2>2. CASE j = i
    BY <2>1, <2>2 DEF Fits, TypeOK
  <2>3. CASE j # i
    BY <2>1, <2>3 DEF Fits, TypeOK
  <2>. QED
    BY <2>2, <2>3
<1>3. FormsFit'
  BY DEF FormsFit
<1>4. ConnectedIsOwn'
  BY DEF ConnectedIsOwn, TypeOK, SetupFits, Fits
<1>5. CardsAreFree'
  BY DEF CardsAreFree, TypeOK, Holders
<1>. QED
  BY <1>1, <1>2, <1>3, <1>4, <1>5

LEMMA CancelledKeeps == ASSUME IInv, NEW i \in Ids, Cancelled(i) PROVE IInv'
<1>. USE DEF IInv, Cancelled, EndsWith
<1>1. TypeOK'
  BY DEF TypeOK
<1>2. SetupFits'
  BY DEF SetupFits, Fits, TypeOK
<1>3. FormsFit'
  BY DEF FormsFit
<1>4. ConnectedIsOwn'
  BY DEF ConnectedIsOwn
<1>5. CardsAreFree'
  BY DEF CardsAreFree, Holders
<1>. QED
  BY <1>1, <1>2, <1>3, <1>4, <1>5

LEMMA ReloadsKeeps == ASSUME IInv, NEW i \in Ids, Reloads(i) PROVE IInv'
<1>. USE DEF IInv, Reloads, EndsWith
<1>1. TypeOK'
  BY DEF TypeOK
<1>2. SetupFits'
  BY DEF SetupFits, Fits, TypeOK
<1>3. FormsFit'
  BY DEF FormsFit
<1>4. ConnectedIsOwn'
  BY DEF ConnectedIsOwn, TypeOK
<1>5. CardsAreFree'
  BY DEF CardsAreFree, Holders
<1>. QED
  BY <1>1, <1>2, <1>3, <1>4, <1>5

LEMMA RemovesKeeps == ASSUME IInv, NEW i \in Ids, Removes(i) PROVE IInv'
<1>. USE DEF IInv, Removes, Replaces, Without, Holders, FormsWithout, NoForm
<1>1. TypeOK'
  BY DEF TypeOK, Kinds, Forms
<1>2. SetupFits'
  BY DEF SetupFits, Fits
<1>3. FormsFit'
  BY DEF FormsFit
<1>4. ConnectedIsOwn'
  BY DEF ConnectedIsOwn
<1>5. CardsAreFree'
  BY DEF CardsAreFree
<1>. QED
  BY <1>1, <1>2, <1>3, <1>4, <1>5

LEMMA AsksReloadKeeps == ASSUME IInv, NEW i \in Ids, AsksReload(i) PROVE IInv'
<1>. USE DEF IInv, AsksReload
<1>1. TypeOK'
  BY DEF TypeOK
<1>2. SetupFits'
  BY DEF SetupFits, Fits
<1>3. FormsFit'
  BY DEF FormsFit
<1>4. ConnectedIsOwn'
  BY DEF ConnectedIsOwn
<1>5. CardsAreFree'
  BY DEF CardsAreFree, Holders
<1>. QED
  BY <1>1, <1>2, <1>3, <1>4, <1>5

LEMMA AnnouncesKnownKeeps == ASSUME IInv, NEW s \in Serials, NEW h \in Hosts, NEW available \in BOOLEAN, AnnouncesKnown(s, h, available) PROVE IInv'
<1>. USE DEF IInv, AnnouncesKnown, Holders, Follows
<1>1. TypeOK'
  BY DEF TypeOK
<1>2. SetupFits'
  BY DEF SetupFits, Fits
<1>3. FormsFit'
  BY DEF FormsFit
<1>4. ConnectedIsOwn'
  BY DEF ConnectedIsOwn
<1>5. CardsAreFree'
  BY DEF CardsAreFree
<1>. QED
  BY <1>1, <1>2, <1>3, <1>4, <1>5

LEMMA AnnouncesAwaitedKeeps == ASSUME IInv, NEW s \in Serials, NEW h \in Hosts, AnnouncesAwaited(s, h) PROVE IInv'
<1>. USE DEF IInv, AnnouncesAwaited, AbortsAwaiting
<1>1. TypeOK'
  BY DEF TypeOK
<1>2. SetupFits'
  BY DEF SetupFits, Fits
<1>3. FormsFit'
  BY DEF FormsFit
<1>4. ConnectedIsOwn'
  BY DEF ConnectedIsOwn
<1>5. CardsAreFree'
  BY DEF CardsAreFree, Holders
<1>. QED
  BY <1>1, <1>2, <1>3, <1>4, <1>5

LEMMA OpensCardKeeps == ASSUME IInv, NEW s \in Serials, NEW h \in Hosts, OpensCard(s, h) PROVE IInv'
<1>. USE DEF IInv, OpensCard, Holders
<1>1. TypeOK'
  BY DEF TypeOK
<1>2. SetupFits'
  BY DEF SetupFits, Fits
<1>3. FormsFit'
  BY DEF FormsFit
<1>4. ConnectedIsOwn'
  BY DEF ConnectedIsOwn
<1>5. CardsAreFree'
  BY DEF CardsAreFree
<1>. QED
  BY <1>1, <1>2, <1>3, <1>4, <1>5

LEMMA DismissesCardKeeps == ASSUME IInv, NEW s \in Serials, DismissesCard(s) PROVE IInv'
<1>. USE DEF IInv, DismissesCard
<1>1. TypeOK'
  BY DEF TypeOK
<1>2. SetupFits'
  BY DEF SetupFits, Fits
<1>3. FormsFit'
  BY DEF FormsFit
<1>4. ConnectedIsOwn'
  BY DEF ConnectedIsOwn
<1>5. CardsAreFree'
  BY DEF CardsAreFree, Holders
<1>. QED
  BY <1>1, <1>2, <1>3, <1>4, <1>5

LEMMA UserAbortsKeeps == ASSUME IInv, NEW h \in Hosts, UserAborts(h) PROVE IInv'
<1>. USE DEF IInv, UserAborts, AbortsAwaiting
<1>1. TypeOK'
  BY DEF TypeOK
<1>2. SetupFits'
  BY DEF SetupFits, Fits
<1>3. FormsFit'
  BY DEF FormsFit
<1>4. ConnectedIsOwn'
  BY DEF ConnectedIsOwn
<1>5. CardsAreFree'
  BY DEF CardsAreFree, Holders
<1>. QED
  BY <1>1, <1>2, <1>3, <1>4, <1>5

LEMMA ReconfiguresKeeps == ASSUME IInv, NEW p \in People, Reconfigures(p) PROVE IInv'
<1>. USE DEF IInv, Reconfigures, Probed, Ends, NoForm
<1>1. TypeOK'
  BY DEF TypeOK, Kinds, Forms
<1>2. SetupFits'
  <2>. DEFINE i == form[p].about
  <2>0. i \in Ids /\ Real(i) /\ ~old[i]
    BY DEF FormsFit
  <2>. SUFFICES ASSUME NEW j \in Ids PROVE Fits(j)'
    BY DEF SetupFits
  <2>1. Fits(j)
    BY DEF SetupFits
  <2>2. CASE j = i
    <3>1. kind'[j] = "local" /\ marker'[j] = AwaitsSerial(j)
      BY <2>0, <2>2 DEF TypeOK
    <3>2. AwaitsSerial(j)' = AwaitsSerial(j)
      BY <3>1
    <3>. QED
      BY <2>0, <2>1, <2>2, <3>1, <3>2 DEF Fits
  <2>3. CASE j # i
    BY <2>0, <2>1, <2>3 DEF Fits, TypeOK
  <2>. QED
    BY <2>2, <2>3
<1>3. FormsFit'
  BY DEF FormsFit
<1>4. ConnectedIsOwn'
  BY DEF ConnectedIsOwn, TypeOK
<1>5. CardsAreFree'
  <2>1. \A j \in Ids: kind'[j] # "none" => kind[j] # "none"
    BY DEF TypeOK, FormsFit, Forms
  <2>. QED
    BY <2>1 DEF CardsAreFree, Holders
<1>. QED
  BY <1>1, <1>2, <1>3, <1>4, <1>5

LEMMA ReauthsKeeps == ASSUME IInv, NEW p \in People, Reauths(p) PROVE IInv'
<1>. USE DEF IInv, Reauths, Probed, Ends, NoForm
<1>1. TypeOK'
  BY DEF TypeOK, Forms
<1>2. SetupFits'
  BY DEF SetupFits, Fits
<1>3. FormsFit'
  BY DEF FormsFit
<1>4. ConnectedIsOwn'
  BY DEF ConnectedIsOwn
<1>5. CardsAreFree'
  BY DEF CardsAreFree, Holders
<1>. QED
  BY <1>1, <1>2, <1>3, <1>4, <1>5

LEMMA CardEndsKeeps == ASSUME IInv, NEW p \in People, CardEnds(p) PROVE IInv'
<1>. USE DEF IInv, CardEnds, Probed, Ends, NoForm
<1>1. TypeOK'
  BY DEF TypeOK, Forms
<1>2. SetupFits'
  BY DEF SetupFits, Fits
<1>3. FormsFit'
  BY DEF FormsFit
<1>4. ConnectedIsOwn'
  BY DEF ConnectedIsOwn
<1>5. CardsAreFree'
  BY DEF CardsAreFree, Holders
<1>. QED
  BY <1>1, <1>2, <1>3, <1>4, <1>5

\* What Replaces leaves of entry j.
LEMMA ReplacesValues ==
  ASSUME TypeOK, NEW i \in Ids, NEW gone \in SUBSET Ids, NEW k \in Kinds,
         NEW s \in Serials, NEW h \in Hosts \cup {NoHost}, Replaces(gone, i, k, s, h)
  PROVE  /\ TypeOK' \/ card' \notin [Serials -> Hosts \cup {NoHost}] \/ form' \notin [People -> Forms]
         /\ kind'[i] = k /\ uid'[i] = s /\ ~old'[i]
         /\ \A j \in gone \cup {i}: state'[j] = "not_loaded" /\ found'[j] = NoSerial
         /\ \A j \in gone \ {i}: kind'[j] = "none" /\ uid'[j] = NoSerial
         /\ \A j \in Ids \ (gone \cup {i}):
              /\ kind'[j] = kind[j] /\ uid'[j] = uid[j] /\ old'[j] = old[j]
              /\ marker'[j] = marker[j] /\ state'[j] = state[j]
              /\ strict'[j] = strict[j] /\ found'[j] = found[j]
<1>. USE DEF Replaces, Without
<1>1. /\ kind' \in [Ids -> Kinds] /\ uid' \in [Ids -> Keys]
      /\ host' \in [Ids -> Hosts \cup {NoHost}] /\ marker' \in [Ids -> BOOLEAN]
  BY DEF TypeOK, Kinds
<1>2. /\ old' \in [Ids -> BOOLEAN] /\ state' \in [Ids -> States]
      /\ reload' \in [Ids -> BOOLEAN] /\ tried' \in [Ids -> Hosts \cup {NoHost}]
  BY DEF TypeOK
<1>3. strict' \in [Ids -> BOOLEAN] /\ found' \in [Ids -> Serials \cup {NoSerial}]
  BY DEF TypeOK
<1>4. TypeOK' \/ card' \notin [Serials -> Hosts \cup {NoHost}] \/ form' \notin [People -> Forms]
  BY <1>1, <1>2, <1>3 DEF TypeOK
<1>5. /\ kind'[i] = k /\ uid'[i] = s /\ ~old'[i]
      /\ \A j \in gone \cup {i}: state'[j] = "not_loaded" /\ found'[j] = NoSerial
      /\ \A j \in gone \ {i}: kind'[j] = "none" /\ uid'[j] = NoSerial
  BY DEF TypeOK
<1>6. ASSUME NEW j \in Ids \ (gone \cup {i})
      PROVE  /\ kind'[j] = kind[j] /\ uid'[j] = uid[j] /\ old'[j] = old[j]
             /\ marker'[j] = marker[j] /\ state'[j] = state[j]
             /\ strict'[j] = strict[j] /\ found'[j] = found[j]
  BY <1>6 DEF TypeOK
<1>. QED
  BY <1>4, <1>5, <1>6

\* An entry that begins keeps the invariant, when the cards of its charger close.
LEMMA ReplacesKeeps ==
  ASSUME IInv, NEW s \in Serials, NEW gone \in SUBSET Ids, gone = Holders(s),
         NEW i \in Ids, NEW k \in Kinds, NEW h \in Hosts \cup {NoHost},
         Replaces(gone, i, k, s, h), kind[i] = "none",
         card' = [card EXCEPT ![s] = NoHost],
         form' \in [People -> Forms],
         \A p \in People: form'[p] = NoForm \/ (form'[p] = form[p] /\ form[p].about \notin gone)
  PROVE  IInv'
<1>1. TypeOK'
  <2>1. card' \in [Serials -> Hosts \cup {NoHost}]
    BY DEF IInv, TypeOK
  <2>. QED
    BY <2>1, ReplacesValues DEF IInv
<1>2. /\ kind'[i] = k /\ uid'[i] = s /\ ~old'[i]
      /\ \A j \in gone \cup {i}: state'[j] = "not_loaded" /\ found'[j] = NoSerial
      /\ \A j \in gone \ {i}: kind'[j] = "none" /\ uid'[j] = NoSerial
      /\ \A j \in Ids \ (gone \cup {i}):
           /\ kind'[j] = kind[j] /\ uid'[j] = uid[j] /\ old'[j] = old[j]
           /\ marker'[j] = marker[j] /\ state'[j] = state[j]
           /\ strict'[j] = strict[j] /\ found'[j] = found[j]
  <2>1. TypeOK
    BY DEF IInv
  <2>2. kind'[i] = k /\ uid'[i] = s /\ ~old'[i]
    BY <2>1, ReplacesValues
  <2>3. \A j \in gone \cup {i}: state'[j] = "not_loaded" /\ found'[j] = NoSerial
    BY <2>1, ReplacesValues
  <2>4. \A j \in gone \ {i}: kind'[j] = "none" /\ uid'[j] = NoSerial
    BY <2>1, ReplacesValues
  <2>5. \A j \in Ids \ (gone \cup {i}):
           /\ kind'[j] = kind[j] /\ uid'[j] = uid[j] /\ old'[j] = old[j]
           /\ marker'[j] = marker[j] /\ state'[j] = state[j]
           /\ strict'[j] = strict[j] /\ found'[j] = found[j]
    BY <2>1, ReplacesValues
  <2>. QED
    BY <2>2, <2>3, <2>4, <2>5
<1>3. SetupFits'
  <2>. SUFFICES ASSUME NEW j \in Ids PROVE Fits(j)'
    BY DEF SetupFits
  <2>1. CASE j \in gone \cup {i}
    BY <1>2, <2>1 DEF Fits
  <2>2. CASE j \notin gone \cup {i}
    BY <1>2, <2>2 DEF Fits, SetupFits, IInv
  <2>. QED
    BY <2>1, <2>2
<1>4. ConnectedIsOwn'
  <2>. SUFFICES ASSUME NEW j \in Ids
                PROVE  /\ found'[j] # NoSerial /\ ~AwaitsSerial(j)' => found'[j] = uid'[j]
                       /\ state'[j] = "loaded" => found'[j] = uid'[j] /\ ~AwaitsSerial(j)'
    BY DEF ConnectedIsOwn
  <2>1. CASE j \in gone \cup {i}
    BY <1>2, <2>1
  <2>2. CASE j \notin gone \cup {i}
    BY <1>2, <2>2 DEF ConnectedIsOwn, IInv
  <2>. QED
    BY <2>1, <2>2
<1>5. CardsAreFree'
  <2>. SUFFICES ASSUME NEW t \in Serials, card'[t] # NoHost, NEW j \in Ids,
                       kind'[j] # "none", uid'[j] = t
                PROVE  FALSE
    BY DEF CardsAreFree, Holders
  <2>1. t # s /\ card[t] # NoHost
    BY DEF IInv, TypeOK
  <2>2. j \notin gone \cup {i}
    BY <1>2, <2>1
  <2>. QED
    BY <1>2, <2>1, <2>2 DEF IInv, CardsAreFree, Holders
<1>6. FormsFit'
  <2>. SUFFICES ASSUME NEW p \in People, form'[p] = form[p], form[p].about \notin gone,
                       form'[p] # NoForm
                PROVE  /\ form[p].step \in {"reconfigure", "reauth"}
                            => /\ form[p].about \in Ids /\ Real(form[p].about)'
                               /\ ~old'[form[p].about]
                       /\ form[p].step = "card" => form[p].serial \in Serials
                       /\ form[p].step \in {"user", "card", "reconfigure"} => form[p].at \in Hosts
    BY DEF FormsFit, NoForm
  <2>. QED
    BY <1>2 DEF FormsFit, IInv
<1>. QED
  BY <1>1, <1>3, <1>4, <1>5, <1>6 DEF IInv

LEMMA CreatesKeeps ==
  ASSUME IInv, NEW p \in People, NEW s \in Serials, NEW h \in Hosts, Creates(p, s, h)
  PROVE  IInv'
<1>1. PICK i \in Ids: kind[i] = "none" /\ Replaces(Holders(s), i, "local", s, h)
  BY DEF Creates
<1>2. form' \in [People -> Forms]
  BY DEF Creates, FormsWithout, NoForm, Forms, IInv, TypeOK
<1>3. \A q \in People: form'[q] = NoForm \/ (form'[q] = form[q] /\ form[q].about \notin Holders(s))
  BY DEF Creates, FormsWithout, NoForm, Forms, IInv, TypeOK
<1>4. Holders(s) \in SUBSET Ids /\ card' = [card EXCEPT ![s] = NoHost]
  BY DEF Holders, Creates
<1>. QED
  BY <1>1, <1>2, <1>3, <1>4, ReplacesKeeps DEF Kinds

LEMMA IgnoresKeeps == ASSUME IInv, NEW s \in Serials, Ignores(s) PROVE IInv'
<1>1. PICK i \in Ids: kind[i] = "none" /\ Replaces(Holders(s), i, "ignored", s, NoHost)
  BY DEF Ignores
<1>2. form' \in [People -> Forms]
  BY DEF Ignores, FormsWithout, NoForm, Forms, IInv, TypeOK
<1>3. \A q \in People: form'[q] = NoForm \/ (form'[q] = form[q] /\ form[q].about \notin Holders(s))
  BY DEF Ignores, FormsWithout, NoForm, Forms, IInv, TypeOK
<1>4. Holders(s) \in SUBSET Ids /\ card' = [card EXCEPT ![s] = NoHost]
  BY DEF Holders, Ignores
<1>. QED
  BY <1>1, <1>2, <1>3, <1>4, ReplacesKeeps DEF Kinds

\* Steps that only send a form, or take it back.
LEMMA FormKeeps ==
  ASSUME IInv, UNCHANGED <<entryVars, setupVars, card>>, form' \in [People -> Forms], FormsFit'
  PROVE  IInv'
<1>1. TypeOK' /\ SetupFits'
  BY DEF IInv, TypeOK, SetupFits, Fits
<1>2. ConnectedIsOwn' /\ CardsAreFree'
  BY DEF IInv, ConnectedIsOwn, CardsAreFree, Holders
<1>. QED
  BY <1>1, <1>2 DEF IInv

LEMMA SendsKeeps ==
  ASSUME IInv, NEW p \in People,
         \/ \E h \in Hosts: SendsUser(p, h) \/ \E i \in Ids: SendsReconfigure(p, i, h)
         \/ \E s \in Serials: SendsCard(p, s)
         \/ \E i \in Ids: SendsReauth(p, i)
  PROVE  IInv'
<1>. USE DEF Sends, Insists, IInv, TypeOK
<1>1. CASE \E h \in Hosts: SendsUser(p, h)
  <2>1. form' \in [People -> Forms]
    BY <1>1 DEF SendsUser, Forms
  <2>2. FormsFit'
    BY <1>1 DEF SendsUser, Forms, FormsFit
  <2>. QED
    BY <1>1, <2>1, <2>2, FormKeeps DEF SendsUser
<1>2. CASE \E h \in Hosts: \E i \in Ids: SendsReconfigure(p, i, h)
  <2>1. form' \in [People -> Forms]
    BY <1>2 DEF SendsReconfigure, Forms, Fits, SetupFits
  <2>2. FormsFit'
    BY <1>2 DEF SendsReconfigure, Forms, FormsFit
  <2>. QED
    BY <1>2, <2>1, <2>2, FormKeeps DEF SendsReconfigure
<1>3. CASE \E s \in Serials: SendsCard(p, s)
  <2>1. form' \in [People -> Forms]
    BY <1>3 DEF SendsCard, Forms
  <2>2. FormsFit'
    BY <1>3 DEF SendsCard, Forms, FormsFit
  <2>. QED
    BY <1>3, <2>1, <2>2, FormKeeps DEF SendsCard
<1>4. CASE \E i \in Ids: SendsReauth(p, i)
  <2>1. form' \in [People -> Forms]
    BY <1>4 DEF SendsReauth, Forms, Fits, SetupFits
  <2>2. FormsFit'
    BY <1>4 DEF SendsReauth, Forms, FormsFit
  <2>. QED
    BY <1>4, <2>1, <2>2, FormKeeps DEF SendsReauth
<1>. QED
  BY <1>1, <1>2, <1>3, <1>4

LEMMA ProbeKeeps ==
  ASSUME IInv, NEW p \in People,
         \/ ProbeFails(p) \/ UserKnows(p) \/ Rejects(p)
         \/ \E s \in Serials: ProbeAnswers(p, s)
  PROVE  IInv'
<1>. USE DEF Probed, Ends, IInv, TypeOK
<1>1. CASE ProbeFails(p) \/ UserKnows(p) \/ Rejects(p)
  <2>1. form' \in [People -> Forms]
    BY <1>1 DEF ProbeFails, UserKnows, Rejects, NoForm, Forms
  <2>2. FormsFit'
    BY <1>1 DEF ProbeFails, UserKnows, Rejects, NoForm, Forms, FormsFit
  <2>. QED
    BY <1>1, <2>1, <2>2, FormKeeps DEF ProbeFails, UserKnows, Rejects
<1>2. CASE \E s \in Serials: ProbeAnswers(p, s)
  <2>1. form' \in [People -> Forms]
    <3>1. PICK s \in Serials: form' = [form EXCEPT ![p].got = s]
      BY <1>2 DEF ProbeAnswers
    <3>2. [form[p] EXCEPT !.got = s] \in Forms
      BY DEF Forms
    <3>. QED
      BY <3>1, <3>2
  <2>2. FormsFit'
    BY <1>2 DEF ProbeAnswers, Forms, FormsFit
  <2>. QED
    BY <1>2, <2>1, <2>2, FormKeeps DEF ProbeAnswers
<1>. QED
  BY <1>1, <1>2

LEMMA FormCreatesKeeps ==
  ASSUME IInv, NEW p \in People, UserCreates(p) \/ CardCreates(p) PROVE IInv'
<1>1. form[p].got \in Serials /\ form[p].at \in Hosts
  BY DEF UserCreates, CardCreates, Probed, FormsFit, IInv, TypeOK, Forms
<1>2. Creates(p, form[p].got, form[p].at)
  BY DEF UserCreates, CardCreates
<1>. QED
  BY <1>1, <1>2, CreatesKeeps

LEMMA InvNext == ASSUME IInv, [Next]_vars PROVE IInv'
<1>1. ASSUME NEW i \in Ids, Setup(i) \/ Removes(i) \/ AsksReload(i) PROVE IInv'
  BY <1>1, MigratesKeeps, CloudFailsKeeps, StartsKeeps, MistakenKeeps, ConnectFailsKeeps,
     AnswersKeeps, AdoptionFailsKeeps, ConfirmsKeeps, AdoptsKeeps,
     CancelledKeeps, ReloadsKeeps, RemovesKeeps, AsksReloadKeeps DEF Setup
<1>2. ASSUME NEW s \in Serials,
             Ignores(s) \/ DismissesCard(s) \/ \E h \in Hosts: Announces(s, h)
      PROVE  IInv'
  BY <1>2, IgnoresKeeps, DismissesCardKeeps, AnnouncesKnownKeeps, AnnouncesAwaitedKeeps,
     OpensCardKeeps DEF Announces
<1>3. ASSUME NEW h \in Hosts, UserAborts(h) PROVE IInv'
  BY <1>3, UserAbortsKeeps
<1>4. ASSUME NEW p \in People, Flow(p) PROVE IInv'
  BY <1>4, SendsKeeps, ProbeKeeps, FormCreatesKeeps, CardEndsKeeps, ReconfiguresKeeps,
     ReauthsKeeps DEF Flow
<1>5. CASE UNCHANGED vars
  BY <1>5, FormKeeps DEF vars, IInv, TypeOK, FormsFit
<1>. QED
  BY <1>1, <1>2, <1>3, <1>4, <1>5 DEF Next

THEOREM IInvariance == Spec => []IInv
  BY InvInit, InvNext, PTL DEF Spec

-----------------------------------------------------------------------------
(* What the code promises. *)

\* Setup and flows fit each other, whatever they write meanwhile.
THEOREM Invariance == Spec => []Inv
  BY IInvariance, PTL DEF IInv, Inv

\* No card stands open for a charger that has an entry.
THEOREM OpenCardsAreFree == Spec => []CardsAreFree
  BY IInvariance, PTL DEF IInv

\* No hub serves the entry of another charger.
THEOREM HubsAreOwn == Spec => []ConnectedIsOwn
  BY IInvariance, PTL DEF IInv

\* The steps that write who is who; the others leave it.
Rewrites ==
  \/ \E i \in Ids: Migrates(i) \/ Adopts(i) \/ Removes(i)
  \/ \E s \in Serials: Ignores(s)
  \/ \E p \in People: UserCreates(p) \/ CardCreates(p) \/ Reconfigures(p)

LEMMA OthersLeave == ASSUME [Next]_vars PROVE Rewrites \/ UNCHANGED <<kind, old, uid, marker>>
<1>1. ASSUME NEW i \in Ids, Setup(i) \/ Removes(i) \/ AsksReload(i)
      PROVE  Rewrites \/ UNCHANGED <<kind, old, uid, marker>>
  BY <1>1 DEF Setup, Rewrites, AsksReload, CloudFails, Starts, Mistaken, ConnectFails, Answers,
       AdoptionFails, Confirms, Cancelled, Reloads
<1>2. ASSUME NEW s \in Serials,
             Ignores(s) \/ DismissesCard(s) \/ \E h \in Hosts: Announces(s, h)
      PROVE  Rewrites \/ UNCHANGED <<kind, old, uid, marker>>
  BY <1>2 DEF Rewrites, DismissesCard, Announces, AnnouncesKnown, AnnouncesAwaited, OpensCard
<1>3. ASSUME NEW p \in People, Flow(p)
      PROVE  Rewrites \/ UNCHANGED <<kind, old, uid, marker>>
  BY <1>3 DEF Flow, Rewrites, SendsUser, SendsCard, SendsReconfigure, SendsReauth, ProbeFails,
       ProbeAnswers, UserKnows, CardEnds, Rejects, Reauths
<1>. QED
  BY <1>1, <1>2, <1>3 DEF Next, UserAborts, vars

\* Whoever holds s when it is given to an entry ends; for one that is real the
\* flow would have stopped.
LEMMA NewcomersReplaceCards ==
  ASSUME IInv, NEW p \in People, UserCreates(p) \/ CardCreates(p)
  PROVE  \E s \in Serials, h \in Hosts: Creates(p, s, h) /\ \A j \in Holders(s): ~Real(j)
<1>1. form[p].got \in Serials /\ form[p].at \in Hosts
  BY DEF UserCreates, CardCreates, Probed, FormsFit, IInv, TypeOK, Forms
<1>2. Creates(p, form[p].got, form[p].at) /\ \A j \in Holders(form[p].got): ~Real(j)
  BY DEF UserCreates, CardCreates, Holders, ConfiguredForUser, Configured
<1>. QED
  BY <1>1, <1>2

\* What an entry that begins leaves of another.
LEMMA NewcomerValues ==
  ASSUME IInv, NEW s \in Serials, NEW gone \in SUBSET Ids, gone = Holders(s), NEW i \in Ids,
         NEW k \in Kinds, NEW h \in Hosts \cup {NoHost}, Replaces(gone, i, k, s, h),
         NEW j \in Ids \ {i}
  PROVE  /\ j \in gone => kind'[j] = "none" /\ uid'[j] = NoSerial
         /\ j \notin gone => /\ kind'[j] = kind[j] /\ uid'[j] = uid[j] /\ marker'[j] = marker[j]
  BY ReplacesValues DEF IInv

\* A charger has one holder: nothing runs between the question whether another
\* entry has it and the answer that is written (_adopt_serial).
THEOREM OneHolderEach == Spec => []OneHolder
<1>1. Init => OneHolder
  BY DEF Init, OneHolder
<1>2. ASSUME IInv, OneHolder, [Next]_vars PROVE OneHolder'
  <2>1. CASE UNCHANGED <<kind, old, uid, marker>>
    BY <1>2, <2>1 DEF OneHolder
  <2>2. ASSUME NEW i \in Ids, Migrates(i) PROVE OneHolder'
    BY <1>2, <2>2 DEF OneHolder, Migrates, IInv, SetupFits, Fits
  <2>3. ASSUME NEW i \in Ids, Adopts(i) PROVE OneHolder'
    <3>. DEFINE s == found[i]
    <3>1. /\ uid'[i] = s /\ i \notin IgnoredCards(s)
          /\ \A j \in Ids \ {i}: kind'[j] # "none" => kind'[j] = kind[j] /\ uid'[j] = uid[j] /\ uid[j] # s
      BY <1>2, <2>3 DEF Adopts, Writes, Without, Refuses, TakenByOther, IgnoredCards, IInv,
           TypeOK, Kinds, SetupFits, Fits
    <3>. QED
      BY <1>2, <3>1 DEF OneHolder
  <2>4. ASSUME NEW i \in Ids, Removes(i) PROVE OneHolder'
    BY <1>2, <2>4 DEF OneHolder, Removes, Replaces, Without, IInv, TypeOK
  <2>5. ASSUME NEW s \in Serials, NEW gone \in SUBSET Ids, gone = Holders(s), NEW i \in Ids,
               NEW k \in Kinds, NEW h \in Hosts \cup {NoHost}, Replaces(gone, i, k, s, h)
        PROVE  OneHolder'
    <3>1. uid'[i] = s
      BY <1>2, <2>5, ReplacesValues DEF IInv
    <3>2. \A j \in Ids \ {i}: kind'[j] # "none" => kind[j] # "none" /\ uid'[j] = uid[j] /\ uid[j] # s
      BY <1>2, <2>5, NewcomerValues DEF Holders
    <3>. QED
      BY <1>2, <3>1, <3>2 DEF OneHolder
  <2>6. ASSUME NEW s \in Serials, Ignores(s) PROVE OneHolder'
    <3>1. Holders(s) \in SUBSET Ids
      BY DEF Holders
    <3>. QED
      BY <2>5, <2>6, <3>1 DEF Ignores, Kinds
  <2>7. ASSUME NEW p \in People, UserCreates(p) \/ CardCreates(p) PROVE OneHolder'
    <3>1. PICK s \in Serials, h \in Hosts: Creates(p, s, h)
      BY <1>2, <2>7, NewcomersReplaceCards
    <3>2. Holders(s) \in SUBSET Ids
      BY DEF Holders
    <3>. QED
      BY <2>5, <3>1, <3>2 DEF Creates, Kinds
  <2>8. ASSUME NEW p \in People, Reconfigures(p) PROVE OneHolder'
    BY <1>2, <2>8 DEF OneHolder, Reconfigures, IInv, FormsFit, TypeOK, Probed
  <2>. QED
    BY <1>2, <2>1, <2>2, <2>3, <2>4, <2>6, <2>7, <2>8, OthersLeave DEF Rewrites
<1>. QED
  BY <1>1, <1>2, IInvariance, PTL DEF Spec

\* An entry ends by the hand of the user alone.
THEOREM NoneAreReplaced == Spec => NoneReplaced
<1>. DEFINE Kept == \A i \in Ids: Real(i) /\ ~Real(i)' => Removes(i)
<1>1. ASSUME IInv, [Next]_vars PROVE Kept
  <2>. SUFFICES ASSUME NEW i \in Ids, Real(i), ~Real(i)' PROVE Removes(i)
    OBVIOUS
  <2>1. ASSUME NEW j \in Ids, Migrates(j) \/ Adopts(j)
        PROVE  Real(i)'
    BY <1>1, <2>1 DEF Migrates, Adopts, Writes, Without, IgnoredCards,
         IInv, TypeOK
  <2>2. ASSUME NEW j \in Ids, Removes(j) PROVE Removes(i)
    <3>1. i # j => kind'[i] = kind[i]
      BY <1>1, <2>2 DEF Removes, Replaces, Without, IInv, TypeOK
    <3>. QED
      BY <2>2, <3>1
  <2>3. ASSUME NEW s \in Serials, NEW gone \in SUBSET Ids, gone = Holders(s), NEW j \in Ids,
               kind[j] = "none", NEW k \in Kinds, NEW h \in Hosts \cup {NoHost},
               Replaces(gone, j, k, s, h), \A x \in Holders(s): ~Real(x)
        PROVE  Real(i)'
    <3>1. i # j /\ i \notin gone
      BY <2>3
    <3>. QED
      BY <1>1, <2>3, <3>1, NewcomerValues
  <2>4. ASSUME NEW s \in Serials, Ignores(s) PROVE Real(i)'
    <3>1. Holders(s) \in SUBSET Ids /\ \A x \in Holders(s): ~Real(x)
      BY <2>4 DEF Holders, Ignores, Configured
    <3>. QED
      BY <2>3, <2>4, <3>1 DEF Ignores, Kinds
  <2>5. ASSUME NEW p \in People, UserCreates(p) \/ CardCreates(p) PROVE Real(i)'
    <3>1. PICK s \in Serials, h \in Hosts: Creates(p, s, h) /\ \A x \in Holders(s): ~Real(x)
      BY <1>1, <2>5, NewcomersReplaceCards
    <3>2. Holders(s) \in SUBSET Ids
      BY DEF Holders
    <3>. QED
      BY <2>3, <3>1, <3>2 DEF Creates, Kinds
  <2>6. ASSUME NEW p \in People, Reconfigures(p) PROVE Real(i)'
    BY <1>1, <2>6 DEF Reconfigures, IInv, FormsFit, TypeOK, Probed
  <2>. QED
    BY <1>1, <2>1, <2>2, <2>4, <2>5, <2>6, OthersLeave DEF Rewrites
<1>2. Kept => [Kept]_vars
  OBVIOUS
<1>. QED
  BY <1>1, <1>2, IInvariance, PTL DEF Spec, NoneReplaced

\* An entry keeps the charger it knows.
THEOREM IdentitiesAreFinal == Spec => IdentityIsFinal
<1>. DEFINE Kept == \A i \in Ids: Real(i) /\ ~old[i] /\ ~AwaitsSerial(i) /\ Real(i)'
                      => uid'[i] = uid[i] /\ ~AwaitsSerial(i)'
<1>1. ASSUME IInv, [Next]_vars PROVE Kept
  <2>. SUFFICES ASSUME NEW i \in Ids, Real(i), ~old[i], ~AwaitsSerial(i), Real(i)'
                PROVE  uid'[i] = uid[i] /\ ~AwaitsSerial(i)'
    OBVIOUS
  <2>1. ASSUME NEW j \in Ids, Migrates(j)
        PROVE  uid'[i] = uid[i] /\ ~AwaitsSerial(i)'
    BY <1>1, <2>1 DEF Migrates, IgnoredCards, IInv, TypeOK
  <2>2. ASSUME NEW j \in Ids, Adopts(j)
        PROVE  uid'[i] = uid[i] /\ ~AwaitsSerial(i)'
    <3>1. i # j
      BY <1>1, <2>2 DEF Adopts, Refuses, IInv, SetupFits, Fits
    <3>. QED
      BY <1>1, <2>2, <3>1 DEF Adopts, Writes, Without, IgnoredCards, IInv, TypeOK
  <2>3. ASSUME NEW j \in Ids, Removes(j) PROVE uid'[i] = uid[i] /\ ~AwaitsSerial(i)'
    BY <1>1, <2>3 DEF Removes, Replaces, Without, IInv, TypeOK
  <2>4. ASSUME NEW s \in Serials, NEW gone \in SUBSET Ids, gone = Holders(s), NEW j \in Ids,
               kind[j] = "none", NEW k \in Kinds, NEW h \in Hosts \cup {NoHost},
               Replaces(gone, j, k, s, h)
        PROVE  uid'[i] = uid[i] /\ ~AwaitsSerial(i)'
    <3>1. i # j
      BY <2>4
    <3>. QED
      BY <1>1, <2>4, <3>1, NewcomerValues
  <2>5. ASSUME NEW s \in Serials, Ignores(s) PROVE uid'[i] = uid[i] /\ ~AwaitsSerial(i)'
    <3>1. Holders(s) \in SUBSET Ids
      BY DEF Holders
    <3>. QED
      BY <2>4, <2>5, <3>1 DEF Ignores, Kinds
  <2>6. ASSUME NEW p \in People, UserCreates(p) \/ CardCreates(p)
        PROVE  uid'[i] = uid[i] /\ ~AwaitsSerial(i)'
    <3>1. PICK s \in Serials, h \in Hosts: Creates(p, s, h)
      BY <1>1, <2>6, NewcomersReplaceCards
    <3>2. Holders(s) \in SUBSET Ids
      BY DEF Holders
    <3>. QED
      BY <2>4, <3>1, <3>2 DEF Creates, Kinds
  <2>7. ASSUME NEW p \in People, Reconfigures(p) PROVE uid'[i] = uid[i] /\ ~AwaitsSerial(i)'
    BY <1>1, <2>7 DEF Reconfigures, IInv, FormsFit, TypeOK, Probed
  <2>. QED
    BY <1>1, <2>1, <2>2, <2>3, <2>5, <2>6, <2>7, OthersLeave DEF Rewrites
<1>2. Kept => [Kept]_vars
  OBVIOUS
<1>. QED
  BY <1>1, <1>2, IInvariance, PTL DEF Spec, IdentityIsFinal
=============================================================================
