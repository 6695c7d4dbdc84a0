---- MODULE MCRegistry ----
\* RegistryMigration for TLC.
EXTENDS RegistryMigration, TLC

\* Entities and old prefixes are interchangeable.
Symmetry == Permutations(Entities) \cup Permutations(OldPrefixes)

====
