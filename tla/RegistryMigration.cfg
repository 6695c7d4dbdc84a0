SPECIFICATION MigrationSpec
CONSTANTS
  Entities = {e1, e2, e3}
  OldPrefixes = {host, address}
  OldSuffixes = {"amp", "trx", "cards_0", "AccessState", "other"}
  Gone = Gone
  Renames = 1
INVARIANTS
  UniqueIds
  IssueIsExact
CHECK_DEADLOCK FALSE
SYMMETRY Symmetry
