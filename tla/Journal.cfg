SPECIFICATION Spec
CONSTANTS
  Runtimes <- MCRuntimes
  MaxRecords = 4
  MaxDamage = 2
INVARIANTS
  ReplayRebuilds
  DamageShows
CHECK_DEADLOCK FALSE
