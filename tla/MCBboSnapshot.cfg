\* Two readers, two publications, any order of the relaxed accesses.
SPECIFICATION BboFairSpec
CONSTANTS
  Fields <- MCFields
  Values <- MCValues
  Snapshots <- MCSnapshots
  Readers = {r1, r2}
  None = None
  VersionLimit = 16
  MaxPublications = 2
INVARIANTS BboTypeOK SeqlockInv
PROPERTIES RegisterSpec ReadersCatchUp
CHECK_DEADLOCK TRUE
