\* One reader, two publications, the second version load at any time.
SPECIFICATION RelaxedSpec
CONSTANTS
  Fields <- MCFields
  Values <- MCValues
  Snapshots <- MCSnapshots
  Readers = {r1}
  None = None
  VersionLimit = 16
  MaxPublications = 2
INVARIANT
    ConsistentSnapshot
