SPECIFICATION Spec
CONSTANTS
  r1 = r1
  r2 = r2
  Recorders = {r1, r2}
  Harvester = harvester
  Values = {2, 5}
  MaxUint64 = 9
  MaxRecords = 2
SYMMETRY Alike
INVARIANT
  SentinelMeansIdle
