SPECIFICATION CidrSpec
CONSTANTS
  V4Bits = 3
  V6Bits = 5
  IntBits = 4
  Seen <- MCSeen
  MaxSeen = 4
  Confs <- MCConfs
INVARIANTS
  CoveredOnce
  AsReference
PROPERTY
  GrowsOnly
