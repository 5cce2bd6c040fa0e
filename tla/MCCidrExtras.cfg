\* The instance of MCCidr.cfg with the two levels that promise no extras.
SPECIFICATION CidrSpec
CONSTANTS
  V4Bits = 3
  V6Bits = 5
  IntBits = 4
  Seen <- MCSeen
  MaxSeen = 4
  Confs <- MCExact
INVARIANT
  NoExtras
