SPECIFICATION Spec
CONSTANTS
  Users = {p1, p2}
  Writers = {p1, p2}
  Versions = {1, 2}
  Chunks = 2
  AggLevels = {"off", "balanced"}
  Contents <- MCContents
  Nothing <- MCNothing
  MaxCommands = 3
  MaxFaults = 2
SYMMETRY Symmetry
INVARIANTS
  FileWhole
  MetadataFollowsFile
  SidecarDescribes
PROPERTY
  ExportLands
