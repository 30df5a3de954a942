SPECIFICATION Spec
CONSTANTS
  north = north
  south = south
  Hosts = {north, south}
  SshUser = "tidb"
  MaxRuns = 2
  MaxFaults = 2
CONSTANT Topologies <- MCTopologies
INVARIANTS
  TypeOK
  UnitsAreComplete
  RunsAsDeclared
PROPERTIES
  ServesInTheEnd
CHECK_DEADLOCK FALSE
