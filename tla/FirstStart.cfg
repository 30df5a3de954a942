SPECIFICATION Spec
CONSTANTS
  north = north
  south = south
  Hosts = {north}
  SshUser = "tidb"
  MaxRuns = 1
  MaxFaults = 0
CONSTANT Topologies <- OneServer
PROPERTIES
  DeployedServersServe
CHECK_DEADLOCK FALSE
