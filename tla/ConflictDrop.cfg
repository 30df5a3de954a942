SPECIFICATION Spec
CONSTANTS
  Namespace <- MCNamespace
  Id = {"x"}
  Val = {1, 2}
  IndexName = {}
  Conn <- MCConn
  Menus <- DropMenu
  Loaded <- MCLoaded
  MaxFaults = 0
  client1 = client1
  client2 = client2
INVARIANTS
  OtherDatabasesUntouched
