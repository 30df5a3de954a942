SPECIFICATION Spec
CONSTANTS
  Namespace <- MCNamespace
  Id = {"x", "y"}
  Val = {1, 2}
  IndexName = {}
  Conn <- MCConn
  Menus <- PartialMenu
  Loaded <- PartialLoaded
  MaxFaults = 0
  client1 = client1
  client2 = client2
INVARIANTS
  UpdateIsAllOrNothing
