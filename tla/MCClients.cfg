SPECIFICATION Spec
CONSTANTS
  Namespace <- MCNamespace
  Id = {"x", "y", "z"}
  Val = {1, 2, 3}
  IndexName = {}
  Conn <- MCConn
  Menus <- MCMenus
  Loaded <- MCLoaded
  MaxFaults = 1
  client1 = client1
  client2 = client2
  client3 = client3
INVARIANTS
  TypeOK
  UniqueKeys
  AckedBatchStored
PROPERTIES
  EveryCommandAnswered
  ImplementsDocStore
