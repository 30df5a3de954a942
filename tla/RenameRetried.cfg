SPECIFICATION Spec
CONSTANTS
  Namespace <- MCNamespace
  Id = {"x", "y", "z"}
  Val = {1, 2}
  IndexName = {}
  Conn <- MCConn
  Menus <- RetryMenu
  Loaded <- MCLoaded
  MaxFaults = 1
  client1 = client1
  client2 = client2
INVARIANTS
  RetriedRenameKeepsDocuments
