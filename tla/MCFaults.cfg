SPECIFICATION Spec
CONSTANTS
  Namespace <- MCNamespace
  Id = {"x", "y", "z"}
  Val = {1, 2}
  IndexName = {"i", "j"}
  Conn <- MCConn
  Menus <- MCMenus
  Loaded <- MCLoaded
  MaxFaults = 1
  client1 = client1
  client2 = client2
INVARIANTS
  NoIndexAdopted
  RenameIsExact
  NoHiddenDocuments
  DropDatabaseLeavesNothing
  AckedUpdateIsExact
  AckedDeleteIsExact
  
  InsertsAreValidated
PROPERTIES
  CollectionsStayApart
  ValidatorsSurvive
  FreshCollectionHasNoIndexes
  UpdatesKeepDocuments
  RenameKeepsDocuments
  ImplementsDocStore
