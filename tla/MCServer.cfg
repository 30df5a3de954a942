SPECIFICATION Spec
CONSTANTS
  alice = alice
  bob = bob
  Client = {alice, bob}
  Requests <- MCRequests
  Statements = 2
  MaxRestarts = 1
INVARIANTS
  TypeOK
  RepliesInOrder
  OkMeansExecuted
  ReadyAfterBootstrap
PROPERTIES
  AnsweredOrClosed
  ShutdownCompletes
