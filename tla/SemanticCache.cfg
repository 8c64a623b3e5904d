SPECIFICATION LiveSpec
CONSTANTS
  garon = garon
  elara = elara
  sword = sword
  e1 = e1
  e2 = e2
  e3 = e3
  Npcs = {garon, elara}
  Queries = {sword}
  Entries = {e1, e2, e3}
  Clients = {a, b}
  None = None
  Raised = Raised
  Owner <- MCOwner
  Sim <- MCSim
  Threshold = 7
  Unreadable = {e3}
INVARIANTS TypeOK ListedEntriesExpire
PROPERTIES LiveEntriesStayListed ImplementsForgetfulCache OperationEnds
CHECK_DEADLOCK FALSE
