CONSTANTS
  Clients = {c1, c2}
  Hostnames = {h1}
  Lookups = {l1}
  NoClient = NoClient
  SendWelcome = TRUE
SPECIFICATION FairSpec
INVARIANTS TypeOK LookupLinearizable NoTwoOwners NoOrphanClaims RepliesHold ConnectionsExact
PROPERTIES ImplementsOwnership ClosingLeaves
CHECK_DEADLOCK FALSE
