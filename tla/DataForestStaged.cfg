SPECIFICATION RetrySpec
CONSTANTS
  o = o  n1 = n1  n2 = n2
  Old = o
  Fresh <- Handed
  NoAddr = NoAddr
  MaxIpv4 = 3
  Queues = TRUE
  Managers = {"netplan", "other"}
  Pauses = {"guest_verified", "awaiting_finalize"}
  MaxFaults = 2
INVARIANTS TypeOK IInv OneNewAddress OldLeavesUnreferenced EmptySeedNeedsBoth
PROPERTIES OldLeavesProven DnsFollowsServing ImplementsHandover RunsGetShorter EveryRunEnds StagedRollbackConverges
