SPECIFICATION RetrySpec
CONSTANTS
  t1 = t1  t2 = t2  o1 = o1  o2 = o2  n1 = n1  n2 = n2  left = left
  Tx = {t1}
  Addr = {o1, n1, left}
  OldIp <- OldOf1
  NewIp <- NewOf1
  NoIp = NoIp
  Limit = 2
  Retention = "release"
  ProviderOnly = {}
  Unlisted = {}
  Sweep = FALSE
  FirstPower = {"running", "off"}
  MaxFaults = 3
INVARIANTS IInv CheckpointLocatesAddress ProtectedBeforeDetach DoneIsServing WayBackExists
PROPERTIES NoWayBackLost ImplementsAddressSwap ImplementsCutover RunsGetShorter EveryRunEnds RollbackConverges
