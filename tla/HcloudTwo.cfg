SPECIFICATION Spec
CONSTANTS
  t1 = t1  t2 = t2  o1 = o1  o2 = o2  n1 = n1  n2 = n2  left = left
  Tx = {t1, t2}
  Addr = {o1, o2, n1, n2}
  OldIp <- OldAddresses
  NewIp <- NewAddresses
  NoIp = NoIp
  Limit = 3
  Retention = "release"
  ProviderOnly = {t2}
  Unlisted = {}
  Sweep = TRUE
  FirstPower = {"running"}
  MaxFaults = 0
INVARIANTS IInv AttachedExists NoneStranded
PROPERTIES ProviderOnlyLeavesDns
