SPECIFICATION Spec
CONSTANTS
  t1 = t1  t2 = t2  o1 = o1  o2 = o2  n1 = n1  n2 = n2  left = left
  Tx = {t1, t2}
  Addr = {o1, o2, n1, n2}
  OldIp <- OldAddresses
  NewIp <- NewAddresses
  NoIp = NoIp
  Limit = 3
  Retention = "release"
  ProviderOnly = {}
  Unlisted = {}
  Sweep = FALSE
  FirstPower = {"running"}
  MaxFaults = 0
PROPERTIES NoWayBackLost
