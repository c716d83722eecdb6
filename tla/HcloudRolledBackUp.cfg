SPECIFICATION Spec
CONSTANTS
  t1 = t1  t2 = t2  o1 = o1  o2 = o2  n1 = n1  n2 = n2  left = left
  Tx = {t1}
  Addr = {o1, n1}
  OldIp <- OldOf1
  NewIp <- NewOf1
  NoIp = NoIp
  Limit = 3
  Retention = "keep"
  ProviderOnly = {}
  Unlisted = {}
  Sweep = FALSE
  FirstPower = {"running"}
  MaxFaults = 2
INVARIANTS RolledBackMeansUp
