SPECIFICATION Spec
CONSTANTS
  o = o  n1 = n1  n2 = n2
  Old = o
  Fresh <- Handed
  NoAddr = NoAddr
  MaxIpv4 = 3
  Queues = FALSE
  Managers = {"netplan", "other"}
  Pauses = {"guest_verified", "awaiting_finalize"}
  MaxFaults = 0
INVARIANTS FinalizeKeepsNewIp
