SPECIFICATION Spec
CONSTANTS
  a1 = a1  both = both  a2 = a2
  Accounts <- TwoAccounts
  Records = {a1, both, a2}
  Sees <- Overlap
  Named <- FirstNamed
  Nobody = Nobody
  MaxEdits = 0
  MaxFaults = 1
INVARIANTS CleanMeansBack
