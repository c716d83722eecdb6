SPECIFICATION RetrySpec
CONSTANTS
  a1 = a1  both = both  a2 = a2
  Accounts <- TwoAccounts
  Records = {a1, both, a2}
  Sees <- Overlap
  Named <- FirstNamed
  Nobody = Nobody
  MaxEdits = 1
  MaxFaults = 2
INVARIANTS TypeOK PlanIsFresh ReplacedIsTrue MarkersCoverMoves CleanIsReadBack
PROPERTIES RollbackStaysInMarkers ApplyConverges ImplementsCutover RunsGetShorter
