SPECIFICATION RetrySpec
CONSTANTS
  b1 = b1  b2 = b2
  Boxes = {b1, b2}
  NoAddr = NoAddr
  MaxTx = 2
  MaxFaults = 1
INVARIANTS IInv BoxesStayApart
PROPERTIES RecordsFollowBox RollbackUndoesLastMove InterruptedRunCompletes
CHECK_DEADLOCK FALSE
