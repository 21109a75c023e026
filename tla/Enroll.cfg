SPECIFICATION Spec
CONSTANTS
  Tokens = {1, 2, 3, 4, 5}
  CaOf <- MCCaOf
  SubjectOf <- MCSubjectOf
  HasCrl = {1, 3}
  TempOf <- MCTempOf
  ManagerIps = {1, 2}
  MaxAttempts = 2
  HardLimit = 1
  StartBurst = 2
  Budgets <- MCBudgets
INVARIANTS ServesWhole ManagerCanReach ConflictNeedsLoss
PROPERTIES ComesUp AppendIsAtomic
CHECK_DEADLOCK FALSE
