SPECIFICATION MCSpec
CONSTANTS
  a = a  b = b  w1 = w1  w2 = w2
  Clients = {a, b}
  CAs = {1, 2}
  Validity = 4
  Interval = 2
  HealthInterval = 1
  Backoff <- MCBackoff
  Budgets <- MCBudgets
  Width = 3
  HostAddrs = {2, 3}
  Workers = {w1, w2}
  LimitsEnabled = TRUE
  Burst <- MCBurst
  Peers = {1, 5}
  FirstFiles <- MCFiles
  LaterFile <- MCLater
INVARIANTS NeverLocksOut RevokedStaysOut GateMatchesList DestructiveBound
PROPERTY RevocationArrives
