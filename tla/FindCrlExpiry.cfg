SPECIFICATION MCSpec
CONSTANTS
  a = a  b = b  w1 = w1  w2 = w2
  Clients = {a}
  CAs = {1}
  Validity = 1440
  Interval = 720
  HealthInterval = 60
  Backoff <- CodeBackoff
  Budgets <- MCQuiet
  Width = 3
  HostAddrs = {}
  Workers = {}
  LimitsEnabled = TRUE
  Burst <- MCBurst
  Peers = {1}
  FirstFiles <- MCFile
  LaterFile <- MCLater
INVARIANT OneFailureIsHarmless
