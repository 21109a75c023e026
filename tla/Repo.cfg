SPECIFICATION Spec
CONSTANTS
  Hosts = {"apt", "aptNoGpg", "rpm", "apk", "apkNoKey", "other"}
  Versions = {1, 2}
  Budgets <- MCBudgets
INVARIANTS HealthyMeansInstalled AdminLinesKept
PROPERTY Converges
