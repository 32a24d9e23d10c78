SPECIFICATION SettingsSpec
CONSTANTS
  Servers = {s1, s2}
  Editors = {e1, e2}
  Slots <- MCSlots
  Registry <- MCRegistry
  Tokens = {"site_theme_primary"}
  Envs <- MCEnvs
  HeapOrders <- MCHeapOrders
  MaxOps = 3
SYMMETRY MCSymmetry
INVARIANT SavesComplete
INVARIANT CookiesPaired
PROPERTY StartIsSafe
CHECK_DEADLOCK FALSE
