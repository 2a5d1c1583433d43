SPECIFICATION Spec
CONSTANTS
  g_sat_duration = 3
  COUNTER_MOD = 4
  COARSE_MOD = 4
  HitWidths = {23, 32}
  ShortWidths = {15}
  MinGap = 17
  AtRest = 48
  StartUp = 8
PROPERTY IntervalSent
