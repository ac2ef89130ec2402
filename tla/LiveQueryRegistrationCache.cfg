SPECIFICATION Spec
CONSTANTS
  Writers = {w1, w2}
  Readers = {r1, r2}
  Absent = Absent
  NoEntry = NoEntry
INVARIANT CachedLivesCurrent
