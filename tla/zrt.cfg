\* Three tasks that lock, unlock and sleep; the tick may come anywhere, and once
\* where it can break a list.
CONSTANTS
  NTasks = 3
  Priority <- TwoAndOne
  Naps = {1, 2}
  MaxRaces = 1
SPECIFICATION Spec
INVARIANTS TypeOK MutualExclusion RunListSound NobodyForgotten
PROPERTIES PicksHighest
CHECK_DEADLOCK FALSE
