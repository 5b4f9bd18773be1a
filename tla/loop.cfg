SPECIFICATION Spec
CONSTANTS
  Task = {f1, f2, f3}
  Caller = {w1, w2}
  Addr = {a1, a2}
  MaxTimers = 2
  Delays = {0, 1, 2}
  MaxLate = 1
  MaxTasks = 1
  NoTimer = NoTimer
  Channel = {c1, c2, c3}
  Event = {in, out}
INVARIANTS LoopSafe
PROPERTIES KeepsPromises CancelRight LoopGoesThrough
CHECK_DEADLOCK FALSE
