SPECIFICATION TriggersSpec
CONSTANTS
  t1 = t1
  t2 = t2
  c1 = c1
  c2 = c2
  c3 = c3
  Timer = {t1, t2}
  Cron = {c1, c2, c3}
  Steady = {t1, c1, c3}
  Every <- MCEvery
  Jitter <- MCJitter
  Needed <- MCNeeded
  Written <- MCWritten
  Local <- MCLocal
  Minutes = 2
  MinuteTicks = 8
  RunLasts = 1
  Bot = "bot"
  Channel <- MCChannel
  Task = {1, 2, 3, 4}
  MaxSlots = 2
  Reaction <- MCReaction
  LeastHold = 2
  LineInput <- MCLineInput
  Budget <- MCBudget
INVARIANTS TalesInOrder
PROPERTIES KeepsRunning  CooledApart
