SPECIFICATION FairSpec
CONSTANTS
  r1 = r1
  r2 = r2
  ann = ann
  everyone = everyone
  Run = {r1, r2}
  User = {ann}
  Tier = {everyone}
  UserOf <- MCUserOf
  TierOf <- MCTierOf
  Cmd = {"roll", "join", "echo"}
  Rule <- MCRule
  LineOf <- MCLineOf
  CallbackLine <- MCCallbackLine
  Callbacks <- MCCallbacks
  CallbackGap = 2
  MaxSlots = 2
INVARIANTS SlotDiscipline
PROPERTIES CooldownHonoured  CallbacksSpaced EveryRunEnds
CHECK_DEADLOCK FALSE
