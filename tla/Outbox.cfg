SPECIFICATION FairSpec
CONSTANTS
  s1 = s1
  s2 = s2
  Send = {s1, s2}
  Channel = {c1}
  ChannelOf <- MCChannelOf
  Parts <- MCParts
  Replies = {s1}
  Holds = {0, 1}
  Answers = {"sent", "banned", "send_error"}
  Capacities = {1, 2}
  Per = 3
  Ttl = 2
  NoText = NoText
INVARIANTS LockDiscipline Contiguous RateBound 
PROPERTIES OneSleepSuffices EveryCallReturns
CHECK_DEADLOCK FALSE
