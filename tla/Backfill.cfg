SPECIFICATION BackfillFairSpec
CONSTANTS
  m1 = m1
  m2 = m2
  ann = ann
  bob = bob
  Message = {m1, m2}
  User = {ann, bob}
  UserOf <- MCUserOf
  SentAt <- MCSentAt
  Live <- MCLive
  QueueMax = 2
  Batch = 2
  Faulty = {m2}
  Archive <- MCArchive
  Gap <- MCGap
  Grace = 1
  Limit = 2
  MaxTurns = 1
  
PROPERTIES StopsEnd
CHECK_DEADLOCK FALSE
