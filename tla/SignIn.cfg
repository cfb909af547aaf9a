SPECIFICATION SignInFairSpec
CONSTANTS
  b1 = b1
  r1 = r1
  r2 = r2
  s1 = s1
  s2 = s2
  t1 = t1
  t2 = t2
  k1 = k1
  ours = ours
  theirs = theirs
  Channel = {ours, theirs}
  Browser = {b1}
  Request = {r1, r2}
  State = {s1, s2}
  Token = {t1, t2}
  Key = {k1}
  Config <- MCConfig
  Route <- MCRoute
  Attempts = 1
 
PROPERTIES RoleFollows
