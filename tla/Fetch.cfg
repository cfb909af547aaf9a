SPECIFICATION FetchSpec
CONSTANTS
  r1 = r1
  r2 = r2
  r3 = r3
  u1 = u1
  u2 = u2
  h1 = h1
  h2 = h2
  ch1 = ch1
  ch2 = ch2
  Run = {r1, r2, r3}
  Url = {u1, u2}
  HostOf <- MCHostOf
  ChannelOf <- MCChannelOf
  PerChannel = 2
  PerHost = 2
  MaxRedirects = 1
  Window = 2
  MaxAsks = 2
SYMMETRY Symmetry
CHECK_DEADLOCK FALSE
INVARIANTS InflightExact 
