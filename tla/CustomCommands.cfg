SPECIFICATION Spec
CONSTANTS
  alice = alice
  bob = bob
  hit = hit
  deal = deal
  c1 = c1
  c2 = c2
  c3 = c3
  c4 = c4
  p2 = p2
  say = say
  bot = bot
  p1 = p1
  here = here
  Global = Global
  None = None
  User = {alice, bob}
  Name = {hit, deal}
  Channel = {here}
  Command = {c1, c2, c3, c4}
  Pack = {p1, p2}
  Position = {1, 2}
  Call = {h1, h2}
  Themes = {"edits", "trees", "shares", "offers", "packs", "members", "runs"}
  FirstTables <- MCFirstTables
  Asks <- MCAsks
  Body <- MCBody
  Accepted <- MCAccepted
  Builtins = {say}
  Reserved = {hit}
  Moderators = {alice}
  Admins = {alice}
  Quota = 2
  MaxDepth = 2
  MaxVersion = 3
  MaxCalls <- MCMaxCalls
INVARIANTS CacheAgrees LoadedIsEnough ListedAsRun
PROPERTIES EditsKept
CHECK_DEADLOCK FALSE
SYMMETRY Alike
