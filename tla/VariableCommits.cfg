SPECIFICATION Spec
CONSTANTS
  mod = mod
  sub = sub
  page = page
  none = none
  Nobody = none
  Run = {mod, sub, page}
  Lines <- MCLines
  Who <- MCWho
  First <- MCFirst
  Key <- MCKey
  Start <- MCStart
  Defaults <- MCDefaults
  Settings <- MCSettings
  Patches <- MCPatches
  MaxSettings = 1
PROPERTIES  CommitsAreAtomic
CHECK_DEADLOCK FALSE
