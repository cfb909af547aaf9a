CONSTANTS
  Slots = {1, 2}
  MaxRequests = 3
  MaxPackTriggers = 2
  Broadcaster = "caster"
  Badges <- MCBadges
  Themes = {"roles", "rules", "switches", "others", "ignored", "channel", "triggers", "packs", "filters", "hosts"}
  FirstTables <- MCFirstTables
  Requests <- MCRequests
SPECIFICATION Spec
INVARIANTS MemoryLevel NobodyAbove
PROPERTIES OnlyWhatWasAsked
