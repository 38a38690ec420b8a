CONSTANTS
  a = a  b = b  c = c
  None = None
  Unavailable = Unavailable
  Sector <- MCSector
  MinRanked = 2
  Users = {u1}
  Keys = {k1}
  Adapters <- KiteAndDhan
  MaxDay = 1
  MaxSlot = 1
  OiAfter = 1
  ContextAfter = 1
  MaxLogins = 1
  Weekend = {}
  Downloads <- MCDownloads
  Closes <- MCCloses
  StaleAfterDays = 0
  Requests = {r1}
  Lookups = {l1}
  Asked <- AskedFor
  Facts <- MCFacts
  MaxFaults = 1
SPECIFICATION FairSpec
INVARIANTS TypeOK SnapshotWhole DoneMeansSaved SummaryNotOlder ScoresMirror ScoreIsPercentage
PROPERTIES NeverGoesBack NightlyRuns
