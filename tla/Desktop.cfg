CONSTANTS
  Trees = {t1, t2}
  Hosts = {h1, h2}
  Navigators = {n1, n2}
  SavedModes = {"off", "always"}
  MaxTries = 1
  Nobody = Nobody
  Writers = {w1, w2}
  UserServers = {x}
  MaxEdits = 1
  Editors = {w1, w2}
  MaxLines = 3
  MaxUserEdits = 1
SPECIFICATION DesktopSpec
CHECK_DEADLOCK FALSE
INVARIANT DesktopTypeOK CarryingOneWay HostOwnsEndpoint HostFollowsConfig StatusHolds
PROPERTY AgentsFollowOwner AckedIsApplied OnlyOwnEntryChanges UserLinesKept
