SPECIFICATION HFairSpec
CONSTANTS
  c1 = c1
  c2 = c2
  Clients = {c1, c2}
  NoOne = NoOne
  Mode = "hold"
  FlagIds = {1}
  FlagTeam <- NeutralTeam
  Spawns = {0, 1}
  StartTeams = {0}
  RESETFLAGTIME = 1
  INVISFLAGTIME = 1
  HOLDTIME = 1
  FLAGLIMIT = 2
  ctftkpenalty = TRUE
  MaxVersion = 6
INVARIANTS RetakeAtMostOnce TeamkillerBarred
PROPERTIES HeldFlagLeaves
