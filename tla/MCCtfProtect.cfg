SPECIFICATION FairSpec
CONSTANTS
  c1 = c1
  c2 = c2
  Clients = {c1, c2}
  NoOne = NoOne
  Mode = "protect"
  FlagIds = {1}
  FlagTeam <- TwoFlagTeams
  Spawns = {}
  StartTeams = {0}
  RESETFLAGTIME = 2
  INVISFLAGTIME = 2
  HOLDTIME = 1
  FLAGLIMIT = 1
  ctftkpenalty = TRUE
  MaxVersion = 4
PROPERTIES DroppedFlagLeaves
