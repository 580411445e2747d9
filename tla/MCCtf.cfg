SPECIFICATION Spec
CONSTANTS
  c1 = c1
  c2 = c2
  Clients = {c1, c2}
  NoOne = NoOne
  Mode = "ctf"
  FlagIds = {1, 2}
  FlagTeam <- TwoFlagTeams
  Spawns = {}
  StartTeams = {0}
  RESETFLAGTIME = 1
  INVISFLAGTIME = 1
  HOLDTIME = 1
  FLAGLIMIT = 1
  ctftkpenalty = TRUE
  MaxVersion = 3
SYMMETRY Symmetry
INVARIANTS TypeOK FlagRefsLive OneFlagEach DropRecordSound
PROPERTIES ChangeBumpsVersion LimitEndsMatch ScoreNeedsBothFlags
