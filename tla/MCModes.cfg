SPECIFICATION FairSpec
CONSTANTS
  Humans = {h1}
  Bots = {b1}
  good = good
  evil = evil
  blue = blue
  Joins <- MCJoins
  Teams = {good, evil, blue}
  BaseTeams = {good, evil}
  NoBase = NoBase
  NoTeam = NoTeam
  Bases = {x}
  Places <- MCPlaces
  Walks <- MCWalks
  h1 = h1
  b1 = b1
  x = x
  OCCUPYENEMYLIMIT = 2
  OCCUPYNEUTRALLIMIT = 3
  MaxSeconds = 1
  Unowned = Unowned
  TOKENLIMIT = 1
  UNOWNEDTOKENLIMIT = 1
  SCORELIMIT = 1
  MaxScore = 1
  MaxTokens = 2
INVARIANTS BaseSound NoPhantom TokenRefsLive TokenBound
PROPERTY AttackDecays
