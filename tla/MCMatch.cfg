SPECIFICATION FairSpec
CONSTANTS
  c1 = c1
  c2 = c2
  Cns = {c1, c2}
  dust = dust
  edit = edit
  Games = {dust, edit}
  Blank = {edit}
  Timed = {dust}
  Rotation = {dust}
  NoGame = NoGame
  MatchTime = 1
  IntermTime = 1
  MaxDelay = 1
  MaxDelayed = 1
INVARIANTS VotesCarried
PROPERTIES OneIntermission MatchMovesOn
