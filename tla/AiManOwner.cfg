SPECIFICATION Spec
CONSTANTS
  c1 = c1
  c2 = c2
  Cns = {c1, c2}
  MAXBOTS = 2
  None = None
  NoBot = NoBot
  MaxPosted = 0
SYMMETRY Symmetry
INVARIANTS BotOwnerConnected
