SPECIFICATION FairSpec
CONSTANTS
  c1 = c1
  c2 = c2
  Cns = {c1, c2}
  MAXBOTS = 2
  None = None
  NoBot = NoBot
  MaxPosted = 1
INVARIANTS TypeOK ListsSound HandoverScheduled
PROPERTIES EvenUnlessRefresh RefreshEnds HandoverDone
