SPECIFICATION FairSpec
CONSTANTS
  Cns = {0, 1}
  Maxclients = 1
  ReservedSlots = 1
  spec_slots = TRUE
  SpiesAllowed = TRUE
  serverauth = TRUE
  ConnectTimeout = 1
  MaxSession = 3
INVARIANTS TypeOK SlotAccounting KickedOnlyIfAsked
PROPERTIES CrowdExplained ConnectionEnds KickedGoes
