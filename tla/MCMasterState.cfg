SPECIFICATION Spec
CONSTANTS
  c1 = c1
  c2 = c2
  i1 = i1
  i2 = i2
  Cns = {c1, c2}
  Ips = {i1, i2}
  reset_mm = TRUE
  restrictpausegame = TRUE
  allow_setmaster = TRUE
  master_password = TRUE
  Mastermask = {0, 1, 2}
SYMMETRY Symmetry
INVARIANTS PrivateKeepsOut PauseHasMaster ShownIsHeld
PROPERTIES LastMasterResets
