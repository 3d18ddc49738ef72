CONSTANTS
  Clients = {c1}
  Tasks = {t1, k}
  Coord = k
  Txids = {x1}
  Qty = 1
  Volumes = {1}
  NoClient = NoClient
  NoTx = NoTx
  OverlapSubmits = FALSE
SPECIFICATION ControlFairSpec
INVARIANTS ControlTypeOK
PROPERTIES GateOpensReconciled KillSwitchDrains
