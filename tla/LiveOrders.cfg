SPECIFICATION OrdersSpec
CONSTANTS
  Clients = {c1}
  Tasks = {t1, t2}
  Txids = {x1, x2}
  Qty = 2
  Volumes = {2, 3}
  NoClient = NoClient
  NoTx = NoTx
  OverlapSubmits = FALSE
SYMMETRY Symmetry
INVARIANTS OverlapsHold OrdersAreKnown IntentsAreSingle
PROPERTIES ResolvedOnlyByExchange AtMostOnce
