CONSTANTS
  Tick96 = 1
  Tick144 = 2
  TickMax = 4
  MaxDiff = 2
  TestMode = FALSE
  Task = {t1, t2}
  SeqMax = 20
  SegMax = 1
  Retries = 1
  BusyRecovery = FALSE
  MaxIndex = 2
  MaxMsgs = 3
SPECIFICATION Spec
INVARIANTS TypeOK NonceUnique
PROPERTIES TxMonotone UpdateEnds
