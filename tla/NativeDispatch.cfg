SPECIFICATION FairDispatch
CONSTANTS
  act = act
  select = select
  menu = menu
  Requests = {r1, r2}
  Intents = {act, select, menu}
  Method <- MethodOf
  Absent = Absent
  TransitionFrames = 1
  StableFrames = 2
  MaxSettleFrames = 4
INVARIANTS
  SingleWriter
  LedgerIsTrue
  QuietBetweenMoves
PROPERTIES
  KeepsPromise
  SettlementEnds
CHECK_DEADLOCK FALSE
