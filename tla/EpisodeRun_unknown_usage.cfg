SPECIFICATION Spec
CONSTANTS
  Episodes = {e1, e2}
  Calls = {c1, c2, c3}
  Moves = {m1, m2}
  None = None
  Uncapped = Uncapped
  Reserve = 2
  EpisodeCap = 4
  CampaignCap = 5
  Charges = {1, 3}
  MaxAttempts = 2
  MaxCalls = 2
  MaxActions = 1
  UsageMayBeUnknown = TRUE
  RecoverWhileLive = FALSE
SYMMETRY Symmetry
INVARIANT
  RecoveryCompletes
