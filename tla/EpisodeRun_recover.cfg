SPECIFICATION FairSpec
CONSTANTS
  Episodes = {e1, e2}
  Calls = {c1}
  Moves = {m1}
  None = None
  Uncapped = Uncapped
  Reserve = 2
  EpisodeCap = Uncapped
  CampaignCap = Uncapped
  Charges = {1}
  MaxAttempts = 1
  MaxCalls = 1
  MaxActions = 1
  UsageMayBeUnknown = FALSE
  RecoverWhileLive = TRUE
PROPERTIES
  TerminalIsFinal
  CreatedRunsEnd
