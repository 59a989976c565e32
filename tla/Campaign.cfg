SPECIFICATION FairSpec
CONSTANTS
  NumSlots = 2
  Price <- PaidThenScripted
  Episodes = {e1, e2, e3, e4}
  Schedulers = {p1, p2}
  None = None
  CampaignCap = 4
  Charges = {3}
INVARIANTS
  OneReplacement
  StopIsFounded
PROPERTIES
  StopsAreFinal
  KeepsPromise
  PassesEnd
