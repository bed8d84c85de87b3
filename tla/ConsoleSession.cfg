SPECIFICATION Spec
CONSTANTS
  w1 = w1
  w2 = w2
  chief = chief
  clerk = clerk
  None = None
  Windows = {w1, w2}
  Accounts = {chief, clerk}
  Grants <- MCGrants
  Destinations <- MCDestinations
  MaxSignIns = 2
  MaxCalls = 1
INVARIANTS SessionTypeOK ShownIsOwner RequestsAsShown WorkspaceOfSession
PROPERTIES LandingHeld LoadEnds
