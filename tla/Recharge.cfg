SPECIFICATION Spec
CONSTANTS
  a1 = a1
  a2 = a2
  o1 = o1
  o2 = o2
  x1 = x1
  x2 = x2
  k1 = k1
  Agents = {a1, a2}
  Orders = {o1, o2}
  Handlers = {x1, x2}
  CallbackKeys = {k1}
  NoKey = NoKey
  None = None
  Settlements <- MCSettlements
  Settings <- MCSettings
  MaxPaidOut = 1
INVARIANTS RechargeTypeOK CommissionTakenBack BalanceExplained
SYMMETRY MCSymmetry
CHECK_DEADLOCK FALSE
