SPECIFICATION Spec
CONSTANTS
  t1 = t1
  t2 = t2
  b1 = b1
  b2 = b2
  None = None
  Create = Create
  Tenants = {t1, t2}
  Brands = {b1, b2}
  Owner <- MCOwner
  Users <- MCUsers
  Keys <- MCKeys
  Texts <- MCTexts
  MaxMoves = 4
  MaxSaved = 1
INVARIANTS ScopeTypeOK ScopeValid StoredFollows SavedTemplateValid FormBrandOfTenant
CHECK_DEADLOCK FALSE
