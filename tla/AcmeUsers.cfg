SPECIFICATION Spec
CONSTANTS
  Routes = {r1, r2, r3, r4, r5}
  Accounts = {a1, a2, a3, a4}
  NoAccount = NoAccount
  MaxRoutes = 2
  Workers = 3
SYMMETRY UserSymmetry
INVARIANTS
  TypeOK
  FewTooMany
  FewSpareAccounts
  RoomIsHeld
CHECK_DEADLOCK FALSE
