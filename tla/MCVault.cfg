SPECIFICATION VaultSpec
CONSTANTS
  Keys = {k1, k2}
  Passwords = {p1, p2}
  HexKeys = {h1}
  Absent = Absent
  MaxOps = 5
SYMMETRY Symmetric
INVARIANT SavedVaultComesBack
PROPERTY PairsStayTogether OnlyOddSecretsPanic
CHECK_DEADLOCK FALSE
