SPECIFICATION Spec
CONSTANTS
  Users = {u1}
  Jtis = {j1, j2, j3}
  CallIds = {c1, c2}
  Nothing = Nothing
SYMMETRY Symmetry
INVARIANTS
  TypeOK
  RefreshedIsGone
  OneSuccessor
PROPERTY EarlierSessionsEnd
