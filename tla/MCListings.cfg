SPECIFICATION Spec
CONSTANTS
  Docs = {d1, d2, d3}
  Lists <- MCLists
  Forms <- MCForms
  Queries <- MCQueries
  Limit = 1
  Times = {1, 2, 3}
  Nothing = Nothing
SYMMETRY Symmetry
INVARIANTS
  MissedOnlyIfSomethingLeft
  TwiceOnlyIfSomethingCame
CHECK_DEADLOCK FALSE
