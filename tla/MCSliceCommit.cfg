SPECIFICATION Spec
CONSTANTS
  Clients = {P1}
  Route <- MCRoute
  Dates = {D1, D2}
  FirstStatus = "todo"
  BaseItems = 0
  MaxItems = 2
  MaxVisits = 2
  MaxWork = 1
  MaxVersion = 4
SYMMETRY DateSymmetry
INVARIANTS
  RowsAccounted
  FreshAccepted
PROPERTY
  ReplayHarmless
CHECK_DEADLOCK FALSE
