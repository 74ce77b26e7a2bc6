CONSTANTS
  d1 = d1
  d2 = d2
  d3 = d3
  Inner <- Renders
  MaxRenders = 2
  Nobody = Nobody
  Earlier = Earlier
  User = User

SPECIFICATION Spec
SYMMETRY Symmetry

INVARIANTS
  ReportIsTrue
  LastRenderKept
  NothingLeftBehind

CHECK_DEADLOCK FALSE
