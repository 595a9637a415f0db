SPECIFICATION Spec
CONSTANTS
  Texts = {"a", "ab"}
  Short = {"a"}
  Terms = {"t"}
  Filters = {"none", "mine"}
  NoFilter = "none"
  Totals = {0, 6}
  PropsSet <- MountedProps
  SugLimit = 1
  MaxSteps = 3
  MaxFacetSteps = 2
  MaxNet = 2
  MaxFacetNet = 1
INVARIANTS
    NothingForgotten
    ShownIsCurrent
PROPERTIES
    Settles
CHECK_DEADLOCK FALSE
