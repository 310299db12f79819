SPECIFICATION Spec
CONSTANTS
  None = None
  Evidence = {"e1", "e2"}
  Manager = {"basic_reach_target", "continue_dialogue", "interact_visible_object"}
  MaxSprites = 2
  Side = 2
  Target = 2
  Stride = 1
  Tolerance = 1
  OpenSide = 10
  OpenTarget = 5
  OpenStride = 2
  OpenTolerance = 2
  Pages = 2
  MaxSteps = 3
  Nodes = {"scene", "layer", "window"}
  Root = "scene"
  Messages = {"window"}
  Shots = {"s1", "s2"}
  Places = {"p", "q"}
  Off = "off"
  Hashes = {"h1", "h2"}
  Name = "name"
  Windows = {"w1", "w2"}
  Changes = 1
  MaxActions = 2
  MaxObservations = 4
  MaxTimeout = 3
  RunSteps = 3
  MaxAttempts = 2
  MaxChanges = 4
  Width = 2
  Height = 2
  Horizon = 3
  Capacity = 3
INVARIANTS TypeOK DecisionsRestOnWhatIsSeen
PROPERTY OutcomesAreEarned
CHECK_DEADLOCK FALSE
