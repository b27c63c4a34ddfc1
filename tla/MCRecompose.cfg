\* setActiveWorkspace clears what nothing composes again
SPECIFICATION Spec
CONSTANTS
  DefaultSubgraphs <- TwoSubgraphs
  NewSdl = "sdl"
  DefaultQuery = "q"
  Sdls = {"sdl", ""}
  Queries = {"q", ""}
  Inputs = {0, 1}
  DefaultInputs = 0
  Shared <- Sent
  Selections <- AllSelections
  Broken = {""}
  MaxOps = 2
  MaxPulls = 1
PROPERTIES ComposeReRuns
CHECK_DEADLOCK FALSE
