\* The page: one user, three operations
SPECIFICATION Spec
CONSTANTS
  DefaultSubgraphs <- TwoSubgraphs
  NewSdl = "sdl"
  DefaultQuery = "q"
  Sdls = {"sdl", ""}
  Queries = {"q", ""}
  Inputs = {0, 1}
  DefaultInputs = 0
  Shared <- Sent
  Selections <- AllSelections
  Broken = {""}
  MaxOps = 3
  MaxPulls = 1
INVARIANTS TabsValid IdsUnique OwnSupergraph
PROPERTIES RemovalKeepsPlace EventuallyComposed EventuallyShown
CHECK_DEADLOCK FALSE
