CONSTANTS
  Plans <- MCPlans
  MaxNesting = 2
  ColouredQuery <- MCColouredQuery
  Types <- MCTypes
  Hash <- MCHash
  Selections <- MCSelections
  MaxSelections = 3
  Root = "Query"
  Configs <- MCConfigs
  Seeds = {0, 1}
  TypeNames <- MCTypeNames
  Subgraphs <- MCSubgraphs
  Roots <- MCRoots
  Schemas <- MCSchemas
  FieldTargets <- MCFieldTargets
  MaxFields = 3
SPECIFICATION Spec
INVARIANTS TimelineCorrect DiagramReadsBack  MockConforms SchemaViewsFaithful
CHECK_DEADLOCK FALSE
