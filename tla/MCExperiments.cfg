SPECIFICATION ExperimentsSpec
CONSTANTS
  r1 = r1
  r2 = r2
  h1 = h1
  h2 = h2
  Keep = Keep
  Fields = {"f1", "f2"}
  Tables <- Columns
  FilterLists <- FilterListsSubmitted
  Allotments <- WeightsSubmitted
  Params <- ParamsSubmitted
  MaxMetrics = 2
  MaxContexts = 2
  Requests = {r1, r2}
  Webhooks = {h1, h2}
  Announcing = {h1}
  Budget = 1
  MaxTasks = 2
  MaxDate = 2
  Texts <- Participants
  ArmIds = {"a", "b"}
  Assigned <- AssignedBefore
  Warehouses <- WarehousesBefore
  BatchSize = 2
  RangeSize = 3
  BufferSize = 3
  PieceSizes = {1, 3}
  Changing <- LoadedMeanwhile
  MaxSyncs = 1
SYMMETRY Symmetry
INVARIANTS
  LifecycleInv
  DesignsInv
  ResultsInv
PROPERTIES
  FinalUnlessRaced
  DatesStayOrdered
CHECK_DEADLOCK FALSE
