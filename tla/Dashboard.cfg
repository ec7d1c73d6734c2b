SPECIFICATION AllSpec
CONSTANTS
  Mounts = 2
  MaxToasts = 4
  OnScreen = 2
  MaxOpens = 2
  MaxRenders = 2
  Robots = {"r1", "r2"}
  ModelOf <- ModelsMade
  FactoryOf <- FactoriesBuilt
  MaxLoads = 2
  MaxPosts = 2
  MaxLost = 1
  Total = 1
  MaxExtra = 2
  MaxFails = 1
  Files = {"a", "b"}
  MaxFetches = 3
  Units = {"r1"}
  MaxEvents = 1
  MaxClicks = 2
INVARIANTS
  WidgetsTyped OneChain
  RolloutsAreIntended NotifiedOnce CatalogIsCurrent
PROPERTIES
  KeepsPolling LeavesForItsOwnReason FocusIsManaged
  ScreensCatchUp NoPageStaysBusy
CHECK_DEADLOCK FALSE
