SPECIFICATION Spec
CONSTANTS
  Backends <- MCBackends
  Builtin <- MCBuiltin
  RouteNames <- MCRouteNames
  Tails <- MCTails
  Chains <- MCChains
  Keys = {"k1", "k2"}
  Urls = {"plain", "env"}
  EnvUrl = "env"
  Reference = "reference"
  ModelIds = {"*", "m1", "m2", "m3"}
  Offers <- MCOffers
  MAX_MODELS_PER_BACKEND = 1
  MAX_TOTAL_DYNAMIC_MODELS = 1
  MaxTasks = 2
  Contents <- MCContents
  HandWritten <- MCHandWritten
  Budgets <- MCBudgets
INVARIANTS
  PanelTellsTruth
  DynamicBounded
  EverySpellingFindsItsRule
PROPERTIES
  SaveKeepsEdits
  SavesLandInOrder
CHECK_DEADLOCK FALSE
