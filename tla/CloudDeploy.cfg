SPECIFICATION MCSpec
CONSTANTS
  c1 = c1
  c2 = c2
  d1 = d1
  d2 = d2
  w1 = w1
  w2 = w2
  Clis = {c1, c2}
  Deployments = {d1, d2}
  Checkouts = {w1, w2}
  Places <- OwnPlaces
  Requests <- Everything
  Together <- Colliding
  Ignores <- IgnoreFiles
  Services <- OneOfEach
  Nothing = Nothing
  MaxDeploys = 2
  Kills = TRUE
  i1 = i1
  i2 = i2
  t1 = t1
  Empty = Empty
  MaxTries = 2
  MaxCommands = 2
  MaxKills = 1
  MaxEdits = 1
  MaxTime = 1
  shop = shop
  shopTarget = shopTarget
  yml = yml
  rootManifest = rootManifest
  manifest = manifest
  semanticManifest = semanticManifest
  v1 = v1
  v2 = v2
  notDbt = notDbt
  TakesDags = {d1}
  ImageBased = {d2}
  Custom <- BuiltElsewhere
  Orders <- AllOrders
  OrdersTogether <- Overlapping
  Platforms <- Installed
  Dir = {shop, shopTarget}
  Project = {shop}
  Manifest = {rootManifest, manifest, semanticManifest}
  Source = {yml}
  Home <- Lying
  ProjectFile <- ProjectFiles
  Hashed <- HashedFiles
  Body = {v1, v2, notDbt}
  Layouts <- Trees
  Steps <- AllSteps
  StepsTogether <- DeployAndCleanup
  Edits <- Rewrites
  Strangers <- OthersWrite
SYMMETRY Symmetric
INVARIANTS NothingMissing CheckoutKept ShipsFresh
PROPERTIES ShipsAsTested EmptiedKnowingly DeployArrives
CHECK_DEADLOCK FALSE
