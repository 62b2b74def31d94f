SPECIFICATION MCSpec
CONSTANTS
  c1 = c1
  c2 = c2
  d1 = d1
  d2 = d2
  CLIs = {c1, c2}
  Domains = {d1, d2}
  Nothing = Nothing
  OnDisk <- Files
  MaxCommands = 2
  MaxFaults = 1
  User = {u1, u2}
  Org = {o1, o2}
  Workspace = {w1, w2, w3}
  Holds <- HeldBy
  ApiToken <- ApiTokens
  Key <- ApiKeys
  Life = 1
  Hour = 1
  Margin = 1
  MaxTime = 3
  o1 = o1
  o2 = o2
  w1 = w1
  w2 = w2
  w3 = w3
  MaxBegun = 3
  MaxKills = 1
  Inode = {1, 2, 3, 4}
  Torn = Torn
  MinVersion = 2
  Newest = 3
SYMMETRY Symmetric
INVARIANTS NeverMixed NoOrphanRefresh SessionFits OttoWhole
PROPERTIES AloneDoesItsJob
CHECK_DEADLOCK FALSE
