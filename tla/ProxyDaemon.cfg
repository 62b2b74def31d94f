SPECIFICATION Spec
CONSTANTS
  t1 = t1
  t2 = t2
  shop = shop
  etl = etl
  v1 = v1
  v2 = v2
  Clis = {t1, t2}
  Projects = {shop}
  Versions = {v1}
  DevBuild = DevBuild
  NoFile = NoFile
  MaxDaemons = 3
  Kills = TRUE
INVARIANTS TrackedWhenAlone RacingStartsServed
PROPERTIES CommandsEnd
