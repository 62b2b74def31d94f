SPECIFICATION Spec
CONSTANTS
  p1 = p1
  p2 = p2
  shopA = shopA
  shopB = shopB
  etl = etl
  hShop = hShop
  hEtl = hEtl
  d1 = d1
  Procs = {p1, p2}
  NoProc = NoProc
  Projects = {shopA, shopB, etl}
  Hosts = {hShop, hEtl}
  HostOf <- MCHostOf
  ModesOf <- MCModesOf
  Pids = {d1}
  NoPid = NoPid
INVARIANTS NoTornRoutes
PROPERTIES RoutesLeaveByRight CallsReturn TableSpec
