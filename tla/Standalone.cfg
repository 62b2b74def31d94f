SPECIFICATION MCSpec
CONSTANTS
  Starts = {s1, s2, s3}
  Absent = Absent
  Empty = Empty
  Clis = {t1, t2}
  Pids = {n1, n2}
  NoPid = NoPid
  Secrets = {x1, x2}
  NoSecret = NoSecret
  Overlaps = FALSE
INVARIANTS NeverEmptied StartsAgree Reachable
PROPERTIES RouteKeptWhileUp StopsEnd
CHECK_DEADLOCK FALSE
