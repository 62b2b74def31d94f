----------------------------- MODULE RouteTable -----------------------------
(***************************************************************************)
(* What the route registry promises its callers: a table with at most one  *)
(* route per hostname, changed by indivisible operations.  A route leaves  *)
(* the table when its hostname is deregistered, when its own project       *)
(* registers again, or when it is a standalone route whose Airflow master  *)
(* has ended; never because another invocation was writing at the time.    *)
(***************************************************************************)
EXTENDS Routes

VARIABLES
  table,   \* the set of registered routes
  ended    \* the standalone masters that have ended

tableVars == <<table, ended>>

Stale == {r \in table : r.mode = "standalone" /\ r.pid \in ended}

TableInit == table = {} /\ ended = {}

\* Every operation may drop stale routes, and is free to leave some (a reused
\* PID, a master that ended after it was probed).
Register(route) ==
  \E gone \in SUBSET Stale :
    /\ \A q \in Holding(table \ gone, route.host) : q.project = route.project
    /\ table' = RemoveResult(table \ gone, route.host) \cup {route}
    /\ UNCHANGED ended

Deregister(host) ==
  \E gone \in SUBSET Stale :
    /\ table' = RemoveResult(table \ gone, host)
    /\ UNCHANGED ended

DropStale ==
  \E gone \in SUBSET Stale :
    /\ table' = table \ gone
    /\ UNCHANGED ended

MasterEnds(pid) == ended' = ended \cup {pid} /\ UNCHANGED table

TableNext ==
  \/ \E route \in Route : Register(route)
  \/ \E host \in Hosts : Deregister(host)
  \/ DropStale
  \/ \E pid \in Pids : MasterEnds(pid)

TableSpec == TableInit /\ [][TableNext]_tableVars
=============================================================================
