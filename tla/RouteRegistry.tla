--------------------------- MODULE RouteRegistry ---------------------------
(***************************************************************************)
(* The route registry as pkg/proxy implements it: routes.json rewritten    *)
(* whole through one temporary file, under an flock, by any number of      *)
(* `astro` invocations and by the proxy daemon's landing page at once.     *)
(*                                                                         *)
(* A process is anything that calls AddRoute, RemoveRoute or ListRoutes.   *)
(* It may be killed between any two steps; the kernel then drops its       *)
(* flock.  GetRoute and GetRouteByProject take no lock: what they can read *)
(* is `file` at any moment, which is why NoTornRoutes matters.             *)
(***************************************************************************)
EXTENDS Routes

CONSTANTS
  Procs,    \* processes that use the registry
  NoProc    \* nobody holds the flock

ASSUME NoProcAssumption == NoProc \notin Procs

VARIABLES
  file,     \* routes.json (an absent or blank file reads as no routes)
  tmp,      \* routes.json.tmp, one name shared by every writer
  lock,     \* the holder of the flock on routes.lock
  pc,       \* where each process is in its registry call
  op,       \* the call each process is making
  new,      \* the list each process is about to write
  ended,    \* standalone masters that have ended
  reused    \* of those, the ones whose PID another process now has

vars == <<file, tmp, lock, pc, op, new, ended, reused>>

Content == [whole: BOOLEAN, routes: SUBSET Route]
Whole(routes) == [whole |-> TRUE, routes |-> routes]
Torn == [whole |-> FALSE, routes |-> {}]

\* RemoveRoute is called with the hostname of the caller's project; the record also
\* keeps whose project that is.
AddOps    == [kind: {"add"}, route: RegisteredRoutes]
RemoveOps == [kind: {"remove"}, route: {DockerRoute(j) : j \in Projects}]
ListOps   == {[kind |-> "list"]}
Ops       == AddOps \cup RemoveOps \cup ListOps
NoOp      == [kind |-> "none"]

Critical == {"read", "write", "fill", "rename", "unlock"}

Init ==
  /\ file = Whole({})
  /\ tmp = Torn
  /\ lock = NoProc
  /\ pc = [p \in Procs |-> "idle"]
  /\ op = [p \in Procs |-> NoOp]
  /\ new = [p \in Procs |-> {}]
  /\ ended = {}
  /\ reused = {}

Goto(p, label) == pc' = [pc EXCEPT ![p] = label]

\* The call is over and its locals are gone.
Return(p) ==
  /\ Goto(p, "idle")
  /\ op' = [op EXCEPT ![p] = NoOp]
  /\ new' = [new EXCEPT ![p] = {}]

----------------------------------------------------------------------------
(* One registry call of process p. *)

\* AddRoute is entered with the caller's route, RemoveRoute with the hostname of
\* the caller's project, ListRoutes with nothing; each starts in AcquireLock.
Call(p) ==
  /\ pc[p] = "idle"
  /\ \E o \in Ops : op' = [op EXCEPT ![p] = o]
  /\ Goto(p, "wait")
  /\ UNCHANGED <<file, tmp, lock, new, ended, reused>>

FaultSharedLock(p) ==   \* fault: LOCK_SH instead of LOCK_EX
  /\ pc[p] = "wait"
  /\ lock' = p
  /\ Goto(p, "read")
  /\ UNCHANGED <<file, tmp, op, new, ended, reused>>

\* AcquireLock: the non-blocking flock succeeds.
AcquireLock(p) ==
  /\ pc[p] = "wait"
  /\ lock = NoProc
  /\ lock' = p
  /\ Goto(p, "read")
  /\ UNCHANGED <<file, tmp, op, new, ended, reused>>

FaultBlockingLock(p) == pc[p] = "wait" /\ FALSE   \* fault: no LOCK_NB, no deadline

\* AcquireLock fails: the directory or the lock file cannot be opened, or the last
\* flock before the deadline found another holder, who may be gone by now.
LockFails(p) ==
  /\ pc[p] = "wait"
  /\ Return(p)
  /\ UNCHANGED <<file, tmp, lock, ended, reused>>

\* What the call makes of the routes it read: prune, then add, remove or nothing.
Results(o, routes) ==
  LET live == PruneStaleRoutes(routes, ended, reused) IN
  CASE o.kind = "add"    -> AddResults(live, o.route)
    [] o.kind = "remove" -> {RemoveResult(live, o.route.host)}
    [] o.kind = "list"   -> {live}

FaultUnlockAfterRead(p) ==   \* fault: the lock covers the read only
  /\ pc[p] = "read"
  /\ file.whole
  /\ \E routes \in Results(op[p], file.routes) : new' = [new EXCEPT ![p] = routes]
  /\ lock' = NoProc
  /\ Goto(p, "write")
  /\ UNCHANGED <<file, tmp, op, ended, reused>>

\* ReadRoutes, PruneStaleRoutes and the list to write.
ReadAndPrepare(p) ==
  /\ pc[p] = "read"
  /\ file.whole
  /\ \E routes \in Results(op[p], file.routes) : new' = [new EXCEPT ![p] = routes]
  /\ Goto(p, "write")
  /\ UNCHANGED <<file, tmp, lock, op, ended, reused>>

\* The hostname belongs to another project: AddRoute returns without writing.
Refused(p) ==
  /\ pc[p] = "read"
  /\ file.whole
  /\ Results(op[p], file.routes) = {}
  /\ Goto(p, "unlock")
  /\ UNCHANGED <<file, tmp, lock, op, new, ended, reused>>

\* ReadRoutes fails: the file cannot be read or does not parse.
ReadFails(p) ==
  /\ pc[p] = "read"
  /\ Goto(p, "unlock")
  /\ UNCHANGED <<file, tmp, lock, op, new, ended, reused>>

\* WriteRoutes: os.WriteFile truncates the temporary file first ...
TruncateTmp(p) ==
  /\ pc[p] = "write"
  /\ tmp' = Torn
  /\ Goto(p, "fill")
  /\ UNCHANGED <<file, lock, op, new, ended, reused>>

\* ... then fills it.
FillTmp(p) ==
  /\ pc[p] = "fill"
  /\ tmp' = Whole(new[p])
  /\ Goto(p, "rename")
  /\ UNCHANGED <<file, lock, op, new, ended, reused>>

\* WriteRoutes publishes the list: rename(2) replaces routes.json at once.
RenameTmp(p) ==
  /\ pc[p] = "rename"
  /\ file' = tmp
  /\ tmp' = Torn
  /\ Goto(p, "unlock")
  /\ UNCHANGED <<lock, op, new, ended, reused>>

\* WriteRoutes fails: no directory, no space, or the rename is refused.
WriteFails(p) ==
  /\ pc[p] \in {"write", "fill", "rename"}
  /\ tmp' = IF pc[p] = "rename" THEN Torn ELSE tmp
  /\ Goto(p, "unlock")
  /\ UNCHANGED <<file, lock, op, new, ended, reused>>

\* The deferred ReleaseLock, on success and on every error path.
ReleaseLock(p) ==
  /\ pc[p] = "unlock"
  /\ lock' = NoProc
  /\ Return(p)
  /\ UNCHANGED <<file, tmp, ended, reused>>

Step(p) ==
  \/ AcquireLock(p) \/ LockFails(p)
  \/ ReadAndPrepare(p) \/ Refused(p) \/ ReadFails(p)
  \/ TruncateTmp(p) \/ FillTmp(p) \/ RenameTmp(p) \/ WriteFails(p)
  \/ ReleaseLock(p)

----------------------------------------------------------------------------
(* The environment. *)

\* The process is killed: its call is over and the kernel releases its flock.
Killed(p) ==
  /\ pc[p] # "idle"
  /\ lock' = IF lock = p THEN NoProc ELSE lock
  /\ Return(p)
  /\ UNCHANGED <<file, tmp, ended, reused>>

\* A standalone Airflow master ends, and its PID may go to another process.
MasterEnds(d) ==
  /\ ended' = ended \cup {d}
  /\ UNCHANGED <<file, tmp, lock, pc, op, new, reused>>

PidReused(d) ==
  /\ d \in ended
  /\ reused' = reused \cup {d}
  /\ UNCHANGED <<file, tmp, lock, pc, op, new, ended>>

Next ==
  \/ \E p \in Procs : Call(p) \/ Step(p) \/ Killed(p)
  \/ \E d \in Pids : MasterEnds(d) \/ PidReused(d)

\* Fairness: a running process keeps executing its registry call. Nothing makes
\* a process call, die, or an Airflow master end.
Fairness == \A p \in Procs : WF_vars(Step(p))

Spec == Init /\ [][Next]_vars /\ Fairness

----------------------------------------------------------------------------
(* Properties. *)

\* Every variable keeps its type (WriteRoutes' shared temporary file included).
TypeOK ==
  /\ file \in Content
  /\ tmp \in Content
  /\ lock \in Procs \cup {NoProc}
  /\ pc \in [Procs -> Critical \cup {"idle", "wait"}]
  /\ op \in [Procs -> Ops \cup {NoOp}]
  /\ new \in [Procs -> SUBSET Route]
  /\ ended \subseteq Pids
  /\ reused \subseteq ended

\* A reader that takes no lock (GetRoute on each proxied request, AllocatePort,
\* GetRouteByProject) never finds a half-written routes.json, whoever is writing
\* and wherever a writer was killed.
NoTornRoutes == file.whole

\* routes.json never holds two routes for one hostname, so that "the first match"
\* of GetRoute is the only one, and one AddRoute replaces all there is to replace.
OneRoutePerHost ==
  \A r, q \in file.routes : r.host = q.host => r = q

\* The right of process p's call to take route r out of the registry: RemoveRoute
\* of its hostname, or AddRoute of a new route by the project that registered it.
MayReplace(p, r) ==
  /\ pc[p] = "rename"
  /\ op[p].kind \in {"add", "remove"}
  /\ op[p].route.host = r.host
  /\ op[p].kind = "add" => op[p].route.project = r.project

MasterEnded(r) == r.mode = "standalone" /\ r.pid \in ended

\* No lost update: a step takes a route out of routes.json only by a call that has
\* the right to, or because the route's Airflow master has ended. In particular a
\* docker route is never pruned, and a route another process added while this one
\* was between its read and its write survives the write.
RoutesLeaveByRight ==
  [][\A r \in file.routes \ file'.routes :
       MasterEnded(r) \/ \E p \in Procs : MayReplace(p, r)]_vars

\* Every registry call returns: the lock wait is bounded by its deadline, and every
\* path after the flock reaches the deferred ReleaseLock.
CallsReturn == \A p \in Procs : pc[p] # "idle" ~> pc[p] = "idle"

\* The registry implements the table of indivisible operations RouteTable states.
Table == INSTANCE RouteTable WITH table <- file.routes
TableSpec == Table!TableSpec

\* removeProxyRoute's comment says a stop "deregisters the proxy route for this
\* project": no call by one project takes out the route of another whose Airflow is
\* still running. RemoveRoute goes by hostname, which two directories can share.
OwnRouteOnly ==
  [][\A r \in file.routes \ file'.routes :
       \/ MasterEnded(r)
       \/ \E p \in Procs : MayReplace(p, r) /\ op[p].route.project = r.project]_vars
=============================================================================
