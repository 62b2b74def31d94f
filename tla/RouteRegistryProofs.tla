------------------------ MODULE RouteRegistryProofs ------------------------
(***************************************************************************)
(* The safety properties of RouteRegistry, and that it implements          *)
(* RouteTable, for any number of processes, projects and hostnames.        *)
(*                                                                         *)
(* The inductive invariant says that the flock does its work: only its     *)
(* holder is between its read and its rename, so what the holder is about  *)
(* to write is still a legal change of what routes.json holds NOW.         *)
(***************************************************************************)
EXTENDS RouteRegistry, TLAPS

\* Exactly the holder of the flock is inside its critical section.
LockHeld == \A p \in Procs : pc[p] \in Critical <=> lock = p

\* A process inside a call knows which.
CallKnown == \A p \in Procs : pc[p] # "idle" => op[p] \in Ops

StaleIn(routes, dead) == {r \in routes : r.mode = "standalone" /\ r.pid \in dead}

\* `result` is what the call `o` may make of `routes`, dropping some whose master
\* is among the `dead`.
LegalResult(o, routes, dead, result) ==
  \E gone \in SUBSET StaleIn(routes, dead) :
    \/ /\ o.kind = "add"
       /\ \A q \in Holding(routes \ gone, o.route.host) : q.project = o.route.project
       /\ result = RemoveResult(routes \ gone, o.route.host) \cup {o.route}
    \/ /\ o.kind = "remove"
       /\ result = RemoveResult(routes \ gone, o.route.host)
    \/ /\ o.kind = "list"
       /\ result = routes \ gone

Writing == {"write", "fill", "rename"}

\* What a writer has prepared is a legal change of the current file.
Prepared ==
  \A p \in Procs : pc[p] \in Writing => LegalResult(op[p], file.routes, ended, new[p])

\* What a writer is about to rename is what it prepared, in full.
Filled == \A p \in Procs : pc[p] = "rename" => tmp = Whole(new[p])

IInv ==
  /\ TypeOK
  /\ LockHeld
  /\ CallKnown
  /\ NoTornRoutes
  /\ OneRoutePerHost
  /\ Prepared
  /\ Filled

Unique(routes) == \A r, q \in routes : r.host = q.host => r = q

----------------------------------------------------------------------------
(* Facts about the operators of Routes. *)

\* Everything a call can ask for concerns a proper route.
LEMMA OpsTyped ==
  ASSUME NEW o \in Ops
  PROVE  /\ o.kind \in {"add", "remove", "list"}
         /\ o.kind # "list" => o.route \in Route
  BY HostOfAssumption, ModesAssumption
  DEF Ops, AddOps, RemoveOps, ListOps, RegisteredRoutes, DockerRoute, StandaloneRoute, Route

\* Pruning only drops standalone routes whose master has ended.
LEMMA PruneDropsStale ==
  ASSUME NEW routes \in SUBSET Route
  PROVE  /\ PruneStaleRoutes(routes, ended, reused) \subseteq routes
         /\ routes \ PruneStaleRoutes(routes, ended, reused) \subseteq StaleIn(routes, ended)
  BY NoPidAssumption DEF PruneStaleRoutes, IsPIDAlive, StaleIn, Route

\* What Results offers is legal, and each result is a list of routes.
LEMMA ResultsLegal ==
  ASSUME NEW o \in Ops, NEW routes \in SUBSET Route, Unique(routes),
         NEW result \in Results(o, routes)
  PROVE  LegalResult(o, routes, ended, result) /\ result \in SUBSET Route
  <1> DEFINE live == PruneStaleRoutes(routes, ended, reused)
             gone == routes \ live
  <1>1. gone \in SUBSET StaleIn(routes, ended) /\ live = routes \ gone /\ live \in SUBSET Route
    BY PruneDropsStale
  <1>2. o.kind \in {"add", "remove", "list"} /\ (o.kind # "list" => o.route \in Route)
    BY OpsTyped
  <1> HIDE DEF live, gone
  <1>3. CASE o.kind = "add"
    <2>1. result \in AddResults(live, o.route)
      BY <1>3 DEF Results, live
    <2>2. CASE Holding(live, o.route.host) = {}
      <3>1. result = live \cup {o.route}
        BY <2>1, <2>2 DEF AddResults
      <3>2. RemoveResult(live, o.route.host) = live
        BY <2>2 DEF RemoveResult, Holding
      <3> QED
        BY <1>1, <1>2, <1>3, <2>2, <3>1, <3>2 DEF LegalResult
    <2>3. CASE Holding(live, o.route.host) # {}
      <3>1. PICK q \in Holding(live, o.route.host) :
              q.project = o.route.project /\ result = (live \ {q}) \cup {o.route}
        BY <2>1, <2>3 DEF AddResults
      <3>2. \A h \in Holding(live, o.route.host) : h = q
        BY <1>1, <3>1 DEF Holding, Unique
      <3>3. RemoveResult(live, o.route.host) = live \ {q}
        BY <3>1, <3>2 DEF RemoveResult, Holding
      <3> QED
        BY <1>1, <1>2, <1>3, <3>1, <3>2, <3>3 DEF LegalResult
    <2> QED BY <2>2, <2>3
  <1>4. CASE o.kind = "remove"
    <2>1. result = RemoveResult(live, o.route.host)
      BY <1>4 DEF Results, live
    <2> QED
      BY <1>1, <1>4, <2>1 DEF LegalResult, RemoveResult
  <1>5. CASE o.kind = "list"
    <2>1. result = live
      BY <1>5 DEF Results, live
    <2> QED
      BY <1>1, <1>5, <2>1 DEF LegalResult
  <1> QED BY <1>2, <1>3, <1>4, <1>5

\* A legal change keeps hostnames unique.
LEMMA LegalKeepsUnique ==
  ASSUME NEW o, NEW routes, NEW dead, NEW result,
         Unique(routes), LegalResult(o, routes, dead, result)
  PROVE  Unique(result)
  BY DEF LegalResult, Unique, RemoveResult, StaleIn

----------------------------------------------------------------------------
(* The inductive invariant. *)

\* The more masters have ended, the more a call may drop.
LEMMA LegalGrows ==
  ASSUME NEW o, NEW routes, NEW dead, NEW d, NEW result,
         LegalResult(o, routes, dead, result)
  PROVE  LegalResult(o, routes, dead \cup {d}, result)
  <1>1. StaleIn(routes, dead) \subseteq StaleIn(routes, dead \cup {d})
    BY DEF StaleIn
  <1> QED BY <1>1 DEF LegalResult

LEMMA InitEstablishes == Init => IInv
  <1> SUFFICES ASSUME Init PROVE IInv
    OBVIOUS
  <1>1. TypeOK
    BY DEF Init, TypeOK, Content, Whole, Torn
  <1>2. LockHeld /\ CallKnown /\ Prepared /\ Filled
    BY NoProcAssumption DEF Init, LockHeld, Critical, CallKnown, Prepared, Writing, Filled
  <1>3. NoTornRoutes /\ OneRoutePerHost
    BY DEF Init, NoTornRoutes, OneRoutePerHost, Whole
  <1> QED BY <1>1, <1>2, <1>3 DEF IInv

\* Every step of a call, of a kill and of the environment preserves it.
LEMMA NextPreserves == IInv /\ [Next]_vars => IInv'
  <1> SUFFICES ASSUME IInv, [Next]_vars PROVE IInv'
    OBVIOUS
  <1> USE NoProcAssumption DEF IInv
  <1> DEFINE Held == LockHeld /\ CallKnown
             Kept == NoTornRoutes /\ OneRoutePerHost
  <1>1. ASSUME NEW p \in Procs, Call(p) PROVE IInv'
    <2>1. TypeOK' /\ Held'
      BY <1>1 DEF Call, Goto, TypeOK, LockHeld, CallKnown, Critical
    <2>2. Kept' /\ Prepared' /\ Filled'
      BY <1>1 DEF Call, Goto, TypeOK, NoTornRoutes, OneRoutePerHost, Prepared, Filled, Writing
    <2> QED BY <2>1, <2>2
  <1>2. ASSUME NEW p \in Procs, AcquireLock(p) PROVE IInv'
    <2>1. TypeOK' /\ Held'
      BY <1>2 DEF AcquireLock, Goto, TypeOK, LockHeld, CallKnown, Critical
    <2>2. Kept' /\ Prepared' /\ Filled'
      BY <1>2 DEF AcquireLock, Goto, TypeOK, NoTornRoutes, OneRoutePerHost, Prepared, Filled, Writing
    <2> QED BY <2>1, <2>2
  <1>3. ASSUME NEW p \in Procs, LockFails(p) PROVE IInv'
    <2>1. TypeOK' /\ Held'
      BY <1>3 DEF LockFails, Return, Goto, TypeOK, LockHeld, CallKnown, Critical
    <2>2. Kept' /\ Prepared' /\ Filled'
      BY <1>3 DEF LockFails, Return, Goto, TypeOK, NoTornRoutes, OneRoutePerHost, Prepared, Filled, Writing
    <2> QED BY <2>1, <2>2
  <1>4. ASSUME NEW p \in Procs, ReadAndPrepare(p) PROVE IInv'
    <2>1. PICK routes \in Results(op[p], file.routes) : new' = [new EXCEPT ![p] = routes]
      BY <1>4 DEF ReadAndPrepare
    <2>2. op[p] \in Ops /\ file.routes \in SUBSET Route /\ Unique(file.routes)
      BY <1>4 DEF ReadAndPrepare, CallKnown, TypeOK, Content, OneRoutePerHost, Unique
    <2>3. LegalResult(op[p], file.routes, ended, routes) /\ routes \in SUBSET Route
      BY <2>2, ResultsLegal
    <2>4. TypeOK' /\ Held'
      BY <1>4, <2>1, <2>3 DEF ReadAndPrepare, Goto, TypeOK, LockHeld, CallKnown, Critical
    <2>5. Kept' /\ Prepared' /\ Filled'
      BY <1>4, <2>1, <2>3 DEF ReadAndPrepare, Goto, TypeOK, NoTornRoutes, OneRoutePerHost, Prepared, Filled, Writing
    <2> QED BY <2>4, <2>5
  <1>5. ASSUME NEW p \in Procs, Refused(p) \/ ReadFails(p) PROVE IInv'
    <2>1. TypeOK' /\ Held'
      BY <1>5 DEF Refused, ReadFails, Goto, TypeOK, LockHeld, CallKnown, Critical
    <2>2. Kept' /\ Prepared' /\ Filled'
      BY <1>5 DEF Refused, ReadFails, Goto, TypeOK, NoTornRoutes, OneRoutePerHost, Prepared, Filled, Writing
    <2> QED BY <2>1, <2>2
  <1>6. ASSUME NEW p \in Procs, TruncateTmp(p) PROVE IInv'
    <2>1. TypeOK' /\ Held'
      BY <1>6 DEF TruncateTmp, Goto, TypeOK, Content, Torn, LockHeld, CallKnown, Critical
    <2>2. Kept' /\ Prepared'
      BY <1>6 DEF TruncateTmp, Goto, TypeOK, NoTornRoutes, OneRoutePerHost, Prepared, Writing
    <2>3. Filled'
      BY <1>6 DEF TruncateTmp, Goto, TypeOK, LockHeld, Critical, Filled
    <2> QED BY <2>1, <2>2, <2>3
  <1>7. ASSUME NEW p \in Procs, FillTmp(p) PROVE IInv'
    <2>1. TypeOK' /\ Held'
      BY <1>7 DEF FillTmp, Goto, TypeOK, Content, Whole, LockHeld, CallKnown, Critical
    <2>2. Kept' /\ Prepared'
      BY <1>7 DEF FillTmp, Goto, TypeOK, NoTornRoutes, OneRoutePerHost, Prepared, Writing
    <2>3. Filled'
      BY <1>7 DEF FillTmp, Goto, TypeOK, LockHeld, Critical, Filled
    <2> QED BY <2>1, <2>2, <2>3
  <1>8. ASSUME NEW p \in Procs, RenameTmp(p) PROVE IInv'
    <2>1. tmp = Whole(new[p]) /\ LegalResult(op[p], file.routes, ended, new[p])
      BY <1>8 DEF RenameTmp, Filled, Prepared, Writing
    <2>2. Unique(new[p])
      BY <2>1, LegalKeepsUnique DEF OneRoutePerHost, Unique
    <2>3. TypeOK' /\ Held'
      BY <1>8 DEF RenameTmp, Goto, TypeOK, Content, Torn, LockHeld, CallKnown, Critical
    <2>4. Kept'
      BY <1>8, <2>1, <2>2 DEF RenameTmp, Whole, NoTornRoutes, OneRoutePerHost, Unique
    <2>5. \A q \in Procs : pc'[q] \notin Writing
      BY <1>8 DEF RenameTmp, Goto, TypeOK, LockHeld, Critical, Writing
    <2>6. Prepared' /\ Filled'
      BY <2>5 DEF Prepared, Filled, Writing
    <2> QED BY <2>3, <2>4, <2>6
  <1>9. ASSUME NEW p \in Procs, WriteFails(p) PROVE IInv'
    <2>1. TypeOK' /\ Held'
      BY <1>9 DEF WriteFails, Goto, TypeOK, Content, Torn, LockHeld, CallKnown, Critical
    <2>2. Kept' /\ Prepared'
      BY <1>9 DEF WriteFails, Goto, TypeOK, NoTornRoutes, OneRoutePerHost, Prepared, Writing
    <2>3. Filled'
      BY <1>9 DEF WriteFails, Goto, TypeOK, LockHeld, Critical, Filled
    <2> QED BY <2>1, <2>2, <2>3
  <1>10. ASSUME NEW p \in Procs, ReleaseLock(p) PROVE IInv'
    <2>1. TypeOK' /\ Held'
      BY <1>10 DEF ReleaseLock, Return, Goto, TypeOK, LockHeld, CallKnown, Critical
    <2>2. Kept' /\ Prepared' /\ Filled'
      BY <1>10 DEF ReleaseLock, Return, Goto, TypeOK, NoTornRoutes, OneRoutePerHost, Prepared, Filled, Writing
    <2> QED BY <2>1, <2>2
  <1>11. ASSUME NEW p \in Procs, Killed(p) PROVE IInv'
    <2>1. TypeOK' /\ Held'
      BY <1>11 DEF Killed, Return, Goto, TypeOK, LockHeld, CallKnown, Critical
    <2>2. Kept' /\ Prepared' /\ Filled'
      BY <1>11 DEF Killed, Return, Goto, TypeOK, NoTornRoutes, OneRoutePerHost, Prepared, Filled, Writing
    <2> QED BY <2>1, <2>2
  <1>12. ASSUME NEW d \in Pids, MasterEnds(d) PROVE IInv'
    <2>1. TypeOK' /\ Held' /\ Kept' /\ Filled'
      BY <1>12 DEF MasterEnds, TypeOK, LockHeld, CallKnown, NoTornRoutes, OneRoutePerHost, Filled
    <2>2. Prepared'
      BY <1>12, LegalGrows DEF MasterEnds, Prepared
    <2> QED BY <2>1, <2>2
  <1>13. ASSUME NEW d \in Pids, PidReused(d) PROVE IInv'
    BY <1>13 DEF PidReused, TypeOK, LockHeld, CallKnown, NoTornRoutes, OneRoutePerHost, Prepared, Filled
  <1>14. CASE UNCHANGED vars
    BY <1>14 DEF vars, TypeOK, LockHeld, CallKnown, NoTornRoutes, OneRoutePerHost, Prepared, Filled
  <1> QED
    BY <1>1, <1>2, <1>3, <1>4, <1>5, <1>6, <1>7, <1>8, <1>9, <1>10, <1>11, <1>12, <1>13, <1>14
    DEF Next, Step

LEMMA Invariance == Spec => []IInv
  <1>1. Init => IInv
    BY InitEstablishes
  <1>2. IInv /\ [Next]_vars => IInv'
    BY NextPreserves
  <1> QED BY <1>1, <1>2, PTL DEF Spec

----------------------------------------------------------------------------
(* The results. *)

\* The file, the shared temporary file, the flock and every process keep their types.
THEOREM Typed == Spec => []TypeOK
  <1>1. IInv => TypeOK
    BY DEF IInv
  <1> QED BY <1>1, Invariance, PTL

\* No interleaving of writers and kills leaves a half-written routes.json: the only
\* thing ever renamed over it is a temporary file its writer has finished.
THEOREM NeverTorn == Spec => []NoTornRoutes
  <1>1. IInv => NoTornRoutes
    BY DEF IInv
  <1> QED BY <1>1, Invariance, PTL

\* AddRoute and RemoveRoute keep hostnames unique for any number of callers.
THEOREM HostsUnique == Spec => []OneRoutePerHost
  <1>1. IInv => OneRoutePerHost
    BY DEF IInv
  <1> QED BY <1>1, Invariance, PTL

\* A step that is not a rename leaves routes.json alone.
LEMMA OnlyRenameWrites ==
  ASSUME [Next]_vars, \A p \in Procs : ~RenameTmp(p)
  PROVE  file' = file
  BY DEF Next, Step, Call, AcquireLock, LockFails, ReadAndPrepare, Refused, ReadFails,
         TruncateTmp, FillTmp, WriteFails, ReleaseLock, Killed, MasterEnds, PidReused, vars

\* What a rename publishes is a legal change of what it replaces.
LEMMA RenameIsLegal ==
  ASSUME IInv, NEW p \in Procs, RenameTmp(p)
  PROVE  /\ op[p] \in Ops
         /\ file.routes \in SUBSET Route
         /\ LegalResult(op[p], file.routes, ended, file'.routes)
         /\ ended' = ended
  BY DEF IInv, RenameTmp, Filled, Prepared, Writing, Whole, CallKnown, TypeOK, Content

\* No lost update: whatever the interleaving, a route leaves routes.json only by a
\* call with the right to take it out, or because its Airflow master has ended.
THEOREM NoLostUpdate == Spec => RoutesLeaveByRight
  <1> DEFINE Rightful == \A r \in file.routes \ file'.routes :
                           MasterEnded(r) \/ \E p \in Procs : MayReplace(p, r)
  <1>1. IInv /\ [Next]_vars => [Rightful]_vars
    <2> SUFFICES ASSUME IInv, [Next]_vars PROVE Rightful
      OBVIOUS
    <2>1. CASE \A p \in Procs : ~RenameTmp(p)
      BY <2>1, OnlyRenameWrites
    <2>2. ASSUME NEW p \in Procs, RenameTmp(p) PROVE Rightful
      <3> SUFFICES ASSUME NEW r \in file.routes, r \notin file'.routes
                   PROVE  MasterEnded(r) \/ MayReplace(p, r)
        OBVIOUS
      <3>1. LegalResult(op[p], file.routes, ended, file'.routes)
        BY <2>2, RenameIsLegal
      <3>2. PICK gone \in SUBSET StaleIn(file.routes, ended) :
              \/ /\ op[p].kind = "add"
                 /\ \A q \in Holding(file.routes \ gone, op[p].route.host) :
                      q.project = op[p].route.project
                 /\ file'.routes = RemoveResult(file.routes \ gone, op[p].route.host) \cup {op[p].route}
              \/ /\ op[p].kind = "remove"
                 /\ file'.routes = RemoveResult(file.routes \ gone, op[p].route.host)
              \/ /\ op[p].kind = "list"
                 /\ file'.routes = file.routes \ gone
        BY <3>1 DEF LegalResult
      <3>3. CASE r \in gone
        BY <3>3 DEF StaleIn, MasterEnded
      <3>4. CASE r \notin gone
        BY <2>2, <3>2, <3>4 DEF RenameTmp, RemoveResult, Holding, MayReplace
      <3> QED BY <3>3, <3>4
    <2> QED BY <2>1, <2>2
  <1> QED BY <1>1, Invariance, PTL DEF Spec, RoutesLeaveByRight

\* The registry implements the table of indivisible operations: a rename is the
\* operation, every other step of a call is invisible.
THEOREM Implements == Spec => TableSpec
  <1>1. Init => Table!TableInit
    BY DEF Init, Whole, Table!TableInit
  <1>2. IInv /\ [Next]_vars => [Table!TableNext]_(Table!tableVars)
    <2> SUFFICES ASSUME IInv, [Next]_vars
                 PROVE  Table!TableNext \/ UNCHANGED Table!tableVars
      OBVIOUS
    <2>1. ASSUME NEW p \in Procs, RenameTmp(p) PROVE Table!TableNext
      <3>1. /\ op[p] \in Ops
            /\ LegalResult(op[p], file.routes, ended, file'.routes)
            /\ ended' = ended
        BY <2>1, RenameIsLegal
      <3>2. op[p].kind # "list" => op[p].route \in Route /\ op[p].route.host \in Hosts
        BY <3>1, OpsTyped DEF Route
      <3>3. StaleIn(file.routes, ended) = Table!Stale
        BY DEF StaleIn, Table!Stale
      <3>4. \/ op[p].kind = "add" /\ Table!Register(op[p].route)
            \/ op[p].kind = "remove" /\ Table!Deregister(op[p].route.host)
            \/ op[p].kind = "list" /\ Table!DropStale
        BY <3>1, <3>3 DEF LegalResult, Table!Register, Table!Deregister, Table!DropStale,
                               Holding, RemoveResult, Table!Holding, Table!RemoveResult
      <3> QED BY <3>2, <3>4 DEF Table!TableNext, Route, Table!Route
    <2>2. ASSUME NEW d \in Pids, MasterEnds(d) PROVE Table!TableNext
      BY <2>2 DEF MasterEnds, Table!TableNext, Table!MasterEnds
    <2>3. CASE /\ \A p \in Procs : ~RenameTmp(p)
               /\ \A d \in Pids : ~MasterEnds(d)
      <3>1. file' = file
        BY <2>3, OnlyRenameWrites
      <3>2. ended' = ended
        BY <2>3 DEF Next, Step, Call, AcquireLock, LockFails, ReadAndPrepare, Refused, ReadFails,
           TruncateTmp, FillTmp, WriteFails, ReleaseLock, Killed, PidReused, vars
      <3> QED BY <3>1, <3>2 DEF Table!tableVars
    <2> QED BY <2>1, <2>2, <2>3
  <1> QED BY <1>1, <1>2, Invariance, PTL DEF Spec, TableSpec, Table!TableSpec
=============================================================================
