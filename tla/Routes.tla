------------------------------- MODULE Routes -------------------------------
(***************************************************************************)
(* The data of the local development proxy's route registry                *)
(* (pkg/proxy/routes.go): what a route is, when it counts as stale, and    *)
(* what the registry's three writers turn a list of routes into.           *)
(*                                                                         *)
(* A list of routes is a SET here: the order in routes.json is only        *)
(* observable through "the first route with this hostname", which is a     *)
(* choice (\E) wherever the code scans the list.                           *)
(***************************************************************************)
CONSTANTS
  Projects,   \* project directories (Route.ProjectDir)
  Hosts,      \* hostnames such as "my-project.localhost"
  HostOf,     \* DeriveHostname: the hostname of each project directory
  ModesOf,    \* the modes (dev.mode, --standalone) each project is started in
  Pids,       \* PIDs of the Airflow masters standalone starts spawn
  NoPid       \* PID 0, which docker routes carry

\* DeriveHostname is not injective: it keeps the base name of the directory,
\* lower-cased, cleaned and cut to 63 characters.
ASSUME HostOfAssumption == HostOf \in [Projects -> Hosts]
ASSUME ModesAssumption  == ModesOf \in [Projects -> SUBSET {"docker", "standalone"}]
ASSUME NoPidAssumption  == NoPid \notin Pids

Route ==
  [host: Hosts, project: Projects, pid: {NoPid}, mode: {"docker"}] \cup
  [host: Hosts, project: Projects, pid: Pids, mode: {"standalone"}]

\* The route a start of the project registers, in either mode.
DockerRoute(project) ==
  [host |-> HostOf[project], project |-> project, pid |-> NoPid, mode |-> "docker"]
FaultPidUnset(project, pid) ==   \* fault: registered before the PID is known
  [host |-> HostOf[project], project |-> project, pid |-> NoPid, mode |-> "standalone"]
StandaloneRoute(project, pid) ==
  [host |-> HostOf[project], project |-> project, pid |-> pid, mode |-> "standalone"]

RegisteredRoutes ==
  {DockerRoute(j) : j \in {k \in Projects : "docker" \in ModesOf[k]}} \cup
  {StandaloneRoute(j, d) : j \in {k \in Projects : "standalone" \in ModesOf[k]}, d \in Pids}

\* IsPIDAlive probes the bare PID with signal 0, so a PID whose process ended
\* and whose number went to another process counts as alive again.
IsPIDAlive(pid, ended, reused) == pid # NoPid /\ (pid \notin ended \/ pid \in reused)

FaultPruneDocker(routes, ended, reused) ==   \* fault: docker routes probed too
  {r \in routes : IsPIDAlive(r.pid, ended, reused)}
PruneStaleRoutes(routes, ended, reused) ==
  {r \in routes : r.mode = "docker" \/ IsPIDAlive(r.pid, ended, reused)}

\* The routes of this list that hold the hostname.
Holding(routes, host) == {r \in routes : r.host = host}

\* AddRoute on an already pruned list: refused when the (first) holder of the
\* hostname is another project, else the holder is replaced or the route added.
\* One result per holder that can come first, none when the route is refused.
AddResults(routes, route) ==
  IF Holding(routes, route.host) = {}
    THEN {routes \cup {route}}
    ELSE {(routes \ {q}) \cup {route} :
            q \in {h \in Holding(routes, route.host) : h.project = route.project}}

\* RemoveRoute on an already pruned list: by hostname alone.
RemoveResult(routes, host) == {r \in routes : r.host # host}
=============================================================================
