---------------------------- MODULE ProxyDaemon ----------------------------
(***************************************************************************)
(* The proxy daemon's life cycle (airflow/proxy/daemon.go): `astro`        *)
(* invocations register and deregister routes, and start, restart and stop *)
(* one background `astro dev proxy serve`, which they know only through    *)
(* ~/.astro/proxy/proxy.pid.  No lock covers the PID file, so commands of  *)
(* different terminals interleave between any two of its reads and writes. *)
(*                                                                         *)
(* The routes are those of RouteTable (one indivisible operation per call, *)
(* which RouteRegistry implements), kept as the set of projects that have  *)
(* one: docker routes, which are never pruned.                             *)
(***************************************************************************)
EXTENDS Naturals, Sequences

CONSTANTS
  Clis,         \* concurrent CLI invocations (terminals)
  Projects,     \* projects on the proxy
  Versions,     \* CLI versions in use, version.CurrVersion
  DevBuild,     \* the empty version of a development build
  NoFile,       \* no PID file, or one that does not parse
  MaxDaemons,   \* bound: how many daemons are ever spawned
  Kills         \* whether a CLI may be killed in the middle of a command

ASSUME DevBuildAssumption == DevBuild \notin Versions
ASSUME NoFileAssumption == NoFile \notin [pid: Nat, ver: Versions \cup {DevBuild}]
ASSUME BoundAssumption == MaxDaemons \in Nat \ {0} /\ Kills \in BOOLEAN

Builds == Versions \cup {DevBuild}
Pids   == 1 .. MaxDaemons

VARIABLES
  routes,    \* projects with a route in routes.json
  pidFile,   \* proxy.pid: "<pid> <version>"
  daemon,    \* the daemons spawned so far, by PID
  cli,       \* what each invocation is doing
  alone,     \* history: no two commands overlapped and none was killed
  calm       \* history: only registrations so far, and nothing failed or died

vars == <<routes, pidFile, daemon, cli, alone, calm>>

PidFiles == {NoFile} \cup [pid: Pids, ver: Builds]
DaemonStates == {"starting", "serving", "dead"}
Daemon == [state: DaemonStates, asked: BOOLEAN]
Labels == {"idle", "list", "check", "ensure", "stop", "term", "poll", "unlink",
           "clean", "spawn", "truncate", "write"}
\* `pid` is the daemon a command stops or has spawned, `stops` why it is in
\* StopDaemon: asked to (by the user, or as no routes are left), or to start another version.
Cli == [pc: Labels, ver: Builds, pid: {0} \cup Pids, stops: {"asked", "restart"}]
IdleCli == [pc |-> "idle", ver |-> DevBuild, pid |-> 0, stops |-> "asked"]

Init ==
  /\ routes = {}
  /\ pidFile = NoFile
  /\ daemon = << >>
  /\ cli = [c \in Clis |-> IdleCli]
  /\ alone = TRUE
  /\ calm = TRUE

Dead == [state |-> "dead", asked |-> FALSE]

IsAlive(pid) == pid \in DOMAIN daemon /\ daemon[pid].state # "dead"

\* parsePIDFile and the liveness probe: the PID file names a live daemon.
IsRunning == pidFile # NoFile /\ IsAlive(pidFile.pid)

Goto(c, label) == cli' = [cli EXCEPT ![c].pc = label]
Finish(c) == cli' = [cli EXCEPT ![c] = IdleCli]

\* A command starts; it overlaps with any that is still running. Its version only
\* matters to a command that may call EnsureRunning.
Begin(c, label, ver) ==
  /\ cli[c].pc = "idle"
  /\ cli' = [cli EXCEPT ![c] = [IdleCli EXCEPT !.pc = label, !.ver = ver]]
  /\ alone' = (alone /\ \A o \in Clis : cli[o].pc = "idle")

----------------------------------------------------------------------------
(* The commands. *)

\* registerProxyRoute, and the end of a docker start: AddRoute, then EnsureRunning.
RegisterRoute(c, project, ver) ==
  /\ Begin(c, "ensure", ver)
  /\ routes' = routes \cup {project}
  /\ UNCHANGED <<pidFile, daemon, calm>>

\* removeProxyRoute: RemoveRoute, then StopIfEmpty when it left no routes.
RemoveRoute(c, project) ==
  /\ routes' = routes \ {project}
  /\ IF routes' = {} THEN Begin(c, "list", DevBuild)
                     ELSE cli[c].pc = "idle" /\ UNCHANGED <<cli, alone>>
  /\ calm' = FALSE
  /\ UNCHANGED <<pidFile, daemon>>

\* StopIfEmpty lists the routes again before it stops the daemon, and leaves it
\* alone when there are some, or when they cannot be listed.
StopIfEmpty(c) ==
  /\ cli[c].pc = "list"
  /\ \/ routes = {} /\ Goto(c, "stop")
     \/ Finish(c)
  /\ UNCHANGED <<routes, pidFile, daemon, alone, calm>>

\* `astro dev proxy stop`.
ProxyStop(c) ==
  /\ Begin(c, "stop", DevBuild)
  /\ calm' = FALSE
  /\ UNCHANGED <<routes, pidFile, daemon>>

\* `astro dev proxy status`: ListRoutes, then IsRunning; with routes and no daemon
\* it restarts the daemon. Without routes it changes nothing.
ProxyStatus(c, ver) ==
  /\ routes # {}
  /\ Begin(c, "check", ver)
  /\ UNCHANGED <<routes, pidFile, daemon, calm>>

StatusCheck(c) ==
  /\ cli[c].pc = "check"
  /\ IF IsRunning THEN Finish(c) ELSE Goto(c, "ensure")
  /\ UNCHANGED <<routes, pidFile, daemon, alone, calm>>

----------------------------------------------------------------------------
(* EnsureRunning and StartDaemon. *)

FaultNoRestart(c) ==   \* fault: another version's daemon is not stopped first
  /\ cli[c].pc = "ensure"
  /\ IF IsRunning /\ cli[c].ver \in {pidFile.ver, DevBuild}
       THEN Finish(c)
       ELSE Goto(c, "clean")
  /\ UNCHANGED <<routes, pidFile, daemon, alone, calm>>

\* The daemon is running with this version (a development build takes any), or is
\* running another and is stopped first, or is not running.
EnsureRunning(c) ==
  /\ cli[c].pc = "ensure"
  /\ \/ /\ IsRunning /\ cli[c].ver \in {pidFile.ver, DevBuild}
        /\ Finish(c)
     \/ /\ IsRunning /\ cli[c].ver \notin {pidFile.ver, DevBuild}
        /\ cli' = [cli EXCEPT ![c].pc = "stop", ![c].stops = "restart"]
     \/ /\ ~IsRunning
        /\ Goto(c, "clean")
  /\ UNCHANGED <<routes, pidFile, daemon, alone, calm>>

\* "Clean up stale PID file".
CleanPidFile(c) ==
  /\ cli[c].pc = "clean"
  /\ pidFile' = NoFile
  /\ Goto(c, "spawn")
  /\ UNCHANGED <<routes, daemon, alone, calm>>

\* StartDaemon re-executes the CLI as the daemon ...
SpawnDaemon(c) ==
  /\ cli[c].pc = "spawn"
  /\ Len(daemon) < MaxDaemons
  /\ daemon' = Append(daemon, [state |-> "starting", asked |-> FALSE])
  /\ cli' = [cli EXCEPT ![c].pc = "truncate", ![c].pid = Len(daemon')]
  /\ UNCHANGED <<routes, pidFile, alone, calm>>

\* ... or fails before that: no directory, no log file, no executable.
StartFails(c) ==
  /\ cli[c].pc = "spawn"
  /\ Finish(c)
  /\ calm' = FALSE
  /\ UNCHANGED <<routes, pidFile, daemon, alone>>

\* os.WriteFile truncates the PID file, then writes it.
TruncatePidFile(c) ==
  /\ cli[c].pc = "truncate"
  /\ pidFile' = NoFile
  /\ Goto(c, "write")
  /\ UNCHANGED <<routes, daemon, alone, calm>>

FaultPidZero(c) ==   \* fault: the PID is taken from the released process
  /\ cli[c].pc = "write"
  /\ pidFile' = [pid |-> 0, ver |-> cli[c].ver]
  /\ Finish(c)
  /\ UNCHANGED <<routes, daemon, alone, calm>>

WritePidFile(c) ==
  /\ cli[c].pc = "write"
  /\ pidFile' = [pid |-> cli[c].pid, ver |-> cli[c].ver]
  /\ Finish(c)
  /\ UNCHANGED <<routes, daemon, alone, calm>>

\* The PID file cannot be written: the daemon nobody could find is terminated.
WritePidFails(c) ==
  /\ cli[c].pc \in {"truncate", "write"}
  /\ daemon' = [daemon EXCEPT ![cli[c].pid].asked = IsAlive(cli[c].pid)]
  /\ Finish(c)
  /\ calm' = FALSE
  /\ UNCHANGED <<routes, pidFile, alone>>

----------------------------------------------------------------------------
(* StopDaemon. *)

AfterStop(c) == IF cli[c].stops = "restart" THEN Goto(c, "clean") ELSE Finish(c)

\* IsRunning: no PID file and nothing to do; one that names a dead daemon, which is
\* then removed, by then perhaps another's; or a live daemon, to be terminated.
StopDaemon(c) ==
  /\ cli[c].pc = "stop"
  /\ \/ /\ pidFile = NoFile
        /\ AfterStop(c)
     \/ /\ pidFile # NoFile /\ ~IsRunning
        /\ Goto(c, "unlink")
     \/ /\ IsRunning
        /\ cli' = [cli EXCEPT ![c].pc = "term", ![c].pid = pidFile.pid]
  /\ UNCHANGED <<routes, pidFile, daemon, alone, calm>>

\* SIGTERM, to a daemon that may have gone since.
Terminate(c) ==
  /\ cli[c].pc = "term"
  /\ daemon' = [daemon EXCEPT ![cli[c].pid].asked = IsAlive(cli[c].pid)]
  /\ Goto(c, "poll")
  /\ UNCHANGED <<routes, pidFile, alone, calm>>

FaultReturnAfterTerm(c) ==   \* fault: StopDaemon does not wait for the exit
  /\ cli[c].pc = "poll"
  /\ pidFile' = NoFile
  /\ AfterStop(c)
  /\ UNCHANGED <<routes, daemon, alone, calm>>

\* A poll finds the daemon gone, and its PID file is removed.
PollGone(c) ==
  /\ cli[c].pc = "poll"
  /\ ~IsAlive(cli[c].pid)
  /\ pidFile' = NoFile
  /\ AfterStop(c)
  /\ UNCHANGED <<routes, daemon, alone, calm>>

FaultNoKill(c) == cli[c].pc = "poll" /\ FALSE   \* fault: no SIGKILL after stopTimeout

\* stopTimeout passes and the daemon is still there: SIGKILL.
StopTimeout(c) ==
  /\ cli[c].pc = "poll"
  /\ IsAlive(cli[c].pid)
  /\ daemon' = [daemon EXCEPT ![cli[c].pid] = Dead]
  /\ Goto(c, "unlink")
  /\ UNCHANGED <<routes, pidFile, alone, calm>>

RemovePidFile(c) ==
  /\ cli[c].pc = "unlink"
  /\ pidFile' = NoFile
  /\ AfterStop(c)
  /\ UNCHANGED <<routes, daemon, alone, calm>>

CliStep(c) ==
  \/ StopIfEmpty(c) \/ StatusCheck(c)
  \/ EnsureRunning(c) \/ CleanPidFile(c)
  \/ SpawnDaemon(c) \/ StartFails(c)
  \/ TruncatePidFile(c) \/ WritePidFile(c) \/ WritePidFails(c)
  \/ StopDaemon(c) \/ Terminate(c) \/ PollGone(c) \/ StopTimeout(c) \/ RemovePidFile(c)

\* The invocation is killed (Ctrl-C, closed terminal) wherever it is.
CliKilled(c) ==
  /\ Kills
  /\ cli[c].pc # "idle"
  /\ Finish(c)
  /\ alone' = FALSE
  /\ calm' = FALSE
  /\ UNCHANGED <<routes, pidFile, daemon>>

----------------------------------------------------------------------------
(* The daemon: Proxy.Serve. *)

PortTaken == \E d \in DOMAIN daemon : daemon[d].state = "serving"

\* ListenAndServe binds the port, or finds it taken and the daemon exits.
Bind(d) ==
  /\ daemon[d].state = "starting"
  /\ daemon' = [daemon EXCEPT ![d] = IF PortTaken THEN Dead ELSE [@ EXCEPT !.state = "serving"]]
  /\ UNCHANGED <<routes, pidFile, cli, alone, calm>>

\* SIGTERM shuts the server down, before or after it listens. It may also hang.
ShutDown(d) ==
  /\ daemon[d].asked /\ daemon[d].state # "dead"
  /\ daemon' = [daemon EXCEPT ![d] = Dead]
  /\ UNCHANGED <<routes, pidFile, cli, alone, calm>>

\* The daemon dies by itself: a crash, a reboot, a port another program holds.
DaemonDies(d) ==
  /\ ~daemon[d].asked /\ daemon[d].state # "dead"
  /\ daemon' = [daemon EXCEPT ![d] = Dead]
  /\ calm' = FALSE
  /\ UNCHANGED <<routes, pidFile, cli, alone>>

Next ==
  \/ \E c \in Clis, j \in Projects : RemoveRoute(c, j) \/ \E v \in Builds : RegisterRoute(c, j, v)
  \/ \E c \in Clis : ProxyStop(c) \/ \E v \in Builds : ProxyStatus(c, v)
  \/ \E c \in Clis : CliStep(c) \/ CliKilled(c)
  \/ \E d \in DOMAIN daemon : Bind(d) \/ ShutDown(d) \/ DaemonDies(d)

\* Fairness: a command that is running keeps running; its waits are bounded by
\* stopTimeout. Nothing makes a daemon listen, or obey SIGTERM.
Fairness == \A c \in Clis : WF_vars(CliStep(c))

Spec == Init /\ [][Next]_vars /\ Fairness

----------------------------------------------------------------------------
(* Properties. *)

\* Every variable keeps its type; the PID file names a daemon that was spawned.
TypeOK ==
  /\ routes \subseteq Projects
  /\ pidFile \in PidFiles
  /\ daemon \in Seq(Daemon) /\ Len(daemon) <= MaxDaemons
  /\ cli \in [Clis -> Cli]
  /\ alone \in BOOLEAN /\ calm \in BOOLEAN

Settled == \A c \in Clis : cli[c].pc = "idle"

\* A daemon nobody has asked to go.
Staying(d) == daemon[d].state # "dead" /\ ~daemon[d].asked

\* As long as commands run one at a time and to their end, the PID file names every
\* daemon that is up to stay: none is left serving that `proxy stop`, a version
\* change or the last stop could not find, whatever daemons died on the way.
TrackedWhenAlone ==
  alone /\ Settled =>
    \A d \in DOMAIN daemon : Staying(d) => pidFile # NoFile /\ pidFile.pid = d

\* Starts that race, of the same CLI version or of different ones that restart each
\* other's daemon, never end with a registered route and no daemon: a daemon that
\* lost the port lost it to one that is up, or is being replaced.
RacingStartsServed ==
  calm /\ Settled /\ routes # {} =>
    \E d \in DOMAIN daemon : Staying(d)

\* Every command ends, even when the daemon it stops ignores SIGTERM.
CommandsEnd == \A c \in Clis : cli[c].pc # "idle" ~> cli[c].pc = "idle"
=============================================================================
