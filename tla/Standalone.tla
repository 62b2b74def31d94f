----------------------------- MODULE Standalone -----------------------------
(***************************************************************************)
(* One project's standalone Airflow (airflow/standalone.go with            *)
(* pkg/airflowrt/process.go): commands from several terminals start it in  *)
(* the background or the foreground, stop it and kill it, and know it only *)
(* through .astro/standalone: the PID file, the signing secret, and the    *)
(* project's proxy route.                                                  *)
(*                                                                         *)
(* Airflow is a process group: a master, whose PID is the group's ID, and  *)
(* the scheduler, api-server and triggerer it leaves behind when it dies.  *)
(* persistSigningSecret is one step here (SigningSecret has its own), and  *)
(* so is each registry call (RouteRegistry).  A probe of the group and the *)
(* signal that follows it at once are one step.  Nothing in the code keeps *)
(* commands apart; `Overlaps` says whether the instance lets them overlap. *)
(***************************************************************************)
CONSTANTS
  Clis,       \* terminals
  Pids,       \* process IDs, reused once nothing has them
  NoPid,      \* no PID file, no route
  Secrets,    \* bound: signing secrets in use at one time
  NoSecret,
  Overlaps    \* whether commands of different terminals run at the same time

VARIABLES
  home,       \* whether .astro/standalone exists
  pidFile,    \* airflow.pid in it
  secret,     \* .signing-secret in it
  route,      \* the PID on the project's proxy route
  group,      \* the process groups Airflow runs in, by PID
  cli         \* what each terminal is doing

vars == <<home, pidFile, secret, route, group, cli>>
world == <<home, pidFile, secret, route, group>>

\* `mode` is how the group was started; "doomed" when its start could not write
\* the PID file and asked it to end, "lost" when the start was killed before it
\* wrote it, "stranger" when the PID went to another process that leads a group
\* (a shell job, another project's Airflow).
Modes == {"none", "background", "foreground", "doomed", "lost", "stranger"}
Group == [master: BOOLEAN, kids: BOOLEAN, mode: Modes, secret: Secrets \cup {NoSecret}]
NoGroup == [master |-> FALSE, kids |-> FALSE, mode |-> "none", secret |-> NoSecret]

\* What is left of a group when its master or its children may have gone.
Remains(g, master, kids) ==
  IF master \/ kids THEN [g EXCEPT !.master = master, !.kids = kids] ELSE NoGroup

StartSteps == {"secret", "install", "spawn", "pid", "health", "register", "attached"}
StopSteps  == {"stop", "wait", "killwait", "remove", "route", "clean"}
Cli == [pc: {"idle"} \cup StartSteps \cup StopSteps, cmd: {"none", "background", "foreground", "stop", "kill"},
        pid: Pids \cup {NoPid}, secret: Secrets \cup {NoSecret}]
IdleCli == [pc |-> "idle", cmd |-> "none", pid |-> NoPid, secret |-> NoSecret]

Init ==
  /\ home = FALSE /\ pidFile = NoPid /\ secret = NoSecret /\ route = NoPid
  /\ group = [p \in Pids |-> NoGroup]
  /\ cli = [c \in Clis |-> IdleCli]

\* kill(-pid, 0): anything in the group.
ProcessGroupAlive(p) == p # NoPid /\ (group[p].master \/ group[p].kids)

Goto(c, label) == cli' = [cli EXCEPT ![c].pc = label]
Finish(c) == cli' = [cli EXCEPT ![c] = IdleCli]

\* No command is under way, but for foreground starts that wait for their Airflow.
Quiet == \A o \in Clis : cli[o].pc \in {"idle", "attached"}
CanBegin(c) == cli[c].pc = "idle" /\ (Overlaps \/ Quiet)

----------------------------------------------------------------------------
(* Start. *)

\* Up to "bail early if already running", which only a background start asks.
StartBegin(c, mode) ==
  /\ CanBegin(c)
  /\ home' = TRUE
  /\ IF mode = "background" /\ ProcessGroupAlive(pidFile)
       THEN UNCHANGED cli
       ELSE cli' = [cli EXCEPT ![c].pc = "secret", ![c].cmd = mode]
  /\ UNCHANGED <<pidFile, secret, route, group>>

InUse == {secret} \cup {group[p].secret : p \in Pids} \cup {cli[c].secret : c \in Clis}

FaultFreshSecret(c) ==   \* fault: every start makes a new secret
  /\ cli[c].pc = "secret"
  /\ \E x \in Secrets \ InUse : cli' = [cli EXCEPT ![c].pc = "install", ![c].secret = x]
  /\ secret' = IF secret = NoSecret THEN cli'[c].secret ELSE secret
  /\ home' = TRUE
  /\ UNCHANGED <<pidFile, route, group>>

\* persistSigningSecret: the secret kept, or a new one kept now (one that cannot be
\* kept for want of space or rights is left out).
PersistSecret(c) ==
  /\ cli[c].pc = "secret"
  /\ \E x \in IF secret = NoSecret THEN Secrets \ InUse ELSE {secret} :
       /\ secret' = x
       /\ cli' = [cli EXCEPT ![c].pc = "install", ![c].secret = x]
  /\ home' = TRUE
  /\ UNCHANGED <<pidFile, route, group>>

\* The port check, the constraints, the virtual environment and the installs.
Install(c) ==
  /\ cli[c].pc = "install"
  /\ Goto(c, "spawn") \/ Finish(c)
  /\ UNCHANGED world

\* startCommand in a group of its own. A background start has created its log file
\* in the standalone directory first.
Spawn(c) ==
  /\ cli[c].pc = "spawn"
  /\ cli[c].cmd = "background" => home
  /\ \E p \in Pids :
       /\ ~ProcessGroupAlive(p)
       /\ group' = [group EXCEPT ![p] =
            [master |-> TRUE, kids |-> TRUE, mode |-> cli[c].cmd, secret |-> cli[c].secret]]
       /\ cli' = [cli EXCEPT ![c].pid = p,
                    ![c].pc = IF cli[c].cmd = "background" THEN "pid" ELSE "health"]
  /\ UNCHANGED <<home, pidFile, secret, route>>

SpawnFails(c) ==
  /\ cli[c].pc = "spawn"
  /\ Finish(c)
  /\ UNCHANGED world

WritePid(c) ==
  /\ cli[c].pc = "pid" /\ home
  /\ pidFile' = cli[c].pid
  /\ Goto(c, "health")
  /\ UNCHANGED <<home, secret, route, group>>

\* What c has started in the background is not in the PID file and never will be.
Unwritten(c, mode) ==
  group' = [group EXCEPT ![cli[c].pid].mode = IF @ = "background" THEN mode ELSE @]

\* "Kill the process if we can't write the PID file".
WritePidFails(c) ==
  /\ cli[c].pc = "pid"
  /\ Unwritten(c, "doomed")
  /\ Finish(c)
  /\ UNCHANGED <<home, pidFile, secret, route>>

\* checkWebserverHealth: answers for this Airflow (or for whatever else has its port),
\* or times out, which ends a background start and leaves a foreground one attached.
HealthCheck(c) ==
  /\ cli[c].pc = "health"
  /\ \/ Goto(c, "register")
     \/ cli[c].cmd = "background" /\ Finish(c)
     \/ cli[c].cmd = "foreground" /\ Goto(c, "attached")
  /\ UNCHANGED world

\* registerProxyRoute, which may fail without failing the start.
RegisterRoute(c) ==
  /\ cli[c].pc = "register"
  /\ route' \in {route, cli[c].pid}
  /\ IF cli[c].cmd = "background" THEN Finish(c) ELSE Goto(c, "attached")
  /\ UNCHANGED <<home, pidFile, secret, group>>

\* A foreground start returns when the group has closed its output and the master
\* has exited. Its PID is in no file, and its route is left to be pruned.
ForegroundEnds(c) ==
  /\ cli[c].pc = "attached"
  /\ ~(ProcessGroupAlive(cli[c].pid) /\ group[cli[c].pid].mode = "foreground")
  /\ Finish(c)
  /\ UNCHANGED world

----------------------------------------------------------------------------
(* Stop and Kill. *)

\* With no PID file there is nothing to stop, and the route is removed.
StopBegin(c, cmd) ==
  /\ CanBegin(c)
  /\ cli' = [cli EXCEPT ![c].pc = IF pidFile = NoPid THEN "route" ELSE "stop", ![c].cmd = cmd]
  /\ UNCHANGED world

\* StopProcess reads the PID file again: gone by now, stale, or naming a live group,
\* which gets SIGTERM.
StopProcess(c) ==
  /\ cli[c].pc = "stop"
  /\ IF ProcessGroupAlive(pidFile)
       THEN /\ cli' = [cli EXCEPT ![c].pc = "wait", ![c].pid = pidFile]
            /\ UNCHANGED pidFile
       ELSE /\ pidFile' = NoPid
            /\ Goto(c, "route")
  /\ UNCHANGED <<home, secret, route, group>>

FaultWaitMaster(c) ==   \* fault: waits for the master, not for its group
  /\ cli[c].pc \in {"wait", "killwait"}
  /\ ~group[cli[c].pid].master
  /\ Goto(c, "remove")
  /\ UNCHANGED world

\* waitGroupGone, after SIGTERM or after SIGKILL: nothing of the group is left.
GroupGone(c) ==
  /\ cli[c].pc \in {"wait", "killwait"}
  /\ ~ProcessGroupAlive(cli[c].pid)
  /\ Goto(c, "remove")
  /\ UNCHANGED world

\* stopTimeout passes: SIGKILL, which any process in the kernel may outlive.
WaitTimeout(c) ==
  /\ cli[c].pc = "wait"
  /\ ProcessGroupAlive(cli[c].pid)
  /\ LET g == group[cli[c].pid] IN
     \E master \in {FALSE, g.master}, kids \in {FALSE, g.kids} :
       group' = [group EXCEPT ![cli[c].pid] = Remains(g, master, kids)]
  /\ Goto(c, "killwait")
  /\ UNCHANGED <<home, pidFile, secret, route>>

FaultRouteOnError(c) ==   \* fault: a failed stop goes on to remove the route
  /\ cli[c].pc = "killwait"
  /\ ProcessGroupAlive(cli[c].pid)
  /\ Goto(c, "route")
  /\ UNCHANGED world

FaultWaitForever(c) == cli[c].pc = "killwait" /\ FALSE   \* fault: no killTimeout

\* killTimeout passes: an error, and PID file, route and directory are kept.
KillTimeout(c) ==
  /\ cli[c].pc = "killwait"
  /\ ProcessGroupAlive(cli[c].pid)
  /\ Finish(c)
  /\ UNCHANGED world

RemovePid(c) ==
  /\ cli[c].pc = "remove"
  /\ pidFile' = NoPid
  /\ Goto(c, "route")
  /\ UNCHANGED <<home, secret, route, group>>

\* removeProxyRoute (the proxy daemon's side of it is in ProxyDaemon).
RemoveRoute(c) ==
  /\ cli[c].pc = "route"
  /\ route' = NoPid
  /\ IF cli[c].cmd = "kill" THEN Goto(c, "clean") ELSE Finish(c)
  /\ UNCHANGED <<home, pidFile, secret, group>>

FaultSecretStays(c) ==   \* fault: Kill removes the PID file and not the secret
  /\ cli[c].pc = "clean"
  /\ home' = FALSE /\ pidFile' = NoPid
  /\ Finish(c)
  /\ UNCHANGED <<secret, route, group>>

\* Kill removes the directory with all that is in it.
CleanUp(c) ==
  /\ cli[c].pc = "clean"
  /\ home' = FALSE /\ pidFile' = NoPid /\ secret' = NoSecret
  /\ Finish(c)
  /\ UNCHANGED <<route, group>>

StartStep(c) ==
  \/ PersistSecret(c) \/ Install(c) \/ Spawn(c) \/ SpawnFails(c) \/ WritePid(c) \/ WritePidFails(c)
  \/ HealthCheck(c) \/ RegisterRoute(c) \/ ForegroundEnds(c)
StopStep(c) ==
  \/ StopProcess(c) \/ GroupGone(c) \/ WaitTimeout(c) \/ KillTimeout(c)
  \/ RemovePid(c) \/ RemoveRoute(c) \/ CleanUp(c)

\* A terminal is closed: the command is gone wherever it was, its Airflow is not.
CliKilled(c) ==
  /\ cli[c].pc # "idle"
  /\ IF cli[c].pc = "pid" THEN Unwritten(c, "lost") ELSE UNCHANGED group
  /\ Finish(c)
  /\ UNCHANGED <<home, pidFile, secret, route>>

----------------------------------------------------------------------------
(* The machine. *)

\* The master or its children end: SIGTERM, a crash, the OOM killer.
MasterDies(p) ==
  /\ group[p].master
  /\ group' = [group EXCEPT ![p] = Remains(@, FALSE, @.kids)]
  /\ UNCHANGED <<home, pidFile, secret, route, cli>>

KidsDie(p) ==
  /\ group[p].kids
  /\ group' = [group EXCEPT ![p] = Remains(@, @.master, FALSE)]
  /\ UNCHANGED <<home, pidFile, secret, route, cli>>

\* The kernel gives a PID to an unrelated group leader, once no group has it.
PidReused(p) ==
  /\ ~ProcessGroupAlive(p)
  /\ group' = [group EXCEPT ![p] = [NoGroup EXCEPT !.master = TRUE, !.mode = "stranger"]]
  /\ UNCHANGED <<home, pidFile, secret, route, cli>>

\* Any registry call prunes the route once its master's PID is free.
RoutePruned ==
  /\ route # NoPid /\ ~group[route].master
  /\ route' = NoPid
  /\ UNCHANGED <<home, pidFile, secret, group, cli>>

Next ==
  \/ \E c \in Clis : \E mode \in {"background", "foreground"} : StartBegin(c, mode)
  \/ \E c \in Clis : \E cmd \in {"stop", "kill"} : StopBegin(c, cmd)
  \/ \E c \in Clis : StartStep(c) \/ StopStep(c) \/ CliKilled(c)
  \/ \E p \in Pids : MasterDies(p) \/ KidsDie(p) \/ PidReused(p)
  \/ RoutePruned

\* Fairness: a stop that is running keeps running; its waits have deadlines.
Fairness == \A c \in Clis : WF_vars(StopStep(c))

Spec == Init /\ [][Next]_vars /\ Fairness

----------------------------------------------------------------------------
(* Properties. *)

\* Every variable keeps its type; nothing is in a directory that does not exist.
TypeOK ==
  /\ home \in BOOLEAN
  /\ pidFile \in Pids \cup {NoPid} /\ route \in Pids \cup {NoPid}
  /\ secret \in Secrets \cup {NoSecret}
  /\ ~home => pidFile = NoPid /\ secret = NoSecret
  /\ group \in [Pids -> Group]
  /\ cli \in [Clis -> Cli]

UpInBackground(p) == ProcessGroupAlive(p) /\ group[p].mode = "background"

\* Between commands a later stop can reach every background Airflow through the PID
\* file, but for one whose start was killed before it wrote it: after a start that
\* failed its health check, a stop whose SIGKILL did not help, a kill, a closed
\* terminal, and whatever of the group died on its own.
Reachable == Quiet => \A p \in Pids : UpInBackground(p) => pidFile = p

\* ... and every command signs with the secret that Airflow was started with.
SignsAlike == Quiet => \A p \in Pids : UpInBackground(p) => group[p].secret = secret

\* A stop that fails keeps the route: no command takes the route of a background
\* Airflow whose group is still there (a prune may, once the master is gone).
RouteKeptWhileUp ==
  [][route # NoPid /\ route' = NoPid /\ cli' # cli => ~UpInBackground(route)]_vars

\* Every stop and kill ends, when the group ignores SIGTERM and outlives SIGKILL too.
StopsEnd == \A c \in Clis : cli[c].pc \in StopSteps ~> cli[c].pc \notin StopSteps

\* StopProcess says that when the PID of a stale PID file "went to an unrelated one",
\* that one "must not be signaled": SIGTERM and SIGKILL go to Airflow's groups only.
StrangersUntouched ==
  [][\A c \in Clis :
       /\ cli[c].pc = "stop" /\ cli'[c].pc = "wait" => group[pidFile].mode # "stranger"
       /\ cli[c].pc = "wait" /\ cli'[c].pc = "killwait" => group[cli[c].pid].mode # "stranger"]_vars
=============================================================================
