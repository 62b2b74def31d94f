--------------------------- MODULE DockerProject ---------------------------
(***************************************************************************)
(* A project's local Airflow in Docker: astro dev start, stop, kill,       *)
(* restart, object export --compose and astro run, given in any terminal   *)
(* at any time (src/airflow/docker.go, postgres_version.go).               *)
(*                                                                         *)
(* The state outside the commands is Docker's (the containers and the data *)
(* volume of the compose project, throwaway probe containers), the         *)
(* project's two files the commands edit, and the project's route.         *)
(*                                                                         *)
(* A Postgres server refuses a data directory another major version wrote. *)
(* The configured version changes with the CLI, so a start looks in the    *)
(* volume, through a probe container, before it lets compose up.           *)
(***************************************************************************)
EXTENDS Naturals, Sequences, SequencesExt

CONSTANTS
    Terminal,
    Major,          \* Postgres versions
    Pins,           \* the official image with a readable tag: versions are compared
    Default, Free,  \* the configured port, the ports that are allocated
    None,
    Own, User, Pkg, \* a line the CLI adds; a line of the user; the user's astro-run-dag
    MaxCommands, MaxKills, MaxEvents

VARIABLES
    conf,           \* postgres.tag: what a new data directory gets
    volume,         \* None, 0 when empty, or the version that wrote it
    probes,         \* the terminals whose probe container exists
    left,           \* a probe an interrupted command left behind exists
    box,            \* the containers: state, port and Postgres version
    route,          \* the port of the project's route, or None
    files,          \* requirements.txt and the Dockerfile, as lines
    pc, job,
    begun, kills, events

world == <<conf, volume, probes, left, box, route, files>>
bounds == <<begun, kills, events>>
vars == <<world, pc, job, bounds>>

Port == {Default} \union Free
Ops == {"start", "stop", "kill", "restart", "restart -k", "run", "export"}
Starts == {"start", "restart", "restart -k"}

Lines(f) == Range(f)

\* calm: nothing else happens while the command runs, and none of the calls
\* fails whose failure it only prints.  clean: the files as the command
\* found them, None once the user edits them or if they hold its lines.
Jobs == [op : Ops, image : BOOLEAN, proxy : BOOLEAN, tag : Major \union {0},
         port : Port \union {None}, warned : BOOLEAN, failed : BOOLEAN, calm : BOOLEAN]

NoJob == [op |-> "run", image |-> FALSE, proxy |-> FALSE, tag |-> 0, port |-> None,
          warned |-> FALSE, failed |-> FALSE, calm |-> FALSE, clean |-> None]

Idle(t) == pc[t] \in {"idle", "done"}

Init ==
    /\ conf \in Major
    /\ volume = None /\ probes = {} /\ left = FALSE
    /\ box = [state |-> "none", port |-> None, tag |-> 0]
    /\ route = None
    /\ \E r \in {<<User>>, <<User, Pkg>>}, d \in {<<User>>, <<User, Own, User>>} :
          files = [requirements |-> r, dockerfile |-> d]
    /\ pc = [t \in Terminal |-> "idle"]
    /\ job = [t \in Terminal |-> NoJob]
    /\ begun = 0 /\ kills = 0 /\ events = 0

Goto(t, l) == pc' = [pc EXCEPT ![t] = l]

\* The command ends, and what it knew is forgotten.
End(t, l) == Goto(t, l) /\ job' = [job EXCEPT ![t] = NoJob]

\* A call fails whose error the command prints, or logs, and goes on.
Shrug(t) == job' = [job EXCEPT ![t].calm = FALSE, ![t].clean = None]

\* Something else happens: no command under way is left alone.
Disturbed(j) == [t \in Terminal |-> [j[t] EXCEPT !.calm = FALSE, !.clean = None]]

FirstStep(op, image) ==
    IF op \in {"stop", "kill", "restart", "restart -k"} THEN "unroute"
    ELSE IF op = "export" THEN "volume"
    ELSE IF op = "run" THEN (IF box.state = "up" THEN "done" ELSE "add")
    ELSE IF image THEN "tag" ELSE "add"

HoldOwn(fs) == \E x \in DOMAIN fs : Own \in Lines(fs[x])

Begin(t) ==
    /\ Idle(t) /\ begun < MaxCommands
    /\ \E op \in Ops, image \in BOOLEAN, proxy \in BOOLEAN :
          /\ op # "start" => ~image /\ proxy
          /\ Goto(t, FirstStep(op, image))
          /\ LET alone == \A u \in Terminal \ {t} : Idle(u) IN
             job' = [Disturbed(job) EXCEPT ![t] =
                [NoJob EXCEPT !.op = op, !.image = image, !.proxy = proxy, !.calm = alone,
                    !.clean = IF alone /\ ~HoldOwn(files) THEN files ELSE None]]
    /\ begun' = begun + 1
    /\ UNCHANGED <<world, kills, events>>

-----------------------------------------------------------------------------
(* The lines for astro run, added for the build.                           *)

\* AddLineToFile: a file with the text anywhere is left as it is.
WithLine(f, texts) == IF Lines(f) \intersect texts # {} THEN f ELSE Append(f, Own)

LastOwn(f) == CHOOSE i \in DOMAIN f : f[i] = Own /\ \A k \in DOMAIN f : f[k] = Own => k <= i

\* Mutant: only the line itself is searched for, from the start.
FaultWithoutLast(f) == IF Len(f) > 2 THEN SubSeq(f, 1, Len(f) - 2) ELSE f

\* RemoveLineFromFile: the file ends where its last such line began.
WithoutLine(f) ==
    IF Own \in Lines(f) THEN SubSeq(f, 1, LastOwn(f) - 1) ELSE f

\* The files command t edits: start the one, run both.
EditFile(t, from, to, x, f) ==
    /\ pc[t] = from
    /\ \/ files' = [files EXCEPT ![x] = f] /\ UNCHANGED job
       \/ UNCHANGED files /\ Shrug(t)
    /\ Goto(t, to)
    /\ UNCHANGED <<conf, volume, probes, left, box, route, bounds>>

AddPackage(t) ==
    EditFile(t, "add", IF job[t].op = "run" THEN "adddb" ELSE "build",
             "requirements", WithLine(files.requirements, {Own, Pkg}))
AddDbInit(t) ==
    EditFile(t, "adddb", "build", "dockerfile", WithLine(files.dockerfile, {Own}))

\* The deferred removal.  If it fails and nothing else has, the message asks
\* for an error that is not there, and the command dies.
RemoveDbInit(t) ==
    \/ /\ EditFile(t, "removedb", "remove", "dockerfile", WithoutLine(files.dockerfile))
       /\ job[t].failed \/ job' = job
    \/ /\ pc[t] = "removedb" /\ ~job[t].failed
       /\ End(t, "idle")
       /\ UNCHANGED <<world, bounds>>

RemovePackage(t) ==
    EditFile(t, "remove",
             IF job[t].failed THEN "idle" ELSE IF job[t].op = "run" THEN "done" ELSE "ports",
             "requirements", WithoutLine(files.requirements))

\* Mutant: a failed build returns before the line is removed.
FaultBuildReturns(t) ==
    /\ pc[t] = "build"
    /\ \E ok \in BOOLEAN :
          /\ job' = [job EXCEPT ![t].failed = ~ok]
          /\ Goto(t, IF ~ok THEN "idle" ELSE IF job[t].op = "run" THEN "removedb" ELSE "remove")
    /\ UNCHANGED <<world, bounds>>

\* ImageHandler.Build, and the run of the Dag: the lines go, whether it fails
\* or not.
BuildImage(t) ==
    /\ pc[t] = "build"
    /\ \E ok \in BOOLEAN : job' = [job EXCEPT ![t].failed = ~ok]
    /\ Goto(t, IF job[t].op = "run" THEN "removedb" ELSE "remove")
    /\ UNCHANGED <<world, bounds>>

TagImage(t) ==
    /\ pc[t] = "tag"
    /\ Goto(t, "ports")
    /\ UNCHANGED <<world, job, bounds>>

-----------------------------------------------------------------------------
(* The ports and the version of Postgres.                                  *)

Bound(p) == box.state = "up" /\ box.port = p

\* With the proxy: the configured port if nobody listens there, else one
\* that is allocated.  Without: the configured one.
ChoosePort(t) ==
    /\ pc[t] = "ports"
    /\ \E p \in Port :
          /\ job[t].proxy => ~Bound(p)
          /\ ~job[t].proxy => p = Default
          /\ job' = [job EXCEPT ![t].port = p]
    /\ Goto(t, "volume")
    /\ UNCHANGED <<world, bounds>>

\* Where a start goes with the version it has settled on.
Settled(t) == IF job[t].op = "export" THEN "write" ELSE "up"

\* Mutant: whatever is in the volume, the configured version is started.
FaultNoProbe(t) ==
    /\ pc[t] = "volume"
    /\ job' = [job EXCEPT ![t].tag = conf]
    /\ Goto(t, Settled(t))
    /\ UNCHANGED <<world, bounds>>

\* resolvePostgresTag, findPostgresDataVolume.
FindVolume(t) ==
    /\ pc[t] = "volume"
    /\ IF Pins /\ volume # None
       THEN Goto(t, "probe") /\ UNCHANGED job
       ELSE Goto(t, Settled(t)) /\ job' = [job EXCEPT ![t].tag = conf]
    /\ UNCHANGED <<world, bounds>>

\* The version could not be read: a warning, and the configured one.
Unchecked(t, l) ==
    /\ job' = [job EXCEPT ![t].tag = conf, ![t].warned = TRUE]
    /\ Goto(t, l)

\* readVolumePGVersion: probes that are there, whoever's, are removed and one
\* is created.  Docker makes the volume if it has gone.
CreateProbe(t) ==
    /\ pc[t] = "probe"
    /\ \/ /\ probes' = {t} /\ left' = FALSE
          /\ volume' = IF volume = None THEN 0 ELSE volume
          /\ Goto(t, "copy")
          /\ UNCHANGED job
       \/ Unchecked(t, Settled(t)) /\ UNCHANGED <<volume, probes, left>>
    /\ UNCHANGED <<conf, box, route, files, bounds>>

\* CopyFromContainer: an empty directory, and a probe that has gone, are "not
\* found" and pass for a new project.
CopyVersion(t) ==
    /\ pc[t] = "copy"
    /\ \/ /\ job' = [job EXCEPT ![t].tag =
                IF t \notin probes \/ volume \in {None, 0} THEN conf ELSE volume]
          /\ Goto(t, "unprobe")
       \/ Unchecked(t, "unprobe")
    /\ UNCHANGED <<world, bounds>>

RemoveProbe(t) ==
    /\ pc[t] = "unprobe"
    /\ \/ probes' = probes \ {t} /\ UNCHANGED <<left, job>>
       \/ t \in probes /\ probes' = probes \ {t} /\ left' = TRUE /\ Shrug(t)
    /\ Goto(t, Settled(t))
    /\ UNCHANGED <<conf, volume, box, route, files, bounds>>

\* ComposeExport: the file names the version a start would run.
WriteCompose(t) ==
    /\ pc[t] = "write"
    /\ End(t, "done")
    /\ UNCHANGED <<world, bounds>>

-----------------------------------------------------------------------------
(* The containers and the route.                                           *)

\* compose up: the containers are made, or made again with what has changed,
\* and the volume if it is not there.
ComposeUp(t) ==
    /\ pc[t] = "up"
    /\ box' = [state |-> "up", port |-> job[t].port, tag |-> job[t].tag]
    /\ volume' = IF volume = None THEN 0 ELSE volume
    /\ Goto(t, "health")
    /\ UNCHANGED <<conf, probes, left, route, files, job, bounds>>

\* checkWebserverHealth: something answers on the port, over its database.
Healthy(t) ==
    /\ pc[t] = "health"
    /\ Bound(job[t].port) /\ volume = box.tag
    /\ Goto(t, IF job[t].proxy THEN "route" ELSE "status")
    /\ UNCHANGED <<world, job, bounds>>

\* Mutant: the route names the configured port.
FaultRouteDefault(t) ==
    /\ pc[t] = "route"
    /\ route' = Default
    /\ Goto(t, "status")
    /\ UNCHANGED <<conf, volume, probes, left, box, files, job, bounds>>

AddRoute(t) ==
    /\ pc[t] = "route"
    /\ \/ route' = job[t].port /\ UNCHANGED job
       \/ UNCHANGED route /\ Shrug(t)
    /\ Goto(t, "status")
    /\ UNCHANGED <<conf, volume, probes, left, box, files, bounds>>

\* printStatus, with the import of the settings file.
PrintStatus(t) ==
    /\ pc[t] = "status"
    /\ End(t, "done")
    /\ UNCHANGED <<world, bounds>>

\* removeProxyRoute, before the containers.
RemoveRoute(t) ==
    /\ pc[t] = "unroute"
    /\ \/ route' = None /\ UNCHANGED job
       \/ UNCHANGED route /\ Shrug(t)
    /\ Goto(t, IF job[t].op \in {"stop", "restart"} THEN "stop" ELSE "clear")
    /\ UNCHANGED <<conf, volume, probes, left, box, files, bounds>>

\* A restart goes on as a start.
AndStart(t) ==
    IF job[t].op \in Starts
    THEN Goto(t, IF job[t].image THEN "tag" ELSE "add") /\ UNCHANGED job
    ELSE End(t, "done")

ComposeStop(t) ==
    /\ pc[t] = "stop"
    /\ box' = IF box.state = "up" THEN [box EXCEPT !.state = "exited"] ELSE box
    /\ AndStart(t)
    /\ UNCHANGED <<conf, volume, probes, left, route, files, bounds>>

\* Mutant: kill does not look for probes.
FaultKeepProbes(t) ==
    /\ pc[t] = "clear"
    /\ Goto(t, "down")
    /\ UNCHANGED <<world, job, bounds>>

\* removeStaleProbes: "compose will not remove a volume that is in use".
ClearProbes(t) ==
    /\ pc[t] = "clear"
    /\ \/ probes' = {} /\ left' = FALSE /\ UNCHANGED job
       \/ UNCHANGED <<probes, left>> /\ Shrug(t)
    /\ Goto(t, "down")
    /\ UNCHANGED <<conf, volume, box, route, files, bounds>>

\* compose down with the volumes; a volume in use stays, without an error.
ComposeDown(t) ==
    /\ pc[t] = "down"
    /\ box' = [state |-> "none", port |-> None, tag |-> 0]
    /\ volume' = IF left \/ probes # {} THEN volume ELSE None
    /\ AndStart(t)
    /\ UNCHANGED <<conf, probes, left, route, files, bounds>>

-----------------------------------------------------------------------------
(* What may go wrong, and what the user and Docker do meanwhile.           *)

\* A call fails and ends the command: the image or its labels, the list of
\* volumes, compose, the health check's timeout, the settings.
Fail(t) ==
    /\ pc[t] \in {"tag", "ports", "volume", "write", "up", "health", "status",
                  "stop", "down"}
    /\ End(t, "idle")
    /\ UNCHANGED <<world, bounds>>

\* Ctrl-C: nothing deferred runs.
Killed(t) ==
    /\ ~Idle(t) /\ kills < MaxKills
    /\ End(t, "idle")
    /\ left' = (left \/ t \in probes)
    /\ probes' = probes \ {t}
    /\ kills' = kills + 1
    /\ UNCHANGED <<conf, volume, box, route, files, begun, events>>

\* The server of an up container writes the directory it finds empty.
InitDb ==
    /\ box.state = "up" /\ volume = 0
    /\ volume' = box.tag
    /\ job' = [t \in Terminal |-> IF pc[t] = "health" THEN job[t] ELSE Disturbed(job)[t]]
    /\ UNCHANGED <<conf, probes, left, box, route, files, pc, bounds>>

Event == events < MaxEvents /\ events' = events + 1

ContainersEnd ==
    /\ Event /\ box.state = "up"
    /\ box' = [box EXCEPT !.state = "exited"]
    /\ job' = Disturbed(job)
    /\ UNCHANGED <<conf, volume, probes, left, route, files, pc, begun, kills>>

ChangeConfig ==
    /\ Event
    /\ conf' \in Major \ {conf}
    /\ UNCHANGED <<volume, probes, left, box, route, files, pc, job, begun, kills>>

EditRequirements ==
    /\ Event
    /\ files' = [files EXCEPT !.requirements = Append(@, User)]
    /\ job' = [t \in Terminal |-> [job[t] EXCEPT !.clean = None]]
    /\ UNCHANGED <<conf, volume, probes, left, box, route, pc, begun, kills>>

Edit(t) == AddPackage(t) \/ AddDbInit(t) \/ RemoveDbInit(t) \/ RemovePackage(t)
Resolve(t) == FindVolume(t) \/ CreateProbe(t) \/ CopyVersion(t) \/ RemoveProbe(t)
Start(t) ==
    \/ BuildImage(t) \/ TagImage(t) \/ ChoosePort(t) \/ ComposeUp(t) \/ Healthy(t)
    \/ AddRoute(t) \/ PrintStatus(t) \/ WriteCompose(t)
Stop(t) == RemoveRoute(t) \/ ComposeStop(t) \/ ClearProbes(t) \/ ComposeDown(t)

Next ==
    \/ \E t \in Terminal :
          \/ Begin(t) \/ Edit(t) \/ Resolve(t) \/ Start(t) \/ Stop(t)
          \/ Fail(t) \/ Killed(t)
    \/ InitDb \/ ContainersEnd \/ ChangeConfig \/ EditRequirements

Spec == Init /\ [][Next]_vars

-----------------------------------------------------------------------------
(* Properties.                                                             *)

Steps == {"idle", "done", "add", "adddb", "build", "removedb", "remove", "tag", "ports",
          "volume", "probe", "copy", "unprobe", "write", "up", "health", "route",
          "status", "unroute", "stop", "clear", "down"}

TypeOK ==
    /\ conf \in Major /\ volume \in Major \union {None, 0}
    /\ probes \subseteq Terminal /\ left \in BOOLEAN
    /\ box \in [state : {"none", "up", "exited"}, port : Port \union {None},
                tag : Major \union {0}]
    /\ box.state = "up" => box.port \in Port /\ box.tag \in Major
    /\ route \in Port \union {None}
    /\ \A x \in DOMAIN files : files[x] \in Seq({Own, User, Pkg})
    /\ pc \in [Terminal -> Steps]
    /\ \A t \in Terminal :
          [x \in DOMAIN job[t] \ {"clean"} |-> job[t][x]] \in Jobs

Ends(t) == ~Idle(t) /\ pc'[t] = "done"

\* Whatever interrupted, failed or ran at once before: a start that runs
\* undisturbed and ends well leaves containers that run over a database they
\* can read, at the port the project's route names.
StartServes ==
    [][\A t \in Terminal :
         Ends(t) /\ job[t].op \in Starts /\ job[t].calm =>
            /\ box.state = "up" /\ volume = box.tag
            /\ job[t].proxy => route = box.port]_vars

\* A kill that runs undisturbed and ends well leaves no container, no route,
\* no probe and no volume, whatever earlier commands have left behind, so
\* that the next start follows the configured version of Postgres.
KillLeavesNothing ==
    [][\A t \in Terminal :
         Ends(t) /\ job[t].op = "kill" /\ job[t].calm =>
            /\ box'.state = "none" /\ volume' = None /\ route' = None
            /\ probes' = {} /\ ~left']_vars

\* No server is started over a data directory it refuses, nor exported to a
\* compose file, unless the user was warned: with a command that runs
\* undisturbed, however often the configured version has changed.  (The
\* probe of a start is removed by another start, which then looks like an
\* empty directory.)
DatabaseKept ==
    [][\A t \in Terminal :
         /\ pc[t] \in {"up", "write"} /\ pc'[t] \in {"health", "done"}
         /\ Pins /\ job[t].calm /\ ~job[t].warned
         => volume \in {None, 0, job[t].tag}]_vars

\* A command leaves requirements.txt and the Dockerfile as it found them,
\* also when the build or anything after it fails, if it is not killed, its
\* own edits succeed, nobody edits the files meanwhile, and they did not hold
\* its own line when it began.
FilesRestored ==
    [][\A t \in Terminal :
         /\ ~Idle(t) /\ pc'[t] \in {"idle", "done"} /\ kills' = kills
         /\ job[t].calm /\ job[t].clean # None
         /\ pc[t] # "removedb" /\ ~Shrug(t)
         => files' = job[t].clean]_vars
=============================================================================
