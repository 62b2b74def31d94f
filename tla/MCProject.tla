------------------------------- MODULE MCProject -------------------------------
(* Four parts that share no state of the models, side by side in one run:     *)
(* the containers of a project, the objects of its Airflow and of two         *)
(* Deployments, upgrade tests, and the environment objects of a Workspace.    *)
(* In each behaviour one of them moves; the others stay as they are, and hold *)
(* next to nothing.                                                           *)
EXTENDS EnvObjects, Sequences, TLC

CONSTANTS
    Terminal, a1, a2, v1, v2, plain, secret, other,
    dflt, r1, Own, User, Pkg, MaxDevCommands, MaxKills, MaxEvents,
    local, d1, d2, dp, p1, va, c1, MaxObjectCommands,
    shop, etl, MaxTests,
    Majors, Pinned, FreePorts,
    Remotes, ExtraPools, Variables, Connections, EnvConnections, Contents, KindAsks, ByHand,
    Projects, Against, Versions, RunsNow, TestAsks

VARIABLES
    moves,
    conf, volume, probes, left, box, route, files, dpc, djob, dbegun, kills, events,
    airflow, file, envFile, opc, ojob, oraced, obegun,
    image, tree, upc, test, met, ubegun

Docker == INSTANCE DockerProject WITH
    Major <- Majors, Pins <- Pinned, Default <- dflt, Free <- FreePorts,
    MaxCommands <- MaxDevCommands, pc <- dpc, job <- djob, begun <- dbegun
Objects == INSTANCE AirflowObjects WITH
    Local <- local, Remote <- Remotes, DefaultPool <- dp, Pool <- ExtraPools,
    Variable <- Variables, Connection <- Connections, EnvConnection <- EnvConnections,
    Value <- Contents, Asks <- KindAsks, EditTo <- ByHand,
    MaxCommands <- MaxObjectCommands, pc <- opc, job <- ojob, raced <- oraced,
    begun <- obegun
Upgrade == INSTANCE UpgradeTest WITH
    Project <- Projects, Deployment <- Against, Version <- Versions,
    Running <- RunsNow, Asks <- TestAsks, pc <- upc, begun <- ubegun

ASSUME ObjectsSound == Objects!Sound
ASSUME UpgradeSound == Upgrade!Sound

\* What the configurations give some of the constants.
TestsAsked == {{"version", "dag", "lint"}, {"dag"}}
Versioned == d1 :> 2 @@ shop :> 1 @@ etl :> 1
EditedByHand == {[main |-> 2, rest |-> 2, hidden |-> None]}

dockerVars == <<conf, volume, probes, left, box, route, files, dpc, djob, dbegun,
                kills, events>>
objectVars == <<airflow, file, envFile, opc, ojob, oraced, obegun>>
upgradeVars == <<image, tree, upc, test, met, ubegun>>
envVars == vars
allVars == <<moves, dockerVars, objectVars, upgradeVars, envVars>>

\* A project never started, whose files the user has edited; one stopped
\* under an earlier version of Postgres, with its route left behind; one that
\* is up under it.
Edited == [requirements |-> <<User, Pkg>>, dockerfile |-> <<User, Own, User>>]
Plain == [requirements |-> <<User>>, dockerfile |-> <<User>>]
Before(v, state, r, fs) == [v |-> v, state |-> state, r |-> r, files |-> fs]
DockerInit ==
    /\ conf = 15
    /\ \E x \in {Before(None, "none", None, Edited)} \union
              (IF moves = "docker"
               THEN {Before(12, "exited", r1, Plain), Before(12, "up", r1, Plain)}
               ELSE {}) :
          /\ volume = x.v /\ route = x.r /\ files = x.files
          /\ box = IF x.state = "none"
                   THEN [state |-> "none", port |-> None, tag |-> 0]
                   ELSE [state |-> x.state, port |-> r1, tag |-> 12]
    /\ probes = {} /\ left = FALSE
    /\ dpc = [t \in Terminal |-> "idle"]
    /\ djob = [t \in Terminal |-> Docker!NoJob]
    /\ dbegun = 0 /\ kills = 0 /\ events = 0

\* The local Airflow and d1 hold other values than the file; d2 holds none.
Held(m, r, h) == [main |-> m, rest |-> r, hidden |-> h]
Entered(m, r) == [main |-> m, rest |-> r]
InAirflow(a, o) ==
    IF o \in {dp, p1} THEN IF a = local \/ o = dp THEN Held(1, 1, 1) ELSE None
    ELSE IF a = local THEN Held(1, None, 1)
    ELSE IF a = d1 /\ o = c1 THEN Held(2, 2, 2) ELSE None
InFile(o) ==
    IF o \in {dp, p1} THEN Entered(2, 2)
    ELSE IF o = va THEN Entered(None, None) ELSE Entered(2, 1)
ObjectsInit ==
    /\ IF moves = "objects"
       THEN /\ airflow = [a \in Objects!Airflow |-> [o \in Objects!Object |-> InAirflow(a, o)]]
            /\ file = [o \in Objects!Object |-> InFile(o)]
       ELSE airflow = <<>> /\ file = <<>>
    /\ envFile = Objects!Nothing
    /\ opc = [t \in Terminal |-> "idle"]
    /\ ojob = [t \in Terminal |-> Objects!Idle]
    /\ oraced = [t \in Terminal |-> {}]
    /\ obegun = 0

\* An earlier test has left an image of either project, or none has.
UpgradeInit ==
    /\ IF moves = "upgrade"
       THEN /\ image \in {None} \union
                  {[of |-> p, version |-> 1, pytest |-> FALSE] : p \in Projects}
            /\ tree = [p \in Projects |->
                  [ignored |-> FALSE, pytest |-> FALSE,
                   dockerfile |-> [d \in Upgrade!Dir |-> None],
                   reports |-> [d \in Upgrade!Dir |-> Upgrade!NoReports]]]
       ELSE image = None /\ tree = <<>>
    /\ upc = [t \in Terminal |-> "idle"]
    /\ test = [t \in Terminal |-> Upgrade!NoTest]
    /\ met = [t \in Terminal |-> FALSE]
    /\ ubegun = 0

\* Each object is linked to d1, with a value of its own there.
Linked == [Fresh(v1, FALSE) EXCEPT ![Link(d1)] = TRUE, ![Override(d1)] = v1]
EnvInit ==
    /\ object = [o \in Object |->
          IF moves = "env" THEN [live |-> TRUE, f |-> Linked]
          ELSE [live |-> FALSE, f |-> <<>>]]
    /\ pc = [a \in Admin |-> "idle"]
    /\ cmd = [a \in Admin |-> None]
    /\ seen = [a \in Admin |-> None]
    /\ raced = [a \in Admin |-> {}]
    /\ begun = 0

MCInit ==
    /\ moves \in {"docker", "objects", "upgrade", "env"}
    /\ DockerInit /\ ObjectsInit /\ UpgradeInit /\ EnvInit

MCNext ==
    \/ /\ moves = "docker" /\ Docker!Next
       /\ UNCHANGED <<moves, objectVars, upgradeVars, envVars>>
    \/ /\ moves = "objects" /\ Objects!Next
       /\ UNCHANGED <<moves, dockerVars, upgradeVars, envVars>>
    \/ /\ moves = "upgrade" /\ Upgrade!Next
       /\ UNCHANGED <<moves, dockerVars, objectVars, envVars>>
    \/ /\ moves = "env" /\ Next
       /\ UNCHANGED <<moves, dockerVars, objectVars, upgradeVars>>

MCSpec == MCInit /\ [][MCNext]_allVars
ObjectsSpec == MCInit /\ moves = "objects" /\ [][MCNext]_allVars
UpgradeSpec == MCInit /\ moves = "upgrade" /\ [][MCNext]_allVars

Terminals == Permutations(Terminal)

\* What the runs check of the three instances.
StartServes == Docker!StartServes
KillLeavesNothing == Docker!KillLeavesNothing
DatabaseKept == Docker!DatabaseKept
FilesRestored == Docker!FilesRestored
TransfersWhole == Objects!TransfersWhole
ImportUndoesNothing == Objects!ImportUndoesNothing
FileTakesPrecedence == Objects!FileTakesPrecedence
ReportsItsOwn == Upgrade!ReportsItsOwn
AgainstTheDeployment == Upgrade!AgainstTheDeployment
=============================================================================
