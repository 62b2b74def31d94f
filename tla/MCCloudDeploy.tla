---------------------------- MODULE MCCloudDeploy ----------------------------
(* Two commands on one machine, each deploying either checkout to a deployment *)
(* of its own.  What is asked of them: every kind of deploy; with and without  *)
(* DAGs; code that passes its tests and code that does not; an image built     *)
(* elsewhere.  They deploy to Astro or to a Private Cloud, which share nothing *)
(* but the idea, or run the Cosmos Boost step over one tree: in each behaviour *)
(* one of the three moves.                                                     *)
EXTENDS CloudDeploy, TLC

CONSTANTS c1, c2, d1, d2, w1, w2, i1, i2, t1, Empty,
          MaxTries, MaxCommands, MaxKills, MaxEdits, MaxTime,
          shop, shopTarget, yml, rootManifest, manifest, semanticManifest, v1, v2, notDbt,
          Dir, Project, Manifest, Source, Home, ProjectFile, Hashed, Body, Layouts, Steps,
          StepsTogether, Edits, Strangers,
          TakesDags, ImageBased, Custom, Orders, OrdersTogether, Platforms

VARIABLES
  moves,       \* "astro", "apc" or "boost"
  byo, dagDeploys, dep, pushed, latest, tagged, code, tar, gz, minute, pc, job,
  raced, begun, kills,
  text, disk, cmd, spent

apcVars == <<byo, dagDeploys, dep, pushed, latest, tagged, code, tar, gz, minute, pc, job,
             raced, begun, kills>>
stepVars == <<text, disk, cmd, spent>>
allVars == <<moves, vars, apcVars, stepVars>>

Symmetric == Permutations({c1, c2})

OwnPlaces == {<<d1, w1>>, <<d2, w2>>}

Ask(kind, files, tests, passes) ==
  [kind |-> kind, files |-> files, tests |-> tests, passes |-> passes, prebuilt |-> FALSE]

Failing == Ask("full", TRUE, Tests, {"parse"})

Passing == Ask("full", TRUE, Tests, Tests)

ImageName == [Ask("full", TRUE, {}, {}) EXCEPT !.prebuilt = TRUE]

Everything ==
  {Ask("full", FALSE, {}, {}), Passing, Failing, ImageName}
    \cup {Ask("dags", files, {}, {}) : files \in BOOLEAN}
    \cup {Ask("dags", TRUE, {"pytest"}, {})}
    \cup {Ask(kind, TRUE, {}, {}) : kind \in {"image", "bundle", "unbundle"}}

Tested == {Passing, Failing}

AroundImageName == {ImageName, Ask("dags", TRUE, {}, {})}

NoneTogether == {}

Colliding == {Failing, Ask("dags", TRUE, {}, {}), Ask("bundle", TRUE, {}, {})}

OneOfEach == {d1 :> "hybrid" @@ d2 :> "remote"}

BothHosted == {[d \in Deployments |-> "hosted"]}

IgnoreFiles == {w1 :> Lines @@ w2 :> Nothing, w1 :> Nothing @@ w2 :> Lines}

\* A Private Cloud: DAGs can be deployed alone to d1; those of d2 are its image's.
Tagged == [name |-> i1, tag |-> t1]
Untagged == [name |-> i2, tag |-> Nothing]
BuiltElsewhere == {Tagged, Untagged}

Order(kind, d, w, i) == [kind |-> kind, d |-> d, w |-> w, custom |-> i]

AllOrders ==
  {Order("full", d1, w1, Nothing), Order("full", d2, w2, Nothing),
   Order("full", d1, w1, Tagged), Order("full", d2, w2, Untagged),
   Order("image", d1, w1, Nothing), Order("remote", d2, w2, Tagged),
   Order("dags", d1, w1, Nothing), Order("dags", d1, w2, Nothing)}

Overlapping == {Order("full", d1, w1, Nothing), Order("full", d2, w2, Nothing)}

Installed ==
  {[byo |-> TRUE, dagDeploys |-> TRUE]} \cup {[byo |-> FALSE, dagDeploys |-> b] : b \in BOOLEAN}

Apc == INSTANCE ApcDeploy WITH
  Cli <- Clis, Deployment <- Deployments, Checkout <- Checkouts, None <- Nothing,
  Asked <- Orders, Together <- OrdersTogether, registry <- pushed, run <- job

ASSUME ApcSound == Apc!Sound

\* A tree with a dbt project in shop and what dbt compiled in shop/target.
Lying == rootManifest :> shop @@ manifest :> shopTarget @@ semanticManifest :> shopTarget

ProjectFiles == shop :> yml

HashedFiles == shop :> {yml, rootManifest}

Trees == {{yml, rootManifest}, {yml, manifest}, {manifest, semanticManifest}}

Written(v, again) == [body |-> v, at |-> again]

Rewrites == {<<yml, Written(v2, 0)>>, <<rootManifest, Written(v1, 1)>>,
             <<manifest, Written(v2, 0)>>, <<semanticManifest, Written(v1, 1)>>}

OthersWrite == {<<"sidecar", shop>>, <<"slim", manifest>>}

AllSteps == {<<"deploy", TRUE>>, <<"deploy", FALSE>>, <<"cleanup", FALSE>>}

DeployAndCleanup == {<<"deploy", TRUE>>, <<"cleanup", FALSE>>}

Boost == INSTANCE CosmosBoost WITH
  Cli <- Clis, Asked <- Steps, Together <- StepsTogether, NotDbt <- notDbt, None <- Nothing,
  MaxFaults <- MaxKills

ASSUME BoostSound == Boost!Sound

BoostStarts ==
  /\ Boost!BoostInit
  /\ \A f \in DOMAIN text :
       text[f].body = v1 \/ (f = semanticManifest /\ text[f].body = notDbt)

MCInit ==
  /\ moves \in {"astro", "apc", "boost"}
  /\ Init
  /\ moves # "astro" => found = CHOOSE f \in Ignores : TRUE
  /\ IF moves = "apc" THEN Apc!Init
     ELSE /\ byo = <<>> /\ dagDeploys = <<>> /\ dep = <<>> /\ pushed = <<>>
          /\ latest = <<>> /\ tagged = <<>> /\ code = <<>> /\ tar = <<>> /\ gz = <<>>
          /\ minute = <<>> /\ pc = [c \in Clis |-> "idle"] /\ job = <<>> /\ raced = <<>>
          /\ begun = <<>> /\ kills = <<>>
  /\ IF moves = "boost" THEN BoostStarts
     ELSE text = <<>> /\ disk = <<>> /\ spent = <<>> /\ cmd = [c \in Clis |-> Boost!Idle]

MCNext ==
  \/ moves = "astro" /\ Next /\ UNCHANGED <<moves, apcVars, stepVars>>
  \/ moves = "apc" /\ Apc!Next /\ UNCHANGED <<moves, vars, stepVars>>
  \/ moves = "boost" /\ Boost!BoostNext /\ UNCHANGED <<moves, vars, apcVars>>

MCSpec == MCInit /\ [][MCNext]_allVars

\* What the run checks of the Private Cloud, and of the Cosmos Boost step.
DeployArrives == Apc!DeployArrives
ShipsFresh == Boost!ShipsFresh
=============================================================================
