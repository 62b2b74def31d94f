----------------------------- MODULE CloudDeploy -----------------------------
(***************************************************************************)
(* `astro deploy`, `astro deploy --non-dags`, `astro dbt deploy` and their *)
(* deletes (cloud/deploy/deploy.go, bundle.go): create a deploy at Astro,  *)
(* build, test and push an image, upload a tarball of DAGs, finalize.      *)
(*                                                                         *)
(* Several commands run on one machine and share its checkouts, its Docker *)
(* engine and Astro.  Files, images and tarballs are named by the deploy   *)
(* whose files they hold.  Docker, the registry, the blob store and Astro  *)
(* are external: what the code relies on them for.                         *)
(***************************************************************************)
EXTENDS Naturals, FiniteSets

CONSTANTS
  Clis,          \* terminals and CI jobs on one machine
  Deployments,
  Checkouts,     \* directories deploys are run from
  Places,        \* which deployments are deployed to from which checkout
  Requests,      \* what may be asked of a command (flags and the state of the files)
  Together,      \* bound: those that may be asked of two commands at once
  Services,      \* what kinds the deployments may be of
  Ignores,       \* what the .dockerignore files may hold: sets of lines, or Nothing
  Nothing,       \* no file, no image, no container
  MaxDeploys,    \* bound: deploys created
  Kills          \* whether commands are killed

Tests == {"parse", "pytest"}
Ids == 1..MaxDeploys

Lines == {"own", "dags/"}   \* lines of .dockerignore

Kinds == {"full", "image", "dags", "bundle", "unbundle"}

\* files: there are DAGs (or bundle files); passes: the tests this code would pass;
\* prebuilt: --image-name
RequestType == [kind: Kinds, files: BOOLEAN, tests: SUBSET Tests, passes: SUBSET Tests,
                prebuilt: BOOLEAN]

ASSUME RequestAssumption ==
  /\ MaxDeploys \in Nat
  /\ Places \subseteq Deployments \X Checkouts
  /\ Together \subseteq Requests /\ Requests \subseteq RequestType
  /\ Ignores \subseteq [Checkouts -> (SUBSET Lines) \cup {Nothing}]
  /\ Services \subseteq [Deployments -> {"hosted", "hybrid", "remote"}]
  /\ \A q \in Requests : q.prebuilt => q.kind \in {"full", "image"}
  /\ \A q \in Requests : q.kind \in {"bundle", "unbundle"} => q.tests = {}

NoFiles == [by |-> 0, some |-> FALSE]                \* no version: the empty string
Tarballs == [by: Ids, some: BOOLEAN]
Images == [by: Ids, passes: SUBSET Tests, dags: BOOLEAN]
ContainerType == [test: Tests, image: SUBSET Tests, code: SUBSET Tests, running: BOOLEAN,
                  failed: BOOLEAN]
Tags == Ids \cup {0}                                 \* 0 is "latest", and no tag

ASSUME NothingAssumption ==
  /\ Nothing \notin Images \cup Tarballs \cup ContainerType
  /\ \A lines \in SUBSET Lines : lines # Nothing

VARIABLES
  service,     \* the kind of each deployment (never changes)
  deploys,     \* the deploys Astro has a record of
  live,        \* what each deployment runs: an image tag, DAGs, a bundle
  registry,    \* the images pushed, by deployment and tag
  uploads,     \* the tarballs in the blob store
  engine,      \* the images of the local engine, by deployment and tag
  container,   \* the one container named astro-pytest
  found,       \* .dockerignore of each checkout as its user wrote it (never changes)
  checkout,    \* the files deploys change in each checkout
  run          \* each command: where it is and what it knows

vars == <<service, deploys, live, registry, uploads, engine, container,
          found, checkout, run>>

cloud == <<deploys, live, registry, uploads>>
facts == <<service, found>>

Labels == {"idle", "create", "ignore", "confirm", "exclude", "build", "restore", "undo",
           "retag", "check", "rm", "new", "copy", "start", "wait", "passed", "failed",
           "tag", "push", "tar", "gzip", "upload", "finalize"}

NoRequest == [kind |-> "full", files |-> FALSE, tests |-> {}, passes |-> {}, prebuilt |-> FALSE]

\* files: there seemed to be DAGs (or bundle files) when it began; met: nobody, another
\* command elsewhere, one in the same checkout or deployment
IdleRun(d, w) ==
  [pc |-> "idle", q |-> NoRequest, dep |-> d, dir |-> w, enabled |-> FALSE, id |-> 0,
   files |-> FALSE, test |-> "parse", version |-> NoFiles, saved |-> Nothing, agreed |-> FALSE, met |-> "nobody"]

Idle == IdleRun(Nothing, Nothing)

Init ==
  /\ service \in Services
  /\ deploys = [i \in Ids |-> [state |-> "none", tag |-> 0]]
  /\ live = [d \in Deployments |-> [image |-> 0, dags |-> NoFiles, bundle |-> NoFiles]]
  /\ registry = [d \in Deployments |-> [t \in Tags |-> Nothing]]
  /\ uploads = {}
  /\ engine = [d \in Deployments |-> [t \in Tags |-> Nothing]]
  /\ container = Nothing
  /\ found \in Ignores
  /\ checkout = [w \in Checkouts |-> [ignore |-> found[w], tar |-> Nothing, gz |-> Nothing,
                                      monitor |-> FALSE, shaken |-> FALSE]]
  /\ run = [c \in Clis |-> Idle]

----------------------------------------------------------------------------
(* Helpers. *)

Goto(c, label) == run' = [run EXCEPT ![c].pc = label]
Exit(c) == run' = [run EXCEPT ![c] = Idle]

Active(c) == run[c].pc # "idle"
At(c, label) == run[c].pc = label

Remote(c) == service[run[c].dep] = "remote"

Files(c) == run[c].files

\* dagFiles, which are not looked for where DAGs are executed remotely; a monitoring DAG
\* left behind is one of them.
SeesFiles(q, d, w) ==
  IF q.kind \in {"bundle", "unbundle"} THEN q.files
  ELSE service[d] # "remote" /\ (q.files \/ checkout[w].monitor)

\* The image is built without the DAGs.
WithoutDags(c) == run[c].enabled \/ Remote(c)

Without(ignore) == IF ignore = Nothing THEN Nothing ELSE ignore \ {"dags/"}
With(ignore) == IF ignore = Nothing THEN {"dags/"} ELSE ignore \cup {"dags/"}

SetIgnore(c, ignore) == checkout' = [checkout EXCEPT ![run[c].dir].ignore = ignore]

(* The tests that are left to run, in the order of parseOrPytestDAG. *)
NextTest(done, tests) ==
  CASE done = "none" /\ "parse" \in tests -> "parse"
    [] done # "pytest" /\ "pytest" \in tests -> "pytest"
    [] OTHER -> "none"

AfterTests(c) ==
  IF run[c].q.kind # "dags" THEN "tag"
  ELSE IF run[c].enabled THEN "tar" ELSE "idle"    \* DAG-only deploys are not enabled: an error

(* On to the next test, or past the tests. *)
Proceed(c, done) ==
  LET next == IF Files(c) \/ run[c].q.kind = "dags" THEN NextTest(done, run[c].q.tests) ELSE "none"
  IN  IF next # "none" THEN run' = [run EXCEPT ![c].pc = "rm", ![c].test = next]
      ELSE IF AfterTests(c) = "idle" THEN Exit(c)
      ELSE Goto(c, AfterTests(c))

BuildLabel(c) ==
  CASE run[c].q.prebuilt -> "retag"
    [] WithoutDags(c) -> "exclude"
    [] OTHER -> "build"

----------------------------------------------------------------------------
(* Starting a deploy. *)

Created == {i \in Ids : deploys[i].state # "none"}

Company(c) == {e \in Clis \ {c} : Active(e)}
Sharing(c, d, w) == {e \in Company(c) : run[e].dep = d \/ run[e].dir = w}

(* c begins, and it and those under way remember that they met. *)
BeginWith(c, q, d, w, enabled) ==
  LET met == IF Sharing(c, d, w) # {} THEN "sharing"
             ELSE IF Company(c) # {} THEN "others" ELSE "nobody"
  IN /\ run' = [e \in Clis |->
          IF e = c
            THEN [IdleRun(d, w) EXCEPT !.pc = "create", !.q = q, !.enabled = enabled,
                                       !.files = SeesFiles(q, d, w), !.met = met]
          ELSE IF e \in Sharing(c, d, w) THEN [run[e] EXCEPT !.met = "sharing"]
          ELSE IF e \in Company(c) /\ run[e].met = "nobody" THEN [run[e] EXCEPT !.met = "others"]
          ELSE run[e]]
     /\ checkout' = [v \in Checkouts |->
          [checkout[v] EXCEPT !.shaken = @ \/ \E e \in Company(c) : run[e].dir = v /\ w = v]]

\* getDeploymentInfo and the checks before anything is created.  Whether DAG deploys are
\* enabled is read here, once; others switch it on and off at any time.
Begin(c) ==
  /\ ~Active(c)
  /\ Cardinality(Created) + Cardinality({e \in Clis : At(e, "create")}) < MaxDeploys
  /\ \E q \in Requests, d \in Deployments, w \in Checkouts, enabled \in BOOLEAN :
       /\ <<d, w>> \in Places
       /\ q.kind = "bundle" => enabled
       /\ q.kind = "image" => enabled \/ service[d] = "remote"
       /\ Company(c) # {} => {q} \cup {run[e].q : e \in Company(c)} \subseteq Together
       /\ BeginWith(c, q, d, w, enabled)
  /\ UNCHANGED <<facts, cloud, engine, container>>

LastTag == IF Created = {} THEN 0 ELSE deploys[Cardinality(Created)].tag

\* createDeploy, createDeployWithDagBundle, createBundleDeploy.  Astro names the image
\* by the time, so two deploys may be given one tag ("two people push the same nextTag").
CreateDeploy(c) ==
  /\ At(c, "create")
  /\ Cardinality(Created) < MaxDeploys
  /\ LET id == Cardinality(Created) + 1
         kind == run[c].q.kind
     IN /\ \E t \in {LastTag, LastTag + 1} \ {0} :
             deploys' = [deploys EXCEPT ![id] = [state |-> "open", tag |-> t]]
        /\ run' = [run EXCEPT ![c].id = id,
                     ![c].pc = CASE kind \in {"full", "image"} -> "ignore"
                                 [] kind = "dags" -> "confirm"
                                 [] kind = "bundle" -> "tar"
                                 [] kind = "unbundle" -> "finalize"]
  /\ UNCHANGED <<facts, live, registry, uploads, engine, container, checkout>>

CreateFails(c) ==
  /\ At(c, "create")
  /\ Exit(c)
  /\ UNCHANGED <<facts, cloud, engine, container, checkout>>

FaultKeepIgnore(c) ==   \* fault: the line a killed build left is not removed
  /\ At(c, "ignore")
  /\ Goto(c, "confirm")
  /\ UNCHANGED <<facts, cloud, engine, container, checkout>>

\* removeDagsFromDockerIgnore, before any build that ships.
RemoveDagsLine(c) ==
  /\ At(c, "ignore")
  /\ SetIgnore(c, Without(checkout[run[c].dir].ignore))
  /\ Goto(c, "confirm")
  /\ UNCHANGED <<facts, cloud, engine, container>>

\* The file cannot be rewritten, or (then it has been) the environment file is missing.
IgnoreFails(c) ==
  /\ At(c, "ignore")
  /\ \/ UNCHANGED checkout
     \/ SetIgnore(c, Without(checkout[run[c].dir].ignore))
  /\ Exit(c)
  /\ UNCHANGED <<facts, cloud, engine, container>>

(* The deploy would leave the deployment without DAGs. *)
WouldEmpty(c) ==
  /\ ~Files(c)
  /\ \/ run[c].q.kind = "dags"
     \/ run[c].q.kind = "full" /\ run[c].enabled

FaultConfirmFull(c) ==   \* fault: only deploys of DAGs alone are confirmed
  /\ At(c, "confirm")
  /\ LET agreed == WouldEmpty(c) /\ run[c].q.kind = "dags"
         label == IF run[c].q.kind # "dags" \/ run[c].q.tests # {} THEN BuildLabel(c)
                  ELSE AfterTests(c)
     IN  IF label = "idle" THEN Exit(c)
         ELSE run' = [run EXCEPT ![c].pc = label, ![c].agreed = agreed]
  /\ UNCHANGED <<facts, cloud, engine, container, checkout>>

\* "No Dags found. This will delete any existing Dags": a yes, --force, or warnings
\* switched off.  A deploy of DAGs alone builds only to test.
Confirm(c) ==
  /\ At(c, "confirm")
  /\ LET label == IF run[c].q.kind # "dags" \/ run[c].q.tests # {} THEN BuildLabel(c)
                  ELSE AfterTests(c)
     IN  IF label = "idle" THEN Exit(c)
         ELSE run' = [run EXCEPT ![c].pc = label, ![c].agreed = WouldEmpty(c)]
  /\ UNCHANGED <<facts, cloud, engine, container, checkout>>

Canceled(c) ==
  /\ At(c, "confirm")
  /\ WouldEmpty(c)
  /\ Exit(c)
  /\ UNCHANGED <<facts, cloud, engine, container, checkout>>

----------------------------------------------------------------------------
(* Building and testing the image. *)

\* buildImageWithoutDags keeps .dockerignore in memory and adds "dags/" to it.
ExcludeDags(c) ==
  /\ At(c, "exclude")
  /\ LET ignore == checkout[run[c].dir].ignore IN
       /\ SetIgnore(c, With(ignore))
       /\ run' = [run EXCEPT ![c].saved = ignore, ![c].pc = "build"]
  /\ UNCHANGED <<facts, cloud, engine, container>>

ExcludeFails(c) ==
  /\ At(c, "exclude")
  /\ Exit(c)
  /\ UNCHANGED <<facts, cloud, engine, container, checkout>>

\* DockerImage.Build tags the image <namespace>:latest.
Build(c) ==
  /\ At(c, "build")
  /\ LET ignore == checkout[run[c].dir].ignore IN
       engine' = [engine EXCEPT ![run[c].dep][0] =
                    [by |-> run[c].id, passes |-> run[c].q.passes,
                     dags |-> ignore = Nothing \/ "dags/" \notin ignore]]
  /\ Goto(c, IF WithoutDags(c) THEN "restore" ELSE "check")
  /\ UNCHANGED <<facts, cloud, container, checkout>>

FaultNoDefer(c) ==   \* fault: .dockerignore is put back only after a build that worked
  /\ At(c, "build")
  /\ Exit(c)
  /\ UNCHANGED <<facts, cloud, engine, container, checkout>>

BuildFails(c) ==
  /\ At(c, "build")
  /\ IF WithoutDags(c) THEN Goto(c, "undo") ELSE Exit(c)
  /\ UNCHANGED <<facts, cloud, engine, container, checkout>>

\* The deferred function of buildImageWithoutDags, after a build and after a failure.
RestoreIgnore(c) ==
  /\ At(c, "restore") \/ At(c, "undo")
  /\ SetIgnore(c, run[c].saved)
  /\ IF At(c, "undo") THEN Exit(c)
     ELSE run' = [run EXCEPT ![c].saved = Nothing, ![c].pc = "check"]
  /\ UNCHANGED <<facts, cloud, engine, container>>

\* TagLocalImage: --image-name takes the place of a build.
TagPrebuilt(c) ==
  /\ At(c, "retag")
  /\ \/ /\ \E dags \in BOOLEAN :
             engine' = [engine EXCEPT ![run[c].dep][0] =
                          [by |-> run[c].id, passes |-> run[c].q.passes, dags |-> dags]]
        /\ Goto(c, "check")
     \/ Exit(c) /\ UNCHANGED engine   \* there is no such image
  /\ UNCHANGED <<facts, cloud, container, checkout>>

\* The rest of buildImage (a Runtime image, no downgrade, a supported version) and, for
\* an image that ships, refuseAgentImage.
ImageAccepted(c) ==
  /\ At(c, "check")
  /\ Proceed(c, "none")
  /\ UNCHANGED <<facts, cloud, engine, container, checkout>>

ImageRefused(c) ==
  /\ At(c, "check")
  /\ Exit(c)
  /\ UNCHANGED <<facts, cloud, engine, container, checkout>>

\* Parsing is skipped for old runtimes, by configuration, and when the integrity test
\* is not in the project.
ParseSkipped(c) ==
  /\ At(c, "rm") /\ run[c].test = "parse"
  /\ Proceed(c, "parse")
  /\ UNCHANGED <<facts, cloud, engine, container, checkout>>

Removed == IF container # Nothing /\ container.running THEN container ELSE Nothing

\* DockerImage.Pytest: `docker rm astro-pytest`, whoever made it, unless it runs.
RemoveOldContainer(c) ==
  /\ At(c, "rm")
  /\ container' = Removed
  /\ Goto(c, "new")
  /\ UNCHANGED <<facts, cloud, engine, checkout>>

\* `docker create --name astro-pytest <namespace>:latest pytest <file>`
CreateContainer(c) ==
  /\ At(c, "new")
  /\ container = Nothing
  /\ LET image == engine[run[c].dep][0] IN
       container' = [test |-> run[c].test, image |-> image.passes, code |-> image.passes,
                     running |-> FALSE, failed |-> FALSE]
  /\ Goto(c, "copy")
  /\ UNCHANGED <<facts, cloud, engine, checkout>>

\* `docker cp` of dags, tests, plugins, include and .astro
CopyCode(c) ==
  /\ At(c, "copy")
  /\ container # Nothing
  /\ container' = [container EXCEPT !.code = run[c].q.passes]
  /\ Goto(c, "start")
  /\ UNCHANGED <<facts, cloud, engine, checkout>>

FaultTakeAny(c) ==   \* fault: `docker create` failing is only logged, as for rm and start
  /\ run[c].pc \in {"new", "copy"}
  /\ IF At(c, "new") /\ container # Nothing THEN Goto(c, "copy") ELSE Exit(c)
  /\ UNCHANGED <<facts, cloud, engine, container, checkout>>

\* The name is taken, the container is gone, or the engine fails.
ContainerFails(c) ==
  /\ run[c].pc \in {"new", "copy"}
  /\ Exit(c)
  /\ UNCHANGED <<facts, cloud, engine, container, checkout>>

\* `docker start astro-pytest -a` starts, or joins, the container of that name; when
\* there is none its error is the verdict.
StartContainer(c) ==
  /\ At(c, "start")
  /\ IF container = Nothing
       THEN Goto(c, "failed") /\ UNCHANGED container
       ELSE Goto(c, "wait") /\ container' = [container EXCEPT !.running = TRUE]
  /\ UNCHANGED <<facts, cloud, engine, checkout>>

\* The tests end, also when the command that started them is gone; whoever attached
\* gets their exit code.
ContainerExits ==
  /\ container # Nothing /\ container.running
  /\ LET passed == container.test \in container.image \cap container.code IN
       /\ container' = [container EXCEPT !.running = FALSE, !.failed = ~passed]
       /\ run' = [c \in Clis |->
            IF At(c, "wait") THEN [run[c] EXCEPT !.pc = IF passed THEN "passed" ELSE "failed"]
            ELSE run[c]]
  /\ UNCHANGED <<facts, cloud, engine, checkout>>

\* The exit code is inspected as well, of whichever container now has the name, and
\* that container removed.
ReadVerdict(c) ==
  /\ run[c].pc \in {"passed", "failed"}
  /\ container' = Removed
  /\ IF At(c, "passed") /\ container # Nothing /\ ~container.failed
       THEN Proceed(c, run[c].test)
       ELSE Exit(c)
  /\ UNCHANGED <<facts, cloud, engine, checkout>>

----------------------------------------------------------------------------
(* Pushing, uploading, finalizing. *)

\* DockerImage.Push: `docker tag <namespace>:latest <repository>:<nextTag>`
TagImage(c) ==
  /\ At(c, "tag")
  /\ engine' = [engine EXCEPT ![run[c].dep][deploys[run[c].id].tag] = engine[run[c].dep][0]]
  /\ Goto(c, "push")
  /\ UNCHANGED <<facts, cloud, container, checkout>>

AfterPush(c) == IF run[c].q.kind = "full" /\ run[c].enabled /\ Files(c) THEN "tar" ELSE "finalize"

\* The image is pushed and the local name removed; removing it may fail, which is an
\* error although the image is there.
PushImage(c) ==
  /\ At(c, "push")
  /\ LET d == run[c].dep
         t == deploys[run[c].id].tag
     IN /\ engine[d][t] # Nothing
        /\ registry' = [registry EXCEPT ![d][t] = engine[d][t]]
        /\ engine' = [engine EXCEPT ![d][t] = Nothing]
  /\ Goto(c, AfterPush(c)) \/ Exit(c)
  /\ UNCHANGED <<facts, deploys, live, uploads, container, checkout>>

FaultPushIgnored(c) ==   \* fault: a failed push is only warned about
  /\ At(c, "push")
  /\ Goto(c, AfterPush(c))
  /\ UNCHANGED <<facts, cloud, engine, container, checkout>>

PushFails(c) ==
  /\ At(c, "push")
  /\ Exit(c)
  /\ UNCHANGED <<facts, cloud, engine, container, checkout>>

\* deployDags puts the monitoring DAG of hybrid deployments among the DAGs;
\* UploadBundle makes bundle.tar in the directory the command runs in.
Monitors(c) == run[c].q.kind # "bundle" /\ service[run[c].dep] = "hybrid"

MakeTar(c) ==
  /\ At(c, "tar")
  /\ checkout' = [checkout EXCEPT
       ![run[c].dir].tar = [by |-> run[c].id, some |-> run[c].q.files],
       ![run[c].dir].monitor = @ \/ Monitors(c)]
  /\ Goto(c, "gzip")
  /\ UNCHANGED <<facts, cloud, engine, container>>

GzipTar(c) ==
  /\ At(c, "gzip")
  /\ checkout[run[c].dir].tar # Nothing
  /\ checkout' = [checkout EXCEPT ![run[c].dir].gz = checkout[run[c].dir].tar]
  /\ Goto(c, "upload")
  /\ UNCHANGED <<facts, cloud, engine, container>>

(* The deferred removals of UploadBundle and deployDags. *)
CleanUp(c) ==
  checkout' = [checkout EXCEPT ![run[c].dir].tar = Nothing, ![run[c].dir].gz = Nothing,
                               ![run[c].dir].monitor = @ /\ ~Monitors(c)]

FaultOldVersion(c) ==   \* fault: the version is taken before the upload returns it
  /\ At(c, "upload")
  /\ uploads' = uploads \cup {run[c].version}
  /\ Goto(c, "finalize")
  /\ CleanUp(c)
  /\ UNCHANGED <<facts, deploys, live, registry, engine, container>>

\* azure.Upload: the version it returns is of what was in bundle.tar.gz.
UploadTar(c) ==
  /\ At(c, "upload")
  /\ LET gz == checkout[run[c].dir].gz IN
       /\ gz # Nothing
       /\ uploads' = uploads \cup {gz}
       /\ run' = [run EXCEPT ![c].version = gz, ![c].pc = "finalize"]
  /\ CleanUp(c)
  /\ UNCHANGED <<facts, deploys, live, registry, engine, container>>

FaultLeaveTar(c) ==   \* fault: the tarballs are removed only after an upload that worked
  /\ run[c].pc \in {"tar", "gzip", "upload"}
  /\ Exit(c)
  /\ UNCHANGED <<facts, cloud, engine, container, checkout>>

\* DAG deploys that are off, or no monitoring DAG for the Airflow version; a symlink out
\* of the bundle, which UploadBundle finds before it is bound to remove any archive.
NothingPacked(c) ==
  /\ At(c, "tar")
  /\ \/ UNCHANGED checkout
     \/ checkout' = [checkout EXCEPT ![run[c].dir].monitor = @ /\ ~Monitors(c)]
  /\ Exit(c)
  /\ UNCHANGED <<facts, cloud, engine, container>>

\* A full disk, DAG deploys switched off meanwhile, no network, or an archive another
\* command has removed.
TarOrUploadFails(c) ==
  /\ run[c].pc \in {"tar", "gzip", "upload"}
  /\ CleanUp(c)
  /\ Exit(c)
  /\ UNCHANGED <<facts, cloud, engine, container>>

\* Astro takes an image from image deploys, DAGs from those that may bring DAGs and
\* send a version (which they do when DAG deploys were enabled as they began), and a
\* bundle from bundle deploys, for which no version means a delete.
Finalized(c) ==
  LET r == run[c] IN
  [live EXCEPT
     ![r.dep].image = IF r.q.kind \in {"full", "image"} THEN deploys[r.id].tag ELSE @,
     ![r.dep].dags = IF r.q.kind \in {"full", "dags"} /\ r.enabled THEN r.version ELSE @,
     ![r.dep].bundle = IF r.q.kind \in {"bundle", "unbundle"} THEN r.version ELSE @]

\* finalizeDeploy, finalizeBundleDeploy.  HealthPoll then only watches, up to its
\* timeout; an answer that is lost ends the command just the same.
Finalize(c) ==
  /\ At(c, "finalize")
  /\ live' = Finalized(c)
  /\ deploys' = [deploys EXCEPT ![run[c].id].state = "final"]
  /\ Exit(c)
  /\ UNCHANGED <<facts, registry, uploads, engine, container, checkout>>

FinalizeFails(c) ==
  /\ At(c, "finalize")
  /\ Exit(c)
  /\ UNCHANGED <<facts, cloud, engine, container, checkout>>

----------------------------------------------------------------------------
(* Others. *)

Killed(c) ==
  /\ Kills /\ Active(c)
  /\ Exit(c)
  /\ checkout' = [checkout EXCEPT ![run[c].dir].shaken = TRUE]
  /\ UNCHANGED <<facts, cloud, engine, container>>

Step(c) ==
  \/ Begin(c) \/ CreateDeploy(c) \/ CreateFails(c)
  \/ RemoveDagsLine(c) \/ IgnoreFails(c) \/ Confirm(c) \/ Canceled(c)
  \/ ExcludeDags(c) \/ ExcludeFails(c) \/ Build(c) \/ BuildFails(c) \/ RestoreIgnore(c)
  \/ TagPrebuilt(c) \/ ImageAccepted(c) \/ ImageRefused(c)
  \/ ParseSkipped(c) \/ RemoveOldContainer(c) \/ CreateContainer(c)
  \/ CopyCode(c) \/ ContainerFails(c) \/ StartContainer(c) \/ ReadVerdict(c)
  \/ TagImage(c) \/ PushImage(c) \/ PushFails(c)
  \/ MakeTar(c) \/ GzipTar(c) \/ UploadTar(c)
  \/ NothingPacked(c) \/ TarOrUploadFails(c)
  \/ Finalize(c) \/ FinalizeFails(c) \/ Killed(c)

Next ==
  \/ \E c \in Clis : Step(c)
  \/ ContainerExits

Spec == Init /\ [][Next]_vars

----------------------------------------------------------------------------
(* Properties. *)

DeployType == [state: {"none", "open", "final"}, tag: Tags]
LiveType == [image: Tags, dags: Tarballs \cup {NoFiles}, bundle: Tarballs \cup {NoFiles}]
CheckoutType == [ignore: (SUBSET Lines) \cup {Nothing}, tar: Tarballs \cup {Nothing},
                 gz: Tarballs \cup {Nothing}, monitor: BOOLEAN, shaken: BOOLEAN]
RunType == [pc: Labels, q: Requests \cup {NoRequest}, dep: Deployments \cup {Nothing},
            dir: Checkouts \cup {Nothing}, enabled: BOOLEAN, id: Ids \cup {0},
            files: BOOLEAN, test: Tests, version: Tarballs \cup {NoFiles},
            saved: (SUBSET Lines) \cup {Nothing}, agreed: BOOLEAN,
            met: {"nobody", "others", "sharing"}]

\* Every variable keeps its type.
TypeOK ==
  /\ service \in Services
  /\ deploys \in [Ids -> DeployType]
  /\ live \in [Deployments -> LiveType]
  /\ registry \in [Deployments -> [Tags -> Images \cup {Nothing}]]
  /\ uploads \subseteq Tarballs
  /\ engine \in [Deployments -> [Tags -> Images \cup {Nothing}]]
  /\ container \in ContainerType \cup {Nothing}
  /\ found \in Ignores
  /\ checkout \in [Checkouts -> CheckoutType]
  /\ run \in [Clis -> RunType]

\* Whatever commands interleave, fail or are killed, a deployment is never told to run
\* an image that was not pushed or files that were not uploaded: Deploy and DeployBundle
\* finalize only after every step before has worked.
NothingMissing ==
  \A d \in Deployments :
    /\ live[d].image # 0 => registry[d][live[d].image] # Nothing
    /\ live[d].dags \in uploads \cup {NoFiles}
    /\ live[d].bundle \in uploads \cup {NoFiles}

(* The step in which a command's deploy is finalized. *)
Finalizes(c) == /\ At(c, "finalize")
                /\ deploys[run[c].id].state = "open"
                /\ deploys'[run[c].id].state = "final"

\* A deploy that shares neither checkout nor deployment with one that runs meanwhile
\* ships what it built: its own image, with the DAGs in it exactly when they do not come
\* on their own, whatever earlier deploys that were killed or collided left in
\* .dockerignore, bundle.tar and the engine; and its own DAGs.
ShipsItsOwn ==
  [][\A c \in Clis : Finalizes(c) /\ run[c].met # "sharing" =>
       LET r == run[c]
           image == registry[r.dep][deploys[r.id].tag]
       IN /\ r.q.kind \in {"full", "image"} =>
               /\ image.by = r.id
               /\ ~r.q.prebuilt => image.dags = ~WithoutDags(c)
          /\ r.version.by = IF \/ r.q.kind \in {"dags", "bundle"}
                               \/ r.q.kind = "full" /\ r.enabled /\ Files(c)
                              THEN r.id ELSE 0]_vars

\* "Deploy code to Astro only if the specified Pytests are passed": for every deploy
\* that shares neither checkout nor deployment with another.
TestedBeforeShipped ==
  [][\A c \in Clis : Finalizes(c) /\ run[c].met # "sharing" /\ Files(c)
         /\ "pytest" \in run[c].q.tests => "pytest" \in run[c].q.passes]_vars

\* It holds for deploys that run alone, whatever container was left behind before.
TestedWhenAlone ==
  [][\A c \in Clis : Finalizes(c) /\ run[c].met = "nobody" /\ Files(c)
         /\ "pytest" \in run[c].q.tests => "pytest" \in run[c].q.passes]_vars

\* A deploy ships what its directory and its tests said: both of these
\* (deploy.go's build, upload and finalize; docker_image.go's Pytest).
ShipsAsTested == ShipsItsOwn /\ TestedWhenAlone

\* Deployments lose their DAGs only to a deploy that found none, and whose user said yes
\* to the warning, forced it, or has warnings off: no failure, no kill and no switching of
\* DAG deploys meanwhile leads there.  Two exceptions: deploys that share a checkout or a
\* deployment with another, and those that take the monitoring DAG a killed deploy left
\* behind for one of the user's, and so do not warn.
EmptiedKnowingly ==
  [][\A d \in Deployments : live[d].dags.some /\ ~live'[d].dags.some =>
       \E c \in Clis :
         /\ Finalizes(c) /\ run[c].dep = d
         /\ \/ run[c].agreed
            \/ run[c].met = "sharing"
            \/ Files(c) /\ ~run[c].q.files]_vars

\* When no deploy is under way in a checkout, and none there was killed or had company,
\* its .dockerignore is as its user wrote it, but for a "dags/" line that a deploy takes
\* out for good, and no archive or monitoring DAG is left.
CheckoutKept ==
  \A w \in Checkouts :
    ~checkout[w].shaken /\ (\A c \in Clis : Active(c) => run[c].dir # w) =>
      /\ checkout[w].ignore \in {found[w], Without(found[w])}
      /\ checkout[w].tar = Nothing /\ checkout[w].gz = Nothing
      /\ ~checkout[w].monitor

\* "--image-name implies an image-only deploy": it leaves the deployment's DAGs alone.
PrebuiltLeavesDags ==
  [][\A c \in Clis : Finalizes(c) /\ run[c].q.prebuilt =>
       live'[run[c].dep].dags = live[run[c].dep].dags]_vars
=============================================================================
