# TLA+ models of the Astro CLI

The Astro CLI (`astro`) is a Go program that runs Apache Airflow locally, and manages
and deploys to Airflow on Astro and on Astro Private Cloud. It has no server of its
own: its core logic is what many short-lived invocations do to the state they share
— files under `~/.astro` and `.astro/`, background processes, containers, and the
Astro APIs — while other invocations run, fail or are killed.

This directory holds TLA+ modules of that logic, the configurations TLC checks them
with, and proofs that the TLA+ proof system checks. `PROJECT.json` lists the
components, the runs, the definitions with the source lines each one stands for, the
hazards of the code at the line where they bite, and the theorems.

    tlc -workers 2 -config RouteRegistry.cfg MCRouteRegistry.tla     # a run
    tlapm RouteRegistryProofs.tla                                    # a proof

## 1. The system

| Component | State it keeps | Operations | Interacts with |
|---|---|---|---|
| Route registry (`pkg/proxy/routes.go`, `lock_*.go`) | `~/.astro/proxy/routes.json`, its temporary file, `routes.lock` | AddRoute, RemoveRoute, ListRoutes, GetRoute, prune | every local start and stop, the proxy handler, AllocatePort |
| Proxy daemon (`airflow/proxy/daemon.go`, `cmd/airflow_proxy.go`) | `proxy.pid`, one background process, one TCP port | EnsureRunning, StartDaemon, StopDaemon, StopIfEmpty, status, serve | registry, standalone and docker starts and stops |
| Proxy handler (`airflow/proxy/proxy.go`) | a cache of reverse proxies | forward by hostname, landing page | reads the registry without its lock |
| Ports and hostnames (`pkg/proxy/ports.go`, `hostname.go`) | none | AllocatePort, DeriveHostname | starts |
| Standalone Airflow (`airflow/standalone.go`, `pkg/airflowrt`) | `.astro/standalone` (PID file, secret, virtual environment), a process group | start (background, foreground), stop, kill, exec, pytest, logs | registry, daemon, signing secret |
| Signing secret (`persistSigningSecret`) | `.signing-secret` | keep or read back | every standalone command |
| Home configuration and contexts (`config/`, `context/`) | `~/.astro/config.yaml` and its lock, an in-memory copy per process | create, migrate, read, set, switch, delete | every command |
| Cloud login and session (`cloud/auth`, `cmd/cloud/setup.go`) | tokens in the contexts | login, logout, refresh before each command | configuration, the browser callback |
| Local development with Docker (`airflow/docker*.go`, `container.go`, `pkg/container`) | containers, images, networks, volumes | start, stop, kill, build, parse, upgrade test | registry, daemon, settings |
| Airflow objects (`settings/`, `airflow-client/`, `deployment_objects.go`) | connections, variables and pools in Airflows; `airflow_settings.yaml`, `.env` | import, export, copy between Deployments | docker and standalone, Airflow's API |
| Cloud deploys (`cloud/deploy`) | deploys, images, DAG tarballs at the API | image, DAG-only, dbt and bundle deploys | API, Docker, uploads |
| Deployments (`cloud/deployment`, `fromfile`, `inspect`, `workerqueue`) | deployments at the API | create, update, delete, hibernate, variables, queues, from a file | API |
| Access management (`cloud/team`, `user`, `workspace`, `organization`, `role`, tokens) | members, roles and tokens at the API | invite, add, update, remove, rotate | API |
| Private Cloud (`apc/`, `houston/`) | Houston's deployments, users, teams | the same for Houston, its deploy and login | Houston, Docker |
| API commands and clients (`cmd/api`, `pkg/openapi`, `pkg/httputil`, `airflow-client`) | a cached API description | request, paginate, retry | APIs |
| Uploads (`pkg/fileutil`, `pkg/azure`) | the packed files of a checkout | tar, upload with retries | deploys |
| Otto (`pkg/otto`, `cmd/otto.go`) | `~/.astro/bin`: the binary, package.json, `.update-check` | install, check, update, launch | the CDN, the session |
| Cosmos boost (`pkg/cosmosboost`) | sidecars and slim manifests in the `.astro` directories of a tree | clean up, stamp | deploys, `astro dbt cleanup` |
| Remote environment objects (`cloud/env`) | objects, their links and exclusions at the API | create, update, delete, link, exclude | API, settings import |
| Telemetry, runtime versions, output | small or none | see `PROJECT.json` | |

### What makes each part correct, and what is hard about it

- **Route registry.** No update is lost and no reader sees half a file, with any number
  of writers, kills between any two system calls, a lock with a deadline, Airflow
  masters that end and PIDs that are reused. A route leaves only by a call with the
  right to it. Hard: read-change-write on a shared file, readers without the lock,
  hostnames two projects can share.
- **Proxy daemon.** While there are routes there is a daemon, there is only one, and it
  can be found through the PID file. Hard: the PID file is read, acted on and written
  with no lock, versions of the CLI restart each other's daemon, a daemon may ignore
  SIGTERM, and the routes are checked under a lock that no longer holds when the
  daemon is stopped.
- **Standalone Airflow.** What runs can be reached by a later stop, signs with the secret
  on disk, and keeps its route; nothing else is signalled. Hard: a process group
  whose master exits before its children, failed health checks, SIGKILL that does not
  help, stale PID files, reused PIDs.
- **Signing secret.** Starts at once agree on one secret that is never empty and never
  changes. Hard: three file operations per start, any of which may fail or be the
  last, on file systems with and without hard links.
- **Configuration.** The file is always readable, a logout leaves no token behind, and
  the migration runs once. Hard: each command rewrites the whole file from memory once
  per setting it changes, and only the write is under the lock.
- **Session.** A command never runs on a token that has expired where it could be renewed,
  nor in a Workspace of another Organization. Hard: token, expiry, Organization and Workspace are saved key by key, from four
  sources, and most errors on the way are passed over.
- **Docker development.** A start that ends well serves over a database its Postgres can
  read, a kill leaves nothing, and the lines a command adds to the user's files go again.
  Hard: six or more steps, each of which can fail, against containers, probes, volumes and
  files that earlier or other commands left.
- **Airflow objects.** What is imported arrives as the file has it, what is exported is
  whole. Hard: a call for each object, a second one when it exists, an edit in between.
- **Upgrade tests.** A report is about the project and the versions it names. Hard: every
  test on a machine builds images of the same name.
- **Deploys.** A deploy is finalised only when what it names has been uploaded, and a
  deploy that fails is not reported as one that succeeded. Hard: four to six calls to
  two services and Docker, with retries.
- **Deployments.** A command changes what it was asked to change, secrets stay secret, and
  queues fit the executor. Hard: the API takes a Deployment whole, commands read it once or
  twice and send it back, others do so meanwhile, and a Deployment file is up to four calls.
- **Deployment files.** A Deployment is what its file says; a file that is inspected and given
  back changes nothing; an option changes nothing else. Hard: nine requests (three types, each
  created by file, updated by file and updated by option) with fields that must be sent and
  fields that may be left out, and a file that shows less than there is.
- **Worker queues.** Every queue that was there is still sent, under its own ID. Hard: the
  list that is sent points into the list that was read, which is sorted in place.
- **Access management.** A role change never removes another role or member; a token is
  deleted only where it belongs. Hard: roles are read, changed and sent back whole.
- **Lists.** Every item that stays is listed and the loop ends, while others add and remove
  items. Hard: seven loops with rules of their own.
- **Environment objects.** An update keeps links, overrides, exclusions and secrets it was
  not asked about. Hard: lists that are not sent are emptied, and secrets cannot be read.
- **Otto.** The binary in place is one whole release, and the one its package.json tells of.
  Hard: an install is two files and a rename, launches go by one of the files, and nothing keeps
  two installs apart.
- **Cosmos boost.** What a deploy ships describes the files it ships. Hard: stamps of earlier
  deploys, of killed and of concurrent ones, and writes that fail, in a tree that may be edited.

## 2. The modules

| Module | What it is | Checked by | Proofs |
|---|---|---|---|
| `Routes` | Routes as data: DeriveHostname as a function that need not be injective, staleness, what add and remove make of a list | through its users | lemmas in `RouteRegistryProofs` |
| `RouteTable` | Abstract specification: a table of indivisible operations | as the property `TableSpec` | |
| `RouteRegistry` | routes.json step by step: lock, read, prune, truncate the temporary file, fill it, rename, unlock | `MCRouteRegistry` | `RouteRegistryProofs` |
| `ProxyDaemon` | The PID file and the daemon, with the routes as an atomic set | `MCProxyDaemon` | `ProxyDaemonProofs` |
| `SigningSecret` | persistSigningSecret step by step | `MCStandalone` | `StandaloneProofs` |
| `Standalone` | Start, stop and kill of one project's Airflow | `MCStandalone` | `StandaloneProofs` |
| `ConfigStore` | config.yaml under concurrent commands | `MCConfigStore` | `ConfigStoreProofs` |
| `CloudSession` | The login a context holds, from one command to the next | `MCConfigStore` | `ConfigStoreProofs` |
| `CloudDeploy` | Deploys of images, DAGs and bundles to Astro | `MCCloudDeploy` | `CloudDeployProofs` |
| `ApcDeploy` | Deploys to Private Cloud and the upload they retry | `MCCloudDeploy` | `CloudDeployProofs` |
| `CosmosBoost` | The cleanup and the stamping of a dbt tree before a deploy | `MCCloudDeploy` | `CloudDeployProofs` |
| `OttoUpdate` | Installing, updating and launching the Otto binary | `MCConfigStore` | `ConfigStoreProofs` |
| `Deployments` | Create, update and delete Deployments, their variables, queues, hibernation, from flags or a file | `MCDeployments` | `DeploymentsProofs` |
| `WorkerQueues` | The queue list of one command, with what its IDs point at | `MCManagement` | `ManagementProofs` |
| `DeploymentFile` | What inspect, create and update carry between a Deployment and its file | `MCDeployments` | `DeploymentsProofs` |
| `AccessManagement` | Roles of users, teams and tokens; members; tokens made, rotated, deleted | `MCManagement` | `ManagementProofs` |
| `Listing` | The seven loops that fetch a list page by page | `MCManagement` | |
| `EnvObjects` | Environment objects, their links and exclusions | `MCProject` | `ProjectProofs` |
| `DockerProject` | Start, stop, kill, restart, build and export of one Docker project | `MCProject` | `ProjectProofs` |
| `AirflowObjects` | Import, export and copy of connections, variables and pools | `MCProject` | `ProjectProofs` |
| `UpgradeTest` | Upgrade tests that share image names | `MCProject` | `ProjectProofs` |

They compose by abstraction. `RouteRegistry` is shown to implement `RouteTable`, in
which every registry call is one step; `ProxyDaemon` and `Standalone` take registry
calls as one step on that strength. `SigningSecret` shows that starts agree on a secret
whatever they interleave; in `Standalone` keeping the secret is one step. `CloudSession` takes a save as one step that only a
kill prevents; `ConfigStore` takes saves apart. `Deployments` sends queues as what each name
is to be; `WorkerQueues` has the list that says it. `Deployments` has the calls of a command
and what comes between them; in `DeploymentFile` a command is one step and a Deployment has all its settings.

An MC module may hold several of these side by side, as instances: `MCStandalone` (the
secret, Airflow), `MCConfigStore` (the file, the session, Otto), `MCCloudDeploy` (Astro, Private Cloud, Cosmos Boost), `MCDeployments` (Deployments,
their files), `MCManagement` (roles, lists, queues) and `MCProject` (Docker, Airflow objects, upgrade tests, environment objects). Their
parts share no state, so in each behaviour only one of them moves, the one `moves` names,
and the states of the run are the sum of the parts' and not their product.

Operators named `Fault...` stand beside the definition they spoil. Each is a bug
that could plausibly be made there (a dropped lock, a missing wait), and each checked
property is known to fail when the matching one takes the place of the original.

### Routes, RouteTable, RouteRegistry

A process is any caller of the registry. `pc`, `op` and `new` are the program
counter, the arguments and the local list of its call; `file`, `tmp` and `lock` are
`routes.json`, `routes.json.tmp` and the flock. `Call` enters AddRoute, RemoveRoute or
ListRoutes; `AcquireLock` and `LockFails` are the polling loop of `AcquireLock` with
its deadline; `ReadAndPrepare`, `Refused` and `ReadFails` are the read, the prune and
the change; `TruncateTmp`, `FillTmp`, `RenameTmp` and `WriteFails` are WriteRoutes,
`os.WriteFile` taken apart; `ReleaseLock` is the deferred unlock. `Killed` is a kill
anywhere: the kernel drops the flock. `ended` and `reused` are the Airflow masters that
have ended and those whose number another process now has, which is all IsPIDAlive can see.

A list of routes is a set: its order shows only in "the first route with this
hostname", which is a choice wherever the code scans. `GetRoute`, `GetRouteByProject`
and AllocatePort read the file without the lock, so what they can see is `file`.
The model is of the Unix build; on Windows AcquireLock creates the file and locks
nothing (`lock_windows.go`).

### ProxyDaemon

`cli[c]` is what terminal `c` does; its labels are the places where EnsureRunning,
StartDaemon, StopDaemon and StopIfEmpty read or write something another terminal or
the daemon can change. The PID file is written as `os.WriteFile` does: truncated, then
filled. A daemon is starting (spawned, port not bound), serving or dead, and `asked`
once it has a SIGTERM, which it may ignore. StopDaemon is two steps and its wait: what it finds
(`StopDaemon`) and the SIGTERM (`Terminate`), between which the daemon may die and another terminal
act; and one that cannot list the routes leaves the daemon alone (`StopIfEmpty`). Two history variables say what the
properties need to know: `alone`, whether commands have so far run one at a time and
to their end, and `calm`, whether so far there were only registrations and nothing
failed, was killed or died.

### SigningSecret

`file` is `.signing-secret`: absent, empty (left by an earlier CLI) or one start's
secret. `mem[s]` is what start `s` signs with, `kept` the starts that read back what
is kept. `hardLinks` and `legacy` are facts about the machine, chosen at the start.

### Standalone

`group[p]` is the process group with ID `p`: whether its master and its children
(scheduler, api-server, triggerer) live, how it was started, and its secret; it can
also be a `stranger`, an unrelated group leader that got the number. Start is secret,
install, spawn, PID file, health check, route; stop is StopProcess (SIGTERM, wait for
the group, SIGKILL, wait again, PID file) and removeProxyRoute; kill also removes the
directory. The master or its children, or both, may outlive either signal, and a terminal may be
closed anywhere in a command; an Airflow whose start is killed before it wrote its PID is `lost`, and no
property asks for it. `Overlaps` says whether commands of different terminals may run at once.
Nothing in the code prevents it and nothing in its documentation promises that it
works: two background starts at once leave an Airflow no PID file names. The runs
check commands that do not overlap, but for foreground starts, which wait.

### ConfigStore

A process runs initHome (`Start`, `CreateFile`, `Read`, the migration, `Reread`) and
then one command: set, context switch, context delete, login with a browser, login
with a token, logout. `Plan` gives the changes the command will make, in the order of
the code, each saved on its own: `mem` is the in-memory copy (viperHome), `todo` what
is left. A save is `AcquireLock` (or `LockTimesOut`), `Truncate`, `Write` (or
`WriteFails`). The settings keep what the properties tell apart: the version stamp, one
ordinary setting (absent, equal to a default ever shipped, or the user's own), the
current context, the contexts, and which hold an access and a refresh token. `last`,
`base` and `alone` are ghosts: the last settings written whole, those on disk when each
command started, and whether the command met nobody.

### CloudSession

`ctx` is what the current context holds in `config.yaml`: token, expiry, refresh token,
Organization, Workspace, last Workspace. `todo` is the list of saves a command has still to
make and `then` what follows them; a kill may fall between any two. The hook before a command is
`CheckAPIToken` and `AdoptAPIToken`, `CheckAPIKeys` and `AdoptAPIKeys`, or `CheckToken`,
`Refresh` and `AskToLogin`; then comes the command: login in the browser or with a token,
logout, a switch of Organization or of Workspace, or work (`Call`). `now` is a clock, so that
tokens expire between any two steps.
`of` and `clean` are ghosts: the token whose expiry is stored, and whether the Workspace
was chosen together with its Organization.

### CloudDeploy

`run[c]` is the command in terminal (or CI job) `c`: its program counter, what was asked of
it (`q`), the deployment and checkout, and what it knows — whether DAG deploys were
enabled and DAGs were there when it began, the ID of its deploy, the version its upload
got, the `.dockerignore` it will put back. The steps are those of `Deploy` in their
order: `Begin` (everything before the create call), `CreateDeploy`, `RemoveDagsLine`,
`Confirm` or `Canceled`, the build (`ExcludeDags`, `Build`, `RestoreIgnore`, or
`TagPrebuilt` for `--image-name`), the checks of the image, the tests (one round of
`RemoveOldContainer` ... `ReadVerdict` for parse and one for pytest), `TagImage`,
`PushImage`, `MakeTar`, `GzipTar`, `UploadTar`, `Finalize`. DAG-only deploys, bundles and
bundle deletes enter and leave this path where the code does; what ends an upload before there is anything
to remove (a symlink out of the bundle, an Airflow version without a monitoring DAG) is `NothingPacked`.
Only a deploy that put the monitoring DAG there takes it away (`Monitors`). Every step can fail, and
leaves behind what the code's deferred functions leave; `Killed` runs none of them.

What deploys share is in variables of its own: `checkout` (`.dockerignore`, `bundle.tar`,
`bundle.tar.gz` and the monitoring DAG of hybrid deployments), `engine` (local images by
name and tag), `container` (the one named `astro-pytest`), and `registry`, `uploads`,
`deploys` and `live` at Astro. Images and tarballs are the ID of the deploy whose files
they hold, with what the properties tell apart: whether DAGs are in them, and which tests
the code passes. Astro, Docker and the blob store are external. That Astro takes an
image, DAGs or a bundle according to the type of the deploy, and no DAG version as "leave
them" but an empty one as "delete them", is what the CLI's messages and requests rely on.
`met` and `shaken` are history: whether a command ran alone, beside another elsewhere, or
sharing its checkout or deployment, and whether a checkout saw a kill or two commands.

### ApcDeploy

`run[c]` is the deploy in terminal `c`: its kind (both, `--image`, `--dags`, `--remote`), its
Deployment and checkout, the custom image if there is one, the name `ref` it pushes under, and what
it built (`own`) and packed (`dags`). `latest` and `tagged` are names of local images,
`tar` and `gz` the packed files of a checkout, `registry` what is pushed and `dep` what
Houston and the DAG server hold. The steps are those of Airflow (`GetInfo`, `BuildImage`,
`TagImage`, `PushImage`, `UntagImage`, `UpdateImage`), UpdateDeploymentImage
(`UpdateRemote`) and DagsOnlyDeploy (`CheckDags` ... `OpenFile`, then up to `MaxTries`
attempts). `spent` says that the file of an upload has been read to its end: an answer
that is no success resets it (`ServerFails`), a connection error does not
(`ConnectionFails`). `raced` and `lost` are history. The option to push by digest, and a
tarball that tar left half written, are left out.

### CosmosBoost

`text` is the tree: the files that matter, what each says and, of a manifest, when dbt last
wrote it, which the hash and the slim copy of a manifest leave out and the hash of a project
does not. `disk` is the artifacts, with who wrote each and of what: a sidecar in each directory, a slim
copy of each manifest. `cmd[c]` is a command. A deploy removes what earlier ones left
(`ListArtifacts`, `RemoveArtifact`, `RemoveFails`), goes on only if nothing stayed behind
(`EnsureClean`), stamps and packs; `astro dbt cleanup` ends after the first part. The units of
Run are concurrent goroutines: for each project `HashTree`, `ReadManifest`,
`WriteSlimManifest` and `WriteSidecar` in order, for each lone manifest its reading; when all have ended, the lone
manifests of each directory are written by one writer. A unit that fails is a warning, and a write that fails may
leave a torn file. `raced` is history: a file was edited since the command began, or since one
beside it did. Directories no walk enters are left out of the tree, and so are the directories
a project's hash excludes.

### OttoUpdate

`file` are the inodes of binaries, `bin` the two names they may have (`otto-<os>-<arch>`, as it is
unpacked, and `otto`), `pkg` what package.json says, `cache` the last check for a newer version.
Inodes and names are apart because two installs write the same name: one may truncate what the other writes, or
rename it from under it. A launch is `EnsureBinary`, `RefreshUpdateCache`, `AutoUpdate`, `Exec`; an install
(downloadAndInstall, the Unix archive) is `Get`, the two files in either order, `RenamePlatformBinary`, and
`InstallFails` anywhere. A binary that has the bytes of one release and all of them is whole
(`Whole`). `met` and `cut` are history: installs have overlapped, or one ended part way, and
none has since been whole and alone.

### Deployments, WorkerQueues

`deps[d]` is a Deployment at the API: unborn, live or gone, and its fields: the name, the
executor, two settings, one field for each variable and queue. `cmd[a]` is what admin `a`
runs (create, update, delete, hibernation, a variable set or removed, a queue created, changed or
removed, a file created or updated), `pc[a]` the call it makes next and `seen[a]` the fields
it read and would send back. `Shown` is what the API shows (secrets are `Hidden`), `Plan` the
request a command makes of what it saw, `Resolve` and `Queues` what the API makes of it.
`raced[a]` records, for the properties, which fields others changed between the read and the write.
Of the API this is assumed: what is not sent stays, a secret without a value keeps its own, Kubernetes
has no queues, and Celery without any gets the default one. A file that does not mention DAG deploys creates a hosted Deployment with them and a
hybrid one without (`Creation`). A list that is left empty is no plan: Update then sends the one it reads itself
(`Read`). So to delete the only queue of a Deployment changes nothing or, where this was not the
default queue, gives that one back; `DoneAsAsked` and `OnlyAskedOrRaced` allow for this.

In `WorkerQueues` a queue of the request is a copy and an index `at` into the list in memory
for its ID, since the code takes the address of a slice element; `SelectQueue` and
`Sanitize` sort that list, as `sort.Slice` does, under the pointers. Names differ, so a queue's
place in the sorted list is the number of names before its own (`Rank`), which is how `SortByName` says it.

### DeploymentFile

`dep` is a Deployment of some `type`, a function of its settings (`Field`); `file` is what
`Inspect` wrote of it, perhaps as a template, and `Edit` has made of it since. `PrintConfig` is
what inspect shows; `FileFits` what a file must have; `CreateRequest`, `FileRequest` and
`OptionRequest` the requests, with a field that is not sent as `Omit` and one that is sent empty
as `None`; `Stored` what the API makes of a request. Of the API only this is assumed: what is not sent
stays (the code says so of the workload identity, `deployment.go:1220`), a secret without a value
keeps its own, and queues, node pool and schedules follow the executor and the development
mode. `Held` says what the API keeps of a Deployment on that strength; no command may break it.
`Suits` says what a Deployment of its type has, which is the API's to see to and assumed of the Deployments
there are to start from: a hybrid one has no high availability, no development mode, no queue storage, and a
node pool with Kubernetes; no other has a pool. Whether a queue keeps a storage that is not sent is left open (`keeps`).

### AccessManagement, EnvObjects, Listing

`store[s]` is a user, a team or a token: its life, its secret, and a field for its name and for its role on
each entity. A command reads it, edits the roles, asks the user if the code does, and sends all of them
back (`Request`); endpoints that take one role only are a step of their own. `object[o]` in
`EnvObjects` has a field for its value, the link, the link's own value and the exclusion for
each Deployment, and the flag that links it everywhere; `Redacted` is a read without secrets, `Body` what
`echoPreservedFields` and the builders send, `Patched` what the API makes of a body. Both
record what others changed since the read in `raced`.

In `Listing` a list on the server is a sequence others add to and remove from, `cap` the
largest page it gives; each loop is an action of its own, with its own rule to go on and to end.

### DockerProject, AirflowObjects, UpgradeTest

`box` and `volume` are the containers and the data volume of a compose project, `probes`
the throwaway containers that read the version of its Postgres, `route` the project's
route, `files` the lines of `requirements.txt` and the Dockerfile. The steps are those of
Start, Stop, Kill, restart, `astro run` and `object export --compose`; every call may fail, the containers
may end, the configured version of Postgres or the files may be changed by the user, and a command may be interrupted, when none
of its deferred functions run.

An object in `AirflowObjects` is what it must have (`main`), what else a settings file can
say (`rest`), and what only Airflow knows (`hidden`); a command holds the items it has still to
send (`todo`, each with the number of the loop that sends it), and each is one call or two (`Send`,
then `Patch` on a conflict). Within a loop the order is left open. In `UpgradeTest` `image` is
what the name of the test image refers to, and `tree[p]` the reports in project `p`. `met[t]` records that
another test has run beside t's or begun since: the report of such a test may be of the
other, as the image has one name for all.

## 3. The runs

| Run | Asks | Instance | Result |
|---|---|---|---|
| `registry` | Is the registry atomic, whole, without lost updates, and does every call return? | 2 processes, 3 projects of which 2 share a hostname and 1 uses both modes, 1 PID | holds, 102 222 states |
| `daemon` | Is no daemon lost when commands do not overlap; do racing starts leave one up; does every command end? | 2 terminals, 1 project, 1 version and the development build, 3 daemons, kills | holds, 608 721 states |
| `standalone` | Is every background Airflow reachable and routed; does every stop end; do starts agree on one secret? | 2 terminals, 2 PIDs, 2 secrets, no overlap; 3 starts, with and without hard links and an empty legacy file | holds, 582 511 states |
| `config` | Is the file never mixed, no refresh token alone, does a command that meets nobody do its job; is no expired token used, no foreign Workspace; is the Otto binary in use whole and the right one? | 2 processes, 2 domains, 3 files to start from and none, 2 commands, 1 fault; 2 users, 2 Organizations, 3 commands, 1 kill; 2 launches or updates, no binary or one of 2 versions to start from, 1 release, 1 fault | holds, 3.80 million states up to symmetry |
| `config_settled` | Does the migration run only once? | the same, from a stamped file, no fault | **fails** (finding 1) |
| `deploys` | Is only what exists finalized, does each deploy ship its own, tested files, are DAGs and checkouts safe; does a deploy to a Private Cloud that reports success arrive; is no stale stamp shipped? | 2 commands, a hybrid and a remote-execution deployment, each with a checkout, 2 deploys, 10 requests, kills; in a Private Cloud 2 commands, 8 requests, 2 attempts, 1 edit, 1 kill, 1 minute; 2 Cosmos Boost steps over a project and its target directory, 3 sets of files, 1 edit, 1 fault | holds, 1.26 million states up to symmetry |
| `deployments` | Does a command change only what it was asked, keep secrets and do its job; do queues fit the executor; does a Deployment's file say what it is, and an option change nothing else? | 2 admins, a hosted and a hybrid Deployment, 4 Deployment files, 3 commands; 40 Deployments of the 3 types, 2 queues, 3 node pools of 2 types, 1 variable, 1 edit, 1 option | holds, 963 316 states up to symmetry |
| `management` | The same of roles and tokens; is every item listed; is every queue sent? | 2 admins, a subject of each kind, 2 commands; lists of up to 4 items in pages of 2, 2 changes; 3 queues | holds, 218 519 states up to symmetry |
| `queue_ids` | Is each queue sent under its own ID? | 3 queues in any order | **fails** (finding 2) |
| `project` | Does a start serve, a kill leave nothing; are databases and files kept; do objects arrive; do reports tell the truth; do links survive? | 2 terminals, 2 versions of Postgres, 2 commands, 1 kill, 1 event; 3 Airflows, 4 objects; 2 projects, 2 versions; 2 admins, 3 objects, 2 Deployments | holds, 1.98 million states up to symmetry |
| `settings_precedence` | Is the settings file's connection kept over the Workspace's? | 4 objects | **fails** (finding 3) |
| `upgrade_deployment` | Is an upgrade test with `--deployment-id` against the Deployment? | 2 projects, 1 Deployment | **fails** (finding 4) |

**Bounds.** Two processes are enough for the races here: every one is between one
writer and one other actor, and the proofs cover any number for the registry, the secret
and the configuration. Three projects with two on one hostname give replacement,
refusal and collision; one PID that can end and be reused gives every answer of the
liveness probe. Three daemons let a restart race a start and one more follow; once the bound on
spawns is reached a start can only fail. In `daemon` one
version and the development build give every outcome of the version comparison (equal,
different, and the build that restarts nothing); one project is enough for there to be routes or none. Two PIDs for Airflow let one group outlive a stop while the
next runs. Two secrets are enough for a mismatch. In `config` two commands and one
fault give a creation, a migration and a command on each side of a failure; the run
states `AloneDoesItsJob` for each of the two in turn. In
`deploys` a second command runs beside or after the first, on another checkout and another
deployment: any request may follow any other, and three (`Colliding`: an image with
failing tests, DAGs, a bundle) may overlap. Commands that share a checkout or a deployment are
in the module (`Places`) and excepted by its properties: the code keeps nothing apart there.
`MaxDeploys` bounds the deploys created; two let one find what a failed or killed one
left. The remote-execution deployment never tests, so the tests of two deploys never meet in
this run: that they do on two hosted ones is disagreement 5 below. To a Private Cloud any
deploy may follow any other, and two of both kinds may overlap on one Deployment or on two. Two
attempts are the least that lets one repeat another (the code makes eight, each in the state the
last one left), and a minute that passes or does not gives two names to push or one. Two Cosmos Boost steps and a
fault give a step over what a killed or failing one left, or beside one; a project with a manifest
in its root, one in its target directory, and two manifests that share a directory are the shapes the
code tells apart. For Otto two commands give one install over what another left, or beside it; four inodes
are one for each name and each writer.

A read-change-write race needs a command that reads, another that writes, and the first
that writes: two commands are enough (`management`, `project`), and in `deployments`
a third lets them find what two left behind. A queue list of three has a place before, at
and after the one that moves. Lists of four in pages of two have a full, a short and an
empty page, and pages the server caps at one. A Deployment to start from has every setting or as few as it can,
with each executor of its type, in development mode or not, with remote execution or not: one
edit of the file and one option, before or after, then meet every field of every request; two of three node
pools have one type, which a file cannot tell apart. In `project` two commands and one kill or event
between them give a start over what an earlier one left; a second version of Postgres is
what a volume can disagree about.

Symmetry is used over the processes, terminals, admins and users, which no definition tells
apart. `ListsAll`, the one property that depends on fairness in such a run, is about a part that
knows none of the permuted values.

**Deadlock** is checked in `registry` and `daemon`. In the others the bounded commands run
out, or every start comes to its end, and the system really stops.

**Fairness.** In `RouteRegistry` weak fairness of each process's own step: a running
process keeps executing, and the lock wait has a deadline, so `LockFails` is always
there to be taken. In `ProxyDaemon` weak fairness of each command's own step, none of
the daemon: commands end because stopTimeout ends in SIGKILL. In `Standalone` weak
fairness of the steps of a stop, none of Airflow: its waits have deadlines
(stopTimeout, killTimeout) and a stop that cannot succeed ends with an error. In `Listing`
weak fairness of the loop's next request: a loop that has not ended makes it. No model
assumes that a user issues a command, that a process dies, that a signal is obeyed or
that a lock is got.

## 4. What the code does and its text does not say

Each of the first four is the counterexample of a run; `PROJECT.json` quotes the text it
contradicts.

1. *The migration runs again over a stamped file* (`config/config.go:166`). A command that
   starts while another's save has truncated the file reads it as one from before the
   stamp, and saves it stamped and empty.
2. *A queue is sent under another's ID* (`workerqueue.go:82`). The request points into the
   list that was read, which is then sorted by name. The run is of the queue commands alone: a queue
   of an unsorted list is sent with the ID of the one that was sorted into its place. Harmless while
   the API lists queues by name (`QueuesSentRight`, which is proved, says so). A Deployment file has
   another way to the same end, disagreement 11.
3. *The Workspace's connection wins over the file's* (`settings/settings.go:329`). The
   `continue` for a connection the file defines belongs to the inner loop.
4. *`--deployment-id` does not test against the Deployment* (`airflow/docker.go:745`). The
   image that is compared is never the one that was pulled.

These are in the models, where the properties are stated around them, and have no run:

5. A deploy takes another's test result (`airflow/docker_image.go:173`): all tests of a machine
   run in a container named `astro-pytest`.
6. `--image-name` is said to imply an image-only deploy (`cmd/cloud/deploy.go:96`) and makes
   one of image and DAGs (`231`, `184`).
7. A stop removes another project's route (`pkg/proxy/routes.go:168`, against
   `standalone.go:1046`): RemoveRoute goes by hostname, and two directories may share one.
8. IsRunning denies the daemon that serves (`airflow/proxy/daemon.go:84`, against `61`): of
   two starts that both spawn one, the PID file may keep the one that lost the port. A route
   registered between StopIfEmpty's look and its SIGTERM loses its daemon.
9. A stranger's group is signalled (`pkg/airflowrt/process.go:74`, against `72`): a stale PID whose
   number went to a leader of a group passes the test.
10. Starts that race to replace an empty secret of an earlier CLI end up with different ones.
11. From a Deployment file, all queues of a hybrid Deployment get the last one's node pool
    (`fromfile.go:968`: the address of one variable), and a queue that was there keeps its ID
    only if it has the same place in both sorted lists (`938`). A queue command drops the
    ephemeral storage of the others' pods (`workerqueue.go:80`).
12. After a renewal the Workspace is the last one used, not the chosen one
    (`cmd/cloud/setup.go:182`, against `169`); an API token, once unset, leaves its
    Organization behind for the earlier login's refresh token (`416`); an answer to a refresh with
    neither error nor token is stored as a token (`165`).

13. An upload to a Private Cloud that is tried again after a connection error sends an empty file
    (`pkg/fileutil/files.go:345`, where the comment wants a retry): only the path of a 5xx goes
    back to the start. `DeployArrives` excepts it.
14. A custom image is pushed to a Private Cloud under its own tag, without the name of the
    release (`apc/deploy/deploy.go:258`), and on a platform without the customer's registry
    nobody is told. With that registry, names are by the minute: two deploys to one Deployment
    within a minute push under the same name.

15. An artifact may be where no cleanup looks (`cleanup.go:14`, "Discovery never writes sidecars
    under them"): a directory named `logs` or `dbt_packages` that is deployed as a root of its own
    is stamped, and a later deploy of its parent neither removes the stamp nor refuses to go on. (Not in the model.)
16. A sidecar whose write failed or was cut short has no marker, so the next deploy takes it for
    an unrecognized producer's and refuses, until someone removes it by hand (`predeploy.go:98`,
    though `103` calls the stamping best-effort).
17. Two manifests whose names differ only in the case of `.json` have one slim copy between them
    (`slim.go:19`), and both entries of the sidecar name it. (Not in the model.)
18. EnsureBinary is to install Otto "if it's missing" (`otto/binary.go:112`) and looks at
    package.json only: an install cut after that file and before the rename leaves every launch
    with no binary or the old one under the new number, and one cut within it fails every
    launch, until `astro otto update`. Two installs at once write the same file, and the binary in use
    may end up torn. `OttoWhole` excepts both.

19. A file given back as inspect wrote it is not always nothing: a hybrid Deployment loses the
    workload identity the user gave it, since the file has it empty and the request always sends it
    (`fromfile.go:703`), and with `--show-workload-identity` the platform's own is pinned as the
    user's (`inspect.go:280`, against the comment at `deployment.go:1220` that calls this wrong); its queues and tasks
    move to the first node pool of their worker type. `RoundTripKeeps` names these.
20. An update with one option sends the queues without their ephemeral storage
    (`deployment.go:971`). `OnlyTheOption` allows for an API that then forgets it.
21. `is_development_mode` of a file is taken by a create and ignored by an update
    (`fromfile.go:584`); getTemplate compares the executor with a name the API does not use
    (`inspect.go:519`), so a template keeps whatever queues there are; a create takes the
    executor's name in one case only (`fromfile.go:329`) where the check before takes any (`768`).

Three that kill the command without touching what is modelled: `astro run` asks an error that
is nil for its message when only the removal of its line fails (`docker.go:1577`), and
ExportConnections indexes a list it did not get (`settings.go:612`); an update by a file without
`remote_execution` of a Deployment that has it follows a nil pointer (`fromfile.go:548`).

## 5. What is proved

All proofs are for every value of the constants, from the assumptions named in the
modules: `NoProc`, `NoPid`, `NoFile`, `Absent`, `Empty` and `Nothing` are not members of the
sets they complete (`Nothing` is no image, archive, container or set of lines), HostOf is any function from projects to hostnames, the
configuration files found on disk pair every refresh token with an access token, the kinds of
subjects and of entities are apart, and an option left out is none of the values it might have.

**RouteRegistryProofs** — `Typed`, `NeverTorn`, `HostsUnique`, `NoLostUpdate`, `Implements`.
None of these is inductive alone: that a rename publishes a legal change of
`routes.json` depends on nobody having changed it since it was read. The inductive
invariant `IInv` adds `LockHeld` (exactly the holder of the flock is between its read
and its unlock), `CallKnown`, `Prepared` (what a writer is about to write is a legal
change of what the file holds *now*, with routes that may have gone stale in between)
and `Filled` (what is about to be renamed is that list, in full). `Prepared` is kept by
other processes because they cannot be at the rename, and by a master's end because
legality only grows with the set of ended masters (`LegalGrows`). `Implements` maps the
rename to `Register`, `Deregister` or `DropStale` of the table, `MasterEnds` to itself
and every other step to a stutter.

**ProxyDaemonProofs** — `Typed`, `NoneLost`, `NoneUnserved`. Whether a daemon can be found
is not a matter of the PID file alone: from the spawn to the write of the file only the
command that spawned it has it in hand, so has a stop up to its SIGTERM, and from a SIGTERM to the
next spawn there must be none. `Finds` says, for each place a command can be at, where that is, and the invariant
`Orderly` that one command at most runs as long as none met another, and that every daemon
that is up to stay is where that command, or else the PID file, says. For commands that
raced, `Racing` has what keeps one alive: every stop is part of a restart (`OnlyRestarts`),
a daemon that was asked to go has a command waiting for it (`AskedIsAwaited`), and with a
route there is a daemon up to stay or a command about to start one (`ServedOrComing`). TLC
checked the three invariants before they were proved. `NoFileAssumption` says that a missing
PID file is no PID file.

**StandaloneProofs** — `NeverEmpty`, `Agreement`, `Stability`; `BackgroundReachable`,
`SecretsMatch`, `RouteKept`. Of `SigningSecret`, the invariant adds
`NoRename` (with hard links and no empty file, no start reaches the rename: the link
fails only when it finds the file, and the file is then whole) and `KeptSigns` (who read
a kept secret back read the one still there).

Of `Standalone`, where no two commands overlap (`~Overlaps`, the hypothesis of the last
three; two starts at once do lose an Airflow, see the hazards): a command
acts on what an earlier step of it found, minutes before, and in between groups die in
parts, PIDs go to strangers and foreground starts come and go. `AirflowInv` says that this
does not matter. `Alone`: one command at most is under way, but for foreground starts that wait
(`attached`). `Known`: a background start has no Airflow beside it until it spawns, and only its own
until its PID is in the file; a stop waits for the group in the file; past the wait nothing is
left up. `Tracked`: what is up in the background is in the PID file, unless a start has yet to write
it. `Signed`: it has the secret that is kept, so a foreground start beside it cannot make
another. The machine only takes groups away (`ShrinkKeeps`), and a command's step disturbs no
other (`OthersKnown`), so each action is left with its own label (`OwnStep`). TLC
checked `AirflowInv` before it was proved. `RouteKept` adds that only `RemoveRoute` takes a route away, at a
label where nothing is up. `PidAssumption` says that no PID is no PID.

**ConfigStoreProofs** — `Whole`, `LogoutWhole`, `DoesItsJob`, `LoginFits` and `BinaryWhole`. `LockInv`: a process in a save holds
the lock, and between its truncation and its write the file is empty, whatever
CreateConfig's unlocked truncation does. `TokenInv`: the file and every memory pair
refresh tokens with access tokens, and so does every change still to be made
(`Pairing`: none clears the access token alone, and one that stores a refresh token
comes right after the access token of the same domain). `PlanPairs` shows this of every
command's plan, `TailPairs` that it survives taking the first change off. `DoesItsJob`
(`AloneDoesItsJob`) is about commands that met no other and no fault. `HeldInv`: in every
copy of the settings only a domain with a context has credentials, and a file without text says
nothing. `AloneInv` says where such a command is (`OnCourse`): until its first change the file holds what it found,
stamped or still to be; then what its plan still changes, made of its memory
(`Final`), keeps what it promises of the file it found (`Promise`), and a save in hand will put that memory in
the file. `PlanDelivers` shows the promise of each command's plan, of four changes at most, and
`FinalTail` that making the first change leaves the same end. That no other process comes
between is `alone` itself, and the lock's holder is this command by `LockInv`.

`LoginFits` (`SessionFits`) is about what the context holds between two saves. In `SessionInv` the keys
yet to be saved are what is left of one of a few plans (`Ahead`), told apart by where the command
goes after them: a context selected or cleared, a login or an API token entered, a token renewed, an
Organization taken, then a Workspace of it. The expiry that a plan will save is not later than that of
the token it comes with (`Covers`), and so the stored expiry is never later than that of the token it was saved
for (`Stored`); that is why a token that was not refreshed lasts (`Lasting`). While `clean` holds the
Workspace and the last Workspace are both of the Organization between plans (`Fits`), and
a renewal, which goes back to the last one, keeps that. Each save is a step from a plan to what is left of it.
`Session!Sound` says that times are numbers and that API tokens and keys are not users.

`BinaryWhole` (`OttoWhole`) has `OttoInv`: of two installs at work neither is alone, and they have met
(`Overlaps`); an install that is alone has the inode it writes under the name it gave it,
and what it has unpacked is there whole and of its version (`Install`); no name is shared (`Apart`). A rename
then puts one whole release in use (`WholeOtto`), and one that is cut short before it leaves the
former. Until an install unpacks, package.json tells the version in use, and past
`EnsureBinary` it is not too old (`Told`). `Otto!Sound` says that versions are numbers and that
whoever creates a file gets an inode with no name that nobody has open. `MCConfigStore` has TLC
check both assumptions of the run's constants; TLC checked both invariants before they were proved.

**CloudDeployProofs** is about three components. Of deploys to Astro it has `Typed`, `NothingMissed`,
`ShipsOwn`, `Agreed` and `FilesKept`. That a finalize never names what is
not there follows from what a command has done by the time it is where it is (`Done`: its
deploy is created, its version is in the blob store, from `tar` to `finalize` its image is in the
registry under its deploy's tag, and from the build to the tag there is an image to tag),
and from the deploys being numbered in order with no tag ahead of its deploy
(`Numbered`): a new deploy then takes nobody's record, and a push never touches the
local `latest`. Most steps change nothing at Astro, no image to come and no other command
(`Quiet`), and one lemma shows that they disturb nobody; the seven others (`Begin`, `CreateDeploy`, the two ways to get an
image, `PushImage`, `UploadTar`, `Finalize`) and the end of the shared container have a
lemma each. The tags may collide, as Astro's do: the theorem says the image is there.

That it is the deploy's own is `ShipsOwn`, and with it go `Agreed` and `FilesKept`. Their
invariant is `WorkInv`. `Meeting`: a command that met nobody is alone, and one that shared
nothing has its checkout and its deployment to itself. `OnCourse`: a command is where its
request leads, and past the warning it has been answered. `ToItself` and `Alone` then say
what such a command finds where it is: whether `.dockerignore` leaves the DAGs out as it
builds, whose image has which tag, whose archives are in its checkout, what the test
container runs. `Opened`: no two commands have the same deploy. `Tidy`: a checkout that was
not shaken is as it was found, or in the hands of the one command that runs there and still
has what it needs to put it back (`InHand`: the ignore file in memory while it builds without
DAGs, archives only while it packs and uploads). A command's step either
goes on to what the invariant says of where it then is (`Advances`), or ends with its checkout as it
was found (`Leaves`): two lemmas show that both keep the invariant, one for each step that it is
one of them, and `Begin` and the end of the container come apart. TLC checked the parts of
the invariant before they were proved. The proof asks of the requests that bundles have no
tests, as `DeployBundle` has none.

Of the Cosmos Boost step it has `StampsFresh` (`ShipsFresh`). Its invariant, `BoostInv`, says that commands that
run together are all raced by an edit or none is (`Beside`); that a command is at a step its request
leads to (`Course`); that what a unit has read or hashed is what the files say, as long as it is not raced
(`Learned`); and that a command past the cleanup of a place finds nothing there but what describes the
files as they are, whoever wrote it (`FreshTo`). Of one that is alone it knows more: which slim
copies and sidecars it wrote, and that without a warning these are all that are due (`OwnWork`). What another command writes or
removes then leaves this to the others, and an edit races them all.

Of deploys to a Private Cloud it has `Arrives` (`DeployArrives`). `ApcInv` says of each thing a deploy
leaves on the machine for its next step, the image under two names and the two packed files, that
it is what the deploy made, as long as nobody else has touched it (`ImageSoFar`,
`FilesSoFar`); what it has pushed, and told the platform, is then its own as well (`Arrived`). A step of another
either keeps those or adds them to `raced`, which one lemma shows for all steps (`OthersErrand`). That an
upload starts at the start of the file is its last conjunct: who has read to the end has
lost a connection. `Counts` bounds the tags, as a push takes the next tag of a Deployment at most once
for each deploy begun. `Boost!Sound` and `Apc!Sound` say that times and bounds are numbers, that
artifacts, files and requests are what they are of, and that an empty file is not none; `MCCloudDeploy` has TLC
check both of the run's constants, and TLC checked both invariants before they were proved.

**ManagementProofs** is about two components. Of roles and tokens it has `Typed`, `OnlyAsked` and
`TokensHome`. A command writes back what
it read, so the invariant (`Obeys`) says of every command past its read that what it knows of its
subject is what the server holds or what has been raced, and that the subject is of the kind, and
the token of the scope, the command is for.

Of worker queues it has `QueuesAreSentRight` (`QueuesSentRight`), for lists of any length: every queue
is sent once, whatever the order, and under its own ID where the API lists queues by name. `QueuesInv` relates the list in memory to the one that was read: as
long, with the same queues, and the same list if that was sorted (`SameAs`). Of the request it
says that its names are all different and which they are, that queues nobody asked about
have their pool, and that an index points to the queue's own ID or the API did not list the queues
by name (`ToSend`). That sorting keeps every queue and repeats none rests on `Rank`: in a
list of n names that all differ, each number below n is the rank of exactly one of them. This is proved
without induction: each name has a rank below n, no two the same, and an
injection of a finite set into one of its size is onto. `Queues!Sound`: names are
finitely many positive numbers.

**ProjectProofs** is about four components. Of environment objects it has `Typed` and `LinksKept`. The
invariant (`Knows`) is the idea of `Obeys`
where a part of the object cannot be read: what a command has seen of a field that nobody
raced is what a redacted read of the server's would show. `Patched` then gives back the
rest: a lemma for each shape of field shows that an update keeps what its body does not name.

Of upgrade tests it has `TestsReportTheirOwn` (`ReportsItsOwn`). `UpgradeInv`: a test knows what it is of
(`TestAims`), and one that met no other is the only one at work (`TestAlone`) and finds at each of
its steps what the former ones put into the one image and into its directory (`TestFinds`); whatever
Dockerfile a directory has names the version the directory is for (`DirsNamed`). The last is what makes a
test after one that was cut short start right.

Of the containers of a Docker project it has `StartsServeWell`, `KillsLeaveNothingBehind`,
`DatabasesKept` and `FilesAreRestored`. In `DockerInv` a command that is calm, which is one that nothing has disturbed,
is alone at work, and `Undisturbed` says what it finds where it is: past the health check the
containers up over the volume's version at its port, past the route the route to it,
before `down` neither route nor probe, past the probe a volume of its version or a
warning, and the files as it found them with the lines of its step added
(`FilesAt`). That adding and then removing a line gives the file back (`WithLine`, `WithoutLine`) is
proved for files of any length, from the least and the greatest place of a line.

Of imports, exports and copies it has `TransfersAreWhole` (`TransfersWhole`) and `ImportsUndoNothing`. `ObjectsInv` says of
each object that is wanted that either its last item is still to be sent or the target has all
of it, unless it was raced (`Carries`); and of an export that of the kinds it is past the entries are in
memory and the file or `.env` says what the memory does (`Writes`). An object may be sent twice in
one import, from the file and from the Workspace; the later one counts, so the items are ordered by
their loop. `Objects!Sound` and `Upgrade!Sound` say that the sets are apart and that None is
none of them; `MCProject` and `MCManagement` have TLC check these of the runs' constants, and TLC
checked each invariant before it was proved.

Some of these proofs changed the models. `ReportsItsOwn` was false of three terminals: a test that begins
after another has ended may write over its report (`met` now covers this), and the DAG report found at the
end may be an earlier test's (`parsed` tells whether this one wrote it).
`FilesRestored` asked whether a command was calm after its end, when that is forgotten; it now asks
before, of every command that ends, well or not, whose own edits went through. The work lists of a transfer
are sets, as the loops' order within a kind decides nothing. The values an
instance had been given as literals are constants of the modules, with a named assumption.

**DeploymentsProofs** is about two components. Of a Deployment and its file it has `Typing`,
`OneOption`, `RoundTrip` and `TakesEffect`. `Sound` says what the
constants are: kinds are kinds, what is absent or not sent is nothing else, every set of pools has a first
one and every set of queues a last. It is an assumption of each theorem, and `MCDeployments` has TLC check it of
the run's. That a Deployment stays `Held` is the larger part: for each of the requests, its
fields are what a request may hold (`Request`), an executor comes with it, and the sizes of task pods do
where they are needed; `StoredHeld` does the rest. The first two properties then go field by field. `RoundTrip` needs one
fact more, `AsInspected`: a file nobody edited is what inspect wrote, or a template, which no
update accepts.

`TakesEffect` (`FileTakesEffect`) needs to know what a file that is silent can be silent about.
`SuitInv`: a Deployment has what its type has (`Suits`), a file no more than that (`FileSuits`), and
a file that names no node pool or no storage is of a Deployment in the first pool or in none, without storage
there (`Along`): each option and each update by file keeps this, though they move pools and drop storage.
A lemma for each kind of data says that what the server makes of the file's request shows as the file again:
`QueuesTold` through worker types and node pools, `VariableTold` through secrets without
values, `NodePoolOf` for the pool a type is looked up as. `FileTells` takes an update of any
Deployment field by field (`Told`). A create is what it makes of nothing (`Made`) and, where
variables or addresses follow, an update of that (`CreateTells`).

Of the commands of several admins it has `QueuesFit`, `OnlyAsked` and `Done`. `Deps!Sound` says what their
constants are: fields and values are apart, what is absent or not given is nothing else, a
file's fields hold what such a field holds; TLC checks it of the run's. Their invariant is `DepsInv`. `DepInv`: a
Deployment's queues fit its executor (`Fits`) and no masked value is stored. `Places`: which kind
of command is at which call. `Agrees`: what a command would send back is what it would plan of the
Deployment as it is now (`Plan`), except for what is in `raced`; of a variable or queue command that is its list after
the first read and everything after the second. `HasAsked`: its list has what the user gave. `StepKeeps`
says once what a step must leave to the commands of others, which is that `raced` grows by every field
it changes, and each action is then about its own command. `RequestSent` shows that every write,
filled from a read or from a file, is one the API takes and names an executor (`Sent`); `ApplyAfter`
says field by field what comes of it (`After`), and `AfterFits` that this fits. That makes
`QueuesFit`, whatever the executor was when the queues were read. `OnlyAsked` takes a write and asks of a field that
changed why it did: a lemma each for what a file leaves out, a variable, a queue and the
rest. `Done` needs `HasAsked`, since a command's own read lies between its edit and its write.

**Only model-checked:** `CallsReturn`, `CommandsEnd`, `StopsEnd` and `ListsAll`. They are
liveness under weak fairness, whose proof needs ENABLED, which is out of the prover's reach.
`Listing` has no theorem for that reason. Every other property of a passing
run has a theorem. What a recursive definition computes would
need induction over data, which the prover cannot do with the library's theorems: where
a model takes a list apart, it does so with sets and counts, and modules with theorems have no RECURSIVE operators.

## 6. What is not modelled

`PROJECT.json` says so for each component. In short: the handler's header rewriting and
cache (the cache maps a port to a proxy that is always the same), ports (random
choice without reservation, which the code documents), the Windows lock, exec, pytest, logs
and settings of standalone Airflow, the project configuration file (the same save as the
home file, with no migration), commands that only show or run something in a container, a compose file of the user's own
(`--compose-file`, `docker.go:354`, which skips the Postgres probe and the template), of
deploys the client images, of Private Cloud everything but its deploys, the Git metadata and the wait for a
healthy deployment (it only watches), of Deployments the prompts and the checks of sizes
against the API's limits, invitations and custom roles, and what the plan
below has left. Generated clients, printing, telemetry and mocks are left out for good.

## 7. Plan

1. *Done:* the registry with its abstract table, the daemon, the secret, standalone
   Airflow, the configuration and the session, Docker projects, Airflow objects and upgrade
   tests, deploys to Astro and to a Private Cloud, the Cosmos Boost step, the Otto binary, Deployments and their files, queues, lists, access and environment objects.
2. Houston's Deployments, teams and users, which go the way of `AccessManagement`; client
   image deploys.
3. `Ide` (a project and its session), the OpenAPI cache; runtime
   versions as pure operators against a reference order.

Theorems to come: those of the modules that are still to be written.
