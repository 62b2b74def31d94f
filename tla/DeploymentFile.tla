--------------------------- MODULE DeploymentFile ---------------------------
(***************************************************************************)
(* A Deployment as code: inspect writes a Deployment to a file, the user   *)
(* edits it, create or update takes it back (src/cloud/deployment/inspect  *)
(* and .../fromfile); update also takes single options (deployment.go).    *)
(*                                                                         *)
(* Each of the three types of Deployment has a request of its own, and     *)
(* each request has fields that are always sent and fields that may be     *)
(* left out.  Between the file and the request worker types become node    *)
(* pools, secrets lose their values and what is empty is left out.         *)
(*                                                                         *)
(* A command is one step here; what others do between its calls is the     *)
(* subject of Deployments.  The server's side is external.                 *)
(***************************************************************************)
EXTENDS Naturals, FiniteSetsExt

CONSTANTS
    Standard, Dedicated, Hybrid,   \* the types of Deployments
    Celery, Kubernetes, Astro,     \* the executors
    Val,                           \* what a plain setting may be
    Platform,                      \* the identity the platform gives by default
    Old, New,                      \* names
    Key,                           \* environment variables
    Queue, DefaultQueue,           \* queues: numbers in the order of their names
    Pool, TypeOf,                  \* the cluster's node pools 1..n; TypeOf[p]
    Hidden,                        \* what the API shows of a secret's value
    None, Omit,                    \* nothing there; not in the request
    Start,                         \* the Deployments to start from
    MaxOptions, MaxEdits           \* bounds

VARIABLES
    type,
    dep,         \* the Deployment on the server
    copy,        \* the one created from the file, or None
    keeps,       \* whether the server keeps a queue's storage that is not sent
    file,        \* the file, None before inspect
    asOf,        \* the Deployment as inspect saw it
    edited,      \* the fields the user has edited in the file
    shown,       \* inspect --show-workload-identity
    last,        \* the last command that changed something
    options, edits

vars == <<type, dep, copy, keeps, file, asOf, edited, shown, last, options, edits>>

\* "size" stands for all that every request states: the description, CI/CD
\* enforcement and the scheduler's size; "pod" for the sizes and quotas of
\* task pods; "pool" is where a hybrid Deployment runs Kubernetes' tasks.
Field ==
    {"name", "executor", "size", "dag", "ha", "dev", "pod", "identity", "remote",
     "env", "mail", "schedules", "queues", "pool"}

Executors == {Celery, Kubernetes} \union (IF type = Hybrid THEN {} ELSE {Astro})
NoQueues == [q \in Queue |-> None]
NoVariables == [k \in Key |-> None]
Nothing == [x \in Field |-> Omit]

\* What a Deployment or a file is made of.
Variable == [val : Val \union {Hidden}, secret : BOOLEAN]
Types == {TypeOf[p] : p \in Pool}
Machines == IF type = Hybrid THEN Pool ELSE Types
Workers(machines) == [machine : machines, disk : Val \union {None}]

\* A Deployment or a file of one, whose queues name their machines so.
Typed(d, machines) ==
    /\ d = [x \in Field |-> d[x]]
    /\ d["name"] \in {Old, New, None}
    /\ d["executor"] \in Executors
    /\ d["ha"] \in BOOLEAN /\ d["dev"] \in BOOLEAN
    /\ d["dag"] \in BOOLEAN \union {None}
    /\ d["env"] \in [Key -> Variable \union {None}]
    /\ d["queues"] \in [Queue -> Workers(machines) \union {None}]
    /\ d["pool"] \in machines \union {None}
    /\ \A x \in {"size", "pod", "identity", "remote", "mail", "schedules"} :
          d[x] \in Val \union {Platform, None}
    /\ d["remote"] # None => type = Dedicated

\* The constants are what their names say: kinds are kinds, what is not there
\* or not sent is nothing else, pools and queues are ordered.
Sound ==
    /\ Standard # Dedicated /\ Standard # Hybrid /\ Dedicated # Hybrid
    /\ Celery # Kubernetes /\ Celery # Astro /\ Kubernetes # Astro
    /\ None # Omit
    /\ \A x \in {None, Omit} :
          /\ x \notin Val \union {Platform} /\ x \notin {Old, New}
          /\ x \notin {Celery, Kubernetes, Astro} /\ x \notin BOOLEAN
          /\ x \notin Pool \union Types
          /\ x \notin [machine : Pool \union Types, disk : Val \union {None, Omit}]
          /\ x \notin Variable
    /\ Omit \notin [Queue -> [machine : Pool \union Types, disk : Val \union {None, Omit}]
                              \union {None}]
    /\ Omit \notin [Key -> Variable \union {None}]
    /\ Val # {} /\ 1 \in Pool /\ DefaultQueue \in Queue
    /\ MaxOptions \in Nat /\ MaxEdits \in Nat
    /\ \A S \in (SUBSET Pool) \ {{}} : \E m \in S : \A n \in S : m <= n
    /\ \A S \in (SUBSET Queue) \ {{}} : \E m \in S : \A n \in S : m >= n

-----------------------------------------------------------------------------
(* The server.                                                             *)

HasQueues(executor, remote) ==
    executor = Celery \/ (executor = Astro /\ remote = None)

\* A queue that is sent without its storage.
Storage(new, old) ==
    IF new = None \/ new.disk # Omit THEN new
    ELSE [new EXCEPT !.disk = IF keeps /\ old # None THEN old.disk ELSE None]

StoredQueues(sent, old) ==
    IF sent # Omit THEN [q \in Queue |-> Storage(sent[q], old[q])]
    ELSE IF old # NoQueues THEN old
    ELSE [old EXCEPT ![DefaultQueue] =
             [machine |-> IF type = Hybrid THEN 1 ELSE TypeOf[1], disk |-> None]]

\* A secret that is sent without a value keeps the one it has.
StoredVariable(new, old) ==
    IF new # None /\ old # None /\ new.val = Hidden THEN [new EXCEPT !.val = old.val] ELSE new

\* What is not in the request stays; queues and the node pool follow the
\* executor, schedules the development mode.
Stored(r, d) ==
    LET s == [x \in Field |-> IF r[x] = Omit THEN d[x] ELSE r[x]] IN
    [s EXCEPT
        !["env"] = [k \in Key |-> StoredVariable(s["env"][k], d["env"][k])],
        !["schedules"] = IF s["dev"] THEN @ ELSE None,
        !["pool"] = IF type = Hybrid /\ s["executor"] = Kubernetes THEN @ ELSE None,
        !["queues"] = IF HasQueues(s["executor"], s["remote"])
                      THEN StoredQueues(r["queues"], d["queues"]) ELSE NoQueues]

\* What the server sees to: queues are there for the executors that have
\* them, node pools for hybrid Kubernetes, schedules in development mode,
\* sizes of task pods unless tasks run elsewhere.
Held(d) ==
    /\ Typed(d, Machines)
    /\ HasQueues(d["executor"], d["remote"]) <=> d["queues"] # NoQueues
    /\ d["pool"] # None => type = Hybrid /\ d["executor"] = Kubernetes
    /\ ~d["dev"] => d["schedules"] = None
    /\ type # Hybrid /\ d["remote"] = None => d["pod"] # None

\* What a Deployment of its type has: a hybrid one no high availability, no
\* development mode and no storage for its queues, but a node pool for its
\* tasks with Kubernetes; no other has a node pool.
Suits(d) ==
    IF type = Hybrid
    THEN /\ ~d["ha"] /\ ~d["dev"]
         /\ d["executor"] = Kubernetes => d["pool"] # None
         /\ \A q \in Queue : d["queues"][q] # None => d["queues"][q].disk = None
    ELSE d["pool"] = None

Blank ==
    [x \in Field |->
        IF x = "queues" THEN NoQueues ELSE IF x = "env" THEN NoVariables
        ELSE IF x \in {"ha", "dev"} THEN FALSE ELSE None]

-----------------------------------------------------------------------------
(* inspect: what the file says of a Deployment.                            *)

\* getQMap: a hybrid Deployment's queue shows the type of its node pool.
PrintQueues(qs) ==
    [q \in Queue |->
        IF qs[q] = None \/ type # Hybrid THEN qs[q]
        ELSE [qs[q] EXCEPT !.machine = TypeOf[@]]]

\* getVariablesMap: "API only returns values when !isSecret".
PrintVariables(env) ==
    [k \in Key |->
        IF env[k] # None /\ env[k].secret THEN [env[k] EXCEPT !.val = Hidden] ELSE env[k]]

\* getDeploymentConfig: task pods are not shown of hybrid Deployments nor
\* with remote execution, and the identity only on request; then it is the
\* one in effect.
PrintConfig(d, show) ==
    [d EXCEPT
        !["identity"] = IF ~show THEN None ELSE IF @ = None THEN Platform ELSE @,
        !["pod"] = IF type = Hybrid \/ (type = Dedicated /\ d["remote"] # None)
                   THEN None ELSE @,
        !["pool"] = IF type = Standard \/ @ = None THEN None ELSE TypeOf[@],
        !["queues"] = PrintQueues(@),
        !["env"] = PrintVariables(@)]

\* getTemplate: without the name and the secrets.
Template(f) ==
    [f EXCEPT
        !["name"] = None,
        !["env"] = [k \in Key |-> IF @[k] # None /\ @[k].secret THEN None ELSE @[k]]]

-----------------------------------------------------------------------------
(* fromfile: the request a file makes.                                     *)

\* getNodePoolIDFromWorkerType: the cluster's first pool of that type.
NodePool(t) == IF t = None THEN 1 ELSE Min({p \in Pool : TypeOf[p] = t})

Listed(f) == {q \in Queue : f["queues"][q] # None}

\* Mutant: a file's queues are sent with the storage left out.
QueuesFromFileNoStorage(f) ==
    IF Listed(f) = {} THEN Omit
    ELSE [q \in Queue |->
            IF q \notin Listed(f) THEN None
            ELSE IF type = Hybrid
            THEN [machine |-> NodePool(f["queues"][Max(Listed(f))].machine), disk |-> Omit]
            ELSE [f["queues"][q] EXCEPT !.disk = Omit]]

\* getQueues and the lists made of it: none in the file, none sent.  The
\* queues of a hybrid Deployment share the pool that was looked up last, and
\* storage is sent where there is some.
QueuesFromFile(f) ==
    IF Listed(f) = {} THEN Omit
    ELSE [q \in Queue |->
            IF q \notin Listed(f) THEN None
            ELSE IF type = Hybrid
            THEN [machine |-> NodePool(f["queues"][Max(Listed(f))].machine), disk |-> Omit]
            ELSE [f["queues"][q] EXCEPT !.disk = IF @ = None THEN Omit ELSE @]]

OmitNone(v) == IF v = None THEN Omit ELSE v

\* checkRequiredFields, checkEnvVars: a name, the default queue if there are
\* any, none with Kubernetes, and a value for what is no secret; a create
\* needs the secrets' values too.
FileFits(f, action) ==
    /\ f["name"] # None /\ f["executor"] \in Executors
    /\ Listed(f) # {} => DefaultQueue \in Listed(f) /\ f["executor"] # Kubernetes
    /\ \A k \in Key :
          f["env"][k] # None /\ (action = "create" \/ ~f["env"][k].secret) =>
             f["env"][k].val # Hidden

\* CreateDefaultTaskPodCPU and its like: the default, but for remote execution.
PodForCreate(f) ==
    IF f["pod"] # None THEN f["pod"]
    ELSE IF f["remote"] # None THEN Omit ELSE CHOOSE v \in Val : TRUE

\* The create requests.  Variables and addresses are not part of them.  Dag
\* deploys default to on in an Organization that is hosted (IsOrgHosted),
\* which is one without hybrid Deployments.
CreateHybrid(f) ==
    [Nothing EXCEPT
        !["name"] = f["name"], !["executor"] = f["executor"], !["size"] = f["size"],
        !["dag"] = (f["dag"] = TRUE),
        !["identity"] = f["identity"], !["queues"] = QueuesFromFile(f),
        !["pool"] = IF f["executor"] = Kubernetes THEN NodePool(f["pool"]) ELSE Omit]

CreateStandard(f) ==
    [Nothing EXCEPT
        !["name"] = f["name"], !["executor"] = f["executor"], !["size"] = f["size"],
        !["dag"] = (f["dag"] # FALSE),
        !["ha"] = f["ha"], !["dev"] = f["dev"], !["pod"] = PodForCreate(f),
        !["identity"] = OmitNone(f["identity"]), !["queues"] = QueuesFromFile(f),
        !["schedules"] = IF f["dev"] THEN f["schedules"] ELSE Omit]

CreateDedicated(f) == [CreateStandard(f) EXCEPT !["remote"] = OmitNone(f["remote"])]

CreateRequest(f) ==
    IF type = Hybrid THEN CreateHybrid(f)
    ELSE IF type = Standard THEN CreateStandard(f) ELSE CreateDedicated(f)

\* What every update by file sends, and where the file is silent what the
\* Deployment has.  An empty list of addresses is sent as null.
UpdateFromFile(f, d) ==
    [Nothing EXCEPT
        !["name"] = f["name"], !["executor"] = f["executor"], !["size"] = f["size"],
        !["dag"] = IF f["dag"] = None THEN d["dag"] ELSE f["dag"],
        !["env"] = f["env"], !["mail"] = OmitNone(f["mail"]),
        !["queues"] = QueuesFromFile(f)]

\* A hybrid Deployment's identity is always sent.
UpdateHybridFromFile(f, d) ==
    [UpdateFromFile(f, d) EXCEPT
        !["identity"] = f["identity"],
        !["pool"] = IF f["executor"] = Kubernetes THEN NodePool(f["pool"]) ELSE Omit]

\* Mutant: an empty identity is sent as it is for hosted Deployments too.
UpdateStandardFromFileClears(f, d) ==
    [UpdateFromFile(f, d) EXCEPT
        !["ha"] = f["ha"],
        !["pod"] = IF f["pod"] = None THEN d["pod"] ELSE f["pod"],
        !["identity"] = f["identity"],
        !["schedules"] = IF d["dev"] THEN f["schedules"] ELSE Omit]

\* Development mode is not part of the update, schedules go by the one the
\* Deployment is in.
UpdateStandardFromFile(f, d) ==
    [UpdateFromFile(f, d) EXCEPT
        !["ha"] = f["ha"],
        !["pod"] = IF f["pod"] = None THEN d["pod"] ELSE f["pod"],
        !["identity"] = OmitNone(f["identity"]),
        !["schedules"] = IF d["dev"] THEN f["schedules"] ELSE Omit]

UpdateDedicatedFromFile(f, d) ==
    [UpdateStandardFromFile(f, d) EXCEPT
        !["remote"] = IF d["remote"] = None THEN Omit ELSE f["remote"]]

FileRequest(f, d) ==
    IF type = Hybrid THEN UpdateHybridFromFile(f, d)
    ELSE IF type = Standard THEN UpdateStandardFromFile(f, d)
    ELSE UpdateDedicatedFromFile(f, d)

-----------------------------------------------------------------------------
(* update with an option: the field x is to be v.                          *)

\* UpdateDefaultTaskPodCPU and its like.
PodForUpdate(d, x, v) ==
    IF x = "pod" THEN v
    ELSE IF d["pod"] # None THEN d["pod"]
    ELSE IF d["remote"] # None THEN Omit ELSE CHOOSE w \in Val : TRUE

\* The queues as they were read, without their storage; none is null.
QueuesAsRead(qs) ==
    IF qs = NoQueues THEN Omit
    ELSE [q \in Queue |-> IF qs[q] = None THEN None ELSE [qs[q] EXCEPT !.disk = Omit]]

\* What every update states: the option, or what was read.  The variables
\* are sent back as they were read.
UpdateWith(d, x, v) ==
    [y \in Field |->
        IF y \in {"name", "executor", "size", "dag"}
        THEN IF x = y THEN v ELSE d[y]
        ELSE IF y = "identity" /\ x = y THEN v
        ELSE IF y = "env" THEN PrintVariables(d[y])
        ELSE Omit]

\* Mutant: development mode is on only where the option says so.
UpdateHostedDevOff(d, x, v) ==
    [UpdateWith(d, x, v) EXCEPT
        !["ha"] = IF x = "ha" THEN v ELSE d["ha"],
        !["dev"] = (x = "dev" /\ v),
        !["pod"] = PodForUpdate(d, x, v),
        !["remote"] = IF d["remote"] = None THEN Omit
                      ELSE IF x = "remote" THEN v ELSE d["remote"]]

\* What standard and Dedicated Deployments are updated with.
UpdateHosted(d, x, v) ==
    [UpdateWith(d, x, v) EXCEPT
        !["ha"] = IF x = "ha" THEN v ELSE d["ha"],
        !["dev"] = IF x = "dev" THEN v ELSE d["dev"],
        !["pod"] = PodForUpdate(d, x, v),
        !["remote"] = IF d["remote"] = None THEN Omit
                      ELSE IF x = "remote" THEN v ELSE d["remote"]]

\* updateWorkerQueuesForExecutor, unless tasks run remotely.
QueuesForExecutor(d, executor) ==
    IF d["remote"] = None /\ executor = Kubernetes THEN Omit ELSE QueuesAsRead(d["queues"])

\* The queues go along.
UpdateDedicated(d, x, v) ==
    LET r == UpdateHosted(d, x, v) IN
    [r EXCEPT !["queues"] = QueuesForExecutor(d, r["executor"])]

\* "For KUBERNETES executor, WorkerQueues should be nil": tasks then run in
\* the cluster's first pool, or where they did.  The way back to Celery
\* starts with the default queue.
UpdateHybrid(d, x, v) ==
    LET r == UpdateWith(d, x, v) IN
    IF r["executor"] = Kubernetes
    THEN [r EXCEPT !["pool"] = IF d["executor"] = Celery THEN 1 ELSE d["pool"]]
    ELSE [r EXCEPT !["queues"] =
             IF d["executor"] = Kubernetes /\ d["queues"] = NoQueues
             THEN [NoQueues EXCEPT ![DefaultQueue] = [machine |-> 1, disk |-> Omit]]
             ELSE QueuesAsRead(d["queues"])]

OptionRequest(d, x, v) ==
    IF type = Hybrid THEN UpdateHybrid(d, x, v) ELSE UpdateDedicated(d, x, v)

-----------------------------------------------------------------------------
(* What the user may ask for and write.                                    *)

Plain(x) ==
    IF x = "executor" THEN Executors
    ELSE IF x \in {"dag", "ha", "dev"} THEN BOOLEAN ELSE Val

\* deploymentUpdate: the options that have an effect on this Deployment.
Option ==
    {"executor", "size", "dag", "identity"}
    \union (IF type = Hybrid THEN {} ELSE {"ha", "dev", "pod"})
    \union (IF dep["remote"] = None THEN {} ELSE {"remote"})

QueueEdits(qs) ==
    {NoQueues} \union {[qs EXCEPT ![q] = None] : q \in Queue}
    \union {[qs EXCEPT ![q].machine = TypeOf[p]] : q \in {r \in Queue : qs[r] # None}, p \in Pool}

Edits(x) ==
    IF x = "name" THEN {New}
    ELSE IF x = "queues" THEN QueueEdits(file[x])
    ELSE IF x = "pool" THEN {TypeOf[p] : p \in Pool}
    ELSE IF x = "env"
    THEN {NoVariables} \union
         {[k \in Key |-> [val |-> v, secret |-> s]] : v \in Val, s \in BOOLEAN}
    ELSE IF x \in {"executor", "size", "ha", "dev"} THEN Plain(x)
    ELSE Plain(x) \union {None}

Editable ==
    {"name", "executor", "size", "dag", "identity", "env", "mail", "queues"}
    \union (IF type = Hybrid THEN {"pool"} ELSE {"ha", "dev", "pod", "schedules"})
    \union (IF type = Dedicated THEN {"remote"} ELSE {})

-----------------------------------------------------------------------------
Quiet == [kind |-> "none", field |-> None]

Init ==
    /\ type \in {Standard, Dedicated, Hybrid}
    /\ \E s \in Start : type = s.type /\ dep = s.dep
    /\ Held(dep) /\ Suits(dep)
    /\ copy = None
    /\ keeps \in BOOLEAN
    /\ file = None /\ asOf = None /\ edited = {} /\ shown = FALSE
    /\ last = Quiet
    /\ options = 0 /\ edits = 0

Inspect ==
    /\ file = None
    /\ \E show, template \in BOOLEAN :
          /\ shown' = show
          /\ file' = IF template THEN Template(PrintConfig(dep, show))
                     ELSE PrintConfig(dep, show)
    /\ asOf' = dep
    /\ edited' = {}
    /\ last' = Quiet
    /\ UNCHANGED <<type, dep, copy, keeps, options, edits>>

Edit ==
    /\ file # None /\ edits < MaxEdits
    /\ \E x \in Editable :
          \E v \in Edits(x) \ {file[x]} :
             /\ file' = [file EXCEPT ![x] = v]
             /\ edited' = edited \union {x}
    /\ edits' = edits + 1
    /\ last' = Quiet
    /\ UNCHANGED <<type, dep, copy, keeps, asOf, shown, options>>

\* update --deployment-file.  With remote execution the file must speak of
\* it: the command dies where it does not.  A user without the right token
\* may cancel when CI/CD is enforced, which changes nothing.
UpdateByFile ==
    /\ file # None /\ FileFits(file, "update")
    /\ file["name"] = dep["name"]
    /\ type = Dedicated /\ dep["remote"] # None => file["remote"] # None
    /\ dep' = Stored(FileRequest(file, dep), dep)
    /\ last' = [kind |-> "file", field |-> None]
    /\ UNCHANGED <<type, copy, keeps, file, asOf, edited, shown, options, edits>>

\* create --deployment-file: variables and addresses follow in an update.
CreateByFile ==
    /\ file # None /\ copy = None /\ FileFits(file, "create")
    /\ file["name"] # dep["name"]
    /\ LET made == Stored(CreateRequest(file), Blank) IN
       copy' = IF file["env"] # NoVariables \/ file["mail"] # None
               THEN Stored(FileRequest(file, made), made) ELSE made
    /\ last' = [kind |-> "create", field |-> None]
    /\ UNCHANGED <<type, dep, keeps, file, asOf, edited, shown, options, edits>>

\* Dag deploys that are already as asked end the command; the server takes
\* no Deployment into development mode.
UpdateByOption ==
    /\ options < MaxOptions
    /\ \E x \in Option :
          \E v \in Plain(x) :
             /\ x = "dag" => v # dep["dag"]
             /\ x = "dev" /\ v => dep["dev"]
             /\ dep' = Stored(OptionRequest(dep, x, v), dep)
             /\ last' = [kind |-> "option", field |-> x]
    /\ options' = options + 1
    /\ UNCHANGED <<type, copy, keeps, file, asOf, edited, shown, edits>>

Next == Inspect \/ Edit \/ UpdateByFile \/ CreateByFile \/ UpdateByOption

Spec == Init /\ [][Next]_vars

-----------------------------------------------------------------------------
(* Properties.                                                             *)

TypeOK ==
    /\ type \in {Standard, Dedicated, Hybrid} /\ keeps \in BOOLEAN /\ shown \in BOOLEAN
    /\ Held(dep)
    /\ copy = None \/ Held(copy)
    /\ file = None \/ (Typed(file, Types) /\ Held(asOf))
    /\ edited \subseteq Field
    /\ last.kind \in {"none", "file", "create", "option"}
    /\ options \in 0..MaxOptions /\ edits \in 0..MaxEdits

\* What the file does not speak of in a command on d.
Silent(x, d, created) ==
    \/ x = "name"
    \/ x = "dev" /\ ~created
    \/ x \in {"mail", "dag", "pod"} /\ file[x] = None
    \/ x = "identity" /\ type # Hybrid /\ file[x] = None
    \/ x = "remote" /\ ~created /\ d[x] = None
    \/ x = "schedules" /\ ~d["dev"]
    \/ x = "queues" /\ Listed(file) = {}
    \/ x = "pool" /\ file[x] = None

\* Where a hybrid Deployment's queues are to run on different types of
\* workers they all run on one.
Mixed ==
    type = Hybrid /\ \E p, q \in Listed(file) :
                        file["queues"][p].machine # file["queues"][q].machine

\* d is as the file says, seen as inspect shows it.
Says(x, d) ==
    CASE x = "queues" -> HasQueues(d["executor"], d["remote"]) /\ ~Mixed =>
                            PrintQueues(d["queues"]) = file["queues"]
      [] x = "env" -> PrintVariables(d["env"]) = PrintVariables(file["env"])
      [] x = "pool" -> d["executor"] = Kubernetes => TypeOf[d["pool"]] = file["pool"]
      [] OTHER -> d[x] = file[x]

\* A Deployment is what its file says: after an update by file, inspect
\* shows the file again, whatever options were used since it was written;
\* what the file does not speak of stays, unless the executor moves it.  A
\* Deployment created from it is like the one it was written of.
FileTakesEffect ==
    [][/\ last'.kind = "file" =>
             \A x \in Field :
                IF Silent(x, dep, FALSE)
                THEN dep'[x] = dep[x]
                     \/ (x \in {"queues", "pool"} /\ dep'["executor"] # dep["executor"])
                ELSE Says(x, dep')
       /\ last'.kind = "create" =>
             \A x \in Field : Silent(x, copy', TRUE) \/ Says(x, copy')]_vars

\* A file given back as inspect wrote it changes nothing: secrets keep
\* their values, and where inspect does not show the identity it stays.  But
\* a hybrid Deployment loses the identity it was given; the platform's own
\* is pinned as if the user had given it when inspect was asked to show it;
\* and hybrid queues and tasks go to the first pool of their worker type,
\* or all to one.
RoundTripKeeps ==
    [][last'.kind = "file" /\ edited = {} /\ dep = asOf =>
          \A x \in Field :
             \/ dep'[x] = dep[x]
             \/ x = "identity" /\ type = Hybrid /\ ~shown /\ dep'[x] = None
             \/ x = "identity" /\ shown /\ dep[x] = None /\ dep'[x] = Platform
             \/ x \in {"pool", "queues"} /\ type = Hybrid]_vars

\* An update with one option changes that and nothing else, though it sends
\* everything: but queues and node pools follow the executor, schedules end
\* with the development mode, and a queue's storage is left out, which
\* keeps it only if the server does.
OnlyTheOption ==
    [][last'.kind = "option" =>
          \A x \in Field :
             \/ dep'[x] = dep[x]
             \/ x = last'.field
             \/ x \in {"queues", "pool"} /\ dep'["executor"] # dep["executor"]
             \/ x = "schedules" /\ last'.field = "dev"
             \/ /\ x = "queues" /\ ~keeps
                /\ \A q \in Queue :
                      dep[x][q] # None => dep'[x][q] = [dep[x][q] EXCEPT !.disk = None]]_vars
=============================================================================
