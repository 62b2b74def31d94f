---------------------------- MODULE Deployments ----------------------------
(***************************************************************************)
(* The commands that create, change and delete Astro Deployments:          *)
(* src/cloud/deployment with its variables, worker queues, hibernation     *)
(* overrides and Deployment files (fromfile).                              *)
(*                                                                         *)
(* The API takes a Deployment as a whole.  A command that changes one      *)
(* setting reads the Deployment, fills the request with what it read, and  *)
(* sends everything back.  The commands for variables and worker queues    *)
(* read twice: they edit the list of their first read and hand it to       *)
(* Update, which reads the rest again.  A command that has a Deployment    *)
(* file sends what the file says.                                          *)
(*                                                                         *)
(* The server's side is external: it is modelled as the CLI uses it.       *)
(***************************************************************************)
EXTENDS Naturals, FiniteSets

CONSTANTS
    Admin, Deployment,
    Hybrid,              \* the Deployments that run on the customer's cluster
    Dev,                 \* the Deployments in development mode
    Name, Key, Val, Queue, Size, Mail,
    Celery, Kubernetes,  \* the executors
    On, Off,
    DefaultQueue, DefaultSize,
    Hidden,              \* what the API shows of a secret's value
    None, Same,          \* nothing there; an option the user left out
    File,                \* the Deployment files the admins have
    MaxCommands          \* bound: commands begun in one behaviour

VARIABLES
    deps,                \* deps[d]: the Deployment d on the server
    pc, cmd,             \* the call admin a makes next, the command it runs
    seen,                \* seen[a]: the fields a's command would send back
    raced,               \* raced[a]: those others have changed since it read them
    begun                \* commands begun so far

vars == <<deps, pc, cmd, seen, raced, begun>>

Field == {"name", "executor", "dag", "mail"} \union Key \union Queue

Executor == {Celery, Kubernetes}
Variable == [val : Val, secret : BOOLEAN]

Blank == [x \in Field |-> None]
Nothing == [x \in Field |-> Same]
Only(x, v) == [Nothing EXCEPT ![x] = v]

-----------------------------------------------------------------------------
(* The commands: kind is the shape of their calls, d the Deployment they   *)
(* are for (a file's is found by its name), ask what they are to change.   *)

Command(kinds, ds, asks) == [kind : kinds, d : ds, ask : asks]

Update ==
    Command({"update"}, Deployment,
            {Only("name", n) : n \in Name} \union
            {Only("executor", e) : e \in Executor} \union
            {Only("dag", s) : s \in {On, Off}})

\* Nothing asked: every pair the user gave was malformed, which is printed
\* and changes nothing else about the command.
VariableModify ==
    Command({"varcreate", "varupdate"}, Deployment,
            {Nothing} \union {Only(k, v) : k \in Key, v \in Variable})

QueueCreateOrUpdate ==
    Command({"qcreate", "qupdate"}, Deployment,
            {Only(q, s) : q \in Queue, s \in Size})
QueueDelete ==
    Command({"qdelete"}, Deployment,
            {Only(q, None) : q \in Queue \ {DefaultQueue}})

DeleteDeployment == Command({"delete"}, Deployment, {Nothing})
HibernationOverride == Command({"hibernate", "wake"}, Deployment, {Nothing})

CreateDeployment ==
    Command({"create"}, {None},
            {[Nothing EXCEPT !["name"] = n, !["executor"] = e, !["dag"] = s] :
                n \in Name, e \in Executor, s \in {On, Off}})

\* checkRequiredFields: a name, an executor, and the default queue where there are any.
Complete(f) ==
    /\ f["name"] # Same /\ f["executor"] # Same
    /\ (\E q \in Queue : f[q] # Same) => f[DefaultQueue] # Same

\* A file is refused that is not complete, or has queues for Kubernetes.
FileFits(f) == Complete(f) /\ \A q \in Queue : f[q] # Same => f["executor"] # Kubernetes
CreateOrUpdate == Command({"filecreate", "fileupdate"}, {None}, {f \in File : FileFits(f)})

Commands ==
    UNION {Update, VariableModify, QueueCreateOrUpdate, QueueDelete,
           DeleteDeployment, HibernationOverride, CreateDeployment,
           CreateOrUpdate}

VariableKinds == {"varcreate", "varupdate"}
QueueKinds == {"qcreate", "qupdate", "qdelete"}
FileKinds == {"filecreate", "fileupdate"}
OverrideKinds == {"hibernate", "wake"}

\* The list a command has from its first read, which Update does not read again.
Planned(c) ==
    IF c.kind \in VariableKinds THEN Key
    ELSE IF c.kind \in QueueKinds THEN Queue ELSE {}

-----------------------------------------------------------------------------
(* What the API shows, and what it makes of a request.                     *)

\* The value of a secret is never shown.
Shown(f) ==
    [x \in Field |->
        IF x \in Key /\ f[x] # None /\ f[x].secret THEN [f[x] EXCEPT !.val = Hidden]
        ELSE f[x]]

\* Mutant: the masked value is stored.
ResolveMasked(new, old) == new

\* A variable sent without a value keeps the one it has.
Resolve(new, old) ==
    IF new # None /\ new.val = Hidden THEN [new EXCEPT !.val = old.val] ELSE new

\* A secret that is new to the Deployment cannot be sent without a value.
Accepted(r, f) ==
    \A k \in Key : r[k] # None /\ r[k].val = Hidden => f[k] # None

\* The queues after a request: the ones it lists; without a list the ones
\* that are there, none for Kubernetes; the default one if Celery has none.
Queues(r, f) ==
    LET kept == [q \in Queue |->
                   IF r[q] # Same THEN r[q]
                   ELSE IF r["executor"] = Kubernetes THEN None ELSE f[q]] IN
    IF r["executor"] = Celery /\ \A q \in Queue : kept[q] = None
    THEN [kept EXCEPT ![DefaultQueue] = DefaultSize]
    ELSE kept

\* What is not in the request (Same) stays.
Apply(r, f) ==
    LET qs == Queues(r, f) IN
    [x \in Field |->
        IF x \in Key THEN Resolve(r[x], f[x])
        ELSE IF x \in Queue THEN qs[x]
        ELSE IF r[x] = Same THEN f[x] ELSE r[x]]

-----------------------------------------------------------------------------
(* The requests.                                                           *)

\* Mutant: update takes the --secret flag as it is given.
AddVariableOpen(c, f, k) ==
    IF c.ask[k] = Same \/ (f[k] # None /\ c.kind = "varcreate") THEN f[k]
    ELSE c.ask[k]

\* addVariable: create leaves a key that is there, update replaces it, and
\* what is secret stays so.
AddVariable(c, f, k) ==
    IF c.ask[k] = Same \/ (f[k] # None /\ c.kind = "varcreate") THEN f[k]
    ELSE [c.ask[k] EXCEPT !.secret = @ \/ (f[k] # None /\ f[k].secret)]

\* The list with the queue created, updated or left out.
EditQueue(c, f, q) == IF c.ask[q] = Same THEN f[q] ELSE c.ask[q]

\* The tests the queue commands make on what they read first.
QueueMayChange(c, d, f) ==
    \A q \in Queue : c.ask[q] # Same =>
        IF c.kind = "qcreate" THEN f[q] = None ELSE f[q] # None
QueueSupported(c, d, f) ==
    c.kind = "qdelete" \/ f["executor"] = Celery \/ d \in Hybrid

\* What the command would send back of what it read first.
Plan(c, f) ==
    [x \in Field |->
        IF x \in Key /\ c.kind \in VariableKinds THEN AddVariable(c, f, x)
        ELSE IF x \in Queue /\ c.kind \in QueueKinds THEN EditQueue(c, f, x)
        ELSE f[x]]

\* Mutant: the queues go along whatever the executor.
QueuesAnyExecutor(c, d, old, x, v) == v

\* updateWorkerQueuesForExecutor: Kubernetes has no queues.  A hybrid
\* Deployment that leaves Kubernetes is sent the default queue, a hosted
\* one an empty list.
QueuesForExecutor(c, d, old, x, v) ==
    IF c.ask["executor"] = Kubernetes \/ (c.ask["executor"] = Same /\ old = Kubernetes)
    THEN Same
    ELSE IF d \in Hybrid /\ old = Kubernetes /\ v = None /\ x = DefaultQueue
    THEN DefaultSize ELSE v

\* Mutant: Dag deploys are switched off where the option is not given.
FilledDagOff(c, d, f) ==
    [x \in Field |->
        IF x \in Queue THEN QueuesForExecutor(c, d, f["executor"], x, f[x])
        ELSE IF x = "mail" THEN Same
        ELSE IF x = "dag" THEN (IF c.ask[x] = On THEN On ELSE Off)
        ELSE IF x \in Key \/ c.ask[x] = Same THEN f[x] ELSE c.ask[x]]

\* Update: what the user gave, and for the rest what was read.  The
\* contacts' addresses are not part of this request, and stay.
Filled(c, d, f) ==
    [x \in Field |->
        IF x \in Queue THEN QueuesForExecutor(c, d, f["executor"], x, f[x])
        ELSE IF x = "mail" THEN Same
        ELSE IF x \in Key \/ c.ask[x] = Same THEN f[x] ELSE c.ask[x]]

\* What a file removes by leaving it out.
Removed(c) ==
    Key \union (IF \E q \in Queue : c.ask[q] # Same THEN Queue ELSE {})

\* createOrUpdateDeployment: what the file says.  Variables it does not
\* name are removed, and so are queues once it names one.
FromFile(c, f) ==
    [x \in Field |->
        IF x = "dag" /\ c.ask[x] = Same THEN f[x]
        ELSE IF c.ask[x] = Same /\ x \in Removed(c) THEN None ELSE c.ask[x]]

Request(c, d, f) == IF c.kind \in FileKinds THEN FromFile(c, f) ELSE Filled(c, d, f)

\* Dag deploys that are already as asked end the command.
AlreadyDag(c, f) == c.kind = "update" /\ c.ask["dag"] # Same /\ c.ask["dag"] = f["dag"]

\* Mutant: the creation of a Deployment is all a file is for.
NoSecondCall(c) == FALSE

\* hasEnvVarsOrAlertEmails: the create call takes neither variables nor
\* addresses, so an update follows it.
NeedsUpdate(c) ==
    c.kind = "filecreate" /\ (c.ask["mail"] # Same \/ \E k \in Key : c.ask[k] # Same)

-----------------------------------------------------------------------------
Live == {d \in Deployment : deps[d].life = "live"}
Named(n) == {d \in Live : deps[d].f["name"] = n}

\* What a command knows of the Deployment is out of date where it changed.
Knows(b, d) == cmd[b] # None /\ cmd[b].d = d /\ pc[b] \in {"read", "write"}

Resting(a) == pc[a] \in {"idle", "done"}

\* The command ends, done or not, and forgets what it knew.
End(a, l) ==
    /\ pc' = [pc EXCEPT ![a] = l]
    /\ cmd' = [cmd EXCEPT ![a] = None]
    /\ seen' = [seen EXCEPT ![a] = Blank]

\* What a Deployment was made from.
Bare(n, e) == [Blank EXCEPT !["name"] = n, !["executor"] = e, !["dag"] = Off]

Init ==
    /\ deps \in [Deployment ->
          {[life |-> l, override |-> None, f |-> Apply(Bare(n, e), Blank)] :
              l \in {"unborn", "live"}, n \in Name, e \in Executor}]
    /\ pc = [a \in Admin |-> "idle"]
    /\ cmd = [a \in Admin |-> None]
    /\ seen = [a \in Admin |-> Blank]
    /\ raced = [a \in Admin |-> {}]
    /\ begun = 0

\* The first call of a command.
FirstCall(c) ==
    IF c.kind = "create" THEN "create"
    ELSE IF c.kind \in FileKinds THEN "list"
    ELSE IF c.kind \in VariableKinds \union QueueKinds THEN "plan" ELSE "read"

Begin(a) ==
    /\ Resting(a) /\ begun < MaxCommands
    /\ \E c \in Commands :
          /\ pc' = [pc EXCEPT ![a] = FirstCall(c)]
          /\ cmd' = [cmd EXCEPT ![a] = c]
    /\ begun' = begun + 1
    /\ UNCHANGED <<deps, seen, raced>>

\* The first read of a variable or queue command, and its edit.
PlanList(a) ==
    /\ pc[a] = "plan"
    /\ LET c == cmd[a]
           f == Shown(deps[c.d].f) IN
       /\ c.d \in Live
       /\ c.kind \in QueueKinds => QueueMayChange(c, c.d, f) /\ QueueSupported(c, c.d, f)
       /\ seen' = [seen EXCEPT ![a] = Plan(c, f)]
    /\ pc' = [pc EXCEPT ![a] = "read"]
    /\ UNCHANGED <<deps, cmd, raced, begun>>

\* GetDeployment: the Deployment as it is now, but for the list that is
\* planned already.  An empty list is not a plan: Update takes it for none.
Read(a) ==
    /\ pc[a] = "read"
    /\ LET c == cmd[a]
           f == Shown(deps[c.d].f)
           kept == IF \E x \in Planned(c) : seen[a][x] # None THEN Planned(c) ELSE {}
           l == IF c.kind = "delete" THEN "delete"
                ELSE IF c.kind \in OverrideKinds THEN "override" ELSE "write" IN
       /\ c.d \in Live /\ ~AlreadyDag(c, f)
       /\ c.kind \in OverrideKinds => c.d \in Dev
       /\ pc' = [pc EXCEPT ![a] = l]
       /\ seen' = [seen EXCEPT ![a] =
             [x \in Field |-> IF x \in kept THEN seen[a][x] ELSE f[x]]]
       /\ raced' = [raced EXCEPT ![a] = @ \intersect kept]
    /\ UNCHANGED <<deps, cmd, begun>>

\* The command ends: a test fails, nothing is to be done, the user says no
\* when asked, a call fails, a Deployment does not get healthy in time.
Stop(a) ==
    /\ ~Resting(a)
    /\ End(a, "idle")
    /\ raced' = [raced EXCEPT ![a] = {}]
    /\ UNCHANGED <<deps, begun>>

\* CoreUpdateDeployment.
Write(a) ==
    /\ pc[a] = "write"
    /\ LET c == cmd[a]
           r == Request(c, c.d, seen[a])
           f == deps[c.d].f
           g == Apply(r, f) IN
       /\ c.d \in Live /\ Accepted(r, f)
       /\ deps' = [deps EXCEPT ![c.d].f = g]
       /\ raced' = [b \in Admin |->
             IF b = a THEN {}
             ELSE IF Knows(b, c.d) THEN raced[b] \union {x \in Field : f[x] # g[x]}
             ELSE raced[b]]
    /\ End(a, "done")
    /\ UNCHANGED begun

\* A Deployment file names its Deployment: create wants none of that name,
\* update exactly one.
List(a) ==
    /\ pc[a] = "list"
    /\ LET c == cmd[a]
           ds == Named(c.ask["name"]) IN
       IF c.kind = "filecreate"
       THEN ds = {} /\ pc' = [pc EXCEPT ![a] = "create"] /\ cmd' = cmd
       ELSE \E d \in ds :
            /\ ds = {d}
            /\ pc' = [pc EXCEPT ![a] = "read"]
            /\ cmd' = [cmd EXCEPT ![a].d = d]
    /\ UNCHANGED <<deps, seen, raced, begun>>

\* What is created: all that is asked but the variables and the addresses, with Dag
\* deploys where a file does not speak of them and the Organization is hosted.
Creation(c, d) ==
    [x \in Field |->
        IF x = "dag" /\ c.ask[x] = Same THEN (IF d \in Hybrid THEN Off ELSE On)
        ELSE IF x \in Key \union {"mail"} \/ c.ask[x] = Same THEN None
        ELSE c.ask[x]]

\* CoreCreateDeployment.
Create(a) ==
    /\ pc[a] = "create"
    /\ LET c == cmd[a] IN
       /\ \E d \in Deployment :
             /\ deps[d].life = "unborn"
             /\ deps' = [deps EXCEPT ![d] =
                   [life |-> "live", override |-> None, f |-> Apply(Creation(c, d), Blank)]]
       /\ IF NeedsUpdate(c)
          THEN pc' = [pc EXCEPT ![a] = "wait"] /\ UNCHANGED <<cmd, seen>>
          ELSE End(a, "done")
    /\ UNCHANGED <<raced, begun>>

\* HealthPoll (--wait), and the list of Deployments as it is then.
Relist(a) ==
    /\ pc[a] = "wait"
    /\ \E d \in Deployment :
          /\ Named(cmd[a].ask["name"]) = {d}
          /\ cmd' = [cmd EXCEPT ![a].d = d]
    /\ pc' = [pc EXCEPT ![a] = "read"]
    /\ UNCHANGED <<deps, seen, raced, begun>>

\* CoreDeleteDeployment.
Delete(a) ==
    /\ pc[a] = "delete" /\ cmd[a].d \in Live
    /\ deps' = [deps EXCEPT ![cmd[a].d].life = "gone"]
    /\ raced' = [raced EXCEPT ![a] = {}]
    /\ End(a, "done")
    /\ UNCHANGED begun

\* CoreUpdateDeploymentHibernationOverride and its Delete.
Override(a) ==
    /\ pc[a] = "override" /\ cmd[a].d \in Live
    /\ deps' = [deps EXCEPT ![cmd[a].d].override =
                   IF cmd[a].kind = "hibernate" THEN On ELSE None]
    /\ raced' = [raced EXCEPT ![a] = {}]
    /\ End(a, "done")
    /\ UNCHANGED begun

Next ==
    \E a \in Admin :
        \/ Begin(a) \/ PlanList(a) \/ Read(a) \/ Stop(a) \/ Write(a)
        \/ List(a) \/ Create(a) \/ Relist(a) \/ Delete(a) \/ Override(a)

Spec == Init /\ [][Next]_vars

-----------------------------------------------------------------------------
(* Properties.                                                             *)

VariableShown == [val : Val \union {Hidden}, secret : BOOLEAN]
Values(x) ==
    IF x = "name" THEN Name ELSE IF x = "executor" THEN Executor
    ELSE IF x = "dag" THEN {On, Off} ELSE IF x = "mail" THEN Mail
    ELSE IF x \in Key THEN VariableShown ELSE Size
Fields(f) == DOMAIN f = Field /\ \A x \in Field : f[x] \in Values(x) \union {None}

TypeOK ==
    /\ \A d \in Deployment :
          /\ deps[d].life \in {"unborn", "live", "gone"}
          /\ deps[d].override \in {On, None}
          /\ Fields(deps[d].f)
          /\ \A k \in Key : deps[d].f[k] \in Variable \union {None}
    /\ \A a \in Admin :
          /\ pc[a] \in {"idle", "done", "plan", "read", "write", "list", "create", "wait",
                        "delete", "override"}
          /\ Resting(a) <=> (cmd[a] = None)
          /\ pc[a] \in {"plan", "read", "write", "delete", "override"} =>
                cmd[a].d \in Deployment
          /\ Fields(seen[a])
          /\ raced[a] \subseteq Field
    /\ begun \in 0..MaxCommands

\* The commands, and those with a file that have found their Deployment.
Begun == Commands \union {[c EXCEPT !.d = d] : c \in CreateOrUpdate, d \in Deployment}

\* What the constants are: fields and values are apart, and nothing is what is not
\* there.
Sound ==
    /\ {"name", "executor", "dag", "mail"} \intersect (Key \union Queue) = {}
    /\ Key \intersect Queue = {}
    /\ Celery # Kubernetes /\ None # Same /\ Hidden \notin Val
    /\ {None, Same} \intersect
         (Name \union Executor \union {On, Off} \union Mail \union Size \union VariableShown) = {}
    /\ None \notin Begun
    /\ DefaultQueue \in Queue /\ DefaultSize \in Size
    /\ \A f \in File :
          /\ \A x \in Field : f[x] \in Values(x) \union {Same}
          /\ \A k \in Key : f[k] \in Variable \union {Same}

\* Kubernetes runs every task in a pod of its own: a Deployment with that
\* executor has no worker queues, even when a queue command read it while it
\* ran Celery and hands its list to an Update that reads Kubernetes.  One
\* with Celery is never left without any.
QueuesFitExecutor ==
    \A d \in Live :
        IF deps[d].f["executor"] = Kubernetes
        THEN \A q \in Queue : deps[d].f[q] = None
        ELSE \E q \in Queue : deps[d].f[q] # None

Moves(a) == pc'[a] # pc[a]

\* The variable x of d is secret no more.
Shows(d, x) == x \in Key /\ deps[d].f[x] # None /\ deps[d].f[x].secret
               /\ deps'[d].f[x] # None /\ ~deps'[d].f[x].secret

\* A command changes what it was asked to change and leaves the rest of the
\* Deployment as it is, though it sends all of it.  The exceptions: queues
\* follow the executor, a file removes the variables and queues it does not
\* name, a Celery Deployment that has lost its default queue may get it back,
\* and a field another command has changed since this one read it goes back to
\* what was read.  To change a secret variable is not to show it: a
\* user "can't make them not secret" with the variable commands.
OnlyAskedOrRaced ==
    [][\A d \in Deployment, x \in Field :
         d \in Live /\ deps'[d].f[x] # deps[d].f[x] =>
           \E a \in Admin :
              /\ Moves(a) /\ cmd[a] # None /\ cmd[a].d = d
              /\ \/ /\ cmd[a].ask[x] # Same
                    /\ Shows(d, x) => cmd[a].kind \in FileKinds \/ x \in raced[a]
                 \/ cmd[a].kind \in FileKinds /\ x \in Removed(cmd[a])
                 \/ x \in Queue /\ deps'[d].f["executor"] # deps[d].f["executor"]
                 \/ x = DefaultQueue /\ deps[d].f[x] = None /\ deps'[d].f["executor"] = Celery
                 \/ /\ x \in raced[a]
                    /\ \/ x \in Queue
                       \/ deps'[d].f[x] =
                            (IF x \in Key THEN Resolve(seen[a][x], deps[d].f[x])
                             ELSE seen[a][x])]_vars

\* A command whose last call succeeds has done what it was asked: every
\* field it was given is as given (a variable create leaves what is there,
\* and a secret stays one), be it one call, or a create followed by an
\* update because create does not take all that a file may say.
\* A queue command that finds Kubernetes the second time has not, nor has
\* one that deletes the only queue, and both report that they have.
DoneAsAsked ==
    [][\A a \in Admin, d \in Deployment :
         /\ pc[a] \in {"write", "create"} /\ pc'[a] = "done"
         /\ IF pc[a] = "write" THEN d = cmd[a].d ELSE deps'[d] # deps[d]
         => \A x \in Field :
              LET v == cmd[a].ask[x]
                  new == deps'[d].f[x] IN
              \/ v = Same \/ new = v
              \/ /\ x \in Key /\ new # None
                 /\ cmd[a].kind = "varcreate" \/ (new.secret /\ new.val = v.val)
              \/ x \in Queue /\ deps'[d].f["executor"] = Kubernetes
              \/ cmd[a].kind = "qdelete" /\ seen[a][x] # None]_vars
=============================================================================
