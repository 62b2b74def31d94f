--------------------------- MODULE MCDeployments ---------------------------
(* Deployments from two sides that share no state.  Either two admins with *)
(* four Deployment files run commands on two Deployments: d1, hosted and   *)
(* in development mode, is there from the start; d2, hybrid, is still to   *)
(* be created.  Or one Deployment of each type is inspected into a file,   *)
(* edited, and updated by the file or an option, or made again from it.    *)
EXTENDS DeploymentFile, TLC

CONSTANTS
    a1, a2, d1, d2, k1, v1, v2, wA, wB, q0, q1, s1, s2, m1,
    Admin, Deployment, OnCluster, DevMode, Names, WorkQueue, FirstQueue,
    Sizes, FirstSize, Mails, AdminFile, On, Off, Same, MaxCommands

VARIABLES moves, deps, pc, cmd, seen, raced, begun

-----------------------------------------------------------------------------
(* The commands of two admins.                                             *)

Contents(fields) ==
    [x \in {"name", "executor", "dag", "mail", k1, q0, q1} |->
        IF x \in DOMAIN fields THEN fields[x] ELSE Same]

FilesOfAdmins ==
    {Contents(("name" :> Old) @@ ("executor" :> Celery) @@ ("mail" :> m1)
              @@ (k1 :> [val |-> v2, secret |-> FALSE]) @@ (q0 :> s2)),
     Contents(("name" :> Old) @@ ("executor" :> Kubernetes) @@ ("dag" :> Off)),
     Contents(("name" :> New) @@ ("executor" :> Celery) @@ ("dag" :> On)
              @@ (k1 :> [val |-> v1, secret |-> TRUE])),
     Contents(("name" :> New) @@ ("executor" :> Kubernetes) @@ (q0 :> s1))}

Deps == INSTANCE Deployments WITH
    Hybrid <- OnCluster, Dev <- DevMode, Name <- Names, Queue <- WorkQueue,
    DefaultQueue <- FirstQueue, Size <- Sizes, DefaultSize <- FirstSize,
    Mail <- Mails, File <- AdminFile

-----------------------------------------------------------------------------
(* The Deployments to inspect: every setting made, or as few as can be.    *)

Rich(t, e, dev, re) ==
    [name |-> Old, executor |-> e, size |-> v1, dag |-> TRUE, ha |-> t # Hybrid,
     dev |-> dev, identity |-> v1, remote |-> re, mail |-> v1,
     pod |-> IF t = Hybrid \/ re # None THEN None ELSE v1,
     env |-> [k \in Key |-> [val |-> v1, secret |-> TRUE]],
     schedules |-> IF dev THEN v1 ELSE None,
     pool |-> IF t = Hybrid /\ e = Kubernetes THEN 3 ELSE None,
     queues |->
        [q \in Queue |->
            IF e = Kubernetes \/ (e = Astro /\ re # None) THEN None
            ELSE IF t = Hybrid THEN [machine |-> q + 1, disk |-> None]
            ELSE [machine |-> IF q = 1 THEN wA ELSE wB, disk |-> v1]]]
Poor(d) ==
    [d EXCEPT !.identity = None, !.mail = None, !.schedules = None,
              !.ha = FALSE, !.dag = FALSE, !.env[k1].secret = FALSE,
              !.queues[1] = IF @ = None THEN None ELSE [@ EXCEPT !.disk = None],
              !.queues[2] = None]
Hosted(t, remotes) ==
    {[type |-> t, dep |-> Rich(t, e, dev, re)] :
        e \in {Celery, Kubernetes, Astro}, dev \in BOOLEAN, re \in remotes}
RichOnes ==
    Hosted(Standard, {None}) \union Hosted(Dedicated, {None, v1})
    \union {[type |-> Hybrid, dep |-> Rich(Hybrid, e, FALSE, None)] :
                e \in {Celery, Kubernetes}}

MCStart == RichOnes \union {[type |-> s.type, dep |-> Poor(s.dep)] : s \in RichOnes}
MCTypeOf == <<wA, wB, wA>>

ASSUME FileSound == Sound
ASSUME CommandsSound == Deps!Sound

-----------------------------------------------------------------------------
depsVars == <<deps, pc, cmd, seen, raced, begun>>
allVars == <<moves, depsVars, vars>>

CommandsInit ==
    /\ Deps!Init
    /\ deps[d1].life = "live" /\ deps[d1].f["name"] = Old
    /\ deps[d2].life = "unborn" /\ deps[d2].f["name"] = Old
    /\ deps[d2].f["executor"] = Celery
    /\ moves = "file" => deps[d1].f["executor"] = Celery

FileInit ==
    IF moves = "file" THEN Init
    ELSE /\ type = Standard /\ dep = Rich(Standard, Astro, FALSE, None)
         /\ copy = None /\ keeps = FALSE /\ file = None /\ asOf = None
         /\ edited = {} /\ shown = FALSE /\ last = Quiet
         /\ options = 0 /\ edits = 0

MCInit == moves \in {"commands", "file"} /\ CommandsInit /\ FileInit

MCNext ==
    \/ moves = "commands" /\ Deps!Next /\ UNCHANGED <<moves, vars>>
    \/ moves = "file" /\ Next /\ UNCHANGED <<moves, depsVars>>

MCSpec == MCInit /\ [][MCNext]_allVars

Admins == Permutations(Admin)

\* What the run checks of the commands.
QueuesFitExecutor == Deps!QueuesFitExecutor
OnlyAskedOrRaced == Deps!OnlyAskedOrRaced
DoneAsAsked == Deps!DoneAsAsked
=============================================================================
