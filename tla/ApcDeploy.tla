----------------------------- MODULE ApcDeploy -----------------------------
(***************************************************************************)
(* Deploys to Astro Private Cloud (src/apc/deploy, src/cmd/apc/deploy.go)  *)
(* with the upload they retry (src/pkg/fileutil): an image is built, named *)
(* after a tag, pushed, and made the Deployment's; then the DAGs are       *)
(* packed into a file of the checkout and posted to the Deployment's DAG   *)
(* server, up to MaxTries times.                                           *)
(*                                                                         *)
(* Commands of one machine share its images, under the Deployment's name   *)
(* and under the name that is pushed, and the packed files of a checkout.  *)
(* A platform has a registry of its own, and takes what is pushed under a  *)
(* Deployment's next tag, or the customer's (BYO), and is told.            *)
(*                                                                         *)
(* Houston, the registries and the DAG servers are external.               *)
(***************************************************************************)
EXTENDS Naturals, FiniteSets

CONSTANTS
    Cli, Deployment, Checkout,
    TakesDags,          \* the Deployments that DAGs can be deployed to alone
    ImageBased,         \* those whose DAGs are the image's
    Custom,             \* images built elsewhere: [name, tag]
    Asked,              \* what is asked for: [kind, d, w, custom]
    Together,           \* bound: what may be asked of two commands at once
    Platforms,          \* [byo, dagDeploys]
    None,
    Empty,              \* a file with nothing in it
    MaxTries,           \* of an upload
    MaxCommands, MaxKills, MaxEdits, MaxTime   \* bounds

Kinds == {"full", "image", "dags", "remote"}

\* What can be asked for, and that an empty file is not none.
Sound ==
    /\ IsFiniteSet(Cli) /\ MaxCommands \in Nat /\ MaxTime \in Nat /\ MaxEdits \in Nat
    /\ Asked \subseteq [kind : Kinds, d : Deployment, w : Checkout, custom : Custom \union {None}]
    /\ Empty # None

VARIABLES
    byo, dagDeploys,    \* of the platform: BYORegistryEnabled, DagOnlyDeployment
    dep,                \* dep[d]: image, version, next tag and DAGs of d
    registry,           \* registry[r]: what is pushed under r
    latest,             \* latest[d]: the image d's deploys build and name
    tagged,             \* tagged[r]: the image named r on the machine
    code, tar, gz,      \* of each checkout: its edits, dags.tar, dags.tar.gz
    minute,
    pc, run,            \* of each terminal: the next step, its deploy
    raced,              \* raced[c]: what others have touched meanwhile
    begun, kills

local == <<latest, tagged, code, tar, gz>>
platform == <<byo, dagDeploys, dep, registry>>
bounds == <<begun, kills>>
vars == <<platform, local, minute, pc, run, raced, bounds>>

\* What an image or a packed file holds: a checkout as of an edit, or a
\* custom image.  A version is as good as a name for it.
Made == [of : Checkout, edit : 0..MaxEdits]
Image == Made \union Custom

\* A name that is pushed: of a Deployment under a counter or the minute, or
\* under a tag alone.
Ref == [of : Deployment, tag : 0..(MaxCommands + MaxTime)]
       \union [of : {None}, tag : {i.tag : i \in Custom}]

\* spent: the file has been read to its end; lost: a connection failed.
NoRun == [kind |-> "full", d |-> None, w |-> None, custom |-> None, ref |-> None,
          own |-> None, dags |-> None, spent |-> FALSE, lost |-> FALSE, tries |-> 0]

Idle(c) == pc[c] \in {"idle", "done"}

Init ==
    /\ \E p \in Platforms : byo = p.byo /\ dagDeploys = p.dagDeploys
    /\ dep = [d \in Deployment |-> [image |-> None, version |-> None, next |-> 0,
                                    dags |-> None]]
    /\ registry = [r \in Ref |-> None]
    /\ latest = [d \in Deployment |-> None]
    /\ tagged = [r \in Ref |-> None]
    /\ code = [w \in Checkout |-> 0]
    /\ tar = [w \in Checkout |-> None] /\ gz = [w \in Checkout |-> None]
    /\ minute = 0
    /\ pc = [c \in Cli |-> "idle"] /\ run = [c \in Cli |-> NoRun]
    /\ raced = [c \in Cli |-> {}]
    /\ begun = 0 /\ kills = 0

-----------------------------------------------------------------------------
Goto(c, l) == pc' = [pc EXCEPT ![c] = l]
Set(c, j) == run' = [run EXCEPT ![c] = j]
End(c, l) == Goto(c, l) /\ Set(c, NoRun)

\* c's step touches these: the other commands under way have been raced.
Touch(c, things) ==
    raced' = [x \in Cli |-> IF pc'[x] \in {"idle", "done"} THEN {}
                           ELSE IF x = c THEN raced[x] ELSE raced[x] \union things]

Request(c) == [kind |-> run[c].kind, d |-> run[c].d, w |-> run[c].w,
               custom |-> run[c].custom]

\* deployAirflow: what flags, arguments and prompts come to.
Begin(c) ==
    /\ Idle(c) /\ begun < MaxCommands
    /\ \E q \in Asked :
          /\ \A x \in Cli : Idle(x) \/ {q, Request(x)} \subseteq Together
          /\ Set(c, [NoRun EXCEPT !.kind = q.kind, !.d = q.d, !.w = q.w,
                                   !.custom = q.custom])
          /\ Goto(c, IF q.kind \in {"dags", "remote"} THEN q.kind ELSE "info")
    /\ UNCHANGED raced
    /\ begun' = begun + 1
    /\ UNCHANGED <<platform, local, minute, kills>>

\* Airflow: the Deployment, the configuration of the platform, and the name
\* to push.  A custom image's tag replaces the Deployment's, name and all.
NextTag(d) == IF byo THEN minute ELSE dep[d].next
RefOf(d, i) ==
    IF i # None /\ i.tag # None THEN [of |-> None, tag |-> i.tag]
    ELSE [of |-> d, tag |-> NextTag(d)]

GetInfo(c) ==
    /\ pc[c] = "info"
    /\ ~(run[c].kind = "image" /\ run[c].d \in ImageBased)
    /\ Set(c, [run[c] EXCEPT !.ref = RefOf(run[c].d, run[c].custom)])
    /\ Goto(c, "build")
    /\ UNCHANGED <<platform, local, minute, raced, bounds>>

\* buildDockerImage, for the working directory or a custom image.
BuildImage(c) ==
    /\ pc[c] = "build"
    /\ LET j == run[c]
           i == IF j.custom # None THEN j.custom
                ELSE [of |-> j.w, edit |-> code[j.w]] IN
       /\ latest' = [latest EXCEPT ![j.d] = i]
       /\ Set(c, [j EXCEPT !.own = i])
    /\ Goto(c, "tag")
    /\ Touch(c, {<<"latest", run[c].d>>})
    /\ UNCHANGED <<platform, tagged, code, tar, gz, minute, bounds>>

\* Push: the image gets the name, the name is pushed, and is removed again.
TagImage(c) ==
    /\ pc[c] = "tag"
    /\ tagged' = [tagged EXCEPT ![run[c].ref] = latest[run[c].d]]
    /\ Goto(c, "push")
    /\ Touch(c, {<<"tag", run[c].ref>>})
    /\ UNCHANGED <<platform, latest, code, tar, gz, minute, run, bounds>>

\* The platform makes what is pushed to its own registry under a Deployment's
\* name that Deployment's.
PushImage(c) ==
    /\ pc[c] = "push"
    /\ LET r == run[c].ref IN
       /\ tagged[r] # None
       /\ registry' = [registry EXCEPT ![r] = tagged[r]]
       /\ IF byo \/ r.of = None THEN UNCHANGED dep
          ELSE dep' = [dep EXCEPT ![r.of] =
                 [image |-> r, version |-> tagged[r], next |-> dep[r.of].next + 1,
                  dags |-> dep[r.of].dags]]
    /\ Goto(c, "untag")
    /\ Touch(c, {<<"tag", run[c].ref>>, <<"image", run[c].ref.of>>})
    /\ UNCHANGED <<byo, dagDeploys, local, minute, run, bounds>>

\* Without --image the DAGs follow.
AfterImage(c) ==
    IF run[c].kind = "image" THEN End(c, "done") ELSE Goto(c, "dags") /\ UNCHANGED run

UntagImage(c) ==
    /\ pc[c] = "untag"
    /\ tagged[run[c].ref] # None
    /\ tagged' = [tagged EXCEPT ![run[c].ref] = None]
    /\ IF byo THEN Goto(c, "update") /\ UNCHANGED run ELSE AfterImage(c)
    /\ Touch(c, {<<"tag", run[c].ref>>})
    /\ UNCHANGED <<platform, latest, code, tar, gz, minute, bounds>>

\* UpdateDeploymentImage, with the version on the label of the image that is
\* named the Deployment's by now; no label is no error.
UpdateImage(c) ==
    /\ pc[c] = "update"
    /\ \E v \in {latest[run[c].d], None} :
          dep' = [dep EXCEPT ![run[c].d].image = run[c].ref, ![run[c].d].version = v]
    /\ AfterImage(c)
    /\ Touch(c, {<<"image", run[c].d>>})
    /\ UNCHANGED <<byo, dagDeploys, registry, local, minute, bounds>>

\* --remote: an image that is on a registry already, its version as given.
UpdateRemote(c) ==
    /\ pc[c] = "remote"
    /\ LET i == run[c].custom IN
       dep' = [dep EXCEPT ![run[c].d].image = [of |-> None, tag |-> i.tag],
                          ![run[c].d].version = i]
    /\ End(c, "done") \/ (Goto(c, "dags") /\ UNCHANGED run)
    /\ Touch(c, {<<"image", run[c].d>>})
    /\ UNCHANGED <<byo, dagDeploys, registry, local, minute, bounds>>

-----------------------------------------------------------------------------
(* DagsOnlyDeploy.                                                         *)

\* Where DAGs cannot be deployed alone, a deploy of both is done.
CheckDags(c) ==
    /\ pc[c] = "dags"
    /\ IF dagDeploys /\ run[c].d \in TakesDags
       THEN Goto(c, "tar") /\ UNCHANGED run
       ELSE End(c, IF run[c].kind = "dags" THEN "idle" ELSE "done")
    /\ Touch(c, {})
    /\ UNCHANGED <<platform, local, minute, bounds>>

File(c) == <<"file", run[c].w>>

TarDags(c) ==
    /\ pc[c] = "tar"
    /\ LET w == run[c].w
           x == [of |-> w, edit |-> code[w]] IN
       /\ tar' = [tar EXCEPT ![w] = x]
       /\ Set(c, [run[c] EXCEPT !.dags = x])
    /\ Goto(c, "gzip")
    /\ Touch(c, {File(c)})
    /\ UNCHANGED <<platform, latest, tagged, code, gz, minute, bounds>>

\* GzipFile: dags.tar is opened, dags.tar.gz is made, and filled.
CreateGzip(c) ==
    /\ pc[c] = "gzip"
    /\ tar[run[c].w] # None
    /\ gz' = [gz EXCEPT ![run[c].w] = Empty]
    /\ Goto(c, "fill")
    /\ Touch(c, {File(c)})
    /\ UNCHANGED <<platform, latest, tagged, code, tar, minute, run, bounds>>

\* What who opened a file reads of it: what it is, or was before another made
\* it anew or removed it.
Opened(c, f) == {run[c].dags, f} \ {None}

FillGzip(c) ==
    /\ pc[c] = "fill"
    /\ LET w == run[c].w IN
       \E x \in Opened(c, tar[w]) :
          gz' = IF gz[w] = None THEN gz ELSE [gz EXCEPT ![w] = x]
    /\ Goto(c, "open")
    /\ Touch(c, {File(c)})
    /\ UNCHANGED <<platform, latest, tagged, code, tar, minute, run, bounds>>

OpenFile(c) ==
    /\ pc[c] = "open"
    /\ gz[run[c].w] # None
    /\ Goto(c, "upload")
    /\ UNCHANGED <<platform, local, minute, run, raced, bounds>>

\* What an attempt sends: the file from where the last one left it.
Bodies(c) == IF run[c].spent THEN {Empty} ELSE Opened(c, gz[run[c].w])

\* The deferred removals; of dags.tar.gz not before it is made.
Clean(c, made) ==
    /\ tar' = [tar EXCEPT ![run[c].w] = None]
    /\ gz' = IF made THEN [gz EXCEPT ![run[c].w] = None] ELSE gz
    /\ UNCHANGED <<latest, tagged, code>>

\* The DAG server takes what is sent, which others see.
Take(c) == \E b \in Bodies(c) : dep' = [dep EXCEPT ![run[c].d].dags = b]

\* 200.
UploadSucceeds(c) ==
    /\ pc[c] = "upload"
    /\ Take(c)
    /\ Clean(c, TRUE)
    /\ End(c, "done")
    /\ Touch(c, {<<"dags", run[c].d>>, File(c)})
    /\ UNCHANGED <<byo, dagDeploys, registry, minute, bounds>>

\* Whether the server has taken what it was sent or not: once more, unless
\* that was the last time.
Again(c, spent, lost) ==
    /\ Take(c) \/ UNCHANGED dep
    /\ IF run[c].tries + 1 = MaxTries
       THEN /\ Clean(c, TRUE)
            /\ End(c, "idle")
       ELSE /\ Set(c, [run[c] EXCEPT !.tries = @ + 1, !.spent = spent,
                                     !.lost = @ \/ lost])
            /\ UNCHANGED <<local, pc>>
    /\ Touch(c, {<<"dags", run[c].d>>, File(c)})
    /\ UNCHANGED <<byo, dagDeploys, registry, minute, bounds>>

\* Mutant: the file is not read from its start again.
FaultNoSeek(c) == pc[c] = "upload" /\ Again(c, TRUE, FALSE)

\* 500 and up, and what is neither 200 nor an error: the file is read from
\* its start again.
ServerFails(c) == pc[c] = "upload" /\ Again(c, FALSE, FALSE)

\* No connection, or no answer any more: it is not.
ConnectionFails(c) == pc[c] = "upload" /\ Again(c, TRUE, TRUE)

-----------------------------------------------------------------------------
(* What may go wrong, and what the user does meanwhile.                    *)

\* A call fails, a check does, the user says no.  A name that is to be
\* pushed, and the files a killed deploy left, stay.
Fail(c) ==
    /\ pc[c] \in {"info", "build", "tag", "push", "untag", "update", "remote", "dags", "tar"}
    /\ End(c, "idle")
    /\ Touch(c, {})
    /\ UNCHANGED <<platform, local, minute, bounds>>

\* 400 and up, or the files cannot be written or opened.
FailCleaning(c) ==
    /\ pc[c] \in {"gzip", "fill", "open", "upload"}
    /\ Clean(c, pc[c] \in {"open", "upload"})
    /\ End(c, "idle")
    /\ Touch(c, {File(c)})
    /\ UNCHANGED <<platform, minute, bounds>>

Killed(c) ==
    /\ ~Idle(c) /\ kills < MaxKills
    /\ kills' = kills + 1
    /\ End(c, "idle")
    /\ Touch(c, {})
    /\ UNCHANGED <<platform, local, minute, begun>>

Edit(w) ==
    /\ \E c \in Cli : ~Idle(c) /\ run[c].w = w
    /\ \A x \in Checkout : code[x] < MaxEdits
    /\ code' = [code EXCEPT ![w] = @ + 1]
    /\ UNCHANGED <<platform, latest, tagged, tar, gz, minute, pc, run, raced, bounds>>

\* (What passes once all have begun might as well have passed before.)
Tick ==
    /\ byo /\ minute < MaxTime /\ begun < MaxCommands
    /\ minute' = minute + 1
    /\ UNCHANGED <<platform, local, pc, run, raced, bounds>>

Next ==
    \/ \E c \in Cli :
          \/ Begin(c) \/ GetInfo(c) \/ BuildImage(c) \/ TagImage(c) \/ PushImage(c)
          \/ UntagImage(c) \/ UpdateImage(c) \/ UpdateRemote(c)
          \/ CheckDags(c) \/ TarDags(c) \/ CreateGzip(c) \/ FillGzip(c) \/ OpenFile(c)
          \/ UploadSucceeds(c) \/ ServerFails(c) \/ ConnectionFails(c)
          \/ Fail(c) \/ FailCleaning(c) \/ Killed(c)
    \/ \E w \in Checkout : Edit(w)
    \/ Tick

Spec == Init /\ [][Next]_vars

-----------------------------------------------------------------------------
(* Properties.                                                             *)

Labels == {"idle", "done", "info", "build", "tag", "push", "untag", "update", "remote",
           "dags", "tar", "gzip", "fill", "open", "upload"}

TypeOK ==
    /\ byo \in BOOLEAN /\ dagDeploys \in BOOLEAN
    /\ dep \in [Deployment -> [image : Ref \union {None}, version : Image \union {None},
                               next : 0..MaxCommands, dags : Made \union {None, Empty}]]
    /\ registry \in [Ref -> Image \union {None}]
    /\ latest \in [Deployment -> Image \union {None}]
    /\ tagged \in [Ref -> Image \union {None}]
    /\ code \in [Checkout -> 0..MaxEdits]
    /\ tar \in [Checkout -> Made \union {None}]
    /\ gz \in [Checkout -> Made \union {None, Empty}]
    /\ pc \in [Cli -> Labels]
    /\ \A c \in Cli : ~Idle(c) =>
          run[c].kind \in Kinds /\ run[c].d \in Deployment /\ run[c].w \in Checkout

\* Nobody has touched any of these since c began.
Alone(c, things) == raced[c] \intersect things = {}

\* The image of c's deploy is what its Deployment runs, under the version
\* that is on its label if it could be read.
ImageArrived(c) ==
    LET j == run[c]
        has == dep'[j.d] IN
    /\ has.image = j.ref
    /\ registry[j.ref] = j.own
    /\ has.version \in {j.own, None}

\* A deploy that reports success has put what it built where it was asked
\* to, and the DAGs of its checkout, whole, if the Deployment takes them:
\* whatever earlier deploys that failed or were killed have left on the
\* machine, and other deploys do meanwhile that share neither Deployment,
\* checkout nor the name that is pushed.  (A connection that fails is
\* excepted: what is sent then is what the attempt before left of the file.
\* So is a custom image on a platform that knows pushes by their names.)
DeployArrives ==
    [][\A c \in Cli :
         LET j == run[c] IN
         ~Idle(c) /\ pc'[c] = "done" =>
           /\ /\ j.kind \in {"full", "image"}
              /\ byo \/ j.ref.of # None
              /\ Alone(c, {<<"latest", j.d>>, <<"tag", j.ref>>, <<"image", j.d>>})
              => ImageArrived(c)
           /\ /\ j.kind \in {"full", "dags"} /\ dagDeploys /\ j.d \in TakesDags
              /\ ~j.lost /\ Alone(c, {<<"file", j.w>>, <<"dags", j.d>>})
              => dep'[j.d].dags \in Made /\ dep'[j.d].dags = j.dags]_vars
=============================================================================
