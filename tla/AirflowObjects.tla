--------------------------- MODULE AirflowObjects ---------------------------
(***************************************************************************)
(* Connections, variables and pools on their way between a settings file,  *)
(* a .env file and Airflows: src/settings, the Airflow REST client in      *)
(* src/airflow-client and the copies between Deployments in                *)
(* src/cloud/deployment/deployment_objects.go.                             *)
(*                                                                         *)
(* Every command takes its objects one by one, with a call for each and    *)
(* another when the object turns out to be there.  Terminals, and people   *)
(* in Airflow's own pages, do so at once; a call can fail after any other, *)
(* and a command can be killed while it rewrites a file.                   *)
(*                                                                         *)
(* What an object says is split by where it can go: main is what it has to *)
(* have (a variable's value, a pool's slots, a connection's type), rest is *)
(* what else a settings file can say of it, and hidden what only Airflow   *)
(* knows (a description, whether a pool counts deferred tasks).  A name    *)
(* stands once in a file.                                                  *)
(***************************************************************************)
EXTENDS Naturals

CONSTANTS
    Terminal,
    Local,            \* the Airflow of the project on this machine
    Remote,           \* the Airflows of Deployments
    DefaultPool, Pool, Variable, Connection,
    EnvConnection,    \* the connections a Workspace or Deployment defines
    Value, None,
    Asks,             \* the choices of kinds that commands are given
    EditTo,           \* what people make of an object by hand
    MaxCommands       \* bound: commands begun, and changes by hand

VARIABLES
    airflow,          \* airflow[a][o]: what Airflow a holds as o
    file,             \* file[o]: what the settings file says of o
    envFile,          \* envFile[o]: the last line for o in .env
    pc, job,          \* of each terminal: where its command is, and what it
                      \* knows
    raced,            \* raced[t]: the <<place, object>>s others have changed
                      \* since t's command began
    begun

vars == <<airflow, file, envFile, pc, job, raced, begun>>

Airflow == {Local} \union Remote
Pools == Pool \union {DefaultPool}
Object == Pools \union Variable \union Connection
Kinds == <<Pools, Variable, Connection>>   \* in the order they are taken
Maybe == Value \union {None}
Content == [main : Maybe, rest : Maybe, hidden : Maybe]
Entry == [main : Maybe, rest : Maybe]
Nothing == [o \in Object |-> None]

\* What the environment defines a connection to be.
EnvEntry == [main |-> CHOOSE v \in Value : TRUE, rest |-> None]

\* One object to be sent; an import takes the steps one after another, the
\* kinds of the file (1 to 3) and the environment's connections (4).
Item(i, o, e) == [step |-> i, o |-> o, e |-> e]

\* None is nothing else.  Variables have names of their own, and so has the
\* default pool; a command is given some kind, the environment defines
\* connections, and people leave what an object has to say.
Sound ==
    /\ None \notin Terminal
    /\ \A e \in Content \union Entry :
          None # e /\ \A i \in 1..4, o \in Object : None # Item(i, o, e)
    /\ Value # {}
    /\ EnvConnection \subseteq Connection
    /\ Pools \intersect (Variable \union Connection) = {}
    /\ Variable \intersect Connection = {} /\ DefaultPool \notin Pool
    /\ EditTo \subseteq Content
    /\ {} \notin Asks /\ \A k \in Asks : k \subseteq 1..3

\* A command: the items it has still to send, or the kinds to export; what
\* the file or the target held as it read them (mem); what it is to bring
\* there (want), and whether no kind has failed yet.
Idle == [kind |-> None, todo |-> {}, kinds |-> {}, mem |-> Nothing,
         want |-> Nothing, to |-> None, at |-> None, asked |-> {},
         ok |-> TRUE]

-----------------------------------------------------------------------------
(* What is sent and what it makes of the object.                           *)

\* The request that creates o in Airflow.
Created(kind, o, e) ==
    IF kind = "copy" THEN e
    ELSE [main |-> e.main, rest |-> IF o \in Variable THEN None ELSE e.rest,
          hidden |-> None]

\* Mutant: the request replaces the object.
FaultReplaces(kind, o, e, old) == Created(kind, o, e)

\* Mutant: an object that is there is taken for the one to be made.
FaultConflictIsFine(kind, o, e, old) == old

\* The request that updates it.  A variable's has its value alone, a
\* connection's the fields that are set, a pool's says it does not count
\* deferred tasks, and the default pool's description is masked out.
Updated(kind, o, e, old) ==
    IF kind = "copy"
    THEN IF o = DefaultPool THEN [e EXCEPT !.rest = old.rest] ELSE e
    ELSE IF o \in Pools
    THEN [main |-> e.main, hidden |-> None,
          rest |-> IF o = DefaultPool THEN old.rest ELSE e.rest]
    ELSE IF o \in Variable \/ e.rest = None THEN [old EXCEPT !.main = e.main]
    ELSE [old EXCEPT !.main = e.main, !.rest = e.rest]

\* What an export writes of what Airflow lists.
Exported(o, c) ==
    [main |-> c.main, rest |-> IF o \in Variable THEN None ELSE c.rest]

\* Of the pools only the default one is taken from the list.
Exports(o) == o \notin Pool

\* The entries an import does not skip: those with what they have to have.
Items(mem, i) ==
    {Item(i, o, mem[o]) : o \in {x \in Kinds[i] : mem[x] # None /\ mem[x].main # None}}

\* AppendEnvironmentConnections.
EnvItems(env) == {Item(4, o, EnvEntry) : o \in env}

First(S) == CHOOSE i \in S : \A k \in S : i <= k

-----------------------------------------------------------------------------
Init ==
    /\ airflow \in [Airflow -> [Object -> Content \union {None}]]
    /\ file \in [Object -> Entry \union {None}]
    /\ envFile = Nothing
    /\ pc = [t \in Terminal |-> "idle"]
    /\ job = [t \in Terminal |-> Idle]
    /\ raced = [t \in Terminal |-> {}]
    /\ begun = 0

Finished == {"idle", "done"}

Goto(t, l) == pc' = [pc EXCEPT ![t] = l]

\* Objects changed at a place, by t's command or (t = None) by hand.
Race(t, place, objects) ==
    raced' = [u \in Terminal |->
        IF u = t THEN raced[u] ELSE raced[u] \union ({place} \X objects)]

\* The command fails, or is killed.
GiveUp(t) ==
    /\ Goto(t, "idle")
    /\ job' = [job EXCEPT ![t] = Idle]
    /\ raced' = [raced EXCEPT ![t] = {}]

Begin(t, j, l) ==
    /\ pc[t] \in Finished /\ begun < MaxCommands
    /\ begun' = begun + 1
    /\ job' = [job EXCEPT ![t] = j]
    /\ raced' = [raced EXCEPT ![t] = {}]
    /\ Goto(t, l)
    /\ UNCHANGED <<airflow, file, envFile>>

\* InitSettings and the queue of ConfigSettings: `astro dev object import`,
\* and a start, which may have connections of the environment as well.  A
\* file it cannot read has nothing in it.
Import(t) ==
    \E k \in Asks, env \in SUBSET EnvConnection :
        LET items == UNION {Items(file, i) : i \in k}
            todo == items \union EnvItems(env)
            want == [o \in Object |-> IF o \in env THEN EnvEntry
                      ELSE IF \E x \in items : x.o = o THEN file[o] ELSE None] IN
        /\ env # {} => k = 1..3
        /\ todo # {}
        /\ Begin(t, [Idle EXCEPT !.kind = "import", !.mem = file, !.want = want,
                                 !.to = Local, !.todo = todo, !.asked = k],
                 "send")

\* Export: `astro dev object export`.
Export(t) ==
    \E k \in Asks :
        Begin(t, [Idle EXCEPT !.kind = "export", !.mem = file, !.want = file,
                              !.kinds = k, !.asked = k], "exec")

\* EnvExport: the same to .env, which has no pools.
EnvExport(t) ==
    \E k \in Asks :
        /\ 1 \notin k
        /\ Begin(t, [Idle EXCEPT !.kind = "env", !.kinds = k,
                              !.asked = k], "exec")

\* CopyConnection, CopyVariable, CopyPool: the first list, the source's.
Copy(t) ==
    \E from \in Remote, to \in Remote, i \in 1..3 :
        LET held == {o \in Kinds[i] : airflow[from][o] # None} IN
        /\ from # to /\ held # {}
        /\ Begin(t, [Idle EXCEPT !.kind = "copy", !.to = to,
                        !.want = [o \in Object |->
                            IF o \in held THEN airflow[from][o] ELSE None],
                        !.todo = {Item(i, o, airflow[from][o]) : o \in held}],
                 "list")

\* The second list, the target's: it says which request each object gets.
ListTarget(t) ==
    /\ pc[t] = "list"
    /\ job' = [job EXCEPT ![t].mem = airflow[job[t].to]]
    /\ Goto(t, "send")
    /\ UNCHANGED <<airflow, file, envFile, raced, begun>>

\* The next items are those in todo, once `at` has been dealt with.
GoOn(t, todo, at) ==
    /\ job' = [job EXCEPT ![t].todo = todo, ![t].at = at]
    /\ Goto(t, IF at # None THEN "patch"
               ELSE IF todo = {} THEN "done" ELSE "send")

\* The first request for an item: a POST, or a PATCH where the target's list
\* has the object.  A POST that finds the object there (it was there, or
\* another has made it, or the client had an error for an answer and sent
\* the POST again) is followed by a PATCH.
Send(t) ==
    /\ pc[t] = "send"
    /\ \E item \in job[t].todo :
          LET o == item.o
              a == job[t].to
              copies == job[t].kind = "copy"
              todo == job[t].todo \ {item} IN
          /\ \A x \in todo : item.step <= x.step
          /\ IF airflow[a][o] # None \/ (copies /\ job[t].mem[o] # None)
             THEN GoOn(t, todo, item) /\ UNCHANGED <<airflow, raced>>
             ELSE /\ airflow' = [airflow EXCEPT ![a][o] =
                                   Created(job[t].kind, o, item.e)]
                  /\ Race(t, a, {o})
                  /\ \/ GoOn(t, todo, None)
                     \/ copies /\ GoOn(t, todo, item)
    /\ UNCHANGED <<file, envFile, begun>>

\* The PATCH: it fails if the object has gone.
Patch(t) ==
    /\ pc[t] = "patch"
    /\ LET o == job[t].at.o
           a == job[t].to IN
       IF airflow[a][o] = None
       THEN GiveUp(t) /\ UNCHANGED airflow
       ELSE /\ airflow' = [airflow EXCEPT ![a][o] =
                  Updated(job[t].kind, o, job[t].at.e, airflow[a][o])]
            /\ Race(t, a, {o})
            /\ GoOn(t, job[t].todo, None)
    /\ UNCHANGED <<file, envFile, begun>>

-----------------------------------------------------------------------------
(* Exports, one kind after another.  One that fails for a kind says so and *)
(* goes on with the next; the command has then failed.                     *)

\* The list, in the container, and what it makes of the entries in memory.
\* With no connection at all there is no entry to cut the text at, and the
\* command dies.
Exec(t) ==
    /\ pc[t] = "exec"
    /\ LET ids == Kinds[First(job[t].kinds)]
           listed == {o \in ids : airflow[Local][o] # None /\ Exports(o)} IN
       IF job[t].kind = "export" /\ ids = Connection /\ listed = {}
       THEN GiveUp(t)
       ELSE /\ job' = [job EXCEPT ![t].mem = [o \in Object |->
                  IF o \in listed THEN Exported(o, airflow[Local][o])
                  ELSE job[t].mem[o]]]
            /\ Goto(t, IF job[t].kind = "env" THEN "append" ELSE "truncate")
            /\ UNCHANGED raced
    /\ UNCHANGED <<airflow, file, envFile, begun>>

\* To the next kind, after one that went well or not.
NextKind(t, well) ==
    LET kinds == job[t].kinds \ {First(job[t].kinds)}
        ok == job[t].ok /\ well IN
    /\ job' = [job EXCEPT ![t].kinds = kinds, ![t].ok = ok]
    /\ Goto(t, IF kinds # {} THEN "exec" ELSE IF ok THEN "done" ELSE "idle")

\* viper's WriteConfig: the file is truncated, and then written.
Truncate(t) ==
    /\ pc[t] = "truncate"
    /\ file' = Nothing
    /\ Race(t, "file", Object)
    /\ Goto(t, "write")
    /\ UNCHANGED <<airflow, envFile, job, begun>>

WriteFile(t) ==
    /\ pc[t] = "write"
    /\ file' = job[t].mem
    /\ Race(t, "file", Object)
    /\ NextKind(t, TRUE)
    /\ UNCHANGED <<airflow, envFile, begun>>

\* appendEnvLines: a line for each of the kind, as far as the disk takes them.
AppendLines(t) ==
    /\ pc[t] = "append"
    /\ LET all == {o \in Kinds[First(job[t].kinds)] : job[t].mem[o] # None} IN
       \E some \in SUBSET all :
          /\ envFile' = [o \in Object |->
                IF o \in some THEN job[t].mem[o] ELSE envFile[o]]
          /\ Race(t, "env", some)
          /\ NextKind(t, some = all)
    /\ UNCHANGED <<airflow, file, begun>>

\* Mutant: the kind that fails is forgotten.
FaultForgotten(t) ==
    /\ pc[t] \in {"exec", "write"}
    /\ NextKind(t, TRUE)
    /\ UNCHANGED <<airflow, file, envFile, raced, begun>>

\* The list fails, or the disk does before the file is written.
KindFails(t) ==
    /\ pc[t] \in {"exec", "write"}
    /\ NextKind(t, FALSE)
    /\ UNCHANGED <<airflow, file, envFile, raced, begun>>

\* A call fails, or the command is killed.
Fail(t) ==
    /\ pc[t] \notin Finished
    /\ GiveUp(t)
    /\ UNCHANGED <<airflow, file, envFile, begun>>

-----------------------------------------------------------------------------
\* Someone changes an object in Airflow's pages, or the file in an editor.
Edit ==
    /\ begun < MaxCommands
    /\ begun' = begun + 1
    /\ \/ \E a \in Airflow, o \in Object, c \in EditTo \union {None} :
             /\ o = DefaultPool => c # None
             /\ airflow' = [airflow EXCEPT ![a][o] = c]
             /\ Race(None, a, {o})
             /\ UNCHANGED file
       \/ \E o \in Object, c \in EditTo \union {None} :
             /\ file' = [file EXCEPT ![o] =
                   IF c = None THEN None ELSE Exported(o, c)]
             /\ Race(None, "file", {o})
             /\ UNCHANGED airflow
    /\ UNCHANGED <<envFile, pc, job>>

Next ==
    \/ \E t \in Terminal :
          \/ Import(t) \/ Export(t) \/ EnvExport(t) \/ Copy(t) \/ ListTarget(t)
          \/ Send(t) \/ Patch(t) \/ Exec(t) \/ Truncate(t) \/ WriteFile(t)
          \/ AppendLines(t) \/ KindFails(t) \/ Fail(t)
    \/ Edit

Spec == Init /\ [][Next]_vars

-----------------------------------------------------------------------------
(* Properties.                                                             *)

TypeOK ==
    /\ airflow \in [Airflow -> [Object -> Content \union {None}]]
    /\ file \in [Object -> Entry \union {None}]
    /\ envFile \in [Object -> Entry \union {None}]
    /\ pc \in [Terminal -> Finished \union {"list", "send", "patch", "exec",
                                           "truncate", "write", "append"}]
    /\ \A t \in Terminal :
          /\ pc[t] = "send" => job[t].todo # {}
          /\ pc[t] = "patch" => job[t].at # None
    /\ raced \in [Terminal -> SUBSET ((Airflow \union {"file", "env"}) \X Object)]

Untouched(t, place, o) == <<place, o>> \notin raced[t]

\* An import or a copy that says it is done has brought every object it had
\* to bring: Airflow has it, and with every field the command sends of it,
\* whether it had to be created or was there, and whether or not a request
\* was sent twice; only what somebody else has changed meanwhile may differ.
ArrivesAsWanted ==
    \A t \in Terminal :
        pc[t] = "done" /\ job[t].kind \in {"import", "copy"} =>
            \A o \in {x \in Object : job[t].want[x] # None /\
                                     Untouched(t, job[t].to, x)} :
                LET c == airflow[job[t].to][o]
                    w == job[t].want[o] IN
                /\ c # None
                /\ c.main = w.main
                /\ o \in Connection \union Pool /\ w.rest # None => c.rest = w.rest
                /\ job[t].kind = "copy" => c.hidden = w.hidden

\* What an export was asked for that Airflow holds and nobody has changed.
Due(t) == {o \in UNION {Kinds[i] : i \in job[t].asked} :
              Exports(o) /\ airflow[Local][o] # None /\ Untouched(t, Local, o)}

\* An export that says it is done has put into the settings file, or into
\* .env, a line for each, all of the kinds it was asked for that Airflow
\* holds, and the settings file still has an entry for all it had before:
\* the kinds are written one after another, each time the whole file, and
\* one that fails is not forgotten.  Only what somebody else changed
\* meanwhile may differ; pools other than the default one are not exported.
ExportsWhole ==
    \A t \in Terminal : pc[t] = "done" =>
        /\ job[t].kind = "env" =>
              \A o \in Due(t) : Untouched(t, "env", o) =>
                  envFile[o] = Exported(o, airflow[Local][o])
        /\ job[t].kind = "export" =>
              \A o \in {x \in Object : Untouched(t, "file", x)} :
                  /\ o \in Due(t) => file[o] = Exported(o, airflow[Local][o])
                  /\ job[t].want[o] # None => file[o] # None

\* Whatever a command carries arrives whole: an import, a copy or an export
\* that says it is done (settings.go, airflow-client.go).
TransfersWhole == ArrivesAsWanted /\ ExportsWhole

\* The claim of AppendEnvironmentConnections: a connection the settings file
\* defines and the environment as well is the file's.
FileTakesPrecedence ==
    \A t \in Terminal, o \in Connection :
        pc[t] = "done" /\ job[t].kind = "import" /\ job[t].asked = 1..3
        /\ job[t].mem[o] # None /\ job[t].mem[o].main # None
        /\ Untouched(t, Local, o)
        => airflow[Local][o].main = job[t].mem[o].main

\* What was exported can be imported again without changing Airflow: the
\* request for a variable or a connection that Airflow holds and whose entry
\* is what an export would write of it leaves it as it is, and with it what
\* no file can say.
ImportUndoesNothing ==
    [][\A t \in Terminal :
         pc[t] = "patch" /\ pc'[t] # "patch" /\ job[t].kind = "import" =>
             LET o == job[t].at.o IN
             o \notin Pools /\ airflow[Local][o] # None
             /\ job[t].at.e = Exported(o, airflow[Local][o])
             => airflow'[Local][o] = airflow[Local][o]]_vars
=============================================================================
