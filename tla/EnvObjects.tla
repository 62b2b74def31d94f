----------------------------- MODULE EnvObjects -----------------------------
(***************************************************************************)
(* The environment objects of Astro (variables, connections, Airflow       *)
(* variables, metrics exports) as src/cloud/env changes them.  An object   *)
(* of a Workspace can be linked to Deployments, with a value of its own    *)
(* there or not, excluded from others, or linked to all at once.           *)
(*                                                                         *)
(* The API takes an update for the whole of some of this and a part of     *)
(* the rest: lists it is not given it empties, a flag it is not given it   *)
(* clears, but within an entry of a list it keeps what it is not given.    *)
(* So a command reads the object, without its secrets, and sends back      *)
(* what it has no wish to change; several admins do this at once.          *)
(*                                                                         *)
(* The server's side is external: it is modelled as the CLI uses it.       *)
(***************************************************************************)
EXTENDS Naturals, FiniteSets

CONSTANTS
    Admin,
    Var,               \* environment variables of a Workspace
    Other,             \* the other objects
    Secret,            \* those whose values are secret
    Deployment,
    Value, None,
    MaxCommands        \* bound: commands begun

VARIABLES
    object,            \* object[o]: what the server keeps
    pc, cmd,           \* of each admin: the next call, the command
    seen,              \* seen[a]: the object as a's command has read it
    raced,             \* raced[a]: what others have changed of it since
    begun

vars == <<object, pc, cmd, seen, raced, begun>>

Object == Var \union Other

\* What there is to an object.  A link's own value is None where the link
\* has none.
Facets == {"link", "override", "exclude"} \X Deployment
TheValue == <<"value", None>>
AutoLink == <<"auto", None>>
Field == Facets \union {TheValue, AutoLink}
Link(d) == <<"link", d>>
Override(d) == <<"override", d>>
Exclude(d) == <<"exclude", d>>
Fresh(v, auto) ==
    [x \in Field |-> IF x = TheValue THEN v ELSE IF x = AutoLink THEN auto
                     ELSE IF x[1] = "override" THEN None ELSE FALSE]

\* A link has a value of its own only while it is there.
Fields ==
    {f \in [Field -> Value \union BOOLEAN \union {None}] :
        /\ f[TheValue] \in Value /\ f[AutoLink] \in BOOLEAN
        /\ \A d \in Deployment :
              /\ f[Link(d)] \in BOOLEAN /\ f[Exclude(d)] \in BOOLEAN
              /\ f[Override(d)] \in Value \union {None}
              /\ f[Override(d)] # None => f[Link(d)]}

\* A read without secrets: values are blank, and links without theirs.  Of
\* objects that are not variables links' own values are not looked at.
Redacted(o, f) ==
    [x \in Field |->
        IF x = TheValue /\ o \in Secret THEN None
        ELSE IF x[1] = "override" /\ o \in Secret \union Other THEN None
        ELSE f[x]]

\* The commands.
Command(kinds, objects, ds, vs, autos) ==
    [kind : kinds, o : objects, d : ds, v : vs, auto : autos]

Commands ==
    UNION {Command({"create"}, Object, {None}, Value, BOOLEAN),
           Command({"update"}, Object, {None}, Value, BOOLEAN \union {None}),
           Command({"delete"}, Object, {None}, {None}, {None}),
           Command({"link"}, Var, Deployment, Value \union {None}, {None}),
           Command({"unlink", "exclude", "unexclude"}, Var, Deployment, {None},
                   {None})}

-----------------------------------------------------------------------------
(* What a command sends, from what it has read.                            *)

\* upsertLinkInUpdateList, buildUpdateLinksExcluding,
\* buildUpdateExcludesExcluding and the value.  A link's own value is only
\* sent for the link in question if the command has one.
Changed(c, f) ==
    [x \in Field |->
        IF c.kind = "update" /\ x = TheValue THEN c.v
        ELSE IF c.kind = "update" /\ x = AutoLink /\ c.auto # None THEN c.auto
        ELSE IF c.kind = "link" /\ x = Link(c.d) THEN TRUE
        ELSE IF c.kind = "link" /\ x = Override(c.d) THEN c.v
        ELSE IF c.kind = "unlink" /\ x = Link(c.d) THEN FALSE
        ELSE IF c.kind = "unexclude" /\ x = Exclude(c.d) THEN FALSE
        ELSE f[x]]

\* Mutant: the lists a command does not mean to change are left out.
FaultNoEcho(c, f) ==
    [x \in Field |-> IF c.kind = "update" /\ x[1] \in {"link", "exclude"} THEN FALSE
                     ELSE Changed(c, f)[x]]

\* echoPreservedFields: whatever else there is goes back as it was read.
Body(c, f) == Changed(c, f)

\* What the server makes of an update: a blank is no change to a secret, nor
\* to a link's own value while the link stays.
Patched(o, old, b) ==
    [x \in Field |->
        IF x = TheValue THEN IF b[x] = None /\ o \in Secret THEN old[x] ELSE b[x]
        ELSE IF x[1] = "override"
        THEN IF ~b[Link(x[2])] THEN None
             ELSE IF b[x] = None THEN old[x] ELSE b[x]
        ELSE b[x]]

\* The commands that stop once they have read the object.
Refused(c, f) ==
    \/ c.kind = "link" /\ f[Exclude(c.d)]
    \/ c.kind = "unlink" /\ ~f[Link(c.d)]
    \/ c.kind = "exclude" /\ (f[Link(c.d)] \/ f[Exclude(c.d)])
    \/ c.kind = "unexclude" /\ ~f[Exclude(c.d)]

-----------------------------------------------------------------------------
Init ==
    /\ object \in [Object -> [live : BOOLEAN, f : Fields]]
    /\ pc = [a \in Admin |-> "idle"]
    /\ cmd = [a \in Admin |-> None]
    /\ seen = [a \in Admin |-> None]
    /\ raced = [a \in Admin |-> {}]
    /\ begun = 0

\* Admin a's command ends, the server having made g of its object.
Store(a, o, g) ==
    /\ object' = [object EXCEPT ![o] = g]
    /\ raced' = [b \in Admin |->
          IF b = a THEN {}
          ELSE IF pc[b] = "write" /\ cmd[b].o = o
          THEN raced[b] \union {x \in Field : object[o].f[x] # g.f[x]}
          ELSE raced[b]]
    /\ pc' = [pc EXCEPT ![a] = "idle"]
    /\ cmd' = [cmd EXCEPT ![a] = None]
    /\ seen' = [seen EXCEPT ![a] = None]

Begin(a) ==
    /\ pc[a] = "idle" /\ begun < MaxCommands
    /\ begun' = begun + 1
    /\ \E c \in Commands : cmd' = [cmd EXCEPT ![a] = c]
    /\ pc' = [pc EXCEPT ![a] = "read"]
    /\ UNCHANGED <<object, seen, raced>>

\* CreateVar and the like: one call, and no object of that key yet.
Create(a) ==
    /\ pc[a] = "read" /\ cmd[a].kind = "create"
    /\ ~object[cmd[a].o].live
    /\ Store(a, cmd[a].o, [live |-> TRUE, f |-> Fresh(cmd[a].v, cmd[a].auto)])
    /\ UNCHANGED begun

\* getObject, and what it has to be for the command to go on.
Read(a) ==
    /\ pc[a] = "read" /\ cmd[a].kind # "create"
    /\ object[cmd[a].o].live
    /\ ~Refused(cmd[a], object[cmd[a].o].f)
    /\ seen' = [seen EXCEPT ![a] = Redacted(cmd[a].o, object[cmd[a].o].f)]
    /\ pc' = [pc EXCEPT ![a] = "write"]
    /\ UNCHANGED <<object, cmd, raced, begun>>

\* The PATCH of an update, a link, an unlink or an unexclude.
Patch(a) ==
    /\ pc[a] = "write" /\ cmd[a].kind \in {"update", "link", "unlink", "unexclude"}
    /\ LET o == cmd[a].o IN
       /\ object[o].live
       /\ Store(a, o, [object[o] EXCEPT
                         !.f = Patched(o, object[o].f, Body(cmd[a], seen[a]))])
    /\ UNCHANGED begun

\* ExcludeVar: an endpoint of its own.
ExcludeLinking(a) ==
    /\ pc[a] = "write" /\ cmd[a].kind = "exclude"
    /\ object[cmd[a].o].live
    /\ Store(a, cmd[a].o, [object[cmd[a].o] EXCEPT !.f[Exclude(cmd[a].d)] = TRUE])
    /\ UNCHANGED begun

\* deleteObject.
Delete(a) ==
    /\ pc[a] = "write" /\ cmd[a].kind = "delete"
    /\ object[cmd[a].o].live
    /\ Store(a, cmd[a].o, [object[cmd[a].o] EXCEPT !.live = FALSE])
    /\ UNCHANGED begun

\* The command ends with nothing changed: not found, refused, a call fails.
Stop(a) ==
    /\ pc[a] # "idle"
    /\ pc' = [pc EXCEPT ![a] = "idle"]
    /\ cmd' = [cmd EXCEPT ![a] = None]
    /\ seen' = [seen EXCEPT ![a] = None]
    /\ raced' = [raced EXCEPT ![a] = {}]
    /\ UNCHANGED <<object, begun>>

Next ==
    \E a \in Admin :
        \/ Begin(a) \/ Create(a) \/ Read(a) \/ Patch(a) \/ ExcludeLinking(a)
        \/ Delete(a) \/ Stop(a)

Spec == Init /\ [][Next]_vars

-----------------------------------------------------------------------------
(* Properties.                                                             *)

TypeOK ==
    /\ object \in [Object -> [live : BOOLEAN, f : Fields]]
    /\ pc \in [Admin -> {"idle", "read", "write"}]
    /\ cmd \in [Admin -> Commands \union {None}]
    /\ \A a \in Admin : pc[a] # "idle" => cmd[a] \in Commands
    /\ seen \in [Admin -> [Field -> Value \union BOOLEAN \union {None}] \union {None}]
    /\ raced \in [Admin -> SUBSET Field]
    /\ begun \in Nat

\* What a command was asked to change.  To unlink takes the link's own value
\* with it.
Asked(c) ==
    IF c.kind = "update" THEN {TheValue} \union (IF c.auto = None THEN {} ELSE {AutoLink})
    ELSE IF c.kind = "link"
    THEN {Link(c.d)} \union (IF c.v = None THEN {} ELSE {Override(c.d)})
    ELSE IF c.kind = "unlink" THEN {Link(c.d), Override(c.d)}
    ELSE IF c.kind \in {"exclude", "unexclude"} THEN {Exclude(c.d)} ELSE {}

\* A command changes what it was asked to change of its object and leaves
\* the rest: an update of the value keeps the links, with their own values,
\* the exclusions and the flag; a secret is not blanked by a command that
\* could not read it.  The exception is what another admin has changed since
\* the command read it, which goes back to what was read; of a link that was
\* made or removed meanwhile that takes its own value too.
LinksSurvive ==
    [][\A o \in Object, x \in Field :
         object[o].live /\ object'[o].f[x] # object[o].f[x] =>
             \E a \in Admin :
                /\ pc[a] # "idle" /\ pc'[a] = "idle" /\ cmd[a].o = o
                /\ \/ x \in Asked(cmd[a])
                   \/ x \in raced[a] /\ object'[o].f[x] = seen[a][x]
                   \/ x[1] = "override" /\ Link(x[2]) \in raced[a]]_vars
=============================================================================
