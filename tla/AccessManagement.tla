-------------------------- MODULE AccessManagement --------------------------
(***************************************************************************)
(* Who may do what in an Astro Organization, as the CLI administers it:    *)
(* src/cloud/team, src/cloud/user and the three API token packages.        *)
(*                                                                         *)
(* A subject (a team, a user, an API token) holds at most one role on each *)
(* entity (the Organization, a Workspace, a Deployment).  The API replaces *)
(* a subject's roles as a whole, so every command that changes one of them *)
(* reads the subject, edits the list, and sends it back: nothing locks the *)
(* subject between the two calls, and a question to the user may stand in  *)
(* between for as long as the user likes.  Several admins run commands.    *)
(*                                                                         *)
(* The server's side is external: it is modelled as the CLI uses it.       *)
(***************************************************************************)
EXTENDS Naturals, FiniteSets

CONSTANTS
    Admin,
    Team, User, OrgToken, WorkspaceToken, DeploymentToken,
    Org, Workspace, Deployment,
    Role, Name,
    None,            \* no role
    Same,            \* an option the user left out
    Bad,             \* a role the CLI does not know
    MaxCommands      \* bound: commands begun in one behaviour

\* A kind of subject or of entity has no member of another; an option that
\* is left out is not one of the roles and names it may have.
ASSUME SubjectAssumption ==
    /\ Team \intersect (OrgToken \union WorkspaceToken \union DeploymentToken) = {}
    /\ User \intersect (OrgToken \union WorkspaceToken \union DeploymentToken) = {}
    /\ OrgToken \intersect (WorkspaceToken \union DeploymentToken) = {}
    /\ WorkspaceToken \intersect DeploymentToken = {}
ASSUME EntityAssumption ==
    /\ Org \notin Workspace \union Deployment
    /\ Workspace \intersect Deployment = {}
    /\ "name" \notin {Org} \union Workspace \union Deployment
ASSUME OptionAssumption == Same \notin Role \union Name \union {Bad, None}
                           /\ Bad \notin Role /\ MaxCommands \in Nat

VARIABLES
    store,           \* store[s]: the subject s on the server
    members,         \* members[t]: the users in team t
    pc,              \* pc[a]: the call admin a's command makes next
    cmd,             \* cmd[a]: the command admin a runs
    seen,            \* seen[a]: the fields a's command has read
    raced,           \* raced[a]: those of them others have changed since
    begun            \* commands begun so far

vars == <<store, members, pc, cmd, seen, raced, begun>>

Token == OrgToken \union WorkspaceToken \union DeploymentToken
Subject == Team \union User \union Token
Entity == {Org} \union Workspace \union Deployment
Field == {"name"} \union Entity      \* what a command can change of a subject

\* The kind of a subject; a token's scope is one.
Scope(s) ==
    IF s \in Team THEN "TEAM" ELSE IF s \in User THEN "USER"
    ELSE IF s \in OrgToken THEN "ORGANIZATION"
    ELSE IF s \in WorkspaceToken THEN "WORKSPACE" ELSE "DEPLOYMENT"

\* The scope whose tokens belong to an entity.
Level(e) ==
    IF e = Org THEN "ORGANIZATION"
    ELSE IF e \in Workspace THEN "WORKSPACE" ELSE "DEPLOYMENT"

Scopes == {"ORGANIZATION", "WORKSPACE", "DEPLOYMENT"}

-----------------------------------------------------------------------------
(* The commands: what each asks for.  kind is the shape of its calls, e    *)
(* the entity it is run for, v the role (or member) it names, n the new    *)
(* name, scopes the token scopes it accepts.                               *)

Command(kinds, subjects, entities, values, names, scopes) ==
    [kind : kinds, s : subjects, e : entities, v : values, n : names,
     scopes : {scopes}]

RoleEdit(subjects, entities, values) ==
    Command({"roles"}, subjects, entities, values, {Same}, {"TEAM", "USER"})

UpdateWorkspaceTeamRole == RoleEdit(Team, Workspace, Role)
RemoveWorkspaceTeam == RoleEdit(Team, Workspace, {None})
AddWorkspaceTeam == RoleEdit(Team, Workspace, Role)
AddDeploymentTeam == RoleEdit(Team, Deployment, Role)
UpdateDeploymentTeamRole == RoleEdit(Team, Deployment, Role)
RemoveDeploymentTeam == RoleEdit(Team, Deployment, {None})
AddWorkspaceUser == RoleEdit(User, Workspace, Role)
UpdateWorkspaceUserRole == RoleEdit(User, Workspace, Role)
RemoveWorkspaceUser == RoleEdit(User, Workspace, {None})
AddDeploymentUser == RoleEdit(User, Deployment, Role)
UpdateDeploymentUserRole == RoleEdit(User, Deployment, Role)
RemoveDeploymentUser == RoleEdit(User, Deployment, {None})

\* Only the Organization role is sent; the API leaves the lists it is not given.
UpdateUserRole == Command({"orgrole"}, User, {Org}, Role, {Same}, {"USER"})

UpdateTeam ==
    Command({"update"}, Team, {Org}, Role \union {Same, Bad},
            Name \union {Same}, {"TEAM"})
UpdateToken(level, entities) ==
    Command({"update"}, Token, entities, Role \union {Same, Bad},
            Name \union {Same}, {level})
OrgUpdateToken == UpdateToken("ORGANIZATION", {Org})
WorkspaceUpdateToken == UpdateToken("WORKSPACE", Workspace)
DeploymentUpdateToken == UpdateToken("DEPLOYMENT", Deployment)

TokenEdit(entities, values, scopes) ==
    Command({"roles"}, Token, entities, values, {Same}, scopes)

AddOrgTokenToWorkspace == TokenEdit(Workspace, Role, {"ORGANIZATION"})
UpsertOrgTokenWorkspaceRole == TokenEdit(Workspace, Role, {"ORGANIZATION"})
RemoveOrgTokenWorkspaceRole == TokenEdit(Workspace, {None}, {"ORGANIZATION"})
UpsertOrgTokenDeploymentRole == TokenEdit(Deployment, Role, {"ORGANIZATION"})
RemoveOrgTokenDeploymentRole == TokenEdit(Deployment, {None}, {"ORGANIZATION"})
UpsertWorkspaceTokenDeploymentRole == TokenEdit(Deployment, Role, {"WORKSPACE"})
RemoveWorkspaceTokenDeploymentRole == TokenEdit(Deployment, {None}, {"WORKSPACE"})

OrgRotateToken ==
    Command({"rotate"}, Token, {Org}, {None}, {Same}, {"ORGANIZATION"})
WorkspaceRotateToken ==
    Command({"rotate"}, Token, Workspace, {None}, {Same}, {"WORKSPACE"})
DeploymentRotateToken ==
    Command({"rotate"}, Token, Deployment, {None}, {Same}, {"DEPLOYMENT"})
OrgDeleteToken ==
    Command({"delete"}, Token, {Org}, {None}, {Same}, {"ORGANIZATION"})
WorkspaceDeleteToken ==
    Command({"delete"}, Token, Workspace, {None}, {Same}, Scopes)
DeploymentDeleteToken ==
    Command({"delete"}, Token, Deployment, {None}, {Same}, Scopes)

TeamDelete == Command({"delete"}, Team, {Org}, {None}, {Same}, {"TEAM"})
AddUser == Command({"add"}, Team, {Org}, User, {Same}, {"TEAM"})
RemoveUser == Command({"remove"}, Team, {Org}, User, {Same}, {"TEAM"})

CreateTeam == Command({"create"}, Team, {Org}, Role, Name, {"TEAM"})
CreateOrgToken == Command({"create"}, OrgToken, {Org}, Role, Name, {"ORGANIZATION"})
CreateWorkspaceToken ==
    Command({"create"}, WorkspaceToken, Workspace, Role, Name, {"WORKSPACE"})
CreateDeploymentToken ==
    Command({"create"}, DeploymentToken, Deployment, Role, Name, {"DEPLOYMENT"})

TeamCommands ==
    UNION {UpdateWorkspaceTeamRole, RemoveWorkspaceTeam, AddWorkspaceTeam,
           AddDeploymentTeam, UpdateDeploymentTeamRole, RemoveDeploymentTeam,
           UpdateTeam, TeamDelete, AddUser, RemoveUser, CreateTeam}
UserCommands ==
    UNION {AddWorkspaceUser, UpdateWorkspaceUserRole, RemoveWorkspaceUser,
           AddDeploymentUser, UpdateDeploymentUserRole, RemoveDeploymentUser,
           UpdateUserRole}
TokenCommands ==
    UNION {OrgUpdateToken, WorkspaceUpdateToken, DeploymentUpdateToken,
           AddOrgTokenToWorkspace, UpsertOrgTokenWorkspaceRole,
           RemoveOrgTokenWorkspaceRole, UpsertOrgTokenDeploymentRole,
           RemoveOrgTokenDeploymentRole, UpsertWorkspaceTokenDeploymentRole,
           RemoveWorkspaceTokenDeploymentRole, OrgRotateToken,
           WorkspaceRotateToken, DeploymentRotateToken, OrgDeleteToken,
           WorkspaceDeleteToken, DeploymentDeleteToken, CreateOrgToken,
           CreateWorkspaceToken, CreateDeploymentToken}
Commands == TeamCommands \union UserCommands \union TokenCommands

-----------------------------------------------------------------------------
(* What a command does with the subject it has read.                       *)

Blank == [x \in Field |-> None]

\* A name, and at most one role on each entity.
Fields ==
    {f \in [Field -> Role \union Name \union {None}] :
        f["name"] \in Name /\ \A e \in Entity : f[e] \in Role \union {None}}

\* GetTokenFromInputOrUser: the token is there and of an accepted scope.
Found(c) == store[c.s].life = "live" /\ Scope(c.s) \in c.scopes

\* Mutant: a Deployment's role is sent without the Workspaces' roles.
RequestForgetsWorkspaces(c, f) ==
    IF c.v = Same THEN f
    ELSE [x \in Field |-> IF x = c.e THEN c.v
                          ELSE IF c.e \in Deployment /\ x \in Workspace THEN None
                          ELSE f[x]]

\* The list a command sends: the one it read, with one entry set or left out.
Request(c, f) ==
    IF c.v = Same THEN f ELSE [f EXCEPT ![c.e] = c.v]

\* An update that comes to the roles: asked for one, or, for a Workspace's
\* and a Deployment's token, holding one that is sent back as it was read.
SendsRoles(c, f) ==
    IF Level(c.e) = "ORGANIZATION" THEN c.v \in Role
    ELSE IF c.v = Same THEN f[c.e] # None
    ELSE c.v \in Role /\ f[c.e] # c.v

\* The token commands that add a role the token has already stop there.
AlreadyThere(c, f) == c.s \in Token /\ c.v \in Role /\ f[c.e] = c.v

\* Mutant: delete without the test of the token's scope.
DeletesAnything(c) == TRUE

\* delete: a token of the scope it is run for is deleted, any other loses
\* its role there and stays.
Deletes(c) == c.s \in Team \/ Scope(c.s) = Level(c.e)

\* The call that follows the read.
FirstCall(c, f) ==
    IF c.kind = "update" THEN "rename"
    ELSE IF c.kind = "roles" THEN (IF AlreadyThere(c, f) THEN "idle" ELSE "roles")
    ELSE IF c.kind = "delete" THEN (IF Deletes(c) THEN "delete" ELSE "roles")
    ELSE IF c.kind = "remove" THEN "list" ELSE c.kind

-----------------------------------------------------------------------------
Init ==
    /\ store \in [Subject -> {[life |-> l, secret |-> 0, f |-> f] :
                               l \in {"unborn", "live"}, f \in Fields}]
    /\ members \in [Team -> SUBSET User]
    /\ pc = [a \in Admin |-> "idle"]
    /\ cmd = [a \in Admin |-> None]
    /\ seen = [a \in Admin |-> Blank]
    /\ raced = [a \in Admin |-> {}]
    /\ begun = 0

\* The call that comes next; a command that ends forgets what it knew.
Goto(a, l) ==
    /\ pc' = [pc EXCEPT ![a] = l]
    /\ cmd' = IF l = "idle" THEN [cmd EXCEPT ![a] = None] ELSE cmd
    /\ seen' = IF l = "idle" THEN [seen EXCEPT ![a] = Blank] ELSE seen

End(a) == Goto(a, "idle") /\ raced' = [raced EXCEPT ![a] = {}]

\* On a call of admin a that comes before l the server stores the fields g
\* for subject s: what other admins have read of s is out of date where g
\* differs.
Store(a, s, g, l) ==
    /\ store' = [store EXCEPT ![s].f = g]
    /\ raced' = [b \in Admin |->
          IF b = a THEN IF l = "idle" THEN {} ELSE raced[a]
          ELSE IF pc[b] \notin {"idle", "read"} /\ cmd[b].s = s
          THEN raced[b] \union {x \in Field : store[s].f[x] # g[x]}
          ELSE raced[b]]
    /\ Goto(a, l)

Begin(a) ==
    /\ pc[a] = "idle" /\ begun < MaxCommands
    /\ \E c \in Commands :
          /\ pc' = [pc EXCEPT ![a] =
                      IF c.kind \in {"create", "orgrole"} THEN c.kind ELSE "read"]
          /\ cmd' = [cmd EXCEPT ![a] = c]
    /\ begun' = begun + 1
    /\ UNCHANGED <<store, members, seen, raced>>

\* GetTeam, GetUser, GetApiToken: the subject as it is now.
Read(a) ==
    /\ pc[a] = "read" /\ Found(cmd[a])
    /\ LET f == store[cmd[a].s].f
           l == FirstCall(cmd[a], f) IN
       /\ pc' = [pc EXCEPT ![a] = l]
       /\ cmd' = IF l = "idle" THEN [cmd EXCEPT ![a] = None] ELSE cmd
       /\ seen' = IF l = "idle" THEN seen ELSE [seen EXCEPT ![a] = f]
    /\ UNCHANGED <<store, members, raced, begun>>

\* The command ends: nothing found, the user says no, a call fails.
Stop(a) ==
    /\ pc[a] # "idle"
    /\ End(a)
    /\ UNCHANGED <<store, members, begun>>

\* UpdateTeam, UpdateApiToken: the new name, or the one that was read.
Rename(a) ==
    /\ pc[a] = "rename"
    /\ LET c == cmd[a]
           n == IF c.n = Same THEN seen[a]["name"] ELSE c.n IN
       /\ store[c.s].life = "live"
       /\ Store(a, c.s, [store[c.s].f EXCEPT !["name"] = n],
                IF SendsRoles(c, seen[a]) THEN "roles" ELSE "idle")
    /\ UNCHANGED <<members, begun>>

\* UpdateTeamRoles, UpdateUserRoles, UpdateApiTokenRoles: the whole list.
WriteRoles(a) ==
    /\ pc[a] = "roles"
    /\ LET c == cmd[a] IN
       /\ store[c.s].life = "live"
       /\ Store(a, c.s, [Request(c, seen[a]) EXCEPT !["name"] = store[c.s].f["name"]],
                "idle")
    /\ UNCHANGED <<members, begun>>

\* UpdateUserRole: the Organization role alone.
WriteOrgRole(a) ==
    /\ pc[a] = "orgrole"
    /\ LET c == cmd[a] IN
       /\ store[c.s].life = "live"
       /\ Store(a, c.s, [store[c.s].f EXCEPT ![c.e] = c.v], "idle")
    /\ UNCHANGED <<members, begun>>

\* DeleteTeam, DeleteApiToken.
Delete(a) ==
    /\ pc[a] = "delete"
    /\ store[cmd[a].s].life = "live"
    /\ store' = [store EXCEPT ![cmd[a].s].life = "gone"]
    /\ End(a)
    /\ UNCHANGED <<members, begun>>

\* RotateApiToken: the secret given out before no longer works.
Rotate(a) ==
    /\ pc[a] = "rotate"
    /\ store[cmd[a].s].life = "live"
    /\ store' = [store EXCEPT ![cmd[a].s].secret = @ + 1]
    /\ End(a)
    /\ UNCHANGED <<members, begun>>

\* CreateTeam, CreateApiToken: nothing is read, one call makes the subject.
Create(a) ==
    /\ pc[a] = "create"
    /\ LET c == cmd[a] IN
       /\ store[c.s].life = "unborn"
       /\ store' = [store EXCEPT ![c.s] =
             [life |-> "live", secret |-> 0,
              f |-> [Blank EXCEPT !["name"] = c.n, ![c.e] = c.v]]]
    /\ End(a)
    /\ UNCHANGED <<members, begun>>

\* AddTeamMembers.
AddMember(a) ==
    /\ pc[a] = "add"
    /\ store[cmd[a].s].life = "live"
    /\ members' = [members EXCEPT ![cmd[a].s] = @ \union {cmd[a].v}]
    /\ End(a)
    /\ UNCHANGED <<store, begun>>

\* listTeamMembers: someone who is not in the team ends the command.
ListMembers(a) ==
    /\ pc[a] = "list"
    /\ Goto(a, IF cmd[a].v \in members[cmd[a].s] THEN "unlist" ELSE "idle")
    /\ UNCHANGED <<store, members, raced, begun>>

\* RemoveTeamMember.
RemoveMember(a) ==
    /\ pc[a] = "unlist"
    /\ store[cmd[a].s].life = "live"
    /\ members' = [members EXCEPT ![cmd[a].s] = @ \ {cmd[a].v}]
    /\ End(a)
    /\ UNCHANGED <<store, begun>>

Next ==
    \E a \in Admin :
        \/ Begin(a) \/ Read(a) \/ Stop(a) \/ Rename(a) \/ WriteRoles(a)
        \/ WriteOrgRole(a) \/ Delete(a) \/ Rotate(a) \/ Create(a)
        \/ AddMember(a) \/ ListMembers(a) \/ RemoveMember(a)

Spec == Init /\ [][Next]_vars

-----------------------------------------------------------------------------
(* Properties.                                                             *)

Calls == {"idle", "read", "rename", "roles", "orgrole", "delete", "rotate",
          "create", "add", "list", "unlist"}

TypeOK ==
    /\ store \in [Subject -> [life : {"unborn", "live", "gone"}, secret : Nat,
                              f : Fields]]
    /\ members \in [Team -> SUBSET User]
    /\ pc \in [Admin -> Calls]
    /\ cmd \in [Admin -> Commands \union {None}]
    /\ seen \in [Admin -> Fields \union {Blank}]
    /\ raced \in [Admin -> SUBSET Field]
    /\ begun \in Nat

\* Admin a is the one that moves.
Moves(a) == pc'[a] # pc[a]

\* The fields a command was asked to change.
Asked(c) ==
    (IF c.v = Same THEN {} ELSE {c.e}) \union (IF c.n = Same THEN {} ELSE {"name"})

\* A command changes the name and the role it was asked to change, on the
\* subject it names, and nothing else: the entries it only sends back, for
\* the API wants the whole list, are as they were.  The exception is the
\* one the code cannot exclude: an entry another admin has changed since the
\* command read it goes back to what was read (a revoked role returns, a new
\* grant is lost).
OnlyAskedOrRaced ==
    [][\A s \in Subject, x \in Field :
         store[s].life = "live" /\ store'[s].f[x] # store[s].f[x] =>
             \E a \in Admin :
                /\ Moves(a) /\ pc[a] # "idle" /\ cmd[a].s = s
                /\ \/ x \in Asked(cmd[a])
                   \/ x \in raced[a] /\ store'[s].f[x] = seen[a][x]]_vars

\* A token is deleted, or its secret replaced, by a command run at the
\* token's own scope and by no other: removing an Organization's token from
\* a Workspace or a Deployment only takes its role there away, whoever else
\* uses the token keeps it.
TokensEndAtHome ==
    [][\A t \in Token :
         \/ store[t].life = "live" /\ store'[t].life = "gone"
         \/ store'[t].secret # store[t].secret
         => \E a \in Admin : Moves(a) /\ pc[a] # "idle" /\ cmd[a].s = t
                             /\ Level(cmd[a].e) = Scope(t)]_vars
=============================================================================
