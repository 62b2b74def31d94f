---------------------------- MODULE ManagementProofs ----------------------------
(* The proofs about the administration of an Organization.                     *)
(*                                                                             *)
(* That a command about roles changes what it was asked to change, or undoes   *)
(* what it could not know of, and that tokens end at home: for any admins,     *)
(* subjects and entities.  The invariant says of every command what it is      *)
(* about to call and why it may (Obeys), and that what it has read is still    *)
(* so, or was changed by another (Knows); the fields come to no harm because   *)
(* of the latter.                                                              *)
(*                                                                             *)
(* And that a command about worker queues sends every queue that is to be      *)
(* there, once, and where it finds their ids: for any names, node pools and    *)
(* lists, in any order.  The invariant says what the copies, the sorted list   *)
(* and the list to be sent have in common with the queues that were there;     *)
(* that sorting by name changes the order only is by counting (RankedOnce).    *)
(*******************************************************************************)
EXTENDS MCManagement, FiniteSetTheorems, TLAPS


Kinds == {"roles", "orgrole", "update", "rotate", "delete", "add", "remove", "create"}

\* What the commands have in common, whoever runs them for whatever.
Fits(c) ==
    /\ c.kind \in Kinds /\ c.s \in Subject /\ c.e \in Entity
    /\ c.n \in Name \union {Same}
    /\ c.kind = "update" => c.v \in Role \union {Same, Bad}
    /\ c.kind = "roles" => c.v \in Role \union {None}
    /\ c.kind = "delete" => c.v = None
    /\ c.kind = "orgrole" => c.v \in Role
    /\ c.kind = "create" => c.v \in Role /\ c.n \in Name
    /\ c.kind \in {"add", "remove"} => c.s \in Team /\ c.v \in User
    /\ c.kind = "rotate" => c.scopes = {Level(c.e)}

\* What is true of the call a command makes next.
Obeys(a) ==
    /\ pc[a] # "idle" => cmd[a] \in Commands
    /\ pc[a] \in {"orgrole", "create", "rotate", "add"} => cmd[a].kind = pc[a]
    /\ pc[a] \in {"list", "unlist"} => cmd[a].kind = "remove"
    /\ pc[a] = "rename" => cmd[a].kind = "update"
    /\ pc[a] = "roles" => cmd[a].v \in Role \union {None, Same}
    /\ pc[a] = "delete" => Deletes(cmd[a])
    /\ pc[a] = "rotate" => Scope(cmd[a].s) \in cmd[a].scopes

\* What a command has read is so, or is known to have been changed; its own
\* rename aside.
Knows(a) ==
    pc[a] \in {"rename", "roles"} =>
        /\ seen[a] \in Fields
        /\ store[cmd[a].s].life # "unborn"
        /\ \A x \in Field :
              seen[a][x] # store[cmd[a].s].f[x] =>
                  x \in raced[a] \/ (x = "name" /\ pc[a] = "roles")

Unused == \A s \in Subject : store[s].life = "unborn" => store[s].secret = 0

IInv == TypeOK /\ Unused /\ \A a \in Admin : Obeys(a) /\ Knows(a)

-----------------------------------------------------------------------------
(* The commands.                                                           *)

LEMMA TeamCommandsFit == \A c \in TeamCommands : Fits(c)
  BY DEF TeamCommands, UpdateWorkspaceTeamRole, RemoveWorkspaceTeam, AddWorkspaceTeam,
     AddDeploymentTeam, UpdateDeploymentTeamRole, RemoveDeploymentTeam, UpdateTeam,
     TeamDelete, AddUser, RemoveUser, CreateTeam, RoleEdit, Command, Fits, Kinds,
     Subject, Token, Entity

LEMMA UserCommandsFit == \A c \in UserCommands : Fits(c)
  BY DEF UserCommands, AddWorkspaceUser, UpdateWorkspaceUserRole, RemoveWorkspaceUser,
     AddDeploymentUser, UpdateDeploymentUserRole, RemoveDeploymentUser, UpdateUserRole,
     RoleEdit, Command, Fits, Kinds, Subject, Token, Entity

LEMMA TokenCommandsFit == \A c \in TokenCommands : Fits(c)
<1>1. \A c \in UNION {OrgUpdateToken, WorkspaceUpdateToken, DeploymentUpdateToken} : Fits(c)
  BY DEF OrgUpdateToken, WorkspaceUpdateToken, DeploymentUpdateToken, UpdateToken,
     Command, Fits, Kinds, Subject, Token, Entity
<1>2. \A c \in UNION {AddOrgTokenToWorkspace, UpsertOrgTokenWorkspaceRole,
                      RemoveOrgTokenWorkspaceRole, UpsertOrgTokenDeploymentRole,
                      RemoveOrgTokenDeploymentRole, UpsertWorkspaceTokenDeploymentRole,
                      RemoveWorkspaceTokenDeploymentRole} : Fits(c)
  BY DEF AddOrgTokenToWorkspace, UpsertOrgTokenWorkspaceRole,
     RemoveOrgTokenWorkspaceRole, UpsertOrgTokenDeploymentRole,
     RemoveOrgTokenDeploymentRole, UpsertWorkspaceTokenDeploymentRole,
     RemoveWorkspaceTokenDeploymentRole, TokenEdit, Command, Fits, Kinds, Subject, Token,
     Entity
<1>3. \A c \in UNION {OrgRotateToken, WorkspaceRotateToken, DeploymentRotateToken} : Fits(c)
  BY EntityAssumption DEF OrgRotateToken, WorkspaceRotateToken, DeploymentRotateToken,
     Command, Fits, Kinds, Subject, Token, Entity, Level
<1>4. \A c \in UNION {OrgDeleteToken, WorkspaceDeleteToken, DeploymentDeleteToken,
                      CreateOrgToken, CreateWorkspaceToken, CreateDeploymentToken} : Fits(c)
  BY DEF OrgDeleteToken, WorkspaceDeleteToken, DeploymentDeleteToken, CreateOrgToken,
     CreateWorkspaceToken, CreateDeploymentToken, Command, Fits, Kinds, Subject, Token,
     Entity
<1> QED  BY <1>1, <1>2, <1>3, <1>4 DEF TokenCommands

LEMMA CommandsFit == \A c \in Commands : Fits(c)
  BY TeamCommandsFit, UserCommandsFit, TokenCommandsFit DEF Commands

\* Setting one entry of a subject's fields leaves them well-formed.
LEMMA SetName == ASSUME NEW f \in Fields, NEW n \in Name PROVE [f EXCEPT !["name"] = n] \in Fields
  BY EntityAssumption DEF Fields, Field, Entity

LEMMA SetRole ==
  ASSUME NEW f \in Fields, NEW e \in Entity, NEW r \in Role \union {None}
  PROVE [f EXCEPT ![e] = r] \in Fields
  BY EntityAssumption DEF Fields, Field, Entity

LEMMA NewFields ==
  ASSUME NEW n \in Name, NEW e \in Entity, NEW r \in Role
  PROVE [Blank EXCEPT !["name"] = n, ![e] = r] \in Fields
  BY EntityAssumption DEF Blank, Fields, Field, Entity
-----------------------------------------------------------------------------
(* The invariant.                                                          *)

LEMMA InitIInv == Init => IInv
<1> SUFFICES ASSUME Init PROVE IInv
  OBVIOUS
<1>1. TypeOK
  <2>1. store \in [Subject -> [life : {"unborn", "live", "gone"}, secret : Nat, f : Fields]]
    BY DEF Init
  <2>2. begun \in Nat
    BY DEF Init
  <2> QED  BY <2>1, <2>2 DEF Init, TypeOK, Calls
<1>2. Unused
  BY DEF Init, Unused
<1> QED  BY <1>1, <1>2 DEF Init, IInv, Obeys, Knows

\* A command that ends has nothing left to obey or to know.
LEMMA Ending ==
  ASSUME TypeOK, NEW a \in Admin, End(a),
         \A b \in Admin : Obeys(b) /\ Knows(b),
         \A s \in Subject : store'[s].f = store[s].f,
         \A s \in Subject : store'[s].life = "unborn" => store[s].life = "unborn"
  PROVE  /\ pc' \in [Admin -> Calls] /\ cmd' \in [Admin -> Commands \union {None}]
         /\ seen' \in [Admin -> Fields \union {Blank}] /\ raced' \in [Admin -> SUBSET Field]
         /\ \A b \in Admin : Obeys(b)' /\ Knows(b)'
<1> USE DEF End, Goto
<1>1. /\ pc' \in [Admin -> Calls] /\ cmd' \in [Admin -> Commands \union {None}]
      /\ seen' \in [Admin -> Fields \union {Blank}] /\ raced' \in [Admin -> SUBSET Field]
  BY DEF TypeOK, Calls
<1>2. Obeys(a)' /\ Knows(a)'
  BY DEF TypeOK, Obeys, Knows
<1>3. ASSUME NEW b \in Admin, b # a PROVE Obeys(b)' /\ Knows(b)'
  <2>1. pc'[b] = pc[b] /\ cmd'[b] = cmd[b] /\ seen'[b] = seen[b] /\ raced'[b] = raced[b]
    BY <1>3 DEF TypeOK
  <2>2. Obeys(b)'
    BY <2>1 DEF Obeys, Deletes
  <2>3. pc[b] # "idle" => cmd[b].s \in Subject
    BY CommandsFit DEF Obeys, Fits
  <2> QED  BY <2>1, <2>2, <2>3 DEF Knows
<1> QED  BY <1>1, <1>2, <1>3

\* A call stores fields, and the others' knowledge is marked as out of date.
LEMMA Storing ==
  ASSUME IInv, NEW a \in Admin, NEW s \in Subject, NEW g \in Fields,
         NEW l \in {"idle", "roles"}, Store(a, s, g, l), store[s].life = "live",
         UNCHANGED <<members, begun>>
  PROVE  /\ TypeOK' /\ Unused'
         /\ \A b \in Admin \ {a} : Obeys(b)' /\ Knows(b)'
         /\ l = "idle" => Obeys(a)' /\ Knows(a)'
<1> USE DEF Store, Goto
<1>1. TypeOK'
  BY DEF IInv, TypeOK, Calls
<1>2. Unused'
  BY DEF IInv, TypeOK, Unused
<1>3. ASSUME NEW b \in Admin \ {a} PROVE Obeys(b)' /\ Knows(b)'
  <2>1. pc'[b] = pc[b] /\ cmd'[b] = cmd[b] /\ seen'[b] = seen[b]
    BY <1>3 DEF IInv, TypeOK
  <2>2. Obeys(b)'
    BY <2>1 DEF IInv, Obeys, Deletes
  <2>3. pc[b] # "idle" => cmd[b].s \in Subject
    BY CommandsFit DEF IInv, Obeys, Fits
  <2>4. Knows(b)'
    <3> SUFFICES ASSUME pc[b] \in {"rename", "roles"} PROVE Knows(b)'
      BY <2>1 DEF Knows
    <3>1. CASE cmd[b].s = s
      <4>1. raced'[b] = raced[b] \union {x \in Field : store[s].f[x] # g[x]}
        BY <3>1 DEF IInv, TypeOK
      <4>2. store'[s].f = g /\ store'[s].life = store[s].life
        BY DEF IInv, TypeOK
      <4> QED  BY <2>1, <3>1, <4>1, <4>2 DEF IInv, Knows
    <3>2. CASE cmd[b].s # s
      <4>1. raced'[b] = raced[b] /\ store'[cmd[b].s] = store[cmd[b].s]
        BY <2>3, <3>2 DEF IInv, TypeOK
      <4> QED  BY <2>1, <4>1 DEF IInv, Knows
    <3> QED  BY <3>1, <3>2
  <2> QED  BY <2>2, <2>4
<1>4. ASSUME l = "idle" PROVE Obeys(a)' /\ Knows(a)'
  BY <1>4 DEF IInv, TypeOK, Obeys, Knows
<1> QED  BY <1>1, <1>2, <1>3, <1>4

LEMMA BeginKeeps == ASSUME IInv, NEW a \in Admin, Begin(a) PROVE IInv'
<1> PICK c \in Commands : /\ pc' = [pc EXCEPT ![a] =
                                IF c.kind \in {"create", "orgrole"} THEN c.kind ELSE "read"]
                          /\ cmd' = [cmd EXCEPT ![a] = c]
  BY DEF Begin
<1>1. TypeOK' /\ Unused'
  BY DEF Begin, IInv, TypeOK, Unused, Calls
<1>2. Obeys(a)' /\ Knows(a)'
  BY DEF Begin, IInv, TypeOK, Obeys, Knows
<1>3. ASSUME NEW b \in Admin, b # a PROVE Obeys(b)' /\ Knows(b)'
  <2>1. pc'[b] = pc[b] /\ cmd'[b] = cmd[b] /\ UNCHANGED <<seen, raced, store>>
    BY <1>3 DEF Begin, IInv, TypeOK
  <2> QED  BY <2>1 DEF IInv, Obeys, Knows, Deletes
<1> QED  BY <1>1, <1>2, <1>3 DEF IInv

LEMMA ReadKeeps == ASSUME IInv, NEW a \in Admin, Read(a) PROVE IInv'
<1> DEFINE c == cmd[a]
           f == store[c.s].f
           l == FirstCall(c, f)
<1>1. c \in Commands /\ Fits(c) /\ store[c.s].life = "live" /\ Scope(c.s) \in c.scopes
  BY CommandsFit DEF Read, Found, IInv, Obeys
<1>2. f \in Fields /\ l \in Calls
  BY <1>1 DEF IInv, TypeOK, Fits, Kinds, FirstCall, Calls
<1>3. TypeOK' /\ Unused'
  BY <1>2 DEF Read, IInv, TypeOK, Unused
<1>4. pc'[a] = l /\ (l # "idle" => cmd'[a] = c /\ seen'[a] = f) /\ UNCHANGED <<store, raced>>
  BY DEF Read, IInv, TypeOK
<1>5. Obeys(a)'
  BY <1>1, <1>4 DEF Obeys, FirstCall, Fits, Kinds, Deletes
<1>6. Knows(a)'
  BY <1>1, <1>2, <1>4 DEF Knows
<1>7. ASSUME NEW b \in Admin, b # a PROVE Obeys(b)' /\ Knows(b)'
  <2>1. pc'[b] = pc[b] /\ cmd'[b] = cmd[b] /\ seen'[b] = seen[b] /\ UNCHANGED <<raced, store>>
    BY <1>7 DEF Read, IInv, TypeOK
  <2> QED  BY <2>1 DEF IInv, Obeys, Knows, Deletes
<1> QED  BY <1>3, <1>5, <1>6, <1>7 DEF IInv

LEMMA RenameKeeps == ASSUME IInv, NEW a \in Admin, Rename(a) PROVE IInv'
<1> DEFINE c == cmd[a]
           n == IF c.n = Same THEN seen[a]["name"] ELSE c.n
           g == [store[c.s].f EXCEPT !["name"] = n]
           l == IF SendsRoles(c, seen[a]) THEN "roles" ELSE "idle"
<1>1. c \in Commands /\ Fits(c) /\ c.kind = "update" /\ seen[a] \in Fields
  BY CommandsFit DEF Rename, IInv, Obeys, Knows
<1>2. n \in Name
  BY <1>1 DEF Fits, Fields
<1>3. c.s \in Subject /\ store[c.s].f \in Fields
  BY <1>1 DEF IInv, TypeOK, Fits
<1>4. g \in Fields
  BY <1>2, <1>3, SetName
<1>5. Store(a, c.s, g, l) /\ store[c.s].life = "live" /\ UNCHANGED <<members, begun>>
  BY DEF Rename
<1>6. /\ TypeOK' /\ Unused'
      /\ \A b \in Admin \ {a} : Obeys(b)' /\ Knows(b)'
      /\ l = "idle" => Obeys(a)' /\ Knows(a)'
  <2> HIDE DEF c, g
  <2> QED  BY <1>3, <1>4, <1>5, Storing
<1>7. ASSUME l = "roles" PROVE Obeys(a)' /\ Knows(a)'
  <2>1. pc'[a] = "roles" /\ cmd'[a] = c /\ seen'[a] = seen[a] /\ raced'[a] = raced[a]
    BY <1>5, <1>7 DEF Store, Goto, IInv, TypeOK
  <2>2. c.v \in Role \union {Same}
    BY <1>7 DEF SendsRoles
  <2>3. Obeys(a)'
    BY <1>1, <2>1, <2>2 DEF Obeys
  <2>4. store'[c.s].life = store[c.s].life /\ store'[c.s].f = g
    BY <1>3, <1>5 DEF Store, IInv, TypeOK
  <2>5. \A x \in Field \ {"name"} : g[x] = store[c.s].f[x]
    BY <1>3 DEF Fields
  <2> QED  BY <1>1, <1>5, <2>1, <2>3, <2>4, <2>5 DEF IInv, Knows, Rename
<1> QED  BY <1>6, <1>7 DEF IInv

\* What WriteRoles stores: the request, under the name the subject has.
LEMMA Requested ==
  ASSUME IInv, NEW a \in Admin, WriteRoles(a)
  PROVE  LET c == cmd[a]
             g == [Request(c, seen[a]) EXCEPT !["name"] = store[c.s].f["name"]] IN
         /\ c \in Commands /\ c.s \in Subject /\ g \in Fields
         /\ \A x \in Field : g[x] = (IF x = "name" THEN store[c.s].f[x]
                                     ELSE IF c.v # Same /\ x = c.e THEN c.v ELSE seen[a][x])
<1> DEFINE c == cmd[a]
           r == Request(c, seen[a])
           n == store[c.s].f["name"]
<1>1. c \in Commands /\ Fits(c) /\ c.v \in Role \union {None, Same} /\ seen[a] \in Fields
  BY CommandsFit DEF WriteRoles, IInv, Obeys, Knows
<1>2. c.s \in Subject /\ c.e \in Entity /\ n \in Name
  BY <1>1 DEF Fits, IInv, TypeOK, Fields
<1>3. r \in Fields
  BY <1>1, <1>2, SetRole DEF Request
<1>4. [r EXCEPT !["name"] = n] \in Fields
  BY <1>2, <1>3, SetName
<1>5. \A x \in Field : r[x] = IF c.v # Same /\ x = c.e THEN c.v ELSE seen[a][x]
  BY <1>1, <1>2 DEF Request, Fields
<1>6. \A x \in Field : [r EXCEPT !["name"] = n][x] = IF x = "name" THEN n ELSE r[x]
  BY <1>3 DEF Fields
<1> QED  BY <1>1, <1>2, <1>4, <1>5, <1>6

LEMMA WriteRolesKeeps == ASSUME IInv, NEW a \in Admin, WriteRoles(a) PROVE IInv'
<1> DEFINE c == cmd[a]
           g == [Request(c, seen[a]) EXCEPT !["name"] = store[c.s].f["name"]]
<1>1. c.s \in Subject /\ g \in Fields
  BY Requested
<1>2. Store(a, c.s, g, "idle") /\ store[c.s].life = "live" /\ UNCHANGED <<members, begun>>
  BY DEF WriteRoles
<1> HIDE DEF c, g
<1> QED  BY <1>1, <1>2, Storing DEF IInv

LEMMA WriteOrgRoleKeeps == ASSUME IInv, NEW a \in Admin, WriteOrgRole(a) PROVE IInv'
<1> DEFINE c == cmd[a]
           g == [store[c.s].f EXCEPT ![c.e] = c.v]
<1>1. Fits(c) /\ c.kind = "orgrole"
  BY CommandsFit DEF WriteOrgRole, IInv, Obeys
<1>2. c.s \in Subject /\ c.e \in Entity /\ c.v \in Role /\ store[c.s].f \in Fields
  BY <1>1 DEF Fits, IInv, TypeOK
<1>3. g \in Fields
  BY <1>2, SetRole
<1>4. Store(a, c.s, g, "idle") /\ store[c.s].life = "live" /\ UNCHANGED <<members, begun>>
  BY DEF WriteOrgRole
<1> HIDE DEF c, g
<1> QED  BY <1>2, <1>3, <1>4, Storing DEF IInv

LEMMA DeleteKeeps == ASSUME IInv, NEW a \in Admin, Delete(a) \/ Rotate(a) PROVE IInv'
<1>1. cmd[a].s \in Subject
  BY CommandsFit DEF Delete, Rotate, IInv, Obeys, Fits
<1> DEFINE o == cmd[a].s
           new == [store[o] EXCEPT !.life = "gone"]
           turned == [store[o] EXCEPT !.secret = @ + 1]
<1>t. /\ store \in [Subject -> [life : {"unborn", "live", "gone"}, secret : Nat, f : Fields]]
      /\ Unused
  BY DEF IInv, TypeOK
<1>a. /\ new \in [life : {"unborn", "live", "gone"}, secret : Nat, f : Fields]
      /\ new.life = "gone" /\ new.f = store[o].f
  BY <1>1, <1>t
<1>b. /\ turned \in [life : {"unborn", "live", "gone"}, secret : Nat, f : Fields]
      /\ turned.life = store[o].life /\ turned.f = store[o].f
  BY <1>1, <1>t
<1>c. /\ store' = [store EXCEPT ![o] = new] \/ store' = [store EXCEPT ![o] = turned]
      /\ store[o].life = "live"
  BY DEF Delete, Rotate
<1>2. /\ store' \in [Subject -> [life : {"unborn", "live", "gone"}, secret : Nat, f : Fields]]
      /\ Unused'
      /\ \A s \in Subject : store'[s].f = store[s].f
      /\ \A s \in Subject : store'[s].life = "unborn" => store[s].life = "unborn"
  <2> HIDE DEF new, turned, o
  <2>1. CASE store' = [store EXCEPT ![o] = new]
    BY <1>1, <1>t, <1>a, <1>c, <2>1 DEF Unused, o
  <2>2. CASE store' = [store EXCEPT ![o] = turned]
    BY <1>1, <1>t, <1>b, <1>c, <2>2 DEF Unused, o
  <2> QED  BY <1>c, <2>1, <2>2
<1>3. End(a) /\ UNCHANGED <<members, begun>>
  BY DEF Delete, Rotate
<1> QED  BY <1>2, <1>3, Ending DEF IInv, TypeOK

LEMMA CreateKeeps == ASSUME IInv, NEW a \in Admin, Create(a) PROVE IInv'
<1> DEFINE c == cmd[a]
           new == [life |-> "live", secret |-> 0,
                   f |-> [Blank EXCEPT !["name"] = c.n, ![c.e] = c.v]]
<1>1. Fits(c) /\ c.kind = "create"
  BY CommandsFit DEF Create, IInv, Obeys
<1>2. c.s \in Subject /\ new.f \in Fields
  BY <1>1, NewFields DEF Fits
<1>3. store' = [store EXCEPT ![c.s] = new] /\ store[c.s].life = "unborn" /\ End(a)
      /\ UNCHANGED <<members, begun>>
  BY DEF Create
<1>4. new \in [life : {"unborn", "live", "gone"}, secret : Nat, f : Fields] /\ new.life = "live"
  BY <1>2
<1> HIDE DEF c, new
<1>5. TypeOK' /\ Unused'
  BY <1>2, <1>3, <1>4 DEF IInv, TypeOK, Unused, End, Goto, Calls
<1>6. Obeys(a)' /\ Knows(a)'
  BY <1>3 DEF IInv, TypeOK, Obeys, Knows, End, Goto
<1>7. ASSUME NEW b \in Admin, b # a PROVE Obeys(b)' /\ Knows(b)'
  <2>1. pc'[b] = pc[b] /\ cmd'[b] = cmd[b] /\ seen'[b] = seen[b] /\ raced'[b] = raced[b]
    BY <1>3, <1>7 DEF IInv, TypeOK, End, Goto
  <2>2. pc[b] # "idle" => cmd[b].s \in Subject
    BY CommandsFit DEF IInv, Obeys, Fits
  <2>3. pc[b] \in {"rename", "roles"} => store'[cmd[b].s] = store[cmd[b].s]
    BY <1>3, <2>2 DEF IInv, TypeOK, Knows
  <2> QED  BY <2>1, <2>3 DEF IInv, Obeys, Knows, Deletes
<1> QED  BY <1>5, <1>6, <1>7 DEF IInv

LEMMA MembersKeep ==
  ASSUME IInv, NEW a \in Admin, AddMember(a) \/ RemoveMember(a) \/ Stop(a)
  PROVE  IInv'
<1>1. UNCHANGED <<store, begun>> /\ End(a)
  BY DEF AddMember, RemoveMember, Stop
<1>2. members' \in [Team -> SUBSET User]
  <2>1. pc[a] # "idle" => Fits(cmd[a])
    BY CommandsFit DEF IInv, Obeys
  <2>2. pc[a] = "add" => cmd[a].kind = "add"
    BY DEF IInv, Obeys
  <2> QED  BY <2>1, <2>2 DEF AddMember, RemoveMember, Stop, Fits, IInv, TypeOK
<1> QED  BY <1>1, <1>2, Ending DEF IInv, TypeOK, Unused

LEMMA ListMembersKeeps == ASSUME IInv, NEW a \in Admin, ListMembers(a) PROVE IInv'
<1>1. TypeOK' /\ Unused'
  BY DEF ListMembers, Goto, IInv, TypeOK, Unused, Calls
<1>2. Obeys(a)' /\ Knows(a)'
  BY DEF ListMembers, Goto, IInv, TypeOK, Obeys, Knows
<1>3. ASSUME NEW b \in Admin, b # a PROVE Obeys(b)' /\ Knows(b)'
  <2>1. pc'[b] = pc[b] /\ cmd'[b] = cmd[b] /\ seen'[b] = seen[b] /\ UNCHANGED <<raced, store>>
    BY <1>3 DEF ListMembers, Goto, IInv, TypeOK
  <2> QED  BY <2>1 DEF IInv, Obeys, Knows, Deletes
<1> QED  BY <1>1, <1>2, <1>3 DEF IInv

LEMMA NextIInv == IInv /\ [Next]_vars => IInv'
<1> SUFFICES ASSUME IInv, [Next]_vars PROVE IInv'
  OBVIOUS
<1>1. CASE UNCHANGED vars
  BY <1>1 DEF vars, IInv, TypeOK, Unused, Obeys, Knows, Deletes
<1>2. CASE Next
  BY <1>2, BeginKeeps, ReadKeeps, RenameKeeps, WriteRolesKeeps, WriteOrgRoleKeeps, DeleteKeeps,
     CreateKeeps, MembersKeep, ListMembersKeeps DEF Next
<1> QED  BY <1>1, <1>2

\* Type correctness: a subject always has a name, at most one role on each
\* entity, and none the CLI does not know.
THEOREM Typed == Spec => []TypeOK
<1>1. IInv => TypeOK
  BY DEF IInv
<1> QED  BY <1>1, InitIInv, NextIInv, PTL DEF Spec
-----------------------------------------------------------------------------
(* What a command may change.                                              *)

\* A command that moves changes this entry of this subject, and may.
Entitled(a, s, x) ==
    /\ Moves(a) /\ pc[a] # "idle" /\ cmd[a].s = s
    /\ \/ x \in Asked(cmd[a])
       \/ x \in raced[a] /\ store'[s].f[x] = seen[a][x]

LEMMA RenameEntitled ==
  ASSUME IInv, NEW a \in Admin, Rename(a), NEW s \in Subject, NEW x \in Field,
         store'[s].f[x] # store[s].f[x]
  PROVE  Entitled(a, s, x)
<1> DEFINE c == cmd[a]
           n == IF c.n = Same THEN seen[a]["name"] ELSE c.n
           f == store[c.s].f
<1>1. c.s \in Subject /\ f \in Fields
  BY CommandsFit DEF Rename, IInv, TypeOK, Obeys, Fits
<1>2. store' = [store EXCEPT ![c.s].f = [f EXCEPT !["name"] = n]]
  BY DEF Rename, Store
<1>3. s = c.s /\ x = "name" /\ store'[s].f[x] = n /\ n # f[x]
  BY <1>1, <1>2 DEF IInv, TypeOK, Fields
<1>4. Moves(a) /\ pc[a] = "rename"
  BY DEF Rename, Store, Goto, Moves, IInv, TypeOK
<1>5. c.n = Same => x \in raced[a] /\ store'[s].f[x] = seen[a][x]
  BY <1>3, <1>4 DEF IInv, Knows
<1>6. c.n # Same => x \in Asked(c)
  BY <1>3 DEF Asked
<1> QED  BY <1>3, <1>4, <1>5, <1>6 DEF Entitled

LEMMA WriteRolesEntitled ==
  ASSUME IInv, NEW a \in Admin, WriteRoles(a), NEW s \in Subject, NEW x \in Field,
         store'[s].f[x] # store[s].f[x]
  PROVE  Entitled(a, s, x)
<1> DEFINE c == cmd[a]
           g == [Request(c, seen[a]) EXCEPT !["name"] = store[c.s].f["name"]]
<1>1. /\ c.s \in Subject
      /\ g[x] = (IF x = "name" THEN store[c.s].f[x]
                 ELSE IF c.v # Same /\ x = c.e THEN c.v ELSE seen[a][x])
  BY Requested
<1>2. store' = [store EXCEPT ![c.s].f = g]
  BY DEF WriteRoles, Store
<1>3. s = c.s /\ store'[s].f = g
  <2> HIDE DEF c, g
  <2> QED  BY <1>1, <1>2 DEF IInv, TypeOK
<1>4. Moves(a) /\ pc[a] = "roles"
  BY DEF WriteRoles, Store, Goto, Moves, IInv, TypeOK
<1>5. CASE c.v # Same /\ x = c.e
  BY <1>3, <1>4, <1>5 DEF Entitled, Asked
<1>6. CASE ~(c.v # Same /\ x = c.e)
  <2>1. x # "name" /\ g[x] = seen[a][x] /\ seen[a][x] # store[c.s].f[x]
    BY <1>1, <1>3, <1>6
  <2>2. x \in raced[a]
    BY <1>4, <2>1 DEF IInv, Knows
  <2> QED  BY <1>3, <1>4, <2>1, <2>2 DEF Entitled
<1> QED  BY <1>5, <1>6

LEMMA WriteOrgRoleEntitled ==
  ASSUME IInv, NEW a \in Admin, WriteOrgRole(a), NEW s \in Subject, NEW x \in Field,
         store'[s].f[x] # store[s].f[x]
  PROVE  Entitled(a, s, x)
<1> DEFINE c == cmd[a]
           f == store[c.s].f
<1>1. c.s \in Subject /\ f \in Fields /\ c.v \in Role
  BY CommandsFit DEF WriteOrgRole, IInv, TypeOK, Obeys, Fits
<1>2. store' = [store EXCEPT ![c.s].f = [f EXCEPT ![c.e] = c.v]]
  BY DEF WriteOrgRole, Store
<1>3. s = c.s /\ x = c.e
  BY <1>1, <1>2 DEF IInv, TypeOK, Fields
<1>4. Moves(a) /\ pc[a] # "idle"
  BY DEF WriteOrgRole, Store, Goto, Moves, IInv, TypeOK
<1> QED  BY <1>1, <1>3, <1>4, OptionAssumption DEF Entitled, Asked

\* The other calls change no field of a subject that is there.
LEMMA OthersKeepFields ==
  ASSUME IInv, NEW a \in Admin,
         \/ Begin(a) \/ Read(a) \/ Stop(a) \/ Delete(a) \/ Rotate(a) \/ Create(a)
         \/ AddMember(a) \/ ListMembers(a) \/ RemoveMember(a),
         NEW s \in Subject, store[s].life = "live"
  PROVE  store'[s].f = store[s].f
<1>1. CASE Delete(a) \/ Rotate(a)
  BY <1>1 DEF Delete, Rotate, IInv, TypeOK
<1>2. CASE Create(a)
  BY <1>2 DEF Create, IInv, TypeOK
<1>3. CASE Begin(a) \/ Read(a) \/ Stop(a) \/ AddMember(a) \/ ListMembers(a) \/ RemoveMember(a)
  BY <1>3 DEF Begin, Read, Stop, AddMember, ListMembers, RemoveMember
<1> QED  BY <1>1, <1>2, <1>3

\* For any admins and subjects: a command changes the name and the role it
\* was asked to change and nothing else, but what was changed by another
\* since it was read.
THEOREM OnlyAsked == Spec => OnlyAskedOrRaced
<1> DEFINE Kept(s, x) ==
      store[s].life = "live" /\ store'[s].f[x] # store[s].f[x] =>
          \E a \in Admin : Entitled(a, s, x)
<1>1. ASSUME IInv, [Next]_vars, NEW s \in Subject, NEW x \in Field PROVE Kept(s, x)
  <2> SUFFICES ASSUME store[s].life = "live", store'[s].f[x] # store[s].f[x]
               PROVE  \E a \in Admin : Entitled(a, s, x)
    OBVIOUS
  <2>1. Next
    BY <1>1 DEF vars
  <2> QED
    BY <1>1, <2>1, RenameEntitled, WriteRolesEntitled, WriteOrgRoleEntitled, OthersKeepFields
    DEF Next
<1>2. IInv /\ [Next]_vars => [\A s \in Subject, x \in Field :
         store[s].life = "live" /\ store'[s].f[x] # store[s].f[x] =>
             \E a \in Admin :
                /\ Moves(a) /\ pc[a] # "idle" /\ cmd[a].s = s
                /\ \/ x \in Asked(cmd[a])
                   \/ x \in raced[a] /\ store'[s].f[x] = seen[a][x]]_vars
  BY <1>1 DEF Entitled
<1> QED  BY <1>2, InitIInv, NextIInv, PTL DEF Spec, OnlyAskedOrRaced

\* A token's scope is that of its set, whatever else there is.
LEMMA ScopeOfToken ==
  \A t \in Token : /\ t \notin Team
                   /\ Scope(t) \in Scopes
  BY SubjectAssumption DEF Token, Scope, Scopes

\* For any admins, tokens and entities: a token is deleted, or its secret
\* replaced, by a command run at its own scope only.
THEOREM TokensHome == Spec => TokensEndAtHome
<1> DEFINE Home(t, a) == Moves(a) /\ pc[a] # "idle" /\ cmd[a].s = t
                         /\ Level(cmd[a].e) = Scope(t)
           Ends(t) == \/ store[t].life = "live" /\ store'[t].life = "gone"
                      \/ store'[t].secret # store[t].secret
<1>1. ASSUME IInv, [Next]_vars, NEW t \in Token, Ends(t) PROVE \E a \in Admin : Home(t, a)
  <2>1. t \in Subject /\ t \notin Team
    BY ScopeOfToken DEF Subject
  <2>2. Next
    BY <1>1 DEF vars
  <2>3. PICK a \in Admin :
          \/ Begin(a) \/ Read(a) \/ Stop(a) \/ Rename(a) \/ WriteRoles(a)
          \/ WriteOrgRole(a) \/ Delete(a) \/ Rotate(a) \/ Create(a)
          \/ AddMember(a) \/ ListMembers(a) \/ RemoveMember(a)
    BY <2>2 DEF Next
  <2>4. CASE Delete(a)
    <3>1. cmd[a].s = t /\ Moves(a) /\ pc[a] = "delete"
      BY <1>1, <2>1, <2>4 DEF Delete, End, Goto, Moves, IInv, TypeOK
    <3>2. Deletes(cmd[a])
      BY <1>1, <3>1 DEF IInv, Obeys
    <3> QED  BY <2>1, <3>1, <3>2 DEF Deletes
  <2>5. CASE Rotate(a)
    <3>1. cmd[a].s = t /\ Moves(a) /\ pc[a] = "rotate"
      BY <1>1, <2>1, <2>5 DEF Rotate, End, Goto, Moves, IInv, TypeOK
    <3>2. Scope(t) \in cmd[a].scopes /\ cmd[a].scopes = {Level(cmd[a].e)}
      BY <1>1, <3>1, CommandsFit DEF IInv, Obeys, Fits
    <3> QED  BY <3>1, <3>2
  <2>6. CASE Create(a)
    BY <1>1, <2>1, <2>6 DEF Create, IInv, TypeOK, Unused
  <2>7. CASE Rename(a) \/ WriteRoles(a) \/ WriteOrgRole(a)
    BY <1>1, <2>1, <2>7 DEF Rename, WriteRoles, WriteOrgRole, Store, IInv, TypeOK
  <2>8. CASE \/ Begin(a) \/ Read(a) \/ Stop(a) \/ AddMember(a) \/ ListMembers(a)
             \/ RemoveMember(a)
    BY <1>1, <2>8 DEF Begin, Read, Stop, AddMember, ListMembers, RemoveMember
  <2> QED  BY <2>3, <2>4, <2>5, <2>6, <2>7, <2>8
<1>2. IInv /\ [Next]_vars => [\A t \in Token :
         \/ store[t].life = "live" /\ store'[t].life = "gone"
         \/ store'[t].secret # store[t].secret
         => \E a \in Admin : Moves(a) /\ pc[a] # "idle" /\ cmd[a].s = t
                             /\ Level(cmd[a].e) = Scope(t)]_vars
  BY <1>1
<1> QED  BY <1>2, InitIInv, NextIInv, PTL DEF Spec, TokensEndAtHome
-----------------------------------------------------------------------------
(* Queues. A list of queues, whatever its order.                           *)

Queue == Queues!QueueSet
Apart(qs) == \A i, j \in DOMAIN qs : qs[i].name = qs[j].name => i = j
ListsOf(n) == {qs \in [1..n -> Queue] : Apart(qs) /\ \A i \in 1..n : qs[i].id = qs[i].name}
SameQueues(p, q) ==
    /\ \A i \in DOMAIN p : \E j \in DOMAIN q : p[i] = q[j]
    /\ \A j \in DOMAIN q : \E i \in DOMAIN p : p[i] = q[j]

\* The instance counts as this module does.
LEMMA Counts ==
  /\ \A S : Queues!Cardinality(S) = Cardinality(S)
  /\ \A S : Queues!IsFiniteSet(S) <=> IsFiniteSet(S)
<1>1. ASSUME NEW S PROVE Queues!Cardinality(S) = Cardinality(S)
  BY DEF Queues!Cardinality, Cardinality
<1>2. ASSUME NEW S PROVE Queues!IsFiniteSet(S) <=> IsFiniteSet(S)
  BY DEF Queues!IsFiniteSet, IsFiniteSet
<1> QED
  BY <1>1, <1>2

LEMMA NamesSound ==
  /\ IsFiniteSet(Names) /\ Names \subseteq Nat \ {0}
  /\ TheDefault \in Names /\ None \notin Names
  BY QueuesSound, Counts DEF Queues!Sound

\* The names before one.
Lower(x, qs) == {m \in Queues!NamesOf(qs) : m < x}

LEMMA RankCounts == \A x, qs : Queues!Rank(x, qs) = Cardinality(Lower(x, qs))
  BY Counts DEF Queues!Rank, Lower

LEMMA NamesNumbers == \A x \in Names : x \in Nat
  BY NamesSound

LEMMA QueueShape ==
  /\ Names \subseteq Nat /\ 0 \notin Names
  /\ \A q \in Queue : q.name \in Names /\ q.id \in Names /\ q.pool \in Pools
  /\ \A q, r \in Queue : q.name = r.name /\ q.id = r.id /\ q.pool = r.pool => q = r
<1>1. Names \subseteq Nat /\ 0 \notin Names
  BY NamesSound
<1> QED
  BY <1>1 DEF Queue, Queues!QueueSet

LEMMA NamesAre ==
  ASSUME NEW n \in Nat, NEW qs \in [1..n -> Queue]
  PROVE  /\ Queues!NamesOf(qs) \subseteq Names
         /\ \A i \in 1..n : qs[i].name \in Queues!NamesOf(qs) /\ qs[i].name \in Names
         /\ \A x \in Queues!NamesOf(qs) : \E i \in 1..n : qs[i].name = x
<1>1. \A i \in 1..n : qs[i] \in Queue
  OBVIOUS
<1>2. DOMAIN qs = 1..n
  OBVIOUS
<1> QED
  BY <1>1, <1>2, QueueShape DEF Queues!NamesOf

LEMMA NamesFinite ==
  ASSUME NEW n \in Nat, NEW qs \in [1..n -> Queue], Apart(qs)
  PROVE  IsFiniteSet(Queues!NamesOf(qs)) /\ Cardinality(Queues!NamesOf(qs)) = n
<1> DEFINE f == [k \in 1..n |-> qs[k].name]
<1>1. f \in Bijection(1..n, Queues!NamesOf(qs))
  <2>1. f \in [1..n -> Queues!NamesOf(qs)]
    BY DEF Queues!NamesOf
  <2>2. \A a, b \in 1..n : f[a] = f[b] => a = b
    BY DEF Apart
  <2>3. \A x \in Queues!NamesOf(qs) : \E k \in 1..n : f[k] = x
    BY DEF Queues!NamesOf
  <2> QED
    BY <2>1, <2>2, <2>3 DEF Bijection, Injection, Surjection, IsInjective
<1>2. ExistsBijection(1..n, Queues!NamesOf(qs))
  BY <1>1 DEF ExistsBijection
<1>3. IsFiniteSet(1..n) /\ Cardinality(1..n) = n
  BY FS_Interval
<1> QED
  BY <1>2, <1>3, FS_Bijection

LEMMA LowerRanks ==
  ASSUME NEW n \in Nat, NEW qs \in [1..n -> Queue], Apart(qs), NEW i \in 1..n
  PROVE  Queues!Rank(qs[i].name, qs) \in 0..(n - 1)
<1> DEFINE all == Queues!NamesOf(qs)
           x == qs[i].name
           lower == Lower(x, qs)
<1>1. IsFiniteSet(all) /\ Cardinality(all) = n
  BY NamesFinite
<1>2. x \in all /\ all \subseteq Nat
  <2>1. x \in all /\ all \subseteq Names
    BY NamesAre
  <2> QED
    BY <2>1, NamesNumbers
<1>4. lower \in SUBSET (all \ {x})
  BY <1>2 DEF Lower
<1> HIDE DEF lower, all, x
<1>3. IsFiniteSet(all \ {x}) /\ Cardinality(all \ {x}) = n - 1
  BY <1>1, <1>2, FS_RemoveElement
<1>5. IsFiniteSet(lower) /\ Cardinality(lower) <= n - 1
  BY <1>3, <1>4, FS_Subset
<1>6. Cardinality(lower) \in Nat
  BY <1>5, FS_CardinalityType
<1>7. Queues!Rank(x, qs) = Cardinality(lower)
  BY RankCounts DEF lower
<1> QED
  BY <1>5, <1>6, <1>7 DEF x

LEMMA RanksGrow ==
  ASSUME NEW n \in Nat, NEW qs \in [1..n -> Queue], Apart(qs),
         NEW i \in 1..n, NEW k \in 1..n, qs[i].name < qs[k].name
  PROVE  Queues!Rank(qs[i].name, qs) < Queues!Rank(qs[k].name, qs)
<1> DEFINE all == Queues!NamesOf(qs)
           x == qs[i].name
           y == qs[k].name
           lower == Lower(x, qs)
           upper == Lower(y, qs)
<1>1. IsFiniteSet(all) /\ all \subseteq Nat /\ x \in all /\ y \in all /\ x < y
  BY NamesFinite, QueueShape, NamesAre
<1>2. upper \in SUBSET all /\ x \in upper
  BY <1>1 DEF Lower
<1>3. lower \in SUBSET (upper \ {x})
  <2>1. \A m \in Nat : m < x => m < y /\ m # x
    BY <1>1
  <2> QED
    BY <1>1, <2>1 DEF Lower
<1>4. Queues!Rank(x, qs) = Cardinality(lower) /\ Queues!Rank(y, qs) = Cardinality(upper)
  BY RankCounts
<1> HIDE DEF lower, upper, all, x, y
<1>5. IsFiniteSet(upper) /\ Cardinality(upper) \in Nat
  BY <1>1, <1>2, FS_Subset, FS_CardinalityType
<1>6. IsFiniteSet(upper \ {x}) /\ Cardinality(upper \ {x}) = Cardinality(upper) - 1
  BY <1>2, <1>5, FS_RemoveElement
<1>7. IsFiniteSet(lower) /\ Cardinality(lower) <= Cardinality(upper) - 1
  BY <1>3, <1>6, FS_Subset
<1>8. Cardinality(lower) \in Nat
  BY <1>7, FS_CardinalityType
<1> QED
  BY <1>4, <1>5, <1>7, <1>8 DEF x, y

\* Every place in the order has its queue, and only one.
LEMMA RankedOnce ==
  ASSUME NEW n \in Nat, NEW qs \in [1..n -> Queue], Apart(qs)
  PROVE  /\ \A i, k \in 1..n :
               Queues!Rank(qs[i].name, qs) = Queues!Rank(qs[k].name, qs) => i = k
         /\ \A i \in 1..n : \E k \in 1..n : Queues!Rank(qs[k].name, qs) = i - 1
<1> DEFINE R(i) == Queues!Rank(qs[i].name, qs)
           g == [i \in 1..n |-> R(i) + 1]
<1>1. \A i \in 1..n : R(i) \in 0..(n - 1)
  BY LowerRanks
<1>2. \A i, k \in 1..n : qs[i].name < qs[k].name => R(i) < R(k)
  BY RanksGrow
<1>3. \A i, k \in 1..n :
         qs[i].name # qs[k].name => qs[i].name < qs[k].name \/ qs[k].name < qs[i].name
  <2>1. \A i \in 1..n : qs[i].name \in Nat
    BY NamesAre, NamesNumbers
  <2> QED
    BY <2>1
<1>4. \A i, k \in 1..n : qs[i].name = qs[k].name => i = k
  BY DEF Apart
<1> HIDE DEF R
<1>5. \A i, k \in 1..n : R(i) = R(k) => i = k
  BY <1>1, <1>2, <1>3, <1>4
<1>6. g \in [1..n -> 1..n]
  BY <1>1
<1>7. \A i, k \in 1..n : g[i] = g[k] => i = k
  BY <1>1, <1>5
<1>13. \A i \in 1..n : g[i] = R(i) + 1
  OBVIOUS
<1> HIDE DEF g
<1>8. g \in Injection(1..n, 1..n)
  BY <1>6, <1>7 DEF Injection, IsInjective
<1>9. IsFiniteSet(1..n) /\ Cardinality(1..n) = n
  BY FS_Interval
<1>10. g \in Surjection(1..n, 1..n)
  BY <1>8, <1>9, FS_Injection
<1>11. \A i \in 1..n : \E k \in 1..n : g[k] = i
  BY <1>10 DEF Surjection
<1>12. \A i \in 1..n : \E k \in 1..n : R(k) = i - 1
  <2> TAKE i \in 1..n
  <2>1. PICK k \in 1..n : g[k] = i
    BY <1>11
  <2>2. R(k) \in Nat /\ R(k) + 1 = i
    BY <1>1, <1>13, <2>1
  <2>3. R(k) = i - 1
    BY <2>2
  <2> QED
    BY <2>3
<1> QED
  BY <1>5, <1>12 DEF R

\* Sorting changes the order only, and puts each queue where it belongs.
LEMMA SortedByName ==
  ASSUME NEW n \in Nat, NEW qs \in ListsOf(n)
  PROVE  /\ Queues!SortByName(qs) \in ListsOf(n)
         /\ SameQueues(Queues!SortByName(qs), qs)
         /\ \A i \in 1..n : Queues!Rank(Queues!SortByName(qs)[i].name, qs) = i - 1
<1> DEFINE R(i) == Queues!Rank(qs[i].name, qs)
           at(i) == CHOOSE k \in 1..n : R(k) = i - 1
           s == [i \in 1..n |-> qs[at(i)]]
<1>1. qs \in [1..n -> Queue] /\ Apart(qs) /\ \A i \in 1..n : qs[i].id = qs[i].name
  BY DEF ListsOf
<1>2. s = Queues!SortByName(qs)
  BY <1>1 DEF Queues!SortByName
<1>3. /\ \A i, k \in 1..n : R(i) = R(k) => i = k
      /\ \A i \in 1..n : \E k \in 1..n : R(k) = i - 1
      /\ \A i \in 1..n : R(i) \in 0..(n - 1)
  BY <1>1, RankedOnce, LowerRanks
<1> HIDE DEF R
<1>4. \A i \in 1..n : at(i) \in 1..n /\ R(at(i)) = i - 1
  BY <1>3
<1> HIDE DEF at
<1>5. \A k \in 1..n : R(k) + 1 \in 1..n /\ at(R(k) + 1) = k
  <2> TAKE k \in 1..n
  <2>1. R(k) + 1 \in 1..n
    BY <1>3
  <2> DEFINE i == R(k) + 1
  <2> HIDE DEF i
  <2>2. R(at(i)) = i - 1 /\ at(i) \in 1..n
    BY <1>4, <2>1 DEF i
  <2>3. R(at(i)) = R(k)
    BY <1>3, <2>2 DEF i
  <2>4. at(i) = k
    BY <1>3, <2>2, <2>3
  <2> QED
    BY <2>1, <2>4 DEF i
<1>6. \A i, k \in 1..n : at(i) = at(k) => i = k
  <2> TAKE i, k \in 1..n
  <2>1. R(at(i)) = i - 1 /\ R(at(k)) = k - 1
    BY <1>4
  <2> QED
    BY <2>1
<1>7. s \in [1..n -> Queue] /\ \A i \in 1..n : s[i] = qs[at(i)]
  BY <1>1, <1>4
<1> HIDE DEF s
<1>8. Apart(s) /\ \A i \in 1..n : s[i].id = s[i].name
  <2>1. \A i, k \in 1..n : qs[i].name = qs[k].name => i = k
    BY <1>1 DEF Apart
  <2>2. \A i, k \in 1..n : s[i].name = s[k].name => at(i) = at(k)
    BY <1>4, <1>7, <2>1
  <2>3. \A i, k \in 1..n : s[i].name = s[k].name => i = k
    BY <1>6, <2>2
  <2>4. Apart(s)
    BY <1>7, <2>3 DEF Apart
  <2> QED
    BY <1>1, <1>4, <1>7, <2>4
<1>9. SameQueues(s, qs)
  BY <1>1, <1>4, <1>5, <1>7 DEF SameQueues
<1>10. \A i \in 1..n : Queues!Rank(s[i].name, qs) = i - 1
  BY <1>4, <1>7 DEF R
<1> QED
  BY <1>2, <1>7, <1>8, <1>9, <1>10 DEF ListsOf

LEMMA SameNames ==
  ASSUME NEW p, NEW q, SameQueues(p, q)
  PROVE  Queues!NamesOf(p) = Queues!NamesOf(q)
  BY DEF SameQueues, Queues!NamesOf

-----------------------------------------------------------------------------
(* Queues. What is to be sent.                                             *)

Of == {"create", "update", "delete", "file"}
QueueSteps == {"read", "select", "sanitize", "create", "update", "delete", "refused",
               "send", "sent"}

\* A command that creates, updates or deletes, and what it knows at l.
QueueCommand(l, c) ==
    /\ c = [kind |-> c.kind, name |-> c.name, pool |-> c.pool, file |-> c.file,
            hybrid |-> c.hybrid]
    /\ c.kind \in Of /\ c.hybrid \in BOOLEAN
    /\ c.name \in Names \union {None}
    /\ c.kind \in {"create", "update"} => c.pool \in Pools
    /\ c.kind = "create" => c.name \in Names
    /\ c.kind = "file" => \E n \in Nat \ {0} : c.file \in ListsOf(n)
    /\ l \in {"select", "create", "update"} => c.kind \in {"create", "update"}
    /\ l \in {"create", "update", "delete"} => c.kind = l
    /\ l = "sanitize" => c.kind \in {"create", "update", "delete"}
    /\ l \in {"select", "sanitize"} \union Of => c.kind # "file"
    /\ l \in {"sanitize", "send", "sent"} \union Of /\ c.kind # "file" => c.name \in Names

\* The name is, or is not, among those of the queues that were there.
NameFits(l, c, was) ==
    /\ l = "create" => c.name \notin Queues!NamesOf(was)
    /\ l \in {"update", "delete"} => c.name \in Queues!NamesOf(was)

\* The queues in memory, m, are those that were there, sorted or not.
SameAs(l, c, m, was) ==
    \E n \in Nat \ {0} :
        /\ was \in ListsOf(n) /\ m \in ListsOf(n) /\ SameQueues(m, was)
        /\ l = "read" => m = was
        /\ c.kind \in {"create", "update"} /\ was = Queues!SortByName(was) => m = was

\* The copies that a create or an update has made.
Copied(l, c, was, r) ==
    c.kind \in {"create", "update"} /\ l \in {"select", "sanitize", "create", "update"} =>
        r = [i \in DOMAIN was |-> [q |-> was[i], at |-> i]]

\* The ids are to be found, for all that the models promise of them.
Finds(c, m, was, e) ==
    \/ IF e.at = 0 THEN e.q.name \notin Queues!NamesOf(was) ELSE m[e.at].name = e.q.name
    \/ c.kind \in {"create", "update"} /\ was # Queues!SortByName(was)
    \/ c.kind = "file" /\ Queues!Rank(e.q.name, c.file) # Queues!Rank(e.q.name, was)

\* The queues that make up the list.
Entries(c, m, was, e) ==
    /\ e = [q |-> [name |-> e.q.name, id |-> e.q.id, pool |-> e.q.pool], at |-> e.at]
    /\ e.q.name \in Names /\ e.at \in {0} \union DOMAIN m
    /\ c.kind # "file" /\ e.q.name \in Queues!NamesOf(was) /\ e.q.name # c.name =>
          \E j \in DOMAIN was : was[j].name = e.q.name /\ was[j].pool = e.q.pool

ToSend(l, c, m, was, r) ==
    /\ \E n \in Nat : r \in [1..n -> {r[i] : i \in DOMAIN r}]
    /\ \A i, j \in DOMAIN r : r[i].q.name = r[j].q.name => i = j
    /\ {r[i].q.name : i \in DOMAIN r} =
          IF c.kind = "file" THEN Queues!NamesOf(c.file)
          ELSE IF c.kind = "delete" THEN Queues!NamesOf(was) \ {c.name}
          ELSE Queues!NamesOf(was) \union {c.name}
    /\ \A i \in DOMAIN r : Entries(c, m, was, r[i])
    /\ l = "send" => \A i \in DOMAIN r : Finds(c, m, was, r[i])
    /\ l = "sent" => \A i \in DOMAIN r :
          \/ r[i].q.id = (IF r[i].q.name \in Queues!NamesOf(was) THEN r[i].q.name ELSE 0)
          \/ c.kind \in {"create", "update"} /\ was # Queues!SortByName(was)
          \/ c.kind = "file" /\
                Queues!Rank(r[i].q.name, c.file) # Queues!Rank(r[i].q.name, was)

QInv(l, c, m, was, r) ==
    /\ l \in QueueSteps /\ QueueCommand(l, c) /\ NameFits(l, c, was)
    /\ SameAs(l, c, m, was) /\ Copied(l, c, was, r)
    /\ l \in {"send", "sent"} => ToSend(l, c, m, was, r)

QueuesInv == QInv(qpc, qcmd, mem, there, list)

-----------------------------------------------------------------------------
(* Queues. The steps.                                                      *)

LEMMA ListedAre ==
  ASSUME NEW qs \in Queues!Listed
  PROVE  \E n \in Nat \ {0} : qs \in ListsOf(n)
<1>1. Cardinality(Names) \in Nat /\ Queues!Cardinality(Names) = Cardinality(Names)
  BY NamesSound, FS_CardinalityType, Counts
<1>2. PICK n \in 1..Cardinality(Names) : qs \in [1..n -> {q \in Queues!QueueSet : q.id = q.name}]
  BY <1>1 DEF Queues!Listed
<1>3. n \in Nat \ {0} /\ DOMAIN qs = 1..n
  BY <1>1, <1>2
<1>4. Queues!IsInjective([i \in DOMAIN qs |-> qs[i].name])
  BY DEF Queues!Listed
<1>5. \A i, j \in DOMAIN qs : qs[i].name = qs[j].name => i = j
  BY <1>4 DEF Queues!IsInjective
<1>6. qs \in [1..n -> Queue] /\ \A i \in 1..n : qs[i].id = qs[i].name
  BY <1>2 DEF Queue
<1>7. qs \in ListsOf(n)
  BY <1>5, <1>6 DEF ListsOf, Apart
<1> QED
  BY <1>3, <1>7

LEMMA CommandsKnown ==
  ASSUME NEW c \in Queues!Commands
  PROVE  QueueCommand("read", c)
<1>1. CASE c \in Queues!Command({"create"}, Names \ {TheDefault}, Pools, {<<>>})
  BY <1>1 DEF Queues!Command, QueueCommand, Of
<1>2. CASE c \in Queues!Command({"update"}, Names \union {None}, Pools, {<<>>})
  BY <1>2 DEF Queues!Command, QueueCommand, Of
<1>3. CASE c \in Queues!Command({"delete"}, (Names \ {TheDefault}) \union {None}, {None}, {<<>>})
  BY <1>3 DEF Queues!Command, QueueCommand, Of
<1>4. CASE c \in Queues!Command({"file"}, {None}, {None}, Queues!Listed)
  <2>1. c.file \in Queues!Listed /\ c.kind = "file" /\ c.name = None /\ c.hybrid \in BOOLEAN
    BY <1>4 DEF Queues!Command
  <2>2. c = [kind |-> c.kind, name |-> c.name, pool |-> c.pool, file |-> c.file,
             hybrid |-> c.hybrid]
    BY <1>4 DEF Queues!Command
  <2>3. \E n \in Nat \ {0} : c.file \in ListsOf(n)
    BY <2>1, ListedAre
  <2> QED
    BY <2>1, <2>2, <2>3 DEF QueueCommand, Of
<1> QED
  BY <1>1, <1>2, <1>3, <1>4 DEF Queues!Commands

LEMMA QueuesStart == Queues!Init => QueuesInv
<1> SUFFICES ASSUME Queues!Init PROVE QueuesInv
  OBVIOUS
<1>1. PICK n \in Nat \ {0} : mem \in ListsOf(n)
  BY ListedAre DEF Queues!Init
<1>2. there = mem /\ qpc = "read" /\ list = <<>> /\ QueueCommand(qpc, qcmd)
  BY CommandsKnown DEF Queues!Init
<1>3. SameQueues(mem, there)
  BY <1>2 DEF SameQueues
<1>4. SameAs(qpc, qcmd, mem, there)
  BY <1>1, <1>2, <1>3 DEF SameAs
<1> QED
  BY <1>2, <1>4 DEF QueuesInv, QInv, QueueSteps, NameFits, Copied

LEMMA ListDomain ==
  ASSUME NEW n \in Nat \ {0}, NEW qs \in ListsOf(n)
  PROVE  DOMAIN qs = 1..n /\ qs \in [1..n -> Queue] /\ Apart(qs)
  BY DEF ListsOf

LEMMA SortKeeps ==
  ASSUME NEW l, NEW k, NEW c, NEW d, NEW m, NEW was, SameAs(l, c, m, was),
         k # "read", c.kind = d.kind
  PROVE  SameAs(k, d, Queues!SortByName(m), was)
<1>1. PICK n \in Nat \ {0} :
          /\ was \in ListsOf(n) /\ m \in ListsOf(n) /\ SameQueues(m, was)
          /\ c.kind \in {"create", "update"} /\ was = Queues!SortByName(was) => m = was
  BY DEF SameAs
<1> DEFINE s == Queues!SortByName(m)
<1>2. s \in ListsOf(n) /\ SameQueues(s, m)
  BY <1>1, SortedByName
<1>3. d.kind \in {"create", "update"} /\ was = Queues!SortByName(was) => s = was
  BY <1>1
<1> HIDE DEF s
<1>4. SameQueues(s, was)
  <2>1. \A i \in DOMAIN s : \E j \in DOMAIN was : s[i] = was[j]
    <3> TAKE i \in DOMAIN s
    <3>1. PICK k1 \in DOMAIN m : s[i] = m[k1]
      BY <1>2 DEF SameQueues
    <3>2. PICK j \in DOMAIN was : m[k1] = was[j]
      BY <1>1 DEF SameQueues
    <3> QED
      BY <3>1, <3>2
  <2>2. \A j \in DOMAIN was : \E i \in DOMAIN s : s[i] = was[j]
    <3> TAKE j \in DOMAIN was
    <3>1. PICK k1 \in DOMAIN m : m[k1] = was[j]
      BY <1>1 DEF SameQueues
    <3>2. PICK i \in DOMAIN s : s[i] = m[k1]
      BY <1>2 DEF SameQueues
    <3> QED
      BY <3>1, <3>2
  <2> QED
    BY <2>1, <2>2 DEF SameQueues
<1> QED
  BY <1>1, <1>2, <1>3, <1>4 DEF SameAs, s

LEMMA MemNames ==
  ASSUME NEW l, NEW c, NEW m, NEW was, SameAs(l, c, m, was)
  PROVE  Queues!NamesOf(m) = Queues!NamesOf(was) /\ Queues!NamesOf(was) \subseteq Names
<1>1. PICK n \in Nat \ {0} : was \in ListsOf(n) /\ m \in ListsOf(n) /\ SameQueues(m, was)
  BY DEF SameAs
<1>2. was \in [1..n -> Queue]
  BY <1>1, ListDomain
<1> QED
  BY <1>1, <1>2, SameNames, NamesAre

LEMMA CopyKeeps == QueuesInv /\ Queues!CopyQueues => QueuesInv'
<1> SUFFICES ASSUME QueuesInv, Queues!CopyQueues PROVE QueuesInv'
  OBVIOUS
<1>1. /\ qpc = "read" /\ qcmd.kind \in {"create", "update"}
      /\ list' = [i \in DOMAIN mem |-> [q |-> mem[i], at |-> i]]
      /\ qpc' = IF qcmd.name = None THEN "select" ELSE "sanitize"
      /\ UNCHANGED <<mem, there, qcmd>>
  BY DEF Queues!CopyQueues
<1>2. QueueCommand(qpc, qcmd) /\ SameAs(qpc, qcmd, mem, there)
  BY DEF QueuesInv, QInv
<1>3. mem = there
  BY <1>1, <1>2 DEF SameAs
<1>4. QueueCommand(qpc', qcmd')
  BY <1>1, <1>2 DEF QueueCommand, Of
<1>5. SameAs(qpc', qcmd', mem', there')
  BY <1>1, <1>2 DEF SameAs
<1>6. Copied(qpc', qcmd', there', list')
  BY <1>1, <1>3 DEF Copied
<1> QED
  BY <1>1, <1>4, <1>5, <1>6 DEF QueuesInv, QInv, QueueSteps, NameFits

LEMMA SelectKeeps == QueuesInv /\ Queues!SelectQueue => QueuesInv'
<1> SUFFICES ASSUME QueuesInv, Queues!SelectQueue PROVE QueuesInv'
  OBVIOUS
<1>1. /\ qpc = "select" \/ (qpc = "read" /\ qcmd.kind = "delete" /\ qcmd.name = None)
      /\ mem' = Queues!SortByName(mem) /\ qpc' = "sanitize"
      /\ UNCHANGED <<there, list>>
  BY DEF Queues!SelectQueue
<1>2. PICK n \in Queues!NamesOf(mem) : qcmd' = [qcmd EXCEPT !.name = n]
  BY DEF Queues!SelectQueue
<1>3. QueueCommand(qpc, qcmd) /\ SameAs(qpc, qcmd, mem, there) /\ Copied(qpc, qcmd, there, list)
  BY DEF QueuesInv, QInv
<1>4. n \in Names
  BY <1>3, MemNames
<1>5. /\ qcmd'.name = n /\ qcmd'.kind = qcmd.kind /\ qcmd'.pool = qcmd.pool
      /\ qcmd'.file = qcmd.file /\ qcmd'.hybrid = qcmd.hybrid
      /\ qcmd' = [kind |-> qcmd'.kind, name |-> qcmd'.name, pool |-> qcmd'.pool,
                  file |-> qcmd'.file, hybrid |-> qcmd'.hybrid]
  BY <1>2, <1>3 DEF QueueCommand
<1>6. QueueCommand(qpc', qcmd')
  BY <1>1, <1>3, <1>4, <1>5 DEF QueueCommand, Of
<1>7. SameAs(qpc', qcmd', mem', there')
  <2>1. SameAs("sanitize", qcmd', Queues!SortByName(mem), there)
    BY <1>3, <1>5, SortKeeps
  <2> QED
    BY <1>1, <2>1
<1>8. Copied(qpc', qcmd', there', list')
  BY <1>1, <1>3, <1>5 DEF Copied
<1> QED
  BY <1>1, <1>6, <1>7, <1>8 DEF QueuesInv, QInv, QueueSteps, NameFits

LEMMA SanitizeKeeps == QueuesInv /\ Queues!Sanitize => QueuesInv'
<1> SUFFICES ASSUME QueuesInv, Queues!Sanitize PROVE QueuesInv'
  OBVIOUS
<1>1. /\ qpc = "sanitize" \/ (qpc = "read" /\ qcmd.kind = "delete" /\ qcmd.name # None)
      /\ mem' = Queues!SortByName(mem) /\ UNCHANGED <<there, qcmd, list>>
      /\ \/ /\ qpc' = qcmd.kind
            /\ (qcmd.name \in Queues!NamesOf(mem)) = (qcmd.kind # "create")
         \/ qpc' = "refused"
  BY DEF Queues!Sanitize
<1>2. QueueCommand(qpc, qcmd) /\ SameAs(qpc, qcmd, mem, there) /\ Copied(qpc, qcmd, there, list)
  BY DEF QueuesInv, QInv
<1>3. qcmd.kind \in {"create", "update", "delete"} /\ qcmd.name \in Names
  BY <1>1, <1>2 DEF QueueCommand, Of
<1>4. QueueCommand(qpc', qcmd')
  BY <1>1, <1>2, <1>3 DEF QueueCommand, Of
<1>5. qpc' # "read"
  BY <1>1, <1>3
<1>6. SameAs(qpc', qcmd', mem', there')
  <2>1. SameAs(qpc', qcmd, Queues!SortByName(mem), there)
    BY <1>2, <1>5, SortKeeps
  <2> QED
    BY <1>1, <2>1
<1>7. Copied(qpc', qcmd', there', list')
  BY <1>1, <1>2, <1>3 DEF Copied
<1>8. NameFits(qpc', qcmd', there')
  BY <1>1, <1>2, <1>3, MemNames DEF NameFits
<1> QED
  BY <1>1, <1>3, <1>4, <1>6, <1>7, <1>8 DEF QueuesInv, QInv, QueueSteps

\* The list has n entries, of these names, as they are to be sent.
Fitting(n, c, m, was, r, names) ==
    /\ r \in [1..n -> {r[i] : i \in 1..n}]
    /\ \A i, j \in 1..n : r[i].q.name = r[j].q.name => i = j
    /\ {r[i].q.name : i \in 1..n} = names
    /\ \A i \in 1..n : Entries(c, m, was, r[i]) /\ Finds(c, m, was, r[i])

\* Entries of the list, made of the queues that were there.
LEMMA CopiesFit ==
  ASSUME NEW l, NEW c, NEW m, NEW was, NEW r, SameAs(l, c, m, was),
         c.kind \in {"create", "update"}, c.name \in Names,
         r = [i \in DOMAIN was |-> [q |-> was[i], at |-> i]]
  PROVE  \E n \in Nat \ {0} : Fitting(n, c, m, was, r, Queues!NamesOf(was))
<1>1. PICK n \in Nat \ {0} :
          /\ was \in ListsOf(n) /\ m \in ListsOf(n)
          /\ c.kind \in {"create", "update"} /\ was = Queues!SortByName(was) => m = was
  BY DEF SameAs
<1>2. DOMAIN was = 1..n /\ DOMAIN m = 1..n /\ was \in [1..n -> Queue] /\ Apart(was)
  BY <1>1, ListDomain
<1>3. \A i \in 1..n : r[i] = [q |-> was[i], at |-> i]
  BY <1>2
<1>4. r \in [1..n -> {r[i] : i \in 1..n}]
  BY <1>2
<1>5. \A i, j \in 1..n : r[i].q.name = r[j].q.name => i = j
  BY <1>2, <1>3 DEF Apart
<1>6. {r[i].q.name : i \in 1..n} = Queues!NamesOf(was)
  <2>1. ASSUME NEW i \in 1..n PROVE r[i].q = was[i]
    <3>1. r[i] = [q |-> was[i], at |-> i]
      BY <1>3
    <3> QED
      BY <3>1
  <2> QED
    BY <1>2, <2>1 DEF Queues!NamesOf
<1>7. ASSUME NEW i \in 1..n PROVE Entries(c, m, was, r[i]) /\ Finds(c, m, was, r[i])
  <2>1. r[i].q = was[i] /\ r[i].at = i /\ i # 0 /\ i \in DOMAIN m /\ i \in DOMAIN was
    BY <1>2, <1>3
  <2>2. was[i] = [name |-> was[i].name, id |-> was[i].id, pool |-> was[i].pool]
        /\ was[i].name \in Names
    BY <1>2 DEF Queue, Queues!QueueSet
  <2>3. Entries(c, m, was, r[i])
    BY <1>3, <2>1, <2>2 DEF Entries
  <2>4. was = Queues!SortByName(was) => m[i].name = was[i].name
    BY <1>1
  <2>5. Finds(c, m, was, r[i])
    BY <2>1, <2>4 DEF Finds
  <2> QED
    BY <2>3, <2>5
<1> QED
  BY <1>1, <1>4, <1>5, <1>6, <1>7 DEF Fitting

\* A list of n entries that make up what is to be sent.
LEMMA SendFits ==
  ASSUME NEW c, NEW m, NEW was, NEW r, NEW n \in Nat, NEW names,
         Fitting(n, c, m, was, r, names),
         names = (IF c.kind = "file" THEN Queues!NamesOf(c.file)
                  ELSE IF c.kind = "delete" THEN Queues!NamesOf(was) \ {c.name}
                  ELSE Queues!NamesOf(was) \union {c.name})
  PROVE  ToSend("send", c, m, was, r)
<1>1. DOMAIN r = 1..n
  BY DEF Fitting
<1> QED
  BY <1>1 DEF ToSend, Fitting

\* A command that has its list is about to send it.
LEMMA AboutToSend ==
  ASSUME QueuesInv, qpc' = "send", UNCHANGED <<there, qcmd>>,
         qcmd.kind = "file" \/ qcmd.name \in Names,
         SameAs(qpc', qcmd', mem', there'), ToSend("send", qcmd, mem', there, list')
  PROVE  QueuesInv'
<1>1. QueueCommand(qpc, qcmd)
  BY DEF QueuesInv, QInv
<1>2. QueueCommand(qpc', qcmd')
  BY <1>1 DEF QueueCommand, Of
<1> QED
  BY <1>2 DEF QueuesInv, QInv, QueueSteps, NameFits, Copied

LEMMA CreateQueueKeeps == QueuesInv /\ Queues!CreateQueue => QueuesInv'
<1> SUFFICES ASSUME QueuesInv, Queues!CreateQueue PROVE QueuesInv'
  OBVIOUS
<1> DEFINE new == [q |-> [name |-> qcmd.name, id |-> qcmd.name, pool |-> qcmd.pool], at |-> 0]
<1>1. /\ qpc = "create" /\ list' = Append(list, new)
      /\ qpc' = "send" /\ UNCHANGED <<mem, there, qcmd>>
  BY DEF Queues!CreateQueue
<1>2. /\ QueueCommand(qpc, qcmd) /\ SameAs(qpc, qcmd, mem, there)
      /\ Copied(qpc, qcmd, there, list) /\ NameFits(qpc, qcmd, there)
  BY DEF QueuesInv, QInv
<1>3. qcmd.kind = "create" /\ qcmd.name \in Names /\ qcmd.name \notin Queues!NamesOf(there)
  BY <1>1, <1>2 DEF QueueCommand, NameFits, Of
<1>4. list = [i \in DOMAIN there |-> [q |-> there[i], at |-> i]]
  BY <1>1, <1>2, <1>3 DEF Copied
<1>15. PICK n \in Nat \ {0} : Fitting(n, qcmd, mem, there, list, Queues!NamesOf(there))
  BY <1>2, <1>3, <1>4, CopiesFit
<1>5. /\ list \in [1..n -> {list[i] : i \in 1..n}]
      /\ \A i, j \in 1..n : list[i].q.name = list[j].q.name => i = j
      /\ {list[i].q.name : i \in 1..n} = Queues!NamesOf(there)
      /\ \A i \in 1..n : Entries(qcmd, mem, there, list[i]) /\ Finds(qcmd, mem, there, list[i])
  BY <1>15 DEF Fitting
<1>6. new.q.name = qcmd.name /\ new.at = 0 /\ new.q = [name |-> new.q.name, id |-> new.q.id, pool |-> new.q.pool]
      /\ new = [q |-> new.q, at |-> new.at]
  OBVIOUS
<1> HIDE DEF new
<1>7. /\ DOMAIN list' = 1..(n + 1) /\ list'[n + 1] = new
      /\ \A i \in 1..n : list'[i] = list[i]
      /\ list' = [i \in 1..(n + 1) |-> list'[i]]
  <2>1. list \in Seq({list[i] : i \in 1..n} \union {new}) /\ Len(list) = n
    BY <1>5
  <2> DEFINE S == {list[i] : i \in 1..n} \union {new}
  <2>2. list' \in Seq(S) /\ Len(list') = n + 1
    BY <1>1, <2>1
  <2>3. list' \in [1..(n + 1) -> S]
    BY <2>2
  <2>4. list'[n + 1] = new /\ \A i \in 1..n : list'[i] = list[i]
    BY <1>1, <2>1
  <2> QED
    BY <2>3, <2>4
<1>8. list' \in [1..(n + 1) -> {list'[i] : i \in 1..(n + 1)}]
  <2>1. [i \in 1..(n + 1) |-> list'[i]] \in [1..(n + 1) -> {list'[i] : i \in 1..(n + 1)}]
    OBVIOUS
  <2> QED
    BY <1>7, <2>1
<1>9. Entries(qcmd, mem, there, new) /\ Finds(qcmd, mem, there, new)
  BY <1>3, <1>6 DEF Entries, Finds
<1>10. \A i \in 1..(n + 1) : i \in 1..n \/ i = n + 1
  OBVIOUS
<1>11. \A i \in 1..(n + 1) : Entries(qcmd, mem, there, list'[i]) /\ Finds(qcmd, mem, there, list'[i])
  BY <1>5, <1>7, <1>9, <1>10
<1>12. {list'[i].q.name : i \in 1..(n + 1)} = Queues!NamesOf(there) \union {qcmd.name}
  <2>1. \A i \in 1..n : list'[i].q.name = list[i].q.name /\ i \in 1..(n + 1)
    BY <1>7
  <2>2. list'[n + 1].q.name = qcmd.name /\ n + 1 \in 1..(n + 1)
    BY <1>6, <1>7
  <2>3. {list'[i].q.name : i \in 1..(n + 1)} = {list[i].q.name : i \in 1..n} \union {qcmd.name}
    BY <1>10, <2>1, <2>2
  <2> QED
    BY <1>5, <2>3
<1>13. \A i, j \in 1..(n + 1) : list'[i].q.name = list'[j].q.name => i = j
  <2>1. \A i \in 1..n : list'[i].q.name = list[i].q.name /\ list[i].q.name \in Queues!NamesOf(there)
    BY <1>5, <1>7
  <2>2. list'[n + 1].q.name = qcmd.name
    BY <1>6, <1>7
  <2> QED
    BY <1>3, <1>5, <1>10, <2>1, <2>2
<1>14. ToSend("send", qcmd, mem, there, list')
  <2>1. Fitting(n + 1, qcmd, mem, there, list', Queues!NamesOf(there) \union {qcmd.name})
    BY <1>8, <1>11, <1>12, <1>13 DEF Fitting
  <2>2. n + 1 \in Nat \ {0}
    OBVIOUS
  <2> QED
    BY <1>3, <2>1, <2>2, SendFits
<1> QED
  <2>1. SameAs(qpc', qcmd', mem', there')
    BY <1>1, <1>2 DEF SameAs
  <2>2. ToSend("send", qcmd, mem', there, list')
    BY <1>1, <1>14
  <2> QED
    BY <1>1, <1>3, <2>1, <2>2, AboutToSend

LEMMA UpdateQueueKeeps == QueuesInv /\ Queues!UpdateQueue => QueuesInv'
<1> SUFFICES ASSUME QueuesInv, Queues!UpdateQueue PROVE QueuesInv'
  OBVIOUS
<1>1. /\ qpc = "update" /\ list' = Queues!UpdateQueueList(list, qcmd)
      /\ qpc' = "send" /\ UNCHANGED <<mem, there, qcmd>>
  BY DEF Queues!UpdateQueue
<1>2. /\ QueueCommand(qpc, qcmd) /\ SameAs(qpc, qcmd, mem, there)
      /\ Copied(qpc, qcmd, there, list) /\ NameFits(qpc, qcmd, there)
  BY DEF QueuesInv, QInv
<1>3. qcmd.kind = "update" /\ qcmd.name \in Names /\ qcmd.name \in Queues!NamesOf(there)
  BY <1>1, <1>2 DEF QueueCommand, NameFits, Of
<1>4. list = [i \in DOMAIN there |-> [q |-> there[i], at |-> i]]
  BY <1>1, <1>2, <1>3 DEF Copied
<1>5. PICK n \in Nat \ {0} : Fitting(n, qcmd, mem, there, list, Queues!NamesOf(there))
  BY <1>2, <1>3, <1>4, CopiesFit
<1>6. /\ DOMAIN list = 1..n
      /\ \A i, j \in 1..n : list[i].q.name = list[j].q.name => i = j
      /\ {list[i].q.name : i \in 1..n} = Queues!NamesOf(there)
      /\ \A i \in 1..n : Entries(qcmd, mem, there, list[i]) /\ Finds(qcmd, mem, there, list[i])
  BY <1>5 DEF Fitting
<1>7. list' = [i \in 1..n |->
                IF list[i].q.name # qcmd.name THEN list[i]
                ELSE [q |-> [list[i].q EXCEPT !.pool = qcmd.pool], at |-> list[i].at]]
  BY <1>1, <1>6 DEF Queues!UpdateQueueList
<1>8. ASSUME NEW i \in 1..n
      PROVE  /\ list'[i].q.name = list[i].q.name
             /\ Entries(qcmd, mem, there, list'[i]) /\ Finds(qcmd, mem, there, list'[i])
  <2>1. CASE list[i].q.name # qcmd.name
    BY <1>6, <1>7, <2>1
  <2>2. CASE list[i].q.name = qcmd.name
    <3> DEFINE e == list[i]
               f == [q |-> [list[i].q EXCEPT !.pool = qcmd.pool], at |-> list[i].at]
    <3>1. Entries(qcmd, mem, there, e) /\ Finds(qcmd, mem, there, e) /\ list'[i] = f
      BY <1>6, <1>7, <2>2
    <3>2. e.q = [name |-> e.q.name, id |-> e.q.id, pool |-> e.q.pool]
      BY <3>1 DEF Entries
    <3>3. /\ f.q.name = e.q.name /\ f.at = e.at
          /\ f = [q |-> [name |-> f.q.name, id |-> f.q.id, pool |-> f.q.pool], at |-> f.at]
      BY <3>2
    <3>4. e.q.name = qcmd.name
      BY <2>2
    <3> HIDE DEF e, f
    <3>5. Entries(qcmd, mem, there, f)
      BY <3>1, <3>3, <3>4 DEF Entries
    <3>6. Finds(qcmd, mem, there, f)
      BY <3>1, <3>3 DEF Finds
    <3> QED
      BY <3>1, <3>3, <3>5, <3>6 DEF e
  <2> QED
    BY <2>1, <2>2
<1>9. Fitting(n, qcmd, mem, there, list', Queues!NamesOf(there) \union {qcmd.name})
  <2>1. list' \in [1..n -> {list'[i] : i \in 1..n}]
    BY <1>7
  <2>2. {list'[i].q.name : i \in 1..n} = {list[i].q.name : i \in 1..n}
    BY <1>8
  <2>3. {list'[i].q.name : i \in 1..n} = Queues!NamesOf(there) \union {qcmd.name}
    BY <1>3, <1>6, <2>2
  <2> QED
    BY <1>6, <1>8, <2>1, <2>3 DEF Fitting
<1>10. ToSend("send", qcmd, mem', there, list')
  BY <1>1, <1>3, <1>9, SendFits
<1>11. SameAs(qpc', qcmd', mem', there')
  BY <1>1, <1>2 DEF SameAs
<1> QED
  BY <1>1, <1>3, <1>10, <1>11, AboutToSend

LEMMA DeleteQueueKeeps == QueuesInv /\ Queues!DeleteQueue => QueuesInv'
<1> SUFFICES ASSUME QueuesInv, Queues!DeleteQueue PROVE QueuesInv'
  OBVIOUS
<1>1. /\ qpc = "delete" /\ qpc' = "send" /\ UNCHANGED <<mem, there, qcmd>>
  BY DEF Queues!DeleteQueue
<1>2. /\ QueueCommand(qpc, qcmd) /\ SameAs(qpc, qcmd, mem, there)
  BY DEF QueuesInv, QInv
<1>3. qcmd.kind = "delete" /\ qcmd.name \in Names
  BY <1>1, <1>2 DEF QueueCommand, Of
<1>4. PICK n \in Nat \ {0} : there \in ListsOf(n) /\ mem \in ListsOf(n) /\ SameQueues(mem, there)
  BY <1>2 DEF SameAs
<1>5. DOMAIN mem = 1..n /\ mem \in [1..n -> Queue] /\ Apart(mem) /\ Len(mem) = n
      /\ DOMAIN there = 1..n /\ there \in [1..n -> Queue]
  <2>1. DOMAIN mem = 1..n /\ mem \in [1..n -> Queue] /\ Apart(mem)
        /\ DOMAIN there = 1..n /\ there \in [1..n -> Queue]
    BY <1>4, ListDomain
  <2> QED
    BY <2>1
<1>6. PICK d \in 1..n :
          /\ mem[d].name = qcmd.name
          /\ list' = [k \in 1..(n - 1) |->
                LET at == IF k < d THEN k ELSE k + 1 IN [q |-> mem[at], at |-> at]]
  BY <1>5 DEF Queues!DeleteQueue
<1> DEFINE At(k) == IF k < d THEN k ELSE k + 1
<1>7. /\ \A k \in 1..(n - 1) : At(k) \in 1..n /\ At(k) # d
      /\ \A i, k \in 1..(n - 1) : At(i) = At(k) => i = k
      /\ \A i \in 1..n : i # d => \E k \in 1..(n - 1) : At(k) = i
  <2>1. \A k \in 1..(n - 1) : At(k) \in 1..n /\ At(k) # d
    OBVIOUS
  <2>2. \A i, k \in 1..(n - 1) : At(i) = At(k) => i = k
    OBVIOUS
  <2>3. ASSUME NEW i \in 1..n, i # d PROVE \E k \in 1..(n - 1) : At(k) = i
    <3>1. CASE i < d
      <4>1. i \in 1..(n - 1) /\ At(i) = i
        BY <3>1
      <4> QED
        BY <4>1
    <3>2. CASE i > d
      <4>1. i - 1 \in 1..(n - 1) /\ At(i - 1) = i
        BY <3>2
      <4> QED
        BY <4>1
    <3> QED
      BY <2>3, <3>1, <3>2
  <2> QED
    BY <2>1, <2>2, <2>3
<1>8. list' = [k \in 1..(n - 1) |-> [q |-> mem[At(k)], at |-> At(k)]]
  BY <1>6
<1> HIDE DEF At
<1>9. \A k \in 1..(n - 1) : list'[k] = [q |-> mem[At(k)], at |-> At(k)]
  BY <1>8
<1>10. ASSUME NEW k \in 1..(n - 1)
       PROVE  /\ list'[k].q = mem[At(k)] /\ list'[k].at = At(k)
              /\ Entries(qcmd, mem, there, list'[k]) /\ Finds(qcmd, mem, there, list'[k])
  <2> DEFINE e == list'[k]
  <2>1. e = [q |-> mem[At(k)], at |-> At(k)] /\ At(k) \in 1..n
    BY <1>7, <1>9
  <2>2. mem[At(k)] \in Queue
    BY <1>5, <2>1
  <2>3. mem[At(k)] = [name |-> mem[At(k)].name, id |-> mem[At(k)].id, pool |-> mem[At(k)].pool]
        /\ mem[At(k)].name \in Names
    BY <2>2 DEF Queue, Queues!QueueSet
  <2> HIDE DEF e
  <2>4. e.q = mem[At(k)] /\ e.at = At(k) /\ At(k) \in DOMAIN mem /\ At(k) # 0
    BY <1>5, <2>1
  <2>5. \E j \in DOMAIN there : mem[At(k)] = there[j]
    BY <1>4, <2>4 DEF SameQueues
  <2>6. Entries(qcmd, mem, there, e)
    BY <2>1, <2>3, <2>4, <2>5 DEF Entries
  <2>7. Finds(qcmd, mem, there, e)
    BY <2>4 DEF Finds
  <2> QED
    BY <2>4, <2>6, <2>7 DEF e
<1>11. \A i, k \in 1..(n - 1) : list'[i].q.name = list'[k].q.name => i = k
  <2>1. \A i, k \in 1..n : mem[i].name = mem[k].name => i = k
    BY <1>5 DEF Apart
  <2> QED
    BY <1>7, <1>10, <2>1
<1>12. {list'[k].q.name : k \in 1..(n - 1)} = Queues!NamesOf(there) \ {qcmd.name}
  <2>1. Queues!NamesOf(there) = Queues!NamesOf(mem)
    BY <1>2, MemNames
  <2>2. \A k \in 1..(n - 1) : list'[k].q.name \in Queues!NamesOf(mem) /\ list'[k].q.name # qcmd.name
    <3> TAKE k \in 1..(n - 1)
    <3>1. At(k) \in DOMAIN mem /\ At(k) # d /\ list'[k].q.name = mem[At(k)].name
      BY <1>5, <1>7, <1>10
    <3> QED
      BY <1>5, <1>6, <3>1 DEF Apart, Queues!NamesOf
  <2>3. ASSUME NEW x \in Queues!NamesOf(mem), x # qcmd.name
        PROVE  \E k \in 1..(n - 1) : list'[k].q.name = x
    <3>1. PICK i \in 1..n : mem[i].name = x
      BY <1>5 DEF Queues!NamesOf
    <3>2. i # d
      BY <1>6, <2>3, <3>1
    <3>3. PICK k \in 1..(n - 1) : At(k) = i
      BY <1>7, <3>2
    <3> QED
      BY <1>10, <3>1, <3>3
  <2> QED
    BY <2>1, <2>2, <2>3
<1>13. Fitting(n - 1, qcmd, mem, there, list', Queues!NamesOf(there) \ {qcmd.name})
  <2>1. list' \in [1..(n - 1) -> {list'[i] : i \in 1..(n - 1)}]
    BY <1>8
  <2> QED
    BY <1>10, <1>11, <1>12, <2>1 DEF Fitting
<1>14. ToSend("send", qcmd, mem', there, list')
  <2>1. n - 1 \in Nat
    OBVIOUS
  <2> QED
    BY <1>1, <1>3, <1>13, <2>1, SendFits
<1>15. SameAs(qpc', qcmd', mem', there')
  BY <1>1, <1>2 DEF SameAs
<1> QED
  BY <1>1, <1>3, <1>14, <1>15, AboutToSend

LEMMA RefusedKeeps == QueuesInv /\ Queues!GetQueues /\ qpc' = "refused" => QueuesInv'
<1> SUFFICES ASSUME QueuesInv, Queues!GetQueues, qpc' = "refused" PROVE QueuesInv'
  OBVIOUS
<1>1. /\ qpc = "read" /\ UNCHANGED <<there, qcmd>> /\ qcmd.kind = "file"
      /\ mem' = Queues!SortByName(mem)
  BY DEF Queues!GetQueues
<1>2. QueueCommand(qpc, qcmd) /\ SameAs(qpc, qcmd, mem, there)
  BY DEF QueuesInv, QInv
<1>3. SameAs("refused", qcmd, Queues!SortByName(mem), there)
  BY <1>2, SortKeeps
<1>4. QueueCommand(qpc', qcmd')
  BY <1>1, <1>2 DEF QueueCommand, Of
<1> QED
  BY <1>1, <1>3, <1>4 DEF QueuesInv, QInv, QueueSteps, NameFits, Copied

LEMMA GivenIdsKeeps == QueuesInv /\ Queues!GetQueues /\ qpc' # "refused" => QueuesInv'
<1> SUFFICES ASSUME QueuesInv, Queues!GetQueues, qpc' # "refused" PROVE QueuesInv'
  OBVIOUS
<1> DEFINE f == Queues!SortByName(qcmd.file)
<1>1. /\ qpc = "read" /\ qpc' = "send" /\ UNCHANGED <<there, qcmd>> /\ qcmd.kind = "file"
      /\ mem' = Queues!SortByName(mem)
      /\ list' = [i \in DOMAIN f |-> [q |-> f[i], at |-> Queues!FoundAt(i, f, mem')]]
  BY DEF Queues!GetQueues
<1>2. QueueCommand(qpc, qcmd) /\ SameAs(qpc, qcmd, mem, there)
  BY DEF QueuesInv, QInv
<1>3. PICK n \in Nat \ {0} : there \in ListsOf(n) /\ mem \in ListsOf(n) /\ mem = there
  BY <1>1, <1>2 DEF SameAs
<1>4. PICK k \in Nat \ {0} : qcmd.file \in ListsOf(k)
  BY <1>1, <1>2 DEF QueueCommand
<1>5. /\ f \in ListsOf(k) /\ SameQueues(f, qcmd.file)
      /\ \A i \in 1..k : Queues!Rank(f[i].name, qcmd.file) = i - 1
  BY <1>4, SortedByName
<1>6. /\ mem' \in ListsOf(n) /\ SameQueues(mem', there)
      /\ \A i \in 1..n : Queues!Rank(mem'[i].name, there) = i - 1
  BY <1>1, <1>3, SortedByName
<1>7. Queues!NamesOf(f) = Queues!NamesOf(qcmd.file) /\ Queues!NamesOf(mem') = Queues!NamesOf(there)
  BY <1>5, <1>6, SameNames
<1> HIDE DEF f
<1>8. /\ DOMAIN f = 1..k /\ f \in [1..k -> Queue] /\ Apart(f)
      /\ DOMAIN mem = 1..n /\ DOMAIN mem' = 1..n /\ mem' \in [1..n -> Queue]
  BY <1>3, <1>5, <1>6, ListDomain
<1>9. list' = [i \in 1..k |->
            [q |-> f[i], at |-> IF i \in 1..n /\ mem'[i].name = f[i].name THEN i ELSE 0]]
  BY <1>1, <1>8 DEF Queues!FoundAt
<1>10. ASSUME NEW i \in 1..k
       PROVE  /\ list'[i].q = f[i]
              /\ Entries(qcmd, mem', there, list'[i]) /\ Finds(qcmd, mem', there, list'[i])
  <2> DEFINE e == list'[i]
  <2>1. /\ e = [q |-> f[i], at |-> e.at] /\ e.q = f[i]
        /\ e.at = IF i \in 1..n /\ mem'[i].name = f[i].name THEN i ELSE 0
    BY <1>9
  <2>2. f[i] = [name |-> f[i].name, id |-> f[i].id, pool |-> f[i].pool] /\ f[i].name \in Names
    BY <1>8 DEF Queue, Queues!QueueSet
  <2> HIDE DEF e
  <2>3. Entries(qcmd, mem', there, e)
    BY <1>1, <1>8, <2>1, <2>2 DEF Entries
  <2>4. Finds(qcmd, mem', there, e)
    <3>1. CASE e.at # 0
      BY <2>1, <3>1 DEF Finds
    <3>2. CASE e.at = 0 /\ e.q.name \notin Queues!NamesOf(there)
      BY <3>2 DEF Finds
    <3>3. CASE e.at = 0 /\ e.q.name \in Queues!NamesOf(there)
      <4>5. f[i].name \in Queues!NamesOf(mem')
        BY <1>7, <2>1, <3>3
      <4>1. PICK j \in 1..n : mem'[j].name = f[i].name
        BY <1>8, <4>5, NamesAre
      <4>2. j # i
        BY <2>1, <3>3, <4>1
      <4>3. Queues!Rank(f[i].name, qcmd.file) = i - 1 /\ Queues!Rank(f[i].name, there) = j - 1
        BY <1>5, <1>6, <4>1
      <4>4. Queues!Rank(e.q.name, qcmd.file) # Queues!Rank(e.q.name, there)
        BY <2>1, <4>2, <4>3
      <4> QED
        BY <1>1, <4>4 DEF Finds
    <3> QED
      BY <3>1, <3>2, <3>3
  <2> QED
    BY <2>1, <2>3, <2>4 DEF e
<1>11. Fitting(k, qcmd, mem', there, list', Queues!NamesOf(qcmd.file))
  <2>1. list' \in [1..k -> {list'[i] : i \in 1..k}]
    BY <1>9
  <2>2. \A i, j \in 1..k : list'[i].q.name = list'[j].q.name => i = j
    BY <1>8, <1>10 DEF Apart
  <2>3. {list'[i].q.name : i \in 1..k} = {f[i].name : i \in 1..k}
    BY <1>10
  <2>4. {f[i].name : i \in 1..k} = Queues!NamesOf(qcmd.file)
    BY <1>7, <1>8 DEF Queues!NamesOf
  <2> QED
    BY <1>10, <2>1, <2>2, <2>3, <2>4 DEF Fitting
<1>12. ToSend("send", qcmd, mem', there, list')
  BY <1>1, <1>11, SendFits
<1>13. SameAs(qpc', qcmd', mem', there')
  <2>1. SameAs("send", qcmd, Queues!SortByName(mem), there)
    BY <1>2, SortKeeps
  <2> QED
    BY <1>1, <2>1
<1> QED
  BY <1>1, <1>12, <1>13, AboutToSend

LEMMA GetQueuesKeeps == QueuesInv /\ Queues!GetQueues => QueuesInv'
<1> SUFFICES ASSUME QueuesInv, Queues!GetQueues PROVE QueuesInv'
  OBVIOUS
<1>1. CASE qpc' = "refused"
  BY <1>1, RefusedKeeps
<1>2. CASE qpc' # "refused"
  BY <1>2, GivenIdsKeeps
<1> QED
  BY <1>1, <1>2

LEMMA SendKeeps == QueuesInv /\ Queues!Send => QueuesInv'
<1> SUFFICES ASSUME QueuesInv, Queues!Send PROVE QueuesInv'
  OBVIOUS
<1> DEFINE P(i) == IF qcmd.kind = "file" /\ qcmd.hybrid THEN list[Len(list)].q.pool
                   ELSE list[i].q.pool
           D(i) == IF list[i].at = 0 THEN 0 ELSE mem[list[i].at].id
<1>1. /\ qpc = "send" /\ qpc' = "sent" /\ UNCHANGED <<mem, there, qcmd>>
      /\ list' = [i \in DOMAIN list |->
            [q |-> [list[i].q EXCEPT
                      !.id = IF list[i].at = 0 THEN 0 ELSE mem[list[i].at].id,
                      !.pool = IF qcmd.kind = "file" /\ qcmd.hybrid
                               THEN list[Len(list)].q.pool ELSE @],
             at |-> list[i].at]]
  BY DEF Queues!Send
<1>2. /\ QueueCommand(qpc, qcmd) /\ SameAs(qpc, qcmd, mem, there)
      /\ ToSend("send", qcmd, mem, there, list)
  BY <1>1 DEF QueuesInv, QInv
<1>3. PICK n \in Nat \ {0} : mem \in ListsOf(n) /\ there \in ListsOf(n)
  BY <1>2 DEF SameAs
<1>4. DOMAIN mem = 1..n /\ \A i \in 1..n : mem[i].id = mem[i].name
  BY <1>3 DEF ListsOf
<1>5. PICK k \in Nat : list \in [1..k -> {list[i] : i \in DOMAIN list}]
  BY <1>2 DEF ToSend
<1>6. DOMAIN list = 1..k /\ DOMAIN list' = 1..k
  BY <1>1, <1>5
<1>7. ASSUME NEW i \in 1..k
      PROVE  /\ Entries(qcmd, mem, there, list[i]) /\ Finds(qcmd, mem, there, list[i])
             /\ list'[i] = [q |-> [name |-> list[i].q.name, id |-> D(i), pool |-> P(i)],
                            at |-> list[i].at]
  <2>1. Entries(qcmd, mem, there, list[i]) /\ Finds(qcmd, mem, there, list[i])
    BY <1>2, <1>6 DEF ToSend
  <2>2. list[i].q = [name |-> list[i].q.name, id |-> list[i].q.id, pool |-> list[i].q.pool]
    BY <2>1 DEF Entries
  <2>3. list'[i] = [q |-> [list[i].q EXCEPT !.id = D(i), !.pool = P(i)], at |-> list[i].at]
    BY <1>1, <1>6, <2>2
  <2>4. [list[i].q EXCEPT !.id = D(i), !.pool = P(i)]
        = [name |-> list[i].q.name, id |-> D(i), pool |-> P(i)]
    <3> DEFINE q == list[i].q
               a == q.name
               b == q.id
               c == q.pool
    <3>1. q = [name |-> a, id |-> b, pool |-> c]
      BY <2>2
    <3> HIDE DEF a, b, c, q
    <3> DEFINE x == D(i)
               y == P(i)
    <3> HIDE DEF x, y
    <3>2. q \in [name : {a}, id : {b}, pool : {c}]
      BY <3>1
    <3> DEFINE p == [q EXCEPT !.id = x, !.pool = y]
    <3>3. p \in [name : {a}, id : {x}, pool : {y}]
      BY <3>2
    <3> HIDE DEF p
    <3>4. p = [name |-> a, id |-> x, pool |-> y]
      BY <3>3
    <3> QED
      BY <3>4 DEF a, q, x, y, p
  <2> QED
    BY <2>1, <2>3, <2>4
<1>8. \A i \in 1..k : D(i) = IF list[i].at = 0 THEN 0 ELSE mem[list[i].at].name
  <2> TAKE i \in 1..k
  <2>1. list[i].at \in {0} \union DOMAIN mem
    BY <1>7 DEF Entries
  <2> QED
    BY <1>4, <2>1
<1>9. \A i \in 1..k : qcmd.kind # "file" => P(i) = list[i].q.pool
  OBVIOUS
<1> HIDE DEF P, D
<1>10. ASSUME NEW i \in 1..k
       PROVE  /\ list'[i].q.name = list[i].q.name
              /\ Entries(qcmd, mem, there, list'[i])
              /\ \/ list'[i].q.id = (IF list'[i].q.name \in Queues!NamesOf(there)
                                     THEN list'[i].q.name ELSE 0)
                 \/ qcmd.kind \in {"create", "update"} /\ there # Queues!SortByName(there)
                 \/ qcmd.kind = "file" /\
                       Queues!Rank(list'[i].q.name, qcmd.file)
                          # Queues!Rank(list'[i].q.name, there)
  <2>1. /\ list'[i].q.name = list[i].q.name /\ list'[i].q.id = D(i) /\ list'[i].q.pool = P(i)
        /\ list'[i].at = list[i].at
        /\ list'[i] = [q |-> [name |-> list'[i].q.name, id |-> list'[i].q.id,
                              pool |-> list'[i].q.pool], at |-> list'[i].at]
    <3>1. list'[i] = [q |-> [name |-> list[i].q.name, id |-> D(i), pool |-> P(i)],
                      at |-> list[i].at]
      BY <1>7
    <3>2. /\ list'[i].q = [name |-> list[i].q.name, id |-> D(i), pool |-> P(i)]
          /\ list'[i].at = list[i].at
      BY <3>1
    <3> QED
      BY <3>1, <3>2
  <2>2. Entries(qcmd, mem, there, list[i]) /\ Finds(qcmd, mem, there, list[i])
    BY <1>7
  <2>3. Entries(qcmd, mem, there, list'[i])
    BY <1>9, <2>1, <2>2 DEF Entries
  <2>4. CASE list[i].at = 0 /\ list[i].q.name \notin Queues!NamesOf(there)
    BY <1>8, <2>1, <2>3, <2>4
  <2>5. CASE list[i].at # 0 /\ mem[list[i].at].name = list[i].q.name
    <3>1. list[i].at \in DOMAIN mem
      BY <2>2, <2>5 DEF Entries
    <3>2. list[i].q.name \in Queues!NamesOf(mem)
      BY <2>5, <3>1 DEF Queues!NamesOf
    <3>3. list[i].q.name \in Queues!NamesOf(there)
      BY <1>2, <3>2, MemNames
    <3> QED
      BY <1>8, <2>1, <2>3, <2>5, <3>3
  <2>6. CASE \/ qcmd.kind \in {"create", "update"} /\ there # Queues!SortByName(there)
             \/ qcmd.kind = "file" /\
                   Queues!Rank(list[i].q.name, qcmd.file) # Queues!Rank(list[i].q.name, there)
    BY <2>1, <2>3, <2>6
  <2> QED
    BY <2>2, <2>4, <2>5, <2>6 DEF Finds
<1>11. ToSend("sent", qcmd, mem, there, list')
  <2>1. list' \in [1..k -> {list'[i] : i \in DOMAIN list'}]
    BY <1>1, <1>6
  <2>2. \A i, j \in 1..k : list'[i].q.name = list'[j].q.name => i = j
    BY <1>2, <1>6, <1>10 DEF ToSend
  <2>3. {list'[i].q.name : i \in DOMAIN list'} = {list[i].q.name : i \in DOMAIN list}
    BY <1>6, <1>10
  <2> QED
    BY <1>2, <1>6, <1>10, <2>1, <2>2, <2>3 DEF ToSend
<1>12. QueueCommand(qpc', qcmd') /\ SameAs(qpc', qcmd', mem', there')
  BY <1>1, <1>2 DEF QueueCommand, SameAs, Of
<1> QED
  BY <1>1, <1>11, <1>12 DEF QueuesInv, QInv, QueueSteps, NameFits, Copied

LEMMA QueuesStay == QueuesInv /\ [Queues!Next]_(Queues!vars) => QueuesInv'
<1>1. QueuesInv /\ UNCHANGED Queues!vars => QueuesInv'
  BY DEF QueuesInv, QInv, Queues!vars, QueueCommand, NameFits, SameAs, Copied, ToSend, Entries, Finds
<1> QED
  BY <1>1, CopyKeeps, SelectKeeps, SanitizeKeeps, CreateQueueKeeps, UpdateQueueKeeps,
     DeleteQueueKeeps, GetQueuesKeeps, SendKeeps DEF Queues!Next

-----------------------------------------------------------------------------
(* Queues. What is sent.                                                   *)

LEMMA WasFound ==
  ASSUME NEW n \in Nat \ {0}, NEW was \in ListsOf(n), was = there, NEW j \in DOMAIN was
  PROVE  there[Queues!Was(was[j].name)] = was[j]
<1>1. \A i \in DOMAIN was : was[i].name = was[j].name => i = j
  BY ListDomain DEF Apart
<1> QED
  BY <1>1 DEF Queues!Was

LEMMA SentIsWhole == QueuesInv => Queues!NoQueueLost
<1> SUFFICES ASSUME QueuesInv, qpc = "sent"
             PROVE  /\ {list[i].q.name : i \in DOMAIN list} = Queues!Wanted
                    /\ Len(list) = Queues!Cardinality(Queues!Wanted)
                    /\ qcmd.kind # "file" =>
                          \A i \in DOMAIN list :
                            LET m == list[i].q.name IN
                            m \in Queues!NamesOf(there) /\ m # qcmd.name =>
                               [list[i].q EXCEPT !.id = m] = there[Queues!Was(m)]
  BY DEF Queues!NoQueueLost, Queues!Sent
<1>1. ToSend("sent", qcmd, mem, there, list) /\ SameAs(qpc, qcmd, mem, there)
  BY DEF QueuesInv, QInv
<1>2. {list[i].q.name : i \in DOMAIN list} = Queues!Wanted
  BY <1>1 DEF ToSend, Queues!Wanted
<1>3. Len(list) = Queues!Cardinality(Queues!Wanted)
  <2>1. PICK k \in Nat : list \in [1..k -> {list[i] : i \in DOMAIN list}]
    BY <1>1 DEF ToSend
  <2>2. DOMAIN list = 1..k /\ Len(list) = k
    BY <2>1
  <2> DEFINE f == [i \in 1..k |-> list[i].q.name]
  <2>3. f \in Bijection(1..k, Queues!Wanted)
    <3>1. f \in [1..k -> Queues!Wanted]
      BY <1>2, <2>2
    <3>2. \A i, j \in 1..k : f[i] = f[j] => i = j
      BY <1>1, <2>2 DEF ToSend
    <3>3. \A x \in Queues!Wanted : \E i \in 1..k : f[i] = x
      BY <1>2, <2>2
    <3> QED
      BY <3>1, <3>2, <3>3 DEF Bijection, Injection, Surjection, IsInjective
  <2>4. Cardinality(Queues!Wanted) = k
    BY <2>3, FS_CountingElements DEF ExistsBijection
  <2> QED
    BY <2>2, <2>4, Counts
<1>4. ASSUME NEW i \in DOMAIN list, NEW m, m = list[i].q.name, qcmd.kind # "file",
             m \in Queues!NamesOf(there), m # qcmd.name
      PROVE  [list[i].q EXCEPT !.id = m] = there[Queues!Was(m)]
  <2>1. Entries(qcmd, mem, there, list[i])
    BY <1>1 DEF ToSend
  <2>2. PICK j \in DOMAIN there : there[j].name = m /\ there[j].pool = list[i].q.pool
    BY <1>4, <2>1 DEF Entries
  <2>3. list[i].q = [name |-> m, id |-> list[i].q.id, pool |-> list[i].q.pool]
    BY <1>4, <2>1 DEF Entries
  <2>4. PICK n \in Nat \ {0} : there \in ListsOf(n)
    BY <1>1 DEF SameAs
  <2>5. there[j] \in Queue /\ there[j].id = m
    BY <2>2, <2>4, ListDomain DEF ListsOf
  <2>6. there[j] = [name |-> m, id |-> m, pool |-> list[i].q.pool]
    BY <2>2, <2>5 DEF Queue, Queues!QueueSet
  <2>7. there[Queues!Was(m)] = there[j]
    BY <2>2, <2>4, WasFound
  <2> QED
    BY <2>3, <2>6, <2>7
<1> QED
  BY <1>2, <1>3, <1>4

LEMMA SentFindsIds == QueuesInv => Queues!OwnIdWhenSorted
<1> SUFFICES ASSUME QueuesInv, qpc = "sent", NEW i \in DOMAIN list
             PROVE  \/ Queues!RightId(i)
                    \/ qcmd.kind \in {"create", "update"} /\ there # Queues!SortByName(there)
                    \/ qcmd.kind = "file" /\ Queues!Rank(list[i].q.name, qcmd.file)
                                                # Queues!Rank(list[i].q.name, there)
  BY DEF Queues!OwnIdWhenSorted, Queues!Sent
<1>1. ToSend("sent", qcmd, mem, there, list)
  BY DEF QueuesInv, QInv
<1> QED
  BY <1>1 DEF ToSend, Queues!RightId

\* A create, update or delete of a queue, or an update from a file
\* (workerqueue.go, CreateOrUpdate and Delete; fromfile.go, getQueues), sends
\* every queue that is to be there exactly once, those it is not about in the
\* node pool they had, in whatever order the API lists them.  A delete sends
\* each with its own id, or with none if it is new; so does a create or update
\* when the API lists the queues by name, and an update from a file for each
\* queue that as many come before there as on the server.
THEOREM QueuesAreSentRight == Queues!Spec => []QueuesSentRight
<1>1. QueuesInv => QueuesSentRight
  BY SentIsWhole, SentFindsIds DEF QueuesSentRight, Queues!QueuesSentRight
<1> QED
  BY <1>1, QueuesStart, QueuesStay, PTL DEF Queues!Spec
=============================================================================
