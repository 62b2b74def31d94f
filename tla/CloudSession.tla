----------------------------- MODULE CloudSession -----------------------------
(***************************************************************************)
(* The login a context holds, from one command to the next                 *)
(* (cmd/root_hooks.go, cmd/cloud/setup.go, cloud/auth,                     *)
(* cloud/organization, cloud/workspace).                                   *)
(*                                                                         *)
(* Before nearly every command a hook sees to it that the context holds a  *)
(* token: the one in ASTRO_API_TOKEN, one for the API keys in the          *)
(* environment, or the stored one, renewed or got by a new login when it   *)
(* expires.  Each is written over the last, key by key and a save each,    *)
(* with the Organization and the Workspace it came with.  Most errors of   *)
(* the hook are passed over and the command runs with what the context     *)
(* holds.  Only one command runs at a time, and its saves succeed unless   *)
(* it is killed: ConfigStore has several commands and saves that fail.     *)
(***************************************************************************)
EXTENDS Naturals, Sequences

CONSTANTS
    User,              \* who logs in
    Org, Workspace,
    Holds,             \* Holds[o]: the Workspaces of an Organization
    ApiToken,          \* what ASTRO_API_TOKEN may hold: [bad, until, org, ws]
    Key,               \* the API keys there may be: [org, ws]
    None,
    Life, Hour,        \* how long a renewed and a given token last
    Margin,            \* accessTokenExpThreshold
    MaxTime,           \* bound: the clock
    MaxBegun,          \* bound: commands
    MaxKills           \* bound: processes killed

\* What the tokens and the times are.
Sound ==
    /\ Life \in Nat /\ Hour \in Nat /\ Margin \in Nat
    /\ \A t \in ApiToken : t.bad \in {"no", "malformed", "other"} /\ t.until \in Nat
    /\ (ApiToken \union Key) \intersect User = {}

VARIABLES
    ctx,               \* the context in config.yaml
    selected,          \* whether it is the current one
    of,                \* ghost: the token whose expiry ctx holds
    clean,             \* ghost: the Workspace was chosen with the Organization
    member,            \* member[u]: the Organizations of a user
    now,
    pc, cmd, todo, then,   \* the command that runs, what it has to save
    setup, asOf,           \* how its hook goes;  ghost: when it began
    begun, kills

vars == <<ctx, selected, of, clean, member, now, pc, cmd, todo, then, setup, asOf,
          begun, kills>>

Expiry == 0..(3 * MaxTime + Life + Hour)   \* 0: none stored

Tokens == [who : User \union Key, until : Expiry] \union [who : ApiToken, until : Expiry]

Blank == [token |-> None, expires |-> 0, refresh |-> None,
          org |-> None, ws |-> None, last |-> None]

Environment == {None} \union ApiToken \union Key

Commands ==
    [op : {"work"}, arg : {None}, env : Environment]
    \union [op : {"organization"}, arg : Org, env : {None} \union ApiToken]
    \union [op : {"workspace"}, arg : Workspace, env : {None} \union ApiToken]
    \union [op : {"login", "token-login"}, arg : User, env : {None}]
    \union [op : {"logout"}, arg : {None}, env : {None}]

Idle == [op |-> "none", arg |-> None, env |-> None]

-----------------------------------------------------------------------------
(* Steps.                                                                  *)

UNCHANGED_world == UNCHANGED <<ctx, selected, of, clean, member, now, begun, kills>>

\* The command goes on with these saves, and with this after them.
GoOn(saves, label) ==
    IF saves = <<>> THEN pc' = label /\ todo' = <<>> /\ then' = "off"
                    ELSE pc' = "save" /\ todo' = saves /\ then' = label
Goto(label) == GoOn(<<>>, label)

Exit ==
    /\ pc' = "off" /\ cmd' = Idle /\ todo' = <<>> /\ then' = "off"
    /\ setup' = "none" /\ asOf' = 0

\* The hook ends with an error, which CreateRootPersistentPreRunE passes over;
\* the command itself ends with its own.
Fail ==
    IF setup = "sound"
    THEN /\ setup' = "failed" /\ pc' = "run" /\ todo' = <<>> /\ then' = "off"
         /\ UNCHANGED <<cmd, asOf>>
    ELSE Exit

Set(key, value) == [key |-> key, value |-> value]

\* context.Switch makes the context the current one.
Selecting == IF selected THEN <<>> ELSE <<Set("select", None)>>

\* The token an API call carries is the context's.
Caller == ctx.token.who
Carries == selected /\ ctx.token # None
Answered == Carries /\ ctx.token.until > now

\* The Organizations a caller reaches.
Reaches(who) ==
    IF who \in User THEN member[who] ELSE {who.org}

Start(k) ==
    /\ pc = "off" /\ begun < MaxBegun
    /\ begun' = begun + 1
    /\ cmd' = k /\ asOf' = now
    /\ IF k.op \in {"login", "token-login", "logout"}
       THEN Goto(k.op) /\ setup' = "skipped"
       ELSE Goto("hook") /\ setup' = "sound"
    /\ UNCHANGED <<ctx, selected, of, clean, member, now, kills>>

Finish ==
    /\ pc = "finish"
    /\ Exit
    /\ UNCHANGED_world

-----------------------------------------------------------------------------
(* The hook: Setup.                                                        *)

\* Mutant: a time where SetExpiresIn takes a number of seconds from now.
Timestamp(t) == t.until

\* How long a token lasts from now.
Lasts(t) == t.until - now

\* checkAPIToken up to its first request: nothing of a token that is
\* malformed, not an API token or expired is saved.
CheckAPIToken ==
    /\ pc = "hook" /\ cmd.env \in ApiToken
    /\ LET t == cmd.env IN
       IF t.bad = "malformed" \/ (t.bad = "no" /\ t.until < now)
       THEN GoOn(Selecting, "finish") /\ UNCHANGED <<cmd, setup, asOf>>
       ELSE IF t.bad = "other"
       THEN setup' = "failed" /\ GoOn(Selecting, "run") /\ UNCHANGED <<cmd, asOf>>
       ELSE /\ GoOn(Selecting \o <<Set("token", [who |-> t, until |-> t.until]),
                                   Set("expires", Lasts(t))>>, "organizations")
            /\ UNCHANGED <<cmd, setup, asOf>>
    /\ UNCHANGED_world

\* ListOrganizations, and the rest of checkAPIToken; without an answer the
\* command ends.
AdoptAPIToken ==
    /\ pc = "organizations" /\ cmd.env \in ApiToken
    /\ \/ /\ Answered
          /\ GoOn(<<Set("ws", IF cmd.env.ws = None THEN ctx.ws ELSE cmd.env.ws),
                    Set("org", cmd.env.org)>>, "run")
          /\ UNCHANGED <<cmd, setup, asOf>>
       \/ Exit
    /\ UNCHANGED_world

\* checkAPIKeys: a token for the keys, or an error; a request that cannot be
\* sent ends the process.
CheckAPIKeys ==
    /\ pc = "hook" /\ cmd.env \in Key
    /\ \/ /\ \E t \in {None, [who |-> cmd.env, until |-> now + Life]} :
                GoOn(Selecting \o <<Set("token", t), Set("expires", IF t = None THEN 0 ELSE Life)>>,
                     "organizations")
          /\ UNCHANGED <<cmd, setup, asOf>>
       \/ setup' = "failed" /\ GoOn(Selecting, "run") /\ UNCHANGED <<cmd, asOf>>
       \/ Exit
    /\ UNCHANGED_world

AdoptAPIKeys ==
    /\ pc = "organizations" /\ cmd.env \in Key
    /\ \/ /\ Answered
          /\ GoOn(<<Set("ws", cmd.env.ws), Set("org", cmd.env.org)>>, "run")
          /\ UNCHANGED <<cmd, setup, asOf>>
       \/ Fail
    /\ UNCHANGED_world

\* isExpired, for the expiry the context holds.
Expired == now + Margin > ctx.expires

\* checkToken, with a stored token that needs nothing; without a context it
\* is an error.
CheckToken ==
    /\ pc = "hook" /\ cmd.env = None
    /\ \/ ~selected /\ Fail
       \/ /\ selected /\ ctx.token # None /\ ~Expired
          /\ Goto("run") /\ UNCHANGED <<cmd, setup, asOf>>
    /\ UNCHANGED_world

\* checkToken where there is no token, or no renewal of it: authLogin.
AskToLogin ==
    /\ pc = "hook" /\ cmd.env = None /\ selected
    /\ ctx.token = None \/ Expired
    /\ Goto("login") /\ UNCHANGED <<cmd, setup, asOf>>
    /\ UNCHANGED_world

\* What a renewal writes: the Workspace goes back to the last one switched to,
\* and the Organization is written over itself.
Renewed(t) ==
    <<Set("token", t), Set("expires", IF t = None THEN 0 ELSE Life),
      Set("ws", ctx.last)>>

\* refresh: an answer with neither an error nor a token leaves "Bearer ".
\* Without an answer the process ends, or its hook fails (the request for the
\* auth config).
Refresh ==
    /\ pc = "hook" /\ cmd.env = None /\ selected
    /\ ctx.token # None /\ Expired
    /\ \/ /\ \E t \in {None} \union
                      (IF ctx.refresh = None THEN {}
                       ELSE {[who |-> ctx.refresh, until |-> now + Life]}) :
                GoOn(Renewed(t), "run")
          /\ UNCHANGED <<cmd, setup, asOf>>
       \/ Fail
       \/ Exit
    /\ UNCHANGED_world

-----------------------------------------------------------------------------
(* Login, Logout.                                                          *)

\* What writeToContext saves; a given token has no refresh token, and an hour.
Entered(u, given) ==
    <<Set("token", [who |-> u, until |-> now + IF given THEN Hour ELSE Life]),
      Set("refresh", IF given THEN None ELSE u),
      Set("expires", IF given THEN Hour ELSE Life)>>

\* Whoever is at the browser logs in: the user the command names, or any when
\* a hook asks; or nobody does.
Login ==
    /\ pc \in {"login", "token-login"}
    /\ \/ /\ \E u \in IF cmd.op = pc THEN {cmd.arg} ELSE User :
                GoOn(Selecting \o Entered(u, pc = "token-login"), "session")
          /\ UNCHANGED <<cmd, setup, asOf>>
       \/ Fail
    /\ UNCHANGED_world

\* ClearCredentials, and ResetCurrentContext.
Logout ==
    /\ pc = "logout"
    /\ GoOn(IF selected THEN <<Set("clear", None), Set("reset", None)>> ELSE <<>>, "finish")
    /\ UNCHANGED <<cmd, setup, asOf>>
    /\ UNCHANGED_world

-----------------------------------------------------------------------------
(* CheckUserSession: the Organization, then a Workspace of it.             *)

\* resolveActiveOrg: the context's own, as long as the caller reaches it.
ActiveOrgs == IF ctx.org \in Reaches(Caller) THEN {ctx.org} ELSE Reaches(Caller)

ResolveOrg ==
    /\ pc = "session"
    /\ \/ /\ Answered
          /\ \E o \in ActiveOrgs : GoOn(<<Set("org", o)>>, "workspaces")
          /\ UNCHANGED <<cmd, setup, asOf>>
       \/ Fail
    /\ UNCHANGED_world

\* switchToLastUsedWorkspace.
LastUsed == {ctx.last} \intersect Holds[ctx.org]

\* Mutant: the only Workspace is not kept as the last one used.
OnlyOneForgotten ==
    LET list == Holds[ctx.org] IN
    IF \E w \in list : list = {w} THEN {<<Set("ws", w)>> : w \in list}
    ELSE IF LastUsed # {} THEN {<<Set("ws", w)>> : w \in LastUsed}
    ELSE {<<Set("ws", w), Set("last", w)>> : w \in list}

\* The only Workspace, the last one used, or one from a menu: the saves.
Choices ==
    LET list == Holds[ctx.org] IN
    IF \E w \in list : list = {w} THEN {<<Set("ws", w), Set("last", w)>> : w \in list}
    ELSE IF list = {} THEN {<<>>}
    ELSE IF LastUsed # {} THEN {<<Set("ws", w)>> : w \in LastUsed}
    ELSE {<<>>} \union {<<Set("ws", w), Set("last", w)>> : w \in list}

ChooseWorkspace ==
    /\ pc = "workspaces"
    /\ \/ /\ Answered /\ ctx.org \in Reaches(Caller)
          /\ \E saves \in Choices :
                /\ GoOn(saves, IF setup = "sound" THEN "run" ELSE "finish")
                /\ clean' = (saves # <<>>)
          /\ UNCHANGED <<cmd, setup, asOf>>
       \/ Fail /\ clean' = FALSE
    /\ UNCHANGED <<ctx, selected, of, member, now, begun, kills>>

-----------------------------------------------------------------------------
(* The commands.                                                           *)

Call ==
    /\ pc = "run" /\ cmd.op = "work"
    /\ Exit
    /\ UNCHANGED_world

\* organization switch; the other keys SwitchWithContext writes are the
\* context's own.
SwitchOrganization ==
    /\ pc = "run" /\ cmd.op = "organization"
    /\ \/ /\ Answered /\ cmd.arg \in Reaches(Caller) /\ cmd.arg # ctx.org
          /\ GoOn(<<Set("org", cmd.arg)>>, "session")
          /\ setup' = "skipped"
          /\ clean' = FALSE
          /\ UNCHANGED <<cmd, asOf>>
       \/ Exit /\ UNCHANGED clean
    /\ UNCHANGED <<ctx, selected, of, member, now, begun, kills>>

\* workspace switch.
SwitchWorkspace ==
    /\ pc = "run" /\ cmd.op = "workspace"
    /\ \/ /\ Answered /\ ctx.org \in Reaches(Caller) /\ cmd.arg \in Holds[ctx.org]
          /\ GoOn(<<Set("ws", cmd.arg), Set("last", cmd.arg)>>, "finish")
          /\ setup' = "skipped"
          /\ UNCHANGED <<cmd, asOf>>
       \/ Exit
    /\ UNCHANGED_world

-----------------------------------------------------------------------------
(* Saves.                                                                  *)

\* SetContextKey, SetExpiresIn, ClearCredentials, the current context.
Written(save) ==
    CASE save.key = "token"   -> [ctx EXCEPT !.token = save.value]
      [] save.key = "refresh" -> [ctx EXCEPT !.refresh = save.value]
      [] save.key = "expires" -> [ctx EXCEPT !.expires = now + save.value]
      [] save.key = "org"     -> [ctx EXCEPT !.org = save.value]
      [] save.key = "ws"      -> [ctx EXCEPT !.ws = save.value]
      [] save.key = "last"    -> [ctx EXCEPT !.last = save.value]
      [] save.key = "clear"   -> [ctx EXCEPT !.token = None, !.refresh = None,
                                             !.expires = 0]
      [] save.key \in {"select", "reset"} -> ctx

Save ==
    /\ pc = "save"
    /\ LET save == Head(todo) IN
       /\ ctx' = Written(save)
       /\ selected' = (save.key = "select" \/ (selected /\ save.key # "reset"))
       /\ of' = IF save.key \in {"expires", "clear"} THEN ctx'.token ELSE of
       /\ clean' = (clean /\ ~(save.key = "token" /\ save.value # None
                               /\ save.value.who \notin User))
    /\ IF Len(todo) = 1 THEN Goto(then) ELSE GoOn(Tail(todo), then)
    /\ UNCHANGED <<member, now, cmd, setup, asOf, begun, kills>>

\* A process is killed between two saves; at another point its end leaves
\* what a request that fails there leaves.
Killed ==
    /\ pc = "save" /\ kills < MaxKills /\ begun < MaxBegun
    /\ kills' = kills + 1
    /\ clean' = FALSE
    /\ Exit
    /\ UNCHANGED <<ctx, selected, of, member, now, begun>>

-----------------------------------------------------------------------------
(* The world.                                                              *)

Tick ==
    /\ pc = "off" /\ now < MaxTime /\ begun < MaxBegun
    /\ now' = now + 1
    /\ UNCHANGED <<ctx, selected, of, clean, member, pc, cmd, todo, then, setup, asOf,
                   begun, kills>>

\* A user loses an Organization.
Leave ==
    /\ pc = "off" /\ begun < MaxBegun
    /\ \E u \in User : \E o \in member[u] :
          /\ member[u] # {o}
          /\ member' = [member EXCEPT ![u] = @ \ {o}]
    /\ UNCHANGED <<ctx, selected, of, clean, now, pc, cmd, todo, then, setup, asOf,
                   begun, kills>>

Init ==
    /\ ctx = Blank /\ selected = FALSE /\ of = None /\ clean = FALSE
    /\ member = [u \in User |-> Org]
    /\ now = 1
    /\ pc = "off" /\ cmd = Idle /\ todo = <<>> /\ then = "off"
    /\ setup = "none" /\ asOf = 0
    /\ begun = 0 /\ kills = 0

Next ==
    \/ \E k \in Commands : Start(k)
    \/ CheckAPIToken \/ AdoptAPIToken \/ CheckAPIKeys \/ AdoptAPIKeys
    \/ CheckToken \/ AskToLogin \/ Refresh
    \/ Login \/ Logout \/ ResolveOrg \/ ChooseWorkspace
    \/ Call \/ SwitchOrganization \/ SwitchWorkspace \/ Finish
    \/ Save \/ Killed
    \/ Tick \/ Leave

Spec == Init /\ [][Next]_vars

-----------------------------------------------------------------------------
(* Properties.                                                             *)

TypeOK ==
    /\ ctx.token \in Tokens \union {None} /\ of \in Tokens \union {None}
    /\ ctx.expires \in Expiry /\ ctx.refresh \in User \union {None}
    /\ ctx.org \in Org \union {None}
    /\ ctx.ws \in Workspace \union {None} /\ ctx.last \in Workspace \union {None}
    /\ selected \in BOOLEAN /\ clean \in BOOLEAN
    /\ member \in [User -> SUBSET Org]
    /\ now \in 1..MaxTime /\ asOf \in 0..MaxTime
    /\ pc \in {"off", "hook", "organizations", "login", "token-login", "logout",
               "session", "workspaces", "run", "save", "finish"}
    /\ cmd \in Commands \union {Idle}
    /\ setup \in {"none", "skipped", "sound", "failed"}
    /\ begun \in 0..MaxBegun /\ kills \in 0..MaxKills

\* No command whose hook ended well runs with a token that had expired when
\* the command began, whatever was in the context and in the environment of
\* the commands before it, unless one of them was cut off between a token and
\* its expiry (checkToken trusts the stored expiry alone; checkAPIToken once
\* stored one decades out).
ExpiredUnused ==
    pc = "run" /\ setup = "sound" /\ ctx.token # None /\ of = ctx.token =>
        ctx.token.until >= asOf

\* From a login or a switch of Organization that chose a Workspace on, every
\* command of the user runs in a Workspace of the Organization it runs in,
\* through renewals, further logins and switches, until an API token or key
\* takes over or a command is killed (switchToLastUsedWorkspace, checkToken).
WorkspaceOfOrg ==
    pc = "run" /\ clean => ctx.ws \in Holds[ctx.org]

\* A command runs with a token that lasts and in a Workspace of its
\* Organization: the two things its hook has to see to (checkToken).
SessionFits == ExpiredUnused /\ WorkspaceOfOrg
=============================================================================
