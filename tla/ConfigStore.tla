---------------------------- MODULE ConfigStore ----------------------------
(***************************************************************************)
(* ~/.astro/config.yaml under concurrent CLI commands (config/config.go,   *)
(* config/context.go, context/context.go, and the writes of cloud/auth).   *)
(*                                                                         *)
(* Every command reads the whole file into memory when it starts, without  *)
(* a lock, creates or migrates it if it has to, and then saves the whole   *)
(* of its memory once per setting it changes.  A save takes the lock,      *)
(* truncates the file and writes it.                                       *)
(*                                                                         *)
(* The data keeps what the properties tell apart: the version stamp, one   *)
(* ordinary setting, the current context, the contexts, and which of them  *)
(* hold an access token and a refresh token.                               *)
(***************************************************************************)
EXTENDS Naturals, Sequences

CONSTANTS
  CLIs,          \* CLI processes that may run at once
  Domains,       \* the domains of contexts
  Nothing,       \* no domain, and nobody
  OnDisk,        \* settings an earlier CLI may have left on disk
  MaxCommands,   \* bound: commands started
  MaxFaults      \* bound: killed processes and failed writes

VARIABLES
  file,      \* the config file: its body and, when whole, the settings in it
  lock,      \* who holds config.yaml.lock
  pc,        \* where each process is
  job,       \* what its save is for: creating, migrating or the command itself
  cmd,       \* the command it runs
  mem,       \* viperHome, its copy of the settings
  todo,      \* the changes the command still has to make, a save each
  started, faults,   \* counters for the bounds
  last,      \* ghost: the settings that were last written whole
  base,      \* ghost: the settings on disk when each command started
  alone      \* ghost: whether each command met no other command and no fault

vars == <<file, lock, pc, job, cmd, mem, todo, started, faults, last, base, alone>>

Pins == {"none", "shipped", "own"}   \* absent, equal to a default ever shipped, or neither

Settings == [stamp: BOOLEAN, pin: Pins, current: Domains \cup {Nothing},
             contexts: SUBSET Domains, access: SUBSET Domains, refresh: SUBSET Domains]

ASSUME ConstantsAssumption ==
  /\ Nothing \notin Domains \cup CLIs
  /\ MaxCommands \in Nat /\ MaxFaults \in Nat
  /\ OnDisk \subseteq Settings
  /\ \A s \in OnDisk : s.refresh \subseteq s.access /\ s.access \subseteq s.contexts

Blank == [stamp |-> FALSE, pin |-> "none", current |-> Nothing,
          contexts |-> {}, access |-> {}, refresh |-> {}]

Commands == [op: {"login", "token", "logout", "switch", "delete"}, domain: Domains]
              \cup [op: {"set"}, pin: {"shipped", "own"}]

Idle == [op |-> "none"]   \* no command

Labels == {"off", "create", "read", "begin", "ready", "lock", "truncate", "write", "reread"}

Init ==
  /\ file \in [body: {"absent"}, data: {Blank}] \cup [body: {"whole"}, data: OnDisk]
  /\ lock = Nothing
  /\ pc = [c \in CLIs |-> "off"]
  /\ job = [c \in CLIs |-> "command"]
  /\ cmd = [c \in CLIs |-> Idle]
  /\ mem = [c \in CLIs |-> Blank]
  /\ todo = [c \in CLIs |-> <<>>]
  /\ started = 0 /\ faults = 0
  /\ last = file.data
  /\ base = [c \in CLIs |-> Blank]
  /\ alone = [c \in CLIs |-> FALSE]

Goto(c, label) == pc' = [pc EXCEPT ![c] = label]

(* A process ends and takes its memory with it. *)
Exit(c) ==
  /\ Goto(c, "off")
  /\ cmd' = [cmd EXCEPT ![c] = Idle]
  /\ mem' = [mem EXCEPT ![c] = Blank]
  /\ todo' = [todo EXCEPT ![c] = <<>>]
  /\ job' = [job EXCEPT ![c] = "command"]
  /\ base' = [base EXCEPT ![c] = Blank]
  /\ alone' = [alone EXCEPT ![c] = FALSE]

(* Entries equal to a shipped default go, and the file is stamped. *)
Migrated(s) == [s EXCEPT !.pin = IF @ = "shipped" THEN "none" ELSE @, !.stamp = TRUE]

(***************************************************************************)
(* The changes commands make, each saved on its own.                       *)
(***************************************************************************)
Apply(change, s) ==
  LET d == change.domain IN
  CASE change.op = "set"     -> [s EXCEPT !.pin = change.pin]
    [] change.op = "context" -> [s EXCEPT !.contexts = @ \cup {d}, !.access = @ \ {d}, !.refresh = @ \ {d}]
    [] change.op = "select"  -> [s EXCEPT !.current = d]
    [] change.op = "reset"   -> [s EXCEPT !.current = Nothing]
    [] change.op = "access"  -> [s EXCEPT !.contexts = @ \cup {d}, !.access = @ \cup {d}]
    [] change.op = "refresh" -> [s EXCEPT !.contexts = @ \cup {d}, !.refresh = @ \cup {d}]
    [] change.op = "norefresh" -> [s EXCEPT !.contexts = @ \cup {d}, !.refresh = @ \ {d}]
    [] change.op = "noaccess"  -> [s EXCEPT !.contexts = @ \cup {d}, !.access = @ \ {d}]
    [] change.op = "clear"   -> [s EXCEPT !.access = @ \ {d}, !.refresh = @ \ {d}]
    [] change.op = "remove"  -> [s EXCEPT !.contexts = @ \ {d}, !.access = @ \ {d}, !.refresh = @ \ {d}]

Change(op, d) == [op |-> op, domain |-> d]

(* context.Switch: a context that does not exist is made first. *)
Selecting(s, d) ==
  IF d \in s.contexts THEN <<Change("select", d)>>
                      ELSE <<Change("context", d), Change("select", d)>>

(* Leaving a domain deselects it when it is the current one. *)
Deselecting(s, d) == IF s.current = d THEN <<Change("reset", d)>> ELSE <<>>

FaultLogoutByKey(s, d) ==   \* fault: one save per credential
  IF d \in s.contexts
    THEN <<Change("noaccess", d), Change("norefresh", d)>> \o Deselecting(s, d)
    ELSE <<>>

Logout(s, d) ==   \* a domain without a login is an error
  IF d \in s.contexts THEN <<Change("clear", d)>> \o Deselecting(s, d) ELSE <<>>

Delete(s, d) ==   \* with no context at all the command panics before it saves
  IF s.contexts # {} THEN <<Change("remove", d)>> \o Deselecting(s, d) ELSE <<>>

Plan(k, s) ==
  CASE k.op = "set"    -> <<[op |-> "set", pin |-> k.pin, domain |-> Nothing]>>
    [] k.op = "switch" -> Selecting(s, k.domain)
    [] k.op = "login"  -> Selecting(s, k.domain)
                            \o <<Change("access", k.domain), Change("refresh", k.domain)>>
    [] k.op = "token"  -> Selecting(s, k.domain)
                            \o <<Change("access", k.domain), Change("norefresh", k.domain)>>
    [] k.op = "logout" -> Logout(s, k.domain)
    [] k.op = "delete" -> Delete(s, k.domain)

(***************************************************************************)
(* A command starts: initHome.                                             *)
(***************************************************************************)
Running(c) == pc[c] # "off"

Start(c) ==
  /\ ~Running(c)
  /\ started < MaxCommands
  /\ \E k \in Commands : cmd' = [cmd EXCEPT ![c] = k]
  /\ LET missing == file.body = "absent" IN
       /\ mem' = [mem EXCEPT ![c] = [Blank EXCEPT !.stamp = missing]]
       /\ Goto(c, IF missing THEN "create" ELSE "read")
  /\ started' = started + 1
  /\ base' = [base EXCEPT ![c] = file.data]
  /\ alone' = [e \in CLIs |-> IF e = c THEN \A o \in CLIs : ~Running(o)
                                       ELSE alone[e] /\ ~Running(e)]
  /\ UNCHANGED <<file, lock, job, todo, faults, last>>

\* CreateConfig: fs.Create empties a file another process has made meanwhile.
CreateFile(c) ==
  /\ pc[c] = "create"
  /\ file' = [body |-> "empty", data |-> Blank]
  /\ job' = [job EXCEPT ![c] = "create"]
  /\ Goto(c, "lock")
  /\ UNCHANGED <<lock, cmd, mem, todo, started, faults, last, base, alone>>

(* An unreadable file leaves the memory alone; the stamp set on creation stays. *)
Loaded(s) ==
  IF file.body = "mixed" THEN s ELSE [file.data EXCEPT !.stamp = @ \/ s.stamp]

\* ReadInConfig, and the decision whether to migrate.
Read(c) ==
  /\ pc[c] = "read"
  /\ mem' = [mem EXCEPT ![c] = Loaded(@)]
  /\ IF file.body = "mixed" \/ mem'[c].stamp
       THEN Goto(c, "begin") /\ UNCHANGED job
       ELSE Goto(c, "lock") /\ job' = [job EXCEPT ![c] = "migrate"]
  /\ UNCHANGED <<file, lock, cmd, todo, started, faults, last, base, alone>>

FaultNoReread(c) ==   \* fault: the memory keeps what was read before the migration
  /\ pc[c] = "reread"
  /\ Goto(c, "begin")
  /\ UNCHANGED <<file, lock, job, cmd, mem, todo, started, faults, last, base, alone>>

\* The migrated file is read again.
Reread(c) ==
  /\ pc[c] = "reread"
  /\ mem' = [mem EXCEPT ![c] = IF file.body = "mixed" THEN @ ELSE file.data]
  /\ Goto(c, "begin")
  /\ UNCHANGED <<file, lock, job, cmd, todo, started, faults, last, base, alone>>

(***************************************************************************)
(* The command itself.                                                     *)
(***************************************************************************)
Begin(c) ==
  /\ pc[c] = "begin"
  /\ todo' = [todo EXCEPT ![c] = Plan(cmd[c], mem[c])]
  /\ job' = [job EXCEPT ![c] = "command"]
  /\ Goto(c, "ready")
  /\ UNCHANGED <<file, lock, cmd, mem, started, faults, last, base, alone>>

\* viperHome.Set, then saveConfig.
MakeChange(c) ==
  /\ pc[c] = "ready" /\ todo[c] # <<>>
  /\ mem' = [mem EXCEPT ![c] = Apply(Head(todo[c]), @)]
  /\ todo' = [todo EXCEPT ![c] = Tail(@)]
  /\ Goto(c, "lock")
  /\ UNCHANGED <<file, lock, job, cmd, started, faults, last, base, alone>>

Finish(c) ==
  /\ pc[c] = "ready" /\ todo[c] = <<>>
  /\ Exit(c)
  /\ UNCHANGED <<file, lock, started, faults, last>>

(***************************************************************************)
(* saveConfig: lock, truncate, write, unlock.                              *)
(***************************************************************************)
FaultNoLock(c) ==   \* fault: the save does not wait for the lock
  /\ pc[c] = "lock"
  /\ lock' = c
  /\ Goto(c, "truncate")
  /\ UNCHANGED <<file, job, cmd, mem, todo, started, faults, last, base, alone>>

AcquireLock(c) ==
  /\ pc[c] = "lock" /\ lock = Nothing
  /\ lock' = c
  /\ Goto(c, "truncate")
  /\ UNCHANGED <<file, job, cmd, mem, todo, started, faults, last, base, alone>>

(* A failure to create or to migrate is reported and passed over; a failure *)
(* of the command's own save ends the command.                              *)
SaveFailed(c) ==
  IF job[c] = "command"
    THEN Exit(c)
    ELSE /\ Goto(c, "begin")
         /\ alone' = [alone EXCEPT ![c] = FALSE]
         /\ UNCHANGED <<cmd, mem, todo, job, base>>

\* Ten seconds went by while another process held the lock.
LockTimesOut(c) ==
  /\ pc[c] = "lock" /\ lock \notin {Nothing, c}
  /\ SaveFailed(c)
  /\ UNCHANGED <<file, lock, started, faults, last>>

Truncate(c) ==
  /\ pc[c] = "truncate"
  /\ file' = [body |-> "empty", data |-> Blank]
  /\ Goto(c, "write")
  /\ UNCHANGED <<lock, job, cmd, mem, todo, started, faults, last, base, alone>>

Saved(c) == IF job[c] = "migrate" THEN Migrated(mem[c]) ELSE mem[c]

\* Text written over text that was not truncated is neither of the two.
Write(c) ==
  /\ pc[c] = "write"
  /\ file' = [body |-> IF file.body = "empty" THEN "whole" ELSE "mixed", data |-> Saved(c)]
  /\ last' = Saved(c)
  /\ lock' = Nothing
  /\ Goto(c, CASE job[c] = "create"  -> "read"
               [] job[c] = "migrate" -> "reread"
               [] job[c] = "command" -> "ready")
  /\ UNCHANGED <<job, cmd, mem, todo, started, faults, base, alone>>

FaultKeepsLock(c) ==   \* fault: the error return does not unlock
  /\ pc[c] = "write" /\ faults < MaxFaults
  /\ faults' = faults + 1
  /\ SaveFailed(c)
  /\ UNCHANGED <<file, lock, started, last>>

\* The write fails, on a full disk for instance: the file stays truncated.
WriteFails(c) ==
  /\ pc[c] = "write" /\ faults < MaxFaults
  /\ faults' = faults + 1
  /\ lock' = Nothing
  /\ SaveFailed(c)
  /\ UNCHANGED <<file, started, last>>

\* A process ends at any point; the system releases its lock.
Killed(c) ==
  /\ Running(c) /\ faults < MaxFaults
  /\ faults' = faults + 1
  /\ lock' = IF lock = c THEN Nothing ELSE lock
  /\ Exit(c)
  /\ UNCHANGED <<file, started, last>>

Next == \E c \in CLIs :
  \/ Start(c) \/ CreateFile(c) \/ Read(c) \/ Reread(c)
  \/ Begin(c) \/ MakeChange(c) \/ Finish(c)
  \/ AcquireLock(c) \/ LockTimesOut(c) \/ Truncate(c) \/ Write(c)
  \/ WriteFails(c) \/ Killed(c)

Spec == Init /\ [][Next]_vars

(***************************************************************************)
(* Properties.                                                             *)
(***************************************************************************)
Changes == [op: {"context", "select", "reset", "access", "refresh", "norefresh",
                 "noaccess", "clear", "remove"}, domain: Domains]
             \cup [op: {"set"}, pin: {"shipped", "own"}, domain: {Nothing}]

(* The type of every variable, and the lock is held exactly around a save. *)
TypeOK ==
  /\ file \in [body: {"absent", "empty", "whole", "mixed"}, data: Settings]
  /\ lock \in CLIs \cup {Nothing}
  /\ pc \in [CLIs -> Labels] /\ job \in [CLIs -> {"create", "migrate", "command"}]
  /\ cmd \in [CLIs -> Commands \cup {Idle}] /\ mem \in [CLIs -> Settings]
  /\ \A c \in CLIs : /\ todo[c] \in Seq(Changes)
                     /\ pc[c] \in {"truncate", "write"} <=> lock = c
  /\ started \in 0..MaxCommands /\ faults \in 0..MaxFaults
  /\ last \in Settings /\ base \in [CLIs -> Settings] /\ alone \in [CLIs -> BOOLEAN]

(* However saves, creations, failures and kills interleave, the file never   *)
(* holds the text of two writers (saveConfig's lock; the unlocked truncation *)
(* of CreateConfig does no harm of this kind).                               *)
NeverMixed == file.body # "mixed"

(* No moment of a login, logout, delete or failure of one leaves the         *)
(* long-lived refresh token on disk without the access token it came with    *)
(* (ClearCredentials is one write; writeToContext saves the access token     *)
(* first).                                                                   *)
NoOrphanRefresh == file.data.refresh \subseteq file.data.access

\* What a command promises of the settings it finds, once they are stamped, and
\* of those it leaves: the file is stamped, the setting is what it was unless it
\* is the one to set, other domains keep their login, and its own domain ends as
\* the command says.
Settled(s) == IF s.stamp THEN s ELSE Migrated(s)

Promise(k, was, is) ==
  /\ is.stamp
  /\ is.pin = IF k.op = "set" THEN k.pin ELSE was.pin
  /\ k.op = "set" => is = [was EXCEPT !.pin = k.pin]
  /\ k.op # "set" =>
       /\ \A o \in Domains \ {k.domain} :
            /\ o \in is.contexts <=> o \in was.contexts
            /\ o \in is.access <=> o \in was.access
            /\ o \in is.refresh <=> o \in was.refresh
       /\ k.op \in {"logout", "delete"} =>
            /\ k.domain \notin is.access \cup is.refresh
            /\ k.domain \in was.contexts => is.current # k.domain
       /\ k.op \in {"login", "token", "switch"} =>
            is.current = k.domain /\ k.domain \in is.contexts
       /\ k.op \in {"login", "token"} =>
            k.domain \in is.access /\ (k.domain \in is.refresh <=> k.op = "login")

(* A command that met no other command and no fault does what it says and    *)
(* nothing else, in a whole file.                                            *)
AloneDoesItsJob == [][\A c \in CLIs : Finish(c) /\ alone[c] =>
  file.body = "whole" /\ Promise(cmd[c], Settled(base[c]), file.data)]_vars

(* config.go:190-191 and 226: once the file is stamped the migration never   *)
(* runs against it again, and a setting in it is the user's for good.        *)
SettledForGood == [][\A c \in CLIs :
  Write(c) /\ job[c] = "migrate" /\ last.stamp => Saved(c).pin = last.pin]_vars
=============================================================================
