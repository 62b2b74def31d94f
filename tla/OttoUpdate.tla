------------------------------ MODULE OttoUpdate ------------------------------
(* The Otto binary that the CLI keeps in ~/.astro/bin.  `astro otto' installs  *)
(* it when there is none or an old one, looks for a newer one at most once an  *)
(* hour, updates to it, and runs it; `astro otto update' installs the latest.  *)
(* An install unpacks an archive into the directory, two files one after the   *)
(* other: package.json, which says the version, and the binary under the name  *)
(* of its platform; then it renames the binary over the one in use.            *)
(*                                                                             *)
(* The files that two installs may share are modelled as what is on disk, an   *)
(* inode apart from the name it has: a rename moves the file under a writer.   *)
EXTENDS Naturals

CONSTANTS
  Cli,
  Inode,        \* files for the binary, enough for both names and every writer
  None,
  Torn,         \* a package.json without its end
  MinVersion,   \* the oldest version this CLI can use
  Newest,       \* bound: the last version to be released
  MaxBegun, MaxFaults

\* Versions are numbers, and one who opens a file finds an inode that nobody uses.
Sound ==
  /\ MinVersion \in Nat \ {0} /\ Newest \in Nat /\ MinVersion <= Newest
  /\ None \notin Nat \cup Inode /\ Torn \notin Nat \cup {None}
  /\ Inode # {}
  /\ \A c \in Cli, i, j \in Inode \cup {None} :
       \A fd \in [Cli \ {c} -> Inode \cup {None}] :
         \E k \in Inode \ {i, j} : \A o \in Cli \ {c} : fd[o] # k

VARIABLES
  latest,       \* the version at the CDN
  pkg,          \* what package.json says: a version, Torn or None
  file,         \* the inodes
  bin,          \* bin["platform"], bin["otto"]: the inodes with those names
  cache,        \* .update-check: whether it is recent, the version it knows
  cli,          \* the commands
  met,          \* two installs have been at work at one time, none alone since
  cut,          \* an install has ended part way, none whole since
  used          \* commands begun, faults met

ottoVars == <<latest, pkg, file, bin, cache, cli, met, cut, used>>

\* An inode: the versions whose bytes it has, and whether it has all of them.
Empty == [vers |-> {}, full |-> FALSE]

\* A command: what it does, which file it writes, whether another's truncation
\* cut off what it had written, which files of the archive are still to unpack.
Resting == [at |-> "idle", then |-> None, ver |-> None, todo |-> {}, fd |-> None,
            hit |-> FALSE, alone |-> TRUE]

Installing == {"get", "unpack", "binary", "package", "rename"}

OttoInit ==
  /\ latest = MinVersion
  /\ cli = [c \in Cli |-> Resting]
  /\ met = FALSE /\ cut = FALSE
  /\ cache = [recent |-> FALSE, known |-> None]
  /\ \E v \in {None} \cup (1..MinVersion) : LET i == CHOOSE j \in Inode : TRUE IN
       /\ pkg = v
       /\ bin = [n \in {"platform", "otto"} |-> IF n = "otto" /\ v # None THEN i ELSE None]
       /\ file = [j \in Inode |-> IF j = bin["otto"] THEN [vers |-> {v}, full |-> TRUE] ELSE Empty]
  /\ used = [begun |-> 0, faults |-> 0]

Fault == used.faults < MaxFaults /\ used' = [used EXCEPT !.faults = @ + 1]

At(c, l) == cli[c].at = l

Whole(i) == file[i].full /\ \E v \in 1..Newest : file[i].vers = {v}

Busy(c) == cli[c].at \in Installing

\* The command ends.
OttoExit(c) == cli' = [cli EXCEPT ![c] = Resting]

\* An install begins; what the command does after it is `then'.
Download(c, then) ==
  LET others == {o \in Cli \ {c} : Busy(o)} IN
  /\ cli' = [o \in Cli |->
       IF o = c THEN [Resting EXCEPT !.at = "get", !.then = then, !.alone = others = {}]
       ELSE IF o \in others THEN [cli[o] EXCEPT !.alone = FALSE] ELSE cli[o]]
  /\ met' = (met \/ others # {})

\* `astro otto update', and `astro otto' of someone who is not refused: one who is
\* logged in, and not told by the API to be no member of the Organization.
OttoBegin(c) ==
  /\ At(c, "idle") /\ used.begun < MaxBegun
  /\ used' = [used EXCEPT !.begun = @ + 1]
  /\ \/ Download(c, "idle")
     \/ cli' = [cli EXCEPT ![c].at = "ensure"] /\ UNCHANGED met
  /\ UNCHANGED <<latest, pkg, file, bin, cache, cut>>

\* EnsureBinary goes by package.json alone.
EnsureBinary(c) ==
  /\ At(c, "ensure")
  /\ \/ pkg = Torn /\ OttoExit(c) /\ UNCHANGED met
     \/ (pkg = None \/ pkg \in 1..(MinVersion - 1)) /\ Download(c, "cache")
     \/ pkg \in MinVersion..Newest /\ cli' = [cli EXCEPT ![c].at = "cache"] /\ UNCHANGED met
  /\ UNCHANGED <<latest, pkg, file, bin, cache, cut, used>>

\* A check that fails counts as one, and leaves what was known.
RefreshUpdateCache(c) ==
  /\ At(c, "cache")
  /\ \E known \in IF cache.recent THEN {cache.known} ELSE {cache.known, latest} :
       cache' = [recent |-> TRUE, known |-> known]
  /\ cli' = [cli EXCEPT ![c].at = "auto"]
  /\ UNCHANGED <<latest, pkg, file, bin, met, cut, used>>

\* The update, if otto.auto_update is on and one is known; else a hint at most.
AutoUpdate(c) ==
  LET newer == pkg \notin {None, Torn} /\ cache.known # None /\ cache.known > pkg IN
  /\ At(c, "auto")
  /\ \/ newer /\ Download(c, "exec")
     \/ cli' = [cli EXCEPT ![c].at = "exec"] /\ UNCHANGED met
  /\ UNCHANGED <<latest, pkg, file, bin, cache, cut, used>>

-----------------------------------------------------------------------------
(* An install: downloadAndInstall.                                             *)

\* The archive of the latest version, into a file of its own.
Get(c) ==
  /\ At(c, "get")
  /\ cli' = [cli EXCEPT ![c].at = "unpack", ![c].ver = latest, ![c].todo = {"binary", "package"}]
  /\ UNCHANGED <<latest, pkg, file, bin, cache, met, cut, used>>

Writers(i) == {c \in Cli : cli[c].fd = i}

\* Opens inode i empty: what others have written to it is lost, and where they
\* go on writing, the file has their bytes too.
OpenEmpty(c, i) ==
  LET others == Writers(i) \ {c} IN
  /\ file' = [file EXCEPT ![i] =
       [vers |-> {cli[c].ver} \cup {cli[o].ver : o \in others}, full |-> FALSE]]
  /\ cli' = [o \in Cli |->
       IF o = c THEN [cli[c] EXCEPT !.at = "binary", !.fd = i, !.hit = FALSE,
                                    !.todo = @ \ {"binary"}]
       ELSE IF o \in others THEN [cli[o] EXCEPT !.hit = TRUE] ELSE cli[o]]

Unused == {i \in Inode : Writers(i) = {} /\ \A n \in DOMAIN bin : bin[n] # i}

\* Mutant: the binary is unpacked where it is used.
OpenInPlace(c) ==
  /\ At(c, "unpack") /\ "binary" \in cli[c].todo
  /\ LET i == IF bin["otto"] # None THEN bin["otto"] ELSE CHOOSE j \in Unused : TRUE IN
     OpenEmpty(c, i) /\ bin' = [bin EXCEPT !["otto"] = i]
  /\ UNCHANGED <<latest, pkg, cache, met, cut, used>>

OpenBinary(c) ==
  /\ At(c, "unpack") /\ "binary" \in cli[c].todo
  /\ LET i == IF bin["platform"] # None THEN bin["platform"] ELSE CHOOSE j \in Unused : TRUE IN
     OpenEmpty(c, i) /\ bin' = [bin EXCEPT !["platform"] = i]
  /\ UNCHANGED <<latest, pkg, cache, met, cut, used>>

CloseBinary(c) ==
  /\ At(c, "binary")
  /\ file' = [file EXCEPT ![cli[c].fd].full = @ \/ ~cli[c].hit]
  /\ cli' = [cli EXCEPT ![c].at = "unpack", ![c].fd = None]
  /\ UNCHANGED <<latest, pkg, bin, cache, met, cut, used>>

OpenPackage(c) ==
  /\ At(c, "unpack") /\ "package" \in cli[c].todo
  /\ pkg' = Torn
  /\ cli' = [cli EXCEPT ![c].at = "package", ![c].todo = @ \ {"package"}]
  /\ UNCHANGED <<latest, file, bin, cache, met, cut, used>>

ClosePackage(c) ==
  /\ At(c, "package")
  /\ pkg' = cli[c].ver
  /\ cli' = [cli EXCEPT ![c].at = "unpack"]
  /\ UNCHANGED <<latest, file, bin, cache, met, cut, used>>

\* The install ends well, even where there was nothing to rename any more.
RenamePlatformBinary(c) ==
  LET moved == bin["platform"] # None IN
  /\ At(c, "unpack") /\ cli[c].todo = {}
  /\ bin' = IF moved THEN [bin EXCEPT !["otto"] = bin["platform"], !["platform"] = None] ELSE bin
  /\ cli' = [cli EXCEPT ![c] = [Resting EXCEPT !.at = cli[c].then]]
  /\ met' = (met /\ ~cli[c].alone)
  /\ cut' = (cut /\ ~cli[c].alone)
  /\ UNCHANGED <<latest, pkg, file, cache, used>>

\* Mutant: a launch goes on where the install it needs has failed.
GoOnAnyway(c) == IF cli[c].then = "idle" THEN "idle" ELSE "exec"

\* An update that fails lets the launch go on, the first install does not.
AfterFailure(c) == IF cli[c].then = "exec" THEN "exec" ELSE "idle"

\* No network, a full disk, a rename that comes too late.
InstallFails(c) ==
  /\ Busy(c) /\ Fault
  /\ cli' = [cli EXCEPT ![c] = [Resting EXCEPT !.at = AfterFailure(c)]]
  /\ cut' = (cut \/ ~At(c, "get"))
  /\ UNCHANGED <<latest, pkg, file, bin, cache, met>>

-----------------------------------------------------------------------------

\* The binary runs, if there is one.
Exec(c) ==
  /\ At(c, "exec")
  /\ OttoExit(c)
  /\ UNCHANGED <<latest, pkg, file, bin, cache, met, cut, used>>

OttoKilled(c) ==
  /\ ~At(c, "idle") /\ Fault
  /\ OttoExit(c)
  /\ cut' = (cut \/ (Busy(c) /\ ~At(c, "get")))
  /\ UNCHANGED <<latest, pkg, file, bin, cache, met>>

Release ==
  /\ latest < Newest /\ latest' = latest + 1
  /\ UNCHANGED <<pkg, file, bin, cache, cli, met, cut, used>>

\* An hour passes.
CacheAges ==
  /\ cache.recent /\ cache' = [cache EXCEPT !.recent = FALSE]
  /\ UNCHANGED <<latest, pkg, file, bin, cli, met, cut, used>>

OttoNext ==
  \/ \E c \in Cli :
       \/ OttoBegin(c) \/ EnsureBinary(c) \/ RefreshUpdateCache(c) \/ AutoUpdate(c)
       \/ Get(c) \/ OpenBinary(c) \/ CloseBinary(c) \/ OpenPackage(c) \/ ClosePackage(c)
       \/ RenamePlatformBinary(c) \/ InstallFails(c) \/ Exec(c) \/ OttoKilled(c)
  \/ Release \/ CacheAges

-----------------------------------------------------------------------------

\* The binary in use is one whole release, wherever an install was interrupted or
\* failed, unless two installs have overlapped.  And a launch runs it: it is
\* there, not below MinVersion and the one package.json tells of, unless an
\* install is at work at that moment or the last one ended part way.
OttoWhole ==
  ~met =>
    /\ bin["otto"] # None => Whole(bin["otto"])
    /\ ~cut /\ (\E c \in Cli : At(c, "exec")) /\ (\A c \in Cli : ~Busy(c)) =>
         /\ bin["otto"] # None /\ file[bin["otto"]].vers = {pkg}
         /\ pkg >= MinVersion
=============================================================================
