----------------------------- MODULE CosmosBoost -----------------------------
(* The Cosmos Boost step of a deploy.  Before an image is built or a bundle is *)
(* packed, the artifacts of earlier deploys are removed from the project tree, *)
(* and every dbt project and every dbt manifest is stamped: a sidecar in the   *)
(* .astro directory beside it carries its hash, and a slim copy of each        *)
(* manifest lies next to the sidecar that names it.  The plugin that runs the  *)
(* deployed project trusts what it finds there, so a stale stamp is worse than *)
(* none.  `astro dbt cleanup' removes the artifacts and does nothing else.     *)
(*                                                                             *)
(* The tree is one that every command walks whole: directories no walk enters  *)
(* (logs, dbt_packages, .git) are left out of it.                              *)
EXTENDS Naturals

CONSTANTS
  Cli,          \* the commands that may run at one time
  Dir,          \* the directories of the tree that hold what is stamped
  Project,      \* those that may hold a dbt project
  Manifest,     \* the files with the name of a manifest
  Source,       \* the other files
  Home,         \* where each manifest lies
  ProjectFile,  \* the dbt_project.yml of each project
  Hashed,       \* the files that make up the hash of each project
  Body,         \* the contents of a file that matter
  NotDbt,       \* the one of a file that is not a dbt manifest
  None,
  Layouts,      \* the files a tree may hold
  Asked,        \* the commands, each with whether slim copies are wanted
  Edits,        \* what may be written to which file meanwhile
  Strangers,    \* the artifacts another tool may write
  Together,     \* the commands that may run beside another
  MaxCommands, MaxEdits, MaxFaults

File == Manifest \cup Source

Artifact == ({"sidecar"} \X Dir) \cup ({"slim"} \X Manifest)

\* What a file says is not nothing, and what others write are files and artifacts.
Sound ==
  /\ None \notin Body
  /\ Layouts \subseteq SUBSET File /\ Home \in [Manifest -> Dir]
  /\ \A a \in Asked : a[2] \in BOOLEAN
  /\ \A e \in Edits : e[2] \in [body : Body, at : Nat]
  /\ Strangers \subseteq Artifact

VARIABLES
  text,         \* the files: what they say, and when dbt last wrote them
  disk,         \* the artifacts: who wrote each, and of what
  cmd,          \* the commands
  spent         \* commands begun, edits made, faults met

boostVars == <<text, disk, cmd, spent>>

PlaceOf(a) == IF a[1] = "sidecar" THEN a[2] ELSE Home[a[2]]

NoArtifact == [by |-> "none", of |-> None]

Foreign == [by |-> "other", of |-> None]

\* A write that fails may leave the first bytes of the file.
Torn == [by |-> "torn", of |-> None]

Ours(what) == [by |-> "us", of |-> what]

Idle ==
  [at |-> "idle", kind |-> "deploy",
   slims |-> FALSE,                      \* whether slim copies are asked for
   dirs |-> {}, found |-> {},            \* still to list, listed and still to remove
   refused |-> FALSE,                    \* whether something was left behind
   tree |-> [p \in Project |-> None],    \* what was hashed of each project
   read |-> [f \in Manifest |-> None],
   slimmed |-> {}, missed |-> {},        \* the slim copies written, and not
   stamped |-> {},                       \* the directories done with
   failed |-> FALSE,                     \* whether a failure or a warning is reported
   alone |-> TRUE, raced |-> FALSE]

Active(c) == cmd[c].at # "idle"

IsDbtManifest(t) == t.body # NotDbt

\* Of a manifest, what dbt changes on every run does not count.
HashDocument(t) == t.body

Unreadable == [body |-> None, at |-> 0]

BuildSlimManifest(t) == t.body

\* Of a project, every byte counts.
HashProject(p) == [f \in Hashed[p] \cap DOMAIN text |-> text[f]]

\* What the search of the tree finds: a project by its dbt_project.yml, a manifest
\* by its name.
Projects == {p \in Project : ProjectFile[p] \in DOMAIN text}

Manifests == Manifest \cap DOMAIN text

Within(d) == {f \in Manifests : Home[f] = d}

BoostInit ==
  /\ \E l \in Layouts : text \in [l -> [body : Body, at : {0}]]
  /\ disk = [a \in Artifact |-> NoArtifact]
  /\ cmd = [c \in Cli |-> Idle]
  /\ spent = [begun |-> 0, edits |-> 0, faults |-> 0]

Fault == spent.faults < MaxFaults /\ spent' = [spent EXCEPT !.faults = @ + 1]

-----------------------------------------------------------------------------

\* What a command reads may be gone by the time it writes: it is raced when a
\* file changed since it began, or since one began that still runs beside it.
Begin(c) ==
  /\ ~Active(c) /\ spent.begun < MaxCommands
  /\ spent' = [spent EXCEPT !.begun = @ + 1]
  /\ \E a \in Asked :
       LET beside == {o \in Cli \ {c} : Active(o)} IN
       /\ beside = {} \/ a \in Together
       /\ \A b \in beside : <<cmd[b].kind, cmd[b].slims>> \in Together
       /\ cmd' = [o \in Cli |->
         IF o = c
         THEN [Idle EXCEPT !.at = "clean", !.kind = a[1], !.slims = a[2], !.dirs = Dir,
                           !.alone = beside = {},
                           !.raced = \E b \in beside : cmd[b].raced]
         ELSE IF o \in beside THEN [cmd[o] EXCEPT !.alone = FALSE] ELSE cmd[o]]
  /\ UNCHANGED <<text, disk>>

\* The walk comes to the next .astro directory.
ListArtifacts(c) ==
  LET d == CHOOSE x \in cmd[c].dirs : TRUE
      there == {a \in Artifact : PlaceOf(a) = d /\ disk[a].by # "none"} IN
  /\ cmd[c].at = "clean" /\ cmd[c].found = {} /\ cmd[c].dirs # {}
  /\ cmd' = [cmd EXCEPT ![c].dirs = @ \ {d}, ![c].found = there]
  /\ UNCHANGED <<text, disk, spent>>

\* Mutant: what is not ours to remove does not stop a deploy.
RemoveKeeping(c) == \E a \in cmd[c].found :
  LET ours == disk[a].by = "us" IN
  /\ cmd[c].at = "clean"
  /\ disk' = IF ours THEN [disk EXCEPT ![a] = NoArtifact] ELSE disk
  /\ cmd' = [cmd EXCEPT ![c].found = @ \ {a}]
  /\ UNCHANGED <<text, spent>>

\* A file goes only if its own marker says that this tool wrote it.  One that is
\* gone since it was listed counts as one that could not be removed.
RemoveArtifact(c) == \E a \in cmd[c].found :
  LET ours == disk[a].by = "us" IN
  /\ cmd[c].at = "clean"
  /\ disk' = IF ours THEN [disk EXCEPT ![a] = NoArtifact] ELSE disk
  /\ cmd' = [cmd EXCEPT ![c].found = @ \ {a}, ![c].refused = @ \/ ~ours]
  /\ UNCHANGED <<text, spent>>

RemoveFails(c) == \E a \in cmd[c].found :
  /\ cmd[c].at = "clean" /\ Fault
  /\ cmd' = [cmd EXCEPT ![c].found = @ \ {a}, ![c].refused = TRUE]
  /\ UNCHANGED <<text, disk>>

\* A deploy goes on only when nothing was left behind.
EnsureClean(c) ==
  LET go == cmd[c].kind = "deploy" /\ ~cmd[c].refused IN
  /\ cmd[c].at = "clean" /\ cmd[c].dirs = {} /\ cmd[c].found = {}
  /\ cmd' = IF go THEN [cmd EXCEPT ![c].at = "stamp"] ELSE [cmd EXCEPT ![c] = Idle]
  /\ UNCHANGED <<text, disk, spent>>

-----------------------------------------------------------------------------
(* The units run beside each other: a project from its hash to its sidecar,    *)
(* and of a lone manifest the reading.  Only when all have ended are the lone  *)
(* manifests of each directory written, by one writer.                         *)

Lone == {f \in Manifests : Home[f] \notin Projects}

Read(c, f) == cmd[c].read[f] # None

Dbt(c, f) == cmd[c].read[f] \notin {None, Unreadable} /\ IsDbtManifest(cmd[c].read[f])

Computed(c) ==
  Projects \subseteq cmd[c].stamped /\ \A f \in Lone : Read(c, f)

\* Whether the work of directory d has come to its manifests.
Reached(c, d) ==
  IF d \in Projects THEN cmd[c].tree[d] # None /\ d \notin cmd[c].stamped ELSE Computed(c)

\* The manifests of d that are still to be read or slimmed.
Pending(c, d) ==
  {f \in Within(d) : \/ ~Read(c, f) /\ (d \in Projects => cmd[c].slims)
                     \/ /\ Dbt(c, f) /\ cmd[c].slims
                        /\ f \notin cmd[c].slimmed \cup cmd[c].missed}

\* Mutant: a slim copy that could not be written is named all the same.
NamedAnyway(c, d) == {f \in Within(d) : Dbt(c, f)}

\* Those its sidecar will name.
Named(c, d) ==
  {f \in Within(d) : Dbt(c, f) /\ (cmd[c].slims => f \in cmd[c].slimmed)}

HashTree(c) == \E p \in Projects :
  /\ cmd[c].at = "stamp" /\ cmd[c].tree[p] = None /\ p \notin cmd[c].stamped
  /\ \/ cmd' = [cmd EXCEPT ![c].tree[p] = HashProject(p)] /\ UNCHANGED spent
     \/ Fault /\ cmd' = [cmd EXCEPT ![c].stamped = @ \cup {p}, ![c].failed = TRUE]
  /\ UNCHANGED <<text, disk>>

ReadManifest(c) == \E f \in Manifests :
  /\ cmd[c].at = "stamp" /\ ~Read(c, f)
  /\ Home[f] \in Projects => Reached(c, Home[f]) /\ cmd[c].slims
  /\ \/ cmd' = [cmd EXCEPT ![c].read[f] = text[f]] /\ UNCHANGED spent
     \/ Fault /\ cmd' = [cmd EXCEPT ![c].read[f] = Unreadable, ![c].failed = TRUE]
  /\ UNCHANGED <<text, disk>>

WriteSlimManifest(c) == \E f \in Manifests :
  /\ cmd[c].at = "stamp" /\ Reached(c, Home[f])
  /\ Dbt(c, f) /\ f \in Pending(c, Home[f])
  /\ \/ /\ disk' = [disk EXCEPT ![<<"slim", f>>] = Ours(BuildSlimManifest(cmd[c].read[f]))]
        /\ cmd' = [cmd EXCEPT ![c].slimmed = @ \cup {f}]
        /\ UNCHANGED spent
     \/ /\ Fault
        /\ disk' \in {disk, [disk EXCEPT ![<<"slim", f>>] = Torn]}
        /\ cmd' = [cmd EXCEPT ![c].missed = @ \cup {f}, ![c].failed = TRUE]
  /\ UNCHANGED text

\* Mutant: each manifest of a directory has it written anew.
SidecarEach(c, d) ==
  LET read == cmd[c].read
      last == {CHOOSE f \in Named(c, d) : TRUE}
      entry(f) == [version |-> HashDocument(read[f]), slim |-> BuildSlimManifest(read[f])] IN
  IF d \in Projects THEN [hash |-> cmd[c].tree[d], manifests |-> [f \in {} |-> None]]
  ELSE [hash |-> HashDocument(read[CHOOSE f \in last : TRUE]),
        manifests |-> [f \in last |-> entry(f)]]

\* What the sidecar of d says: a project's hash or that of one of the manifests,
\* and for each manifest its hash and that of its slim copy.
Sidecar(c, d) ==
  LET read == cmd[c].read
      entry(f) == [version |-> HashDocument(read[f]),
                   slim |-> IF cmd[c].slims THEN BuildSlimManifest(read[f]) ELSE None]
      primary == CHOOSE f \in Named(c, d) : TRUE IN
  [hash |-> IF d \in Projects THEN cmd[c].tree[d] ELSE HashDocument(read[primary]),
   manifests |-> [f \in Named(c, d) |-> entry(f)]]

WriteSidecar(c) == \E d \in Dir \ cmd[c].stamped :
  /\ cmd[c].at = "stamp" /\ Reached(c, d) /\ Pending(c, d) = {}
  /\ d \in Projects \/ Named(c, d) # {}
  /\ \/ /\ disk' = [disk EXCEPT ![<<"sidecar", d>>] = Ours(Sidecar(c, d))]
        /\ cmd' = [cmd EXCEPT ![c].stamped = @ \cup {d}]
        /\ UNCHANGED spent
     \/ /\ Fault
        /\ disk' \in {disk, [disk EXCEPT ![<<"sidecar", d>>] = Torn]}
        /\ cmd' = [cmd EXCEPT ![c].stamped = @ \cup {d}, ![c].failed = TRUE]
  /\ UNCHANGED text

\* A directory whose files turn out not to be dbt manifests, or failed, has none.
NothingToStamp(c) == \E d \in Dir \ (Projects \cup cmd[c].stamped) :
  /\ cmd[c].at = "stamp" /\ Computed(c) /\ Pending(c, d) = {} /\ Named(c, d) = {}
  /\ cmd' = [cmd EXCEPT ![c].stamped = @ \cup {d}]
  /\ UNCHANGED <<text, disk, spent>>

\* The step never stops a deploy: it ends when every unit has, or when the tree
\* cannot be searched for them.
StampingEnds(c) ==
  /\ cmd[c].at = "stamp"
  /\ \/ cmd[c].stamped = Dir /\ cmd' = [cmd EXCEPT ![c].at = "pack"] /\ UNCHANGED spent
     \/ /\ cmd[c].stamped = {} /\ \A f \in Manifests : ~Read(c, f)
        /\ \A p \in Projects : cmd[c].tree[p] = None
        /\ Fault /\ cmd' = [cmd EXCEPT ![c].at = "pack", ![c].failed = TRUE]
  /\ UNCHANGED <<text, disk>>

\* The tree is packed as it is: the build context or the bundle.
Pack(c) ==
  /\ cmd[c].at = "pack"
  /\ cmd' = [cmd EXCEPT ![c] = Idle]
  /\ UNCHANGED <<text, disk, spent>>

-----------------------------------------------------------------------------
(* What happens outside of the commands.                                       *)

Race == cmd' = [c \in Cli |-> IF Active(c) THEN [cmd[c] EXCEPT !.raced = TRUE] ELSE cmd[c]]

\* Somebody edits a file, or lets dbt write the same manifest again.
Edit == \E e \in Edits :
  /\ e[1] \in DOMAIN text
  /\ spent.edits < MaxEdits /\ spent' = [spent EXCEPT !.edits = @ + 1]
  /\ text' = [text EXCEPT ![e[1]] = e[2]]
  /\ Race /\ UNCHANGED disk

\* An artifact of another tool appears.
Appears == \E a \in Strangers :
  /\ spent.edits < MaxEdits /\ spent' = [spent EXCEPT !.edits = @ + 1]
  /\ disk' = [disk EXCEPT ![a] = Foreign]
  /\ Race /\ UNCHANGED text

BoostKilled(c) ==
  /\ Active(c) /\ Fault
  /\ cmd' = [cmd EXCEPT ![c] = Idle]
  /\ UNCHANGED <<text, disk>>

BoostNext ==
  \/ \E c \in Cli :
       \/ Begin(c) \/ ListArtifacts(c) \/ RemoveArtifact(c) \/ RemoveFails(c)
       \/ EnsureClean(c) \/ HashTree(c) \/ ReadManifest(c) \/ WriteSlimManifest(c)
       \/ WriteSidecar(c) \/ NothingToStamp(c) \/ StampingEnds(c) \/ Pack(c)
       \/ BoostKilled(c)
  \/ Edit \/ Appears

-----------------------------------------------------------------------------

Packing(c) == cmd[c].at = "pack" /\ ~cmd[c].raced

\* A deploy with the step on ships no stale stamp: every sidecar and slim copy of
\* this tool that it packs describes the files packed beside it, whatever earlier
\* deploys left, whichever of its own writes failed and whatever deploys and
\* cleanups run at the same time, unless a file was edited meanwhile.  When it
\* runs alone it ships nothing of another producer, and every slim copy that a
\* sidecar names.  When it reports no failure either, it has stamped all: each
\* project, and in one sidecar all the dbt manifests that share a directory, none
\* lost to the write of its neighbour's.
ShipsFresh == \A c \in Cli : Packing(c) => \A d \in Dir :
  LET s == disk[<<"sidecar", d>>]
      dbt == {f \in Within(d) : IsDbtManifest(text[f])}
      due == IF d \in Projects /\ ~cmd[c].slims THEN {} ELSE dbt IN
  /\ s.by = "us" =>
       /\ d \in Projects => s.of.hash = [f \in Hashed[d] \cap DOMAIN text |-> text[f]]
       /\ d \notin Projects =>
            \E f \in DOMAIN s.of.manifests : s.of.hash = HashDocument(text[f])
       /\ \A f \in DOMAIN s.of.manifests : s.of.manifests[f].version = HashDocument(text[f])
  /\ \A f \in Within(d) : LET slim == disk[<<"slim", f>>] IN
       slim.by = "us" => slim.of = BuildSlimManifest(text[f])
  /\ cmd[c].alone =>
       /\ \A a \in Artifact : PlaceOf(a) = d => disk[a].by # "other"
       /\ s.by = "us" => \A f \in DOMAIN s.of.manifests :
            LET named == s.of.manifests[f].slim IN
            named # None => disk[<<"slim", f>>] = Ours(named)
       /\ ~cmd[c].failed =>
            IF d \in Projects \/ due # {}
            THEN s.by = "us" /\ DOMAIN s.of.manifests = due
            ELSE s.by = "none"
=============================================================================
