--------------------------- MODULE SigningSecret ---------------------------
(***************************************************************************)
(* How concurrent standalone starts of one project agree on the secret     *)
(* their Airflow signs with (persistSigningSecret in                       *)
(* airflow/standalone.go): written whole to a temporary file, linked into  *)
(* place, and read back.                                                   *)
(*                                                                         *)
(* rand.Text() never repeats, so the secret a start generates is named by  *)
(* the start itself.  `astro dev kill`, which removes the directory, is in *)
(* Standalone, not here.                                                   *)
(***************************************************************************)
CONSTANTS
  Starts,   \* concurrent `astro dev start --standalone`, and their secrets
  Absent,   \* no .signing-secret
  Empty     \* an empty .signing-secret, left by a CLI that did not write it whole

ASSUME FileAssumption == Absent \notin Starts /\ Empty \notin Starts /\ Absent # Empty

VARIABLES
  hardLinks,   \* whether the project's file system has hard links (never changes)
  legacy,      \* whether an earlier CLI left an empty file (never changes)
  file,        \* .signing-secret
  pc,          \* where each start is in persistSigningSecret
  mem,         \* s.signingSecret of each start: what its Airflow will sign with
  kept         \* the starts that got as far as reading back what is kept

vars == <<hardLinks, legacy, file, pc, mem, kept>>

Labels == {"read", "write", "link", "exists", "rename", "reread", "done"}

Init ==
  /\ hardLinks \in BOOLEAN
  /\ legacy \in BOOLEAN
  /\ file = IF legacy THEN Empty ELSE Absent
  /\ pc = [s \in Starts |-> "read"]
  /\ mem = [s \in Starts |-> Empty]
  /\ kept = {}

Goto(s, label) == pc' = [pc EXCEPT ![s] = label]

FaultReadUnchecked(s) ==   \* fault: only an empty file counts as no secret
  /\ pc[s] = "read"
  /\ mem' = [mem EXCEPT ![s] = IF file = Empty THEN s ELSE file]
  /\ Goto(s, IF file = Empty THEN "write" ELSE "done")
  /\ UNCHANGED <<hardLinks, legacy, file, kept>>

\* A secret somebody kept is used as it is; otherwise the start makes its own,
\* which it signs with even if it cannot keep it.
ReadSecret(s) ==
  /\ pc[s] = "read"
  /\ IF file \in Starts
       THEN /\ mem' = [mem EXCEPT ![s] = file]
            /\ kept' = kept \cup {s}
            /\ Goto(s, "done")
       ELSE /\ mem' = [mem EXCEPT ![s] = s]
            /\ Goto(s, "write")
            /\ UNCHANGED kept
  /\ UNCHANGED <<hardLinks, legacy, file>>

\* The directory or the temporary file cannot be created.
KeepFails(s) ==
  /\ pc[s] = "write"
  /\ Goto(s, "done")
  /\ UNCHANGED <<hardLinks, legacy, file, mem, kept>>

FaultWriteInPlace(s) ==   \* fault: .signing-secret itself is created, then written
  /\ pc[s] = "write"
  /\ file' = IF file = Absent THEN Empty ELSE file
  /\ Goto(s, "rename")
  /\ UNCHANGED <<hardLinks, legacy, mem, kept>>

\* The secret is written whole to a temporary file of this start's own.
WriteTemp(s) ==
  /\ pc[s] = "write"
  /\ Goto(s, "link")
  /\ UNCHANGED <<hardLinks, legacy, file, mem, kept>>

\* Writing or closing the temporary file fails: nothing is put in place.
WriteFails(s) ==
  /\ pc[s] = "write"
  /\ Goto(s, "reread")
  /\ UNCHANGED <<hardLinks, legacy, file, mem, kept>>

FaultRenameOver(s) ==   \* fault: rename instead of link, over whatever is there
  /\ pc[s] = "link"
  /\ file' = s
  /\ Goto(s, "reread")
  /\ UNCHANGED <<hardLinks, legacy, mem, kept>>

\* os.Link makes the temporary file the secret, all at once, or fails with ErrExist;
\* without hard links it fails otherwise (some kernels look for the file first).
LinkSecret(s) ==
  /\ pc[s] = "link"
  /\ \/ hardLinks /\ file = Absent /\ file' = s /\ Goto(s, "reread")
     \/ file # Absent /\ UNCHANGED file /\ Goto(s, "exists")
     \/ ~hardLinks /\ UNCHANGED file /\ Goto(s, "rename")
  /\ UNCHANGED <<hardLinks, legacy, mem, kept>>

\* os.ErrExist: an empty file is to be replaced, another start's secret is not.
CheckExisting(s) ==
  /\ pc[s] = "exists"
  /\ Goto(s, IF file \in Starts THEN "reread" ELSE "rename")
  /\ UNCHANGED <<hardLinks, legacy, file, mem, kept>>

\* os.Rename, which may fail too.
RenameSecret(s) ==
  /\ pc[s] = "rename"
  /\ file' \in {file, s}
  /\ Goto(s, "reread")
  /\ UNCHANGED <<hardLinks, legacy, mem, kept>>

FaultNoReread(s) ==   \* fault: the start keeps its own secret without looking
  /\ pc[s] = "reread"
  /\ kept' = IF file \in Starts THEN kept \cup {s} ELSE kept
  /\ Goto(s, "done")
  /\ UNCHANGED <<hardLinks, legacy, file, mem>>

\* "What is in the file now: ours, or another start's that got there first."
RereadSecret(s) ==
  /\ pc[s] = "reread"
  /\ IF file \in Starts
       THEN mem' = [mem EXCEPT ![s] = file] /\ kept' = kept \cup {s}
       ELSE UNCHANGED <<mem, kept>>
  /\ Goto(s, "done")
  /\ UNCHANGED <<hardLinks, legacy, file>>

\* The start is killed, wherever it is.
Killed(s) ==
  /\ pc[s] # "done"
  /\ Goto(s, "done")
  /\ UNCHANGED <<hardLinks, legacy, file, mem, kept>>

Step(s) ==
  \/ ReadSecret(s) \/ KeepFails(s) \/ WriteTemp(s) \/ WriteFails(s) \/ LinkSecret(s)
  \/ CheckExisting(s) \/ RenameSecret(s) \/ RereadSecret(s) \/ Killed(s)

Next == \E s \in Starts : Step(s)

Spec == Init /\ [][Next]_vars

----------------------------------------------------------------------------
(* Properties. *)

\* Every variable keeps its type: the file holds nothing, or a whole secret.
TypeOK ==
  /\ hardLinks \in BOOLEAN /\ legacy \in BOOLEAN
  /\ file \in Starts \cup {Absent, Empty}
  /\ pc \in [Starts -> Labels]
  /\ mem \in [Starts -> Starts \cup {Empty}]
  /\ kept \subseteq Starts

\* A kill or a failed write never leaves an empty .signing-secret, hard links or not.
NeverEmptied == ~legacy => file # Empty

\* "So two starts at once keep one secret": every start that read the kept secret back
\* signs with what the file holds, and so do the commands run after it.  This rests on
\* hard links, and on there being no empty file to replace: starts that race to replace
\* one rename over each other, after reading back.
StartsAgree == hardLinks /\ ~legacy => \A s \in kept : mem[s] = file

\* Under the same conditions a secret that is in place stays: no later start leaves
\* behind an Airflow that already signs with it.
SecretStays == [][hardLinks /\ ~legacy /\ file \in Starts => file' = file]_vars
=============================================================================
