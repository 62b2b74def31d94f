-------------------------- MODULE StandaloneProofs --------------------------
(***************************************************************************)
(* The safety properties of SigningSecret for any number of starts, and    *)
(* those of Standalone for any number of terminals and PIDs, where the     *)
(* commands of different terminals do not overlap.                         *)
(*                                                                         *)
(* SigningSecret.  Where the link decides (hard links, no empty file to    *)
(* replace) no start ever reaches the rename: the file is absent until one *)
(* link succeeds, and a link that finds it finds a whole secret.           *)
(*                                                                         *)
(* Standalone.  One command at a time is under way, and what it knows of   *)
(* the world at each label (`Known`) is what earns its next write: a       *)
(* background start past the running check has no rival, a stop past its   *)
(* wait has nothing left to stop, a kill removes a secret nobody signs     *)
(* with.                                                                   *)
(***************************************************************************)
EXTENDS MCStandalone, TLAPS

----------------------------------------------------------------------------
(* SigningSecret. *)

Linked == hardLinks /\ ~legacy

\* Where the link decides, a start past a failed link has seen a whole secret.
NoRename ==
  Linked => \A s \in Starts :
              /\ pc[s] # "rename"
              /\ pc[s] = "exists" => file \in Starts

\* ... and whoever read a kept secret back read the one still there.
KeptSigns == Linked => \A s \in kept : file \in Starts /\ mem[s] = file

IInv == TypeOK /\ NeverEmptied /\ NoRename /\ KeptSigns

LEMMA InitEstablishes == Init => IInv
  BY FileAssumption
  DEF Init, IInv, TypeOK, NeverEmptied, NoRename, KeptSigns, Linked, Labels

\* Every step of every start preserves it.
LEMMA NextPreserves == IInv /\ [Next]_vars => IInv'
  <1> SUFFICES ASSUME IInv, [Next]_vars PROVE IInv'
    OBVIOUS
  <1> USE FileAssumption DEF IInv, Linked
  <1>1. ASSUME NEW s \in Starts, ReadSecret(s) PROVE IInv'
    <2>1. TypeOK' /\ NeverEmptied'
      BY <1>1 DEF ReadSecret, Goto, TypeOK, NeverEmptied, Labels
    <2>2. NoRename' /\ KeptSigns'
      BY <1>1 DEF ReadSecret, Goto, TypeOK, NoRename, KeptSigns
    <2> QED BY <2>1, <2>2
  <1>2. ASSUME NEW s \in Starts, KeepFails(s) \/ WriteTemp(s) \/ WriteFails(s) \/ Killed(s)
        PROVE  IInv'
    <2>1. TypeOK' /\ NeverEmptied'
      BY <1>2 DEF KeepFails, WriteTemp, WriteFails, Killed, Goto, TypeOK, NeverEmptied, Labels
    <2>2. NoRename' /\ KeptSigns'
      BY <1>2 DEF KeepFails, WriteTemp, WriteFails, Killed, Goto, TypeOK, NoRename, KeptSigns
    <2> QED BY <2>1, <2>2
  <1>3. ASSUME NEW s \in Starts, LinkSecret(s) PROVE IInv'
    <2>1. TypeOK' /\ NeverEmptied'
      BY <1>3 DEF LinkSecret, Goto, TypeOK, NeverEmptied, Labels
    <2>2. Linked /\ file # Absent => file \in Starts
      BY DEF TypeOK, NeverEmptied
    <2>3. NoRename' /\ KeptSigns'
      BY <1>3, <2>2 DEF LinkSecret, Goto, TypeOK, NoRename, KeptSigns
    <2> QED BY <2>1, <2>3
  <1>4. ASSUME NEW s \in Starts, CheckExisting(s) PROVE IInv'
    <2>1. TypeOK' /\ NeverEmptied'
      BY <1>4 DEF CheckExisting, Goto, TypeOK, NeverEmptied, Labels
    <2>2. NoRename' /\ KeptSigns'
      BY <1>4 DEF CheckExisting, Goto, TypeOK, NoRename, KeptSigns
    <2> QED BY <2>1, <2>2
  <1>5. ASSUME NEW s \in Starts, RenameSecret(s) PROVE IInv'
    <2>1. TypeOK' /\ NeverEmptied'
      BY <1>5 DEF RenameSecret, Goto, TypeOK, NeverEmptied, Labels
    <2>2. ~Linked'
      BY <1>5 DEF RenameSecret, NoRename
    <2> QED BY <2>1, <2>2 DEF NoRename, KeptSigns
  <1>6. ASSUME NEW s \in Starts, RereadSecret(s) PROVE IInv'
    <2>1. TypeOK' /\ NeverEmptied'
      BY <1>6 DEF RereadSecret, Goto, TypeOK, NeverEmptied, Labels
    <2>2. NoRename' /\ KeptSigns'
      BY <1>6 DEF RereadSecret, Goto, TypeOK, NoRename, KeptSigns
    <2> QED BY <2>1, <2>2
  <1>7. CASE UNCHANGED vars
    BY <1>7 DEF vars, TypeOK, NeverEmptied, NoRename, KeptSigns
  <1> QED BY <1>1, <1>2, <1>3, <1>4, <1>5, <1>6, <1>7 DEF Next, Step

LEMMA Invariance == Spec => []IInv
  BY InitEstablishes, NextPreserves, PTL DEF Spec

\* No kill and no failed write leaves an empty secret file behind.
THEOREM NeverEmpty == Spec => []NeverEmptied
  <1>1. IInv => NeverEmptied
    BY DEF IInv
  <1> QED BY <1>1, Invariance, PTL

\* Any number of starts at once agree on one secret, where the link decides.
THEOREM Agreement == Spec => []StartsAgree
  <1>1. IInv => StartsAgree
    BY DEF IInv, KeptSigns, Linked, StartsAgree
  <1> QED BY <1>1, Invariance, PTL

\* ... and that secret never changes again.
THEOREM Stability == Spec => SecretStays
  <1> DEFINE Stays == hardLinks /\ ~legacy /\ file \in Starts => file' = file
  <1>1. IInv /\ [Next]_vars => [Stays]_vars
    <2> SUFFICES ASSUME IInv, [Next]_vars, Linked, file \in Starts PROVE file' = file
      BY DEF Linked
    <2> QED
      BY FileAssumption
      DEF IInv, NoRename, Next, Step, ReadSecret, KeepFails, WriteTemp, WriteFails, LinkSecret,
          CheckExisting, RenameSecret, RereadSecret, Killed, vars
  <1> QED BY <1>1, Invariance, PTL DEF Spec, SecretStays

----------------------------------------------------------------------------
(* Standalone. *)

Up(p) == Airflow!UpInBackground(p)
NoneUp == \A p \in Pids : ~Up(p)

\* A command that has begun and has not ended; an attached one only waits.
Busy(c) == cli[c].pc \notin {"idle", "attached"}

\* No two commands are under way at once.
Alone == \A c, o \in Clis : Busy(c) /\ Busy(o) => c = o

\* What a command that is under way may rely on.
Known(c) ==
  LET k == cli[c] IN
  /\ k.pc \in Airflow!StartSteps => k.cmd \in {"background", "foreground"}
  /\ k.pc \in {"pid", "health", "register", "attached", "wait", "killwait"} => k.pid \in Pids
  /\ k.pc \in {"secret", "install", "spawn"} /\ k.cmd = "background" => NoneUp
  /\ k.pc \in {"install", "spawn"} => k.secret = secret /\ secret # NoSecret
  /\ k.pc = "pid" => \A p \in Pids : Up(p) => p = k.pid
  /\ k.pc \in {"wait", "killwait"} => k.pid = pidFile
  /\ k.pc \in {"remove", "route", "clean"} => NoneUp

Signed == \A p \in Pids : Up(p) => group[p].secret = secret /\ secret # NoSecret
Tracked == (\A c \in Clis : cli[c].pc # "pid") => \A p \in Pids : Up(p) => p = pidFile

AirflowInv == Airflow!TypeOK /\ Alone /\ (\A c \in Clis : Known(c)) /\ Signed /\ Tracked

\* All that is kept, for any numbers of terminals and PIDs.
LEMMA AirflowInitEstablishes == Airflow!Init => AirflowInv
  <1> SUFFICES ASSUME Airflow!Init PROVE AirflowInv
    OBVIOUS
  <1> USE DEF Airflow!Init, Airflow!NoGroup, Airflow!IdleCli
  <1>1. Airflow!TypeOK
    BY DEF Airflow!TypeOK, Airflow!Group, Airflow!Modes, Airflow!Cli
  <1>2. \A c \in Clis : cli[c].pc = "idle"
    OBVIOUS
  <1>3. NoneUp
    BY DEF NoneUp, Up, Airflow!UpInBackground
  <1>4. Alone
    BY <1>2 DEF Alone, Busy
  <1>5. ASSUME NEW c \in Clis PROVE Known(c)
    BY <1>2 DEF Known, Airflow!StartSteps
  <1>6. Signed /\ Tracked
    BY <1>3 DEF NoneUp, Signed, Tracked
  <1> QED BY <1>1, <1>4, <1>5, <1>6 DEF AirflowInv

\* Every command but `c` is as it was.
Others(c) == \A o \in Clis : o # c => cli'[o] = cli[o]

\* Whoever else is under way while a busy command moves is an attached start.
LEMMA OthersKnown ==
  ASSUME NEW c \in Clis, AirflowInv, Busy(c) \/ \A o \in Clis : ~Busy(o), Others(c)
  PROVE  /\ \A o \in Clis : o # c => ~Busy(o) /\ cli'[o] = cli[o] /\ Known(o)'
         /\ Alone'
         /\ \A o \in Clis : o # c => cli'[o].pc # "pid"
  <1>1. \A o \in Clis : o # c => ~Busy(o) /\ cli'[o] = cli[o]
    BY DEF AirflowInv, Alone, Others
  <1>2. \A o \in Clis : o # c => Known(o)'
    BY <1>1 DEF AirflowInv, Known, Busy, Airflow!StartSteps
  <1>3. Alone'
    BY <1>1 DEF Alone, Busy
  <1> QED BY <1>1, <1>2, <1>3 DEF Busy

\* The groups that are up in the background are among those that were.
UpShrinks == \A p \in Pids : Up(p)' => Up(p) /\ group'[p].secret = group[p].secret

\* Who is up in the background is read off the groups.
LEMMA SameUp == ASSUME UNCHANGED group PROVE NoneUp' = NoneUp /\ \A p \in Pids : Up(p)' = Up(p)
  BY DEF NoneUp, Up, Airflow!UpInBackground, Airflow!ProcessGroupAlive

\* What is left to show of a command's own step.
LEMMA OwnStep ==
  ASSUME NEW c \in Clis, AirflowInv, Busy(c) \/ \A o \in Clis : ~Busy(o), Others(c),
         Airflow!TypeOK', Known(c)', Signed',
         cli'[c].pc # "pid" => \A p \in Pids : Up(p)' => p = pidFile'
  PROVE  AirflowInv'
  BY OthersKnown DEF AirflowInv, Tracked

\* A command's record with two fields set keeps its type.
LEMMA CliTyped ==
  ASSUME NEW c \in Clis, cli \in [Clis -> Airflow!Cli], NEW l \in {"idle"} \cup Airflow!StartSteps
  PROVE  /\ \A p \in Pids : [cli EXCEPT ![c].pid = p, ![c].pc = l] \in [Clis -> Airflow!Cli]
         /\ \A x \in Secrets : [cli EXCEPT ![c].pc = l, ![c].secret = x] \in [Clis -> Airflow!Cli]
  BY DEF Airflow!Cli

LEMMA StartBeginKeeps ==
  ASSUME ~Overlaps, AirflowInv, NEW c \in Clis, NEW mode \in {"background", "foreground"},
         Airflow!StartBegin(c, mode)
  PROVE  AirflowInv'
  <1> USE DEF Airflow!StartBegin, Airflow!CanBegin, Airflow!Quiet
  <1>1. cli \in [Clis -> Airflow!Cli]
    BY DEF AirflowInv, Airflow!TypeOK
  <1>2. /\ Others(c)
        /\ \A o \in Clis : ~Busy(o)
    BY <1>1 DEF Others, Busy
  <1>3. Airflow!TypeOK'
    BY DEF AirflowInv, Airflow!TypeOK, Airflow!Cli, Airflow!StartSteps
  <1>4. NoneUp' = NoneUp /\ \A p \in Pids : Up(p)' = Up(p)
    BY SameUp
  <1>5. \A p \in Pids : Up(p) => p = pidFile
    BY <1>2 DEF AirflowInv, Tracked, Busy
  <1>6. mode = "background" /\ ~Airflow!ProcessGroupAlive(pidFile) => NoneUp
    BY <1>5 DEF NoneUp, Up, Airflow!UpInBackground
  <1>7. CASE UNCHANGED cli
    BY <1>2, <1>3, <1>4, <1>5, <1>7, OwnStep DEF AirflowInv, Known, Signed
  <1>8. CASE cli' = [cli EXCEPT ![c].pc = "secret", ![c].cmd = mode]
    <2>1. cli'[c].pc = "secret" /\ cli'[c].cmd = mode
      BY <1>1, <1>8 DEF Airflow!Cli
    <2>2. cli'[c].cmd = "background" => NoneUp'
      BY <1>1, <1>4, <1>6, <2>1 DEF Airflow!Cli
    <2>3. Known(c)'
      BY <2>1, <2>2 DEF Known
    <2> QED BY <1>2, <1>3, <1>4, <1>5, <2>3, OwnStep DEF AirflowInv, Signed
  <1> QED BY <1>7, <1>8

LEMMA SecretKeeps ==
  ASSUME AirflowInv, NEW c \in Clis, Airflow!PersistSecret(c)
  PROVE  AirflowInv'
  <1> USE DEF Airflow!PersistSecret
  <1>1. cli \in [Clis -> Airflow!Cli] /\ Busy(c) /\ Others(c)
    BY DEF AirflowInv, Airflow!TypeOK, Others, Busy
  <1>2. secret' \in Secrets /\ secret' # NoSecret
    BY DEF AirflowInv, Airflow!TypeOK, Airflow!InUse
  <1>3. secret # NoSecret => secret' = secret
    OBVIOUS
  <1>4. cli'[c].pc = "install" /\ cli'[c].cmd = cli[c].cmd /\ cli'[c].secret = secret'
    BY <1>1 DEF Airflow!Cli
  <1>5. Airflow!TypeOK'
    <2>1. cli' = [cli EXCEPT ![c].pc = "install", ![c].secret = secret']
      BY <1>1
    <2>2. cli' \in [Clis -> Airflow!Cli]
      BY <1>1, <1>2, <2>1, CliTyped DEF Airflow!StartSteps
    <2> QED BY <1>2, <2>2 DEF AirflowInv, Airflow!TypeOK
  <1>6. NoneUp' = NoneUp /\ \A p \in Pids : Up(p)' = Up(p)
    BY SameUp
  <1>7. Known(c)'
    BY <1>2, <1>4, <1>6 DEF AirflowInv, Known, Airflow!StartSteps
  <1>8. Signed'
    BY <1>3, <1>6 DEF AirflowInv, Signed
  <1>9. \A p \in Pids : Up(p)' => p = pidFile'
    BY <1>1, <1>6 DEF AirflowInv, Tracked, Busy, Alone
  <1> QED BY <1>1, <1>5, <1>7, <1>8, <1>9, OwnStep

LEMMA SpawnKeeps ==
  ASSUME AirflowInv, NEW c \in Clis, Airflow!Spawn(c)
  PROVE  AirflowInv'
  <1>1. cli \in [Clis -> Airflow!Cli] /\ group \in [Pids -> Airflow!Group] /\ Busy(c) /\ Others(c)
    BY DEF AirflowInv, Airflow!TypeOK, Others, Busy, Airflow!Spawn
  <1>2. PICK p \in Pids :
          /\ ~Airflow!ProcessGroupAlive(p)
          /\ group' = [group EXCEPT ![p] =
               [master |-> TRUE, kids |-> TRUE, mode |-> cli[c].cmd, secret |-> cli[c].secret]]
          /\ cli' = [cli EXCEPT ![c].pid = p,
                       ![c].pc = IF cli[c].cmd = "background" THEN "pid" ELSE "health"]
    BY DEF Airflow!Spawn
  <1>3. UNCHANGED <<home, pidFile, secret, route>> /\ cli[c].pc = "spawn"
    BY DEF Airflow!Spawn
  <1>4. /\ cli[c].cmd \in {"background", "foreground"}
        /\ cli[c].cmd = "background" => NoneUp
        /\ cli[c].secret = secret /\ secret # NoSecret
    BY <1>3 DEF AirflowInv, Known, Airflow!StartSteps
  <1>5. /\ cli'[c].pc = IF cli[c].cmd = "background" THEN "pid" ELSE "health"
        /\ cli'[c].pid = p /\ cli'[c].cmd = cli[c].cmd
    BY <1>1, <1>2 DEF Airflow!Cli
  <1>6. Airflow!TypeOK'
    <2>1. group' \in [Pids -> Airflow!Group]
      BY <1>1, <1>2, <1>4 DEF Airflow!Group, Airflow!Modes, Airflow!Cli
    <2>2. cli' \in [Clis -> Airflow!Cli]
      BY <1>1, <1>2, <1>5, CliTyped DEF Airflow!StartSteps
    <2> QED BY <1>3, <2>1, <2>2 DEF AirflowInv, Airflow!TypeOK
  <1>7. \A q \in Pids : Up(q)' => (q # p /\ Up(q)) \/ (q = p /\ cli[c].cmd = "background")
    BY <1>1, <1>2 DEF Up, Airflow!UpInBackground, Airflow!ProcessGroupAlive
  <1>8. Known(c)'
    BY <1>3, <1>4, <1>5, <1>7 DEF Known, NoneUp, Airflow!StartSteps
  <1>9. Signed'
    BY <1>1, <1>2, <1>3, <1>4, <1>7 DEF AirflowInv, Signed
  <1>10. cli'[c].pc # "pid" => \A q \in Pids : Up(q)' => q = pidFile'
    BY <1>1, <1>3, <1>4, <1>5, <1>7 DEF AirflowInv, Tracked, Busy, Alone
  <1> QED BY <1>1, <1>6, <1>8, <1>9, <1>10, OwnStep

LEMMA WritePidKeeps ==
  ASSUME AirflowInv, NEW c \in Clis, Airflow!WritePid(c)
  PROVE  AirflowInv'
  <1> USE DEF Airflow!WritePid, Airflow!Goto
  <1>1. cli \in [Clis -> Airflow!Cli] /\ Busy(c) /\ Others(c)
    BY DEF AirflowInv, Airflow!TypeOK, Others, Busy
  <1>2. cli'[c] = [cli[c] EXCEPT !.pc = "health"] /\ pidFile' = cli[c].pid
    BY <1>1
  <1>3. cli[c].cmd \in {"background", "foreground"} /\ cli[c].pid \in Pids
    BY DEF AirflowInv, Known, Airflow!StartSteps
  <1>4. NoneUp' = NoneUp /\ \A p \in Pids : Up(p)' = Up(p)
    BY SameUp
  <1>5. Airflow!TypeOK'
    BY <1>3 DEF AirflowInv, Airflow!TypeOK, Airflow!Cli, Airflow!StartSteps
  <1>6. Known(c)'
    BY <1>1, <1>2, <1>3 DEF Known, Airflow!Cli
  <1>7. Signed' /\ \A p \in Pids : Up(p)' => p = pidFile'
    BY <1>2, <1>4 DEF AirflowInv, Signed, Known
  <1> QED BY <1>1, <1>5, <1>6, <1>7, OwnStep

\* A command that is not about to write a PID may end anywhere.
LEMMA FinishRoute ==
  ASSUME AirflowInv, NEW c \in Clis, cli[c].pc # "pid", Airflow!Finish(c),
         UNCHANGED <<home, pidFile, secret, group>>, route' \in Pids \cup {NoPid}
  PROVE  AirflowInv'
  <1> USE DEF Airflow!Finish
  <1>1. cli \in [Clis -> Airflow!Cli]
    BY DEF AirflowInv, Airflow!TypeOK
  <1>2. cli'[c] = Airflow!IdleCli /\ \A o \in Clis : o # c => cli'[o] = cli[o]
    BY <1>1
  <1>3. NoneUp' = NoneUp /\ \A p \in Pids : Up(p)' = Up(p)
    BY SameUp
  <1>4. Airflow!TypeOK'
    <2>1. Airflow!IdleCli \in Airflow!Cli
      BY DEF Airflow!IdleCli, Airflow!Cli
    <2>2. cli' \in [Clis -> Airflow!Cli]
      BY <1>1, <2>1
    <2> QED BY <2>2 DEF AirflowInv, Airflow!TypeOK
  <1>5. Alone'
    BY <1>2 DEF AirflowInv, Alone, Busy, Airflow!IdleCli
  <1>6. ASSUME NEW o \in Clis PROVE Known(o)'
    <2>1. CASE o = c
      BY <1>2, <2>1 DEF Known, Airflow!IdleCli, Airflow!StartSteps
    <2>2. CASE o # c
      BY <1>2, <1>3, <2>2 DEF AirflowInv, Known
    <2> QED BY <2>1, <2>2
  <1>7. Signed' /\ Tracked'
    BY <1>2, <1>3 DEF AirflowInv, Signed, Tracked
  <1> QED BY <1>4, <1>5, <1>6, <1>7 DEF AirflowInv

\* The case where the route stays too.
LEMMA FinishKeeps ==
  ASSUME AirflowInv, NEW c \in Clis, cli[c].pc # "pid", Airflow!Finish(c), UNCHANGED Airflow!world
  PROVE  AirflowInv'
  BY FinishRoute DEF Airflow!world, AirflowInv, Airflow!TypeOK

\* ... and a busy one may also go on to a label whose promises it finds kept.
LEMMA GotoKeeps ==
  ASSUME AirflowInv, NEW c \in Clis, Busy(c), cli[c].pc # "pid",
         NEW l \in {"spawn", "register", "attached", "remove", "route", "clean"},
         Airflow!Goto(c, l), UNCHANGED <<home, secret, group>>,
         pidFile' \in Pids \cup {NoPid}, route' \in Pids \cup {NoPid},
         ~home => pidFile' = NoPid,
         \A p \in Pids : Up(p) => p = pidFile',
         l = "spawn" => cli[c].pc = "install",
         l \in {"register", "attached"} => cli[c].pc \in {"health", "register"},
         l \in {"remove", "route", "clean"} => NoneUp
  PROVE  AirflowInv'
  <1> USE DEF Airflow!Goto
  <1>1. cli \in [Clis -> Airflow!Cli] /\ Others(c)
    BY DEF AirflowInv, Airflow!TypeOK, Others
  <1>2. cli'[c] = [cli[c] EXCEPT !.pc = l] /\ cli[c] \in Airflow!Cli
    BY <1>1
  <1>3. NoneUp' = NoneUp /\ \A p \in Pids : Up(p)' = Up(p)
    BY SameUp
  <1>4. Airflow!TypeOK'
    <2>1. [cli[c] EXCEPT !.pc = l] \in Airflow!Cli
      BY <1>2 DEF Airflow!Cli, Airflow!StartSteps, Airflow!StopSteps
    <2>2. cli' \in [Clis -> Airflow!Cli]
      BY <1>1, <2>1
    <2> QED BY <2>2 DEF AirflowInv, Airflow!TypeOK
  <1>5. /\ cli'[c].pc = l /\ cli'[c].cmd = cli[c].cmd /\ cli'[c].pid = cli[c].pid
        /\ cli'[c].secret = cli[c].secret
    BY <1>2 DEF Airflow!Cli
  <1>6. Known(c)
    BY DEF AirflowInv
  <1>7. Known(c)'
    <2>1. CASE l = "spawn"
      BY <1>3, <1>5, <1>6, <2>1 DEF Known, Airflow!StartSteps
    <2>2. CASE l \in {"register", "attached"}
      BY <1>5, <1>6, <2>2 DEF Known, Airflow!StartSteps
    <2>3. CASE l \in {"remove", "route", "clean"}
      BY <1>3, <1>5, <2>3 DEF Known, Airflow!StartSteps
    <2> QED BY <2>1, <2>2, <2>3
  <1>8. Signed' /\ \A p \in Pids : Up(p)' => p = pidFile'
    BY <1>3 DEF AirflowInv, Signed
  <1> QED BY <1>1, <1>4, <1>7, <1>8, OwnStep

\* While a command other than one about to write its PID is under way, what is up in
\* the background is in the PID file.
LEMMA UpIsTracked ==
  ASSUME AirflowInv, NEW c \in Clis, Busy(c), cli[c].pc # "pid"
  PROVE  \A p \in Pids : Up(p) => p = pidFile
  BY DEF AirflowInv, Tracked, Busy, Alone

\* A step of the machine, or of the command `c`, that only takes groups away.
LEMMA ShrinkKeeps ==
  ASSUME AirflowInv, Airflow!TypeOK', UNCHANGED <<pidFile, secret, cli>>,
         \A p \in Pids : Up(p)' => Up(p) /\ group'[p].secret = group[p].secret
  PROVE  AirflowInv'
  <1>1. NoneUp => NoneUp'
    BY DEF NoneUp
  <1>2. Alone' /\ \A c \in Clis : Known(c)'
    BY <1>1 DEF AirflowInv, Alone, Busy, Known
  <1>3. Signed' /\ Tracked'
    BY DEF AirflowInv, Signed, Tracked
  <1> QED BY <1>2, <1>3 DEF AirflowInv

\* A group keeps its type whichever part of it goes.
LEMMA GroupShrinks ==
  ASSUME group \in [Pids -> Airflow!Group], NEW p \in Pids,
         NEW g \in Airflow!Group,
         g.mode = "background" /\ (g.master \/ g.kids)
           => /\ group[p].mode = "background" /\ (group[p].master \/ group[p].kids)
              /\ g.secret = group[p].secret,
         group' = [group EXCEPT ![p] = g]
  PROVE  /\ group' \in [Pids -> Airflow!Group]
         /\ \A q \in Pids : Up(q)' => Up(q) /\ group'[q].secret = group[q].secret
  <1>1. group' \in [Pids -> Airflow!Group]
    OBVIOUS
  <1>2. \A q \in Pids : group'[q] = IF q = p THEN g ELSE group[q]
    OBVIOUS
  <1> QED BY <1>1, <1>2 DEF Up, Airflow!UpInBackground, Airflow!ProcessGroupAlive

\* What is left of a group is one still, and no more up than it was.
LEMMA RemainsLess ==
  ASSUME NEW g \in Airflow!Group,
         NEW m \in {FALSE, g.master}, NEW k \in {FALSE, g.kids}
  PROVE  LET r == Airflow!Remains(g, m, k) IN
         /\ r \in Airflow!Group
         /\ r.mode = "background" /\ (r.master \/ r.kids)
               => /\ g.mode = "background" /\ (g.master \/ g.kids) /\ r.secret = g.secret
  <1>1. m \in BOOLEAN /\ k \in BOOLEAN /\ (m => g.master) /\ (k => g.kids)
    BY DEF Airflow!Group
  <1>2. CASE m \/ k
    <2> DEFINE r == [g EXCEPT !.master = m, !.kids = k]
    <2>1. r \in Airflow!Group /\ r.mode = g.mode /\ r.secret = g.secret
      BY <1>1 DEF Airflow!Group
    <2>2. Airflow!Remains(g, m, k) = r
      BY <1>2 DEF Airflow!Remains
    <2> HIDE DEF r
    <2> QED BY <1>1, <1>2, <2>1, <2>2
  <1>3. CASE ~(m \/ k)
    <2>1. Airflow!Remains(g, m, k) = Airflow!NoGroup
      BY <1>3 DEF Airflow!Remains
    <2>2. /\ Airflow!NoGroup \in Airflow!Group
          /\ ~Airflow!NoGroup.master /\ ~Airflow!NoGroup.kids
      BY DEF Airflow!Group, Airflow!Modes, Airflow!NoGroup
    <2> QED BY <2>1, <2>2
  <1> QED BY <1>2, <1>3

LEMMA MachineKeeps ==
  ASSUME AirflowInv, NEW p \in Pids,
         Airflow!MasterDies(p) \/ Airflow!KidsDie(p) \/ Airflow!PidReused(p)
  PROVE  AirflowInv'
  <1>1. group \in [Pids -> Airflow!Group] /\ UNCHANGED <<home, pidFile, secret, route, cli>>
    BY DEF AirflowInv, Airflow!TypeOK, Airflow!MasterDies, Airflow!KidsDie, Airflow!PidReused
  <1>2. Airflow!NoGroup \in Airflow!Group /\ ~Airflow!NoGroup.master /\ ~Airflow!NoGroup.kids
    BY DEF Airflow!NoGroup, Airflow!Group, Airflow!Modes
  <1>3. PICK g \in Airflow!Group :
          /\ group' = [group EXCEPT ![p] = g]
          /\ g.mode = "background" /\ (g.master \/ g.kids)
               => /\ group[p].mode = "background" /\ (group[p].master \/ group[p].kids)
                  /\ g.secret = group[p].secret
    <2>1. CASE Airflow!MasterDies(p) \/ Airflow!KidsDie(p)
      <3>1. PICK m \in {FALSE, group[p].master}, k \in {FALSE, group[p].kids} :
              group' = [group EXCEPT ![p] = Airflow!Remains(group[p], m, k)]
        BY <1>1, <2>1 DEF Airflow!MasterDies, Airflow!KidsDie
      <3> QED BY <1>1, <3>1, RemainsLess
    <2>3. CASE Airflow!PidReused(p)
      <3> DEFINE g == [Airflow!NoGroup EXCEPT !.master = TRUE, !.mode = "stranger"]
      <3>1. g \in Airflow!Group /\ g.mode = "stranger"
        BY DEF Airflow!Group, Airflow!Modes, Airflow!NoGroup
      <3>2. group' = [group EXCEPT ![p] = g]
        BY <2>3 DEF Airflow!PidReused
      <3> HIDE DEF g
      <3> QED BY <3>1, <3>2
    <2> QED BY <2>1, <2>3
  <1>4. /\ group' \in [Pids -> Airflow!Group]
        /\ \A q \in Pids : Up(q)' => Up(q) /\ group'[q].secret = group[q].secret
    BY <1>1, <1>3, GroupShrinks
  <1>5. Airflow!TypeOK'
    BY <1>1, <1>4 DEF AirflowInv, Airflow!TypeOK
  <1> QED BY <1>1, <1>4, <1>5, ShrinkKeeps

\* The start that could not write its PID, or was killed before, is done with a
\* group that counts as one in the background no more.
LEMMA UnwrittenKeeps ==
  ASSUME AirflowInv, NEW c \in Clis, NEW mode \in {"doomed", "lost"}, cli[c].pc = "pid",
         Airflow!Unwritten(c, mode), Airflow!Finish(c),
         UNCHANGED <<home, pidFile, secret, route>>
  PROVE  AirflowInv'
  <1> USE DEF Airflow!Unwritten, Airflow!Finish
  <1>1. /\ cli \in [Clis -> Airflow!Cli] /\ group \in [Pids -> Airflow!Group]
        /\ Busy(c) /\ Others(c) /\ cli'[c] = Airflow!IdleCli
    BY DEF AirflowInv, Airflow!TypeOK, Others, Busy
  <1>2. cli[c].pid \in Pids /\ \A p \in Pids : Up(p) => p = cli[c].pid
    BY DEF AirflowInv, Known
  <1> DEFINE q == cli[c].pid
             m == IF group[q].mode = "background" THEN mode ELSE group[q].mode
             g == [group[q] EXCEPT !.mode = m]
  <1>3. g \in Airflow!Group /\ g.mode # "background"
    BY <1>1, <1>2 DEF Airflow!Group, Airflow!Modes
  <1>4. group' = [group EXCEPT ![q] = g]
    BY <1>1, <1>2 DEF Airflow!Group, Airflow!Modes
  <1> HIDE DEF g, m
  <1>5. /\ group' \in [Pids -> Airflow!Group]
        /\ \A p \in Pids : ~Up(p)'
    BY <1>1, <1>2, <1>3, <1>4 DEF Up, Airflow!UpInBackground, Airflow!ProcessGroupAlive
  <1>6. Airflow!TypeOK'
    <2>1. Airflow!IdleCli \in Airflow!Cli
      BY DEF Airflow!IdleCli, Airflow!Cli
    <2>2. cli' \in [Clis -> Airflow!Cli]
      BY <1>1, <2>1
    <2> QED BY <1>5, <2>2 DEF AirflowInv, Airflow!TypeOK
  <1>7. Known(c)'
    BY <1>1 DEF Known, Airflow!IdleCli, Airflow!StartSteps
  <1>8. Signed'
    BY <1>5 DEF Signed
  <1> QED BY <1>1, <1>5, <1>6, <1>7, <1>8, OwnStep

LEMMA StartStepKeeps ==
  ASSUME AirflowInv, NEW c \in Clis, Airflow!StartStep(c)
  PROVE  AirflowInv'
  <1>1. CASE \/ Airflow!PersistSecret(c) \/ Airflow!Spawn(c)
             \/ Airflow!WritePid(c) \/ Airflow!WritePidFails(c)
    BY <1>1, SecretKeeps, SpawnKeeps, WritePidKeeps, UnwrittenKeeps
    DEF Airflow!WritePidFails
  <1>2. CASE Airflow!SpawnFails(c) \/ Airflow!ForegroundEnds(c)
    BY <1>2, FinishKeeps DEF Airflow!SpawnFails, Airflow!ForegroundEnds
  <1>3. ASSUME NEW l \in {"spawn", "register", "attached"}, Airflow!Goto(c, l), Busy(c),
               cli[c].pc # "pid", UNCHANGED <<home, pidFile, secret, group>>,
               route' \in Pids \cup {NoPid},
               l = "spawn" => cli[c].pc = "install",
               l \in {"register", "attached"} => cli[c].pc \in {"health", "register"}
        PROVE  AirflowInv'
    <2>1. \A p \in Pids : Up(p) => p = pidFile'
      BY <1>3, UpIsTracked
    <2>2. pidFile' \in Pids \cup {NoPid} /\ (~home => pidFile' = NoPid)
      BY <1>3 DEF AirflowInv, Airflow!TypeOK
    <2> QED BY <1>3, <2>1, <2>2, GotoKeeps
  <1>4. CASE Airflow!Install(c)
    <2>1. CASE Airflow!Finish(c)
      BY <1>4, <2>1, FinishKeeps DEF Airflow!Install
    <2>2. CASE Airflow!Goto(c, "spawn")
      BY <1>3, <1>4, <2>2 DEF Airflow!Install, Airflow!world, AirflowInv, Airflow!TypeOK, Busy
    <2> QED BY <1>4, <2>1, <2>2 DEF Airflow!Install
  <1>5. CASE Airflow!HealthCheck(c)
    <2>1. CASE Airflow!Finish(c)
      BY <1>5, <2>1, FinishKeeps DEF Airflow!HealthCheck
    <2>2. ASSUME NEW l \in {"register", "attached"}, Airflow!Goto(c, l) PROVE AirflowInv'
      BY <1>3, <1>5, <2>2 DEF Airflow!HealthCheck, Airflow!world, AirflowInv, Airflow!TypeOK, Busy
    <2> QED BY <1>5, <2>1, <2>2 DEF Airflow!HealthCheck
  <1>6. CASE Airflow!RegisterRoute(c)
    <2>1. route' \in Pids \cup {NoPid}
      BY <1>6 DEF Airflow!RegisterRoute, AirflowInv, Airflow!TypeOK, Known
    <2>2. CASE Airflow!Goto(c, "attached")
      BY <1>3, <1>6, <2>1, <2>2 DEF Airflow!RegisterRoute, Busy
    <2>3. CASE Airflow!Finish(c)
      BY <1>6, <2>1, <2>3, FinishRoute DEF Airflow!RegisterRoute
    <2> QED BY <1>6, <2>2, <2>3 DEF Airflow!RegisterRoute
  <1> QED BY <1>1, <1>2, <1>4, <1>5, <1>6 DEF Airflow!StartStep

LEMMA StopTyped ==
  ASSUME NEW c \in Clis, cli \in [Clis -> Airflow!Cli], NEW l \in Airflow!StopSteps
  PROVE  /\ \A m \in {"stop", "kill"} :
               [cli EXCEPT ![c].pc = l, ![c].cmd = m] \in [Clis -> Airflow!Cli]
         /\ \A p \in Pids :
               [cli EXCEPT ![c].pc = l, ![c].pid = p] \in [Clis -> Airflow!Cli]
  BY DEF Airflow!Cli

LEMMA StopBeginKeeps ==
  ASSUME ~Overlaps, AirflowInv, NEW c \in Clis, NEW cmd \in {"stop", "kill"},
         Airflow!StopBegin(c, cmd)
  PROVE  AirflowInv'
  <1> USE DEF Airflow!StopBegin, Airflow!CanBegin, Airflow!Quiet, Airflow!world
  <1> DEFINE l == IF pidFile = NoPid THEN "route" ELSE "stop"
  <1>1. cli \in [Clis -> Airflow!Cli] /\ Others(c) /\ \A o \in Clis : ~Busy(o)
    BY DEF AirflowInv, Airflow!TypeOK, Others, Busy
  <1>2. \A p \in Pids : Up(p) => p = pidFile
    BY <1>1 DEF AirflowInv, Tracked, Busy
  <1>3. pidFile = NoPid => NoneUp
    BY <1>2, PidAssumption DEF NoneUp
  <1>4. NoneUp' = NoneUp /\ \A p \in Pids : Up(p)' = Up(p)
    BY SameUp
  <1>5. cli'[c].pc = l
    BY <1>1 DEF Airflow!Cli
  <1>6. Airflow!TypeOK'
    <2>1. cli' = [cli EXCEPT ![c].pc = l, ![c].cmd = cmd]
      OBVIOUS
    <2>2. l \in Airflow!StopSteps
      BY DEF Airflow!StopSteps
    <2> HIDE DEF l
    <2>3. [cli EXCEPT ![c].pc = l, ![c].cmd = cmd] \in [Clis -> Airflow!Cli]
      BY <1>1, <2>2, StopTyped
    <2>4. cli' \in [Clis -> Airflow!Cli]
      BY <2>1, <2>3
    <2> QED BY <2>4 DEF AirflowInv, Airflow!TypeOK
  <1>7. Known(c)'
    BY <1>3, <1>4, <1>5 DEF Known, Airflow!StartSteps
  <1>8. Signed' /\ \A p \in Pids : Up(p)' => p = pidFile'
    BY <1>2, <1>4 DEF AirflowInv, Signed
  <1> QED BY <1>1, <1>6, <1>7, <1>8, OwnStep

\* A group nothing of which is left is not up; it was the one in the PID file.
LEMMA NotAlive ==
  ASSUME AirflowInv, NEW c \in Clis, Busy(c), cli[c].pc # "pid", ~Airflow!ProcessGroupAlive(pidFile)
  PROVE  NoneUp
  BY UpIsTracked DEF NoneUp, Up, Airflow!UpInBackground

LEMMA StopProcessKeeps ==
  ASSUME AirflowInv, NEW c \in Clis, Airflow!StopProcess(c)
  PROVE  AirflowInv'
  <1> USE DEF Airflow!StopProcess
  <1>1. cli \in [Clis -> Airflow!Cli] /\ Busy(c) /\ Others(c) /\ cli[c].pc = "stop"
    BY DEF AirflowInv, Airflow!TypeOK, Others, Busy, Airflow!Goto
  <1>2. \A p \in Pids : Up(p) => p = pidFile
    BY <1>1, UpIsTracked
  <1>3. NoneUp' = NoneUp /\ \A p \in Pids : Up(p)' = Up(p)
    BY SameUp
  <1>4. CASE Airflow!ProcessGroupAlive(pidFile)
    <2>1. cli' = [cli EXCEPT ![c].pc = "wait", ![c].pid = pidFile] /\ UNCHANGED pidFile
      BY <1>4
    <2>2. pidFile \in Pids
      BY <1>4 DEF AirflowInv, Airflow!TypeOK, Airflow!ProcessGroupAlive
    <2>3. cli' \in [Clis -> Airflow!Cli]
      BY <1>1, <2>1, <2>2, StopTyped DEF Airflow!StopSteps
    <2>4. cli'[c].pc = "wait" /\ cli'[c].pid = pidFile
      BY <1>1, <2>1 DEF Airflow!Cli
    <2>5. Known(c)'
      BY <2>1, <2>2, <2>4 DEF Known, Airflow!StartSteps
    <2>6. Airflow!TypeOK'
      BY <2>1, <2>3 DEF AirflowInv, Airflow!TypeOK
    <2>7. Signed' /\ \A p \in Pids : Up(p)' => p = pidFile'
      BY <1>2, <1>3, <2>1 DEF AirflowInv, Signed
    <2> QED BY <1>1, <2>5, <2>6, <2>7, OwnStep
  <1>5. CASE ~Airflow!ProcessGroupAlive(pidFile)
    <2>1. NoneUp
      BY <1>1, <1>5, NotAlive
    <2>2. \A p \in Pids : Up(p) => p = pidFile'
      BY <2>1 DEF NoneUp
    <2> QED
      BY <1>1, <1>5, <2>1, <2>2, GotoKeeps DEF AirflowInv, Airflow!TypeOK
  <1> QED BY <1>4, <1>5

LEMMA WaitTimeoutKeeps ==
  ASSUME AirflowInv, NEW c \in Clis, Airflow!WaitTimeout(c)
  PROVE  AirflowInv'
  <1> DEFINE q == cli[c].pid
  <1>1. /\ cli \in [Clis -> Airflow!Cli] /\ group \in [Pids -> Airflow!Group]
        /\ Busy(c) /\ Others(c) /\ cli[c].pc = "wait"
        /\ UNCHANGED <<home, pidFile, secret, route>>
        /\ cli' = [cli EXCEPT ![c].pc = "killwait"]
    BY DEF AirflowInv, Airflow!TypeOK, Others, Busy, Airflow!Goto, Airflow!WaitTimeout
  <1>2. q \in Pids /\ q = pidFile
    BY <1>1 DEF AirflowInv, Known
  <1> HIDE DEF q
  <1>3. PICK g \in Airflow!Group :
          /\ group' = [group EXCEPT ![q] = g]
          /\ g.mode = "background" /\ (g.master \/ g.kids)
               => /\ group[q].mode = "background" /\ (group[q].master \/ group[q].kids)
                  /\ g.secret = group[q].secret
    <2>1. PICK m \in {FALSE, group[q].master}, k \in {FALSE, group[q].kids} :
            group' = [group EXCEPT ![q] = Airflow!Remains(group[q], m, k)]
      BY DEF Airflow!WaitTimeout, q
    <2> QED BY <1>1, <1>2, <2>1, RemainsLess
  <1>4. /\ group' \in [Pids -> Airflow!Group]
        /\ \A p \in Pids : Up(p)' => Up(p) /\ group'[p].secret = group[p].secret
    BY <1>1, <1>2, <1>3, GroupShrinks
  <1>5. cli'[c].pc = "killwait" /\ cli'[c].pid = q
    BY <1>1 DEF q, Airflow!Cli
  <1>6. Airflow!TypeOK'
    <2>1. cli' \in [Clis -> Airflow!Cli]
      BY <1>1 DEF Airflow!Cli, Airflow!StopSteps
    <2> QED BY <1>1, <1>4, <2>1 DEF AirflowInv, Airflow!TypeOK
  <1>7. Known(c)'
    BY <1>1, <1>2, <1>5 DEF Known, Airflow!StartSteps
  <1>8. Signed' /\ \A p \in Pids : Up(p)' => p = pidFile'
    BY <1>1, <1>4, UpIsTracked DEF AirflowInv, Signed
  <1> QED BY <1>1, <1>6, <1>7, <1>8, OwnStep

\* Kill's removal of the directory, with nothing left that signs with its secret.
LEMMA CleanUpKeeps ==
  ASSUME AirflowInv, NEW c \in Clis, Airflow!CleanUp(c)
  PROVE  AirflowInv'
  <1> USE DEF Airflow!CleanUp, Airflow!Finish
  <1>1. /\ cli \in [Clis -> Airflow!Cli] /\ Busy(c) /\ Others(c)
        /\ cli'[c] = Airflow!IdleCli
    BY DEF AirflowInv, Airflow!TypeOK, Others, Busy
  <1>2. \A p \in Pids : ~Up(p)'
    BY SameUp DEF AirflowInv, Known, NoneUp
  <1>3. Airflow!TypeOK'
    <2>1. Airflow!IdleCli \in Airflow!Cli
      BY DEF Airflow!IdleCli, Airflow!Cli
    <2>2. cli' \in [Clis -> Airflow!Cli]
      BY <1>1, <2>1
    <2> QED BY <2>2 DEF AirflowInv, Airflow!TypeOK
  <1>4. Known(c)'
    BY <1>1 DEF Known, Airflow!IdleCli, Airflow!StartSteps
  <1>5. Signed'
    BY <1>2 DEF Signed
  <1> QED BY <1>1, <1>2, <1>3, <1>4, <1>5, OwnStep

LEMMA StopStepKeeps ==
  ASSUME AirflowInv, NEW c \in Clis, Airflow!StopStep(c)
  PROVE  AirflowInv'
  <1>1. CASE Airflow!StopProcess(c) \/ Airflow!WaitTimeout(c) \/ Airflow!CleanUp(c)
    BY <1>1, StopProcessKeeps, WaitTimeoutKeeps, CleanUpKeeps
  <1>2. CASE Airflow!GroupGone(c)
    <2>1. Busy(c) /\ cli[c].pc # "pid" /\ cli[c].pid = pidFile
      BY <1>2 DEF Airflow!GroupGone, Busy, AirflowInv, Known
    <2>2. NoneUp
      BY <1>2, <2>1, NotAlive DEF Airflow!GroupGone
    <2> QED
      BY <1>2, <2>1, <2>2, UpIsTracked, GotoKeeps
      DEF Airflow!GroupGone, Airflow!world, AirflowInv, Airflow!TypeOK
  <1>3. CASE Airflow!KillTimeout(c)
    BY <1>3, FinishKeeps DEF Airflow!KillTimeout
  <1>4. CASE Airflow!RemovePid(c)
    <2>1. Busy(c) /\ cli[c].pc # "pid" /\ NoneUp
      BY <1>4 DEF Airflow!RemovePid, Busy, AirflowInv, Known
    <2>2. \A p \in Pids : Up(p) => p = pidFile'
      BY <2>1 DEF NoneUp
    <2> QED
      BY <1>4, <2>1, <2>2, GotoKeeps DEF Airflow!RemovePid, AirflowInv, Airflow!TypeOK
  <1>5. CASE Airflow!RemoveRoute(c)
    <2>1. Busy(c) /\ cli[c].pc # "pid" /\ NoneUp
      BY <1>5 DEF Airflow!RemoveRoute, Busy, AirflowInv, Known
    <2>2. CASE Airflow!Finish(c)
      BY <1>5, <2>1, <2>2, FinishRoute DEF Airflow!RemoveRoute
    <2>3. CASE Airflow!Goto(c, "clean")
      BY <1>5, <2>1, <2>3, UpIsTracked, GotoKeeps
      DEF Airflow!RemoveRoute, AirflowInv, Airflow!TypeOK
    <2> QED BY <1>5, <2>2, <2>3 DEF Airflow!RemoveRoute
  <1> QED BY <1>1, <1>2, <1>3, <1>4, <1>5 DEF Airflow!StopStep

LEMMA AirflowNextPreserves ==
  ASSUME ~Overlaps, AirflowInv, [Airflow!Next]_(Airflow!vars)
  PROVE  AirflowInv'
  <1>1. CASE \E c \in Clis : \E mode \in {"background", "foreground"} : Airflow!StartBegin(c, mode)
    BY <1>1, StartBeginKeeps
  <1>2. CASE \E c \in Clis : \E cmd \in {"stop", "kill"} : Airflow!StopBegin(c, cmd)
    BY <1>2, StopBeginKeeps
  <1>3. ASSUME NEW c \in Clis, Airflow!StartStep(c) \/ Airflow!StopStep(c) PROVE AirflowInv'
    BY <1>3, StartStepKeeps, StopStepKeeps
  <1>4. ASSUME NEW c \in Clis, Airflow!CliKilled(c) PROVE AirflowInv'
    <2>1. CASE cli[c].pc = "pid"
      BY <1>4, <2>1, UnwrittenKeeps DEF Airflow!CliKilled
    <2>2. CASE cli[c].pc # "pid"
      BY <1>4, <2>2, FinishKeeps DEF Airflow!CliKilled, Airflow!world
    <2> QED BY <2>1, <2>2
  <1>5. CASE \E p \in Pids : Airflow!MasterDies(p) \/ Airflow!KidsDie(p) \/ Airflow!PidReused(p)
    BY <1>5, MachineKeeps
  <1>6. CASE Airflow!RoutePruned
    BY <1>6, SameUp, ShrinkKeeps DEF Airflow!RoutePruned, AirflowInv, Airflow!TypeOK
  <1>7. CASE UNCHANGED Airflow!vars
    <2>1. UNCHANGED <<home, pidFile, secret, route, group, cli>>
      BY <1>7 DEF Airflow!vars
    <2> QED BY <2>1, SameUp, ShrinkKeeps DEF AirflowInv, Airflow!TypeOK
  <1> QED BY <1>1, <1>2, <1>3, <1>4, <1>5, <1>6, <1>7 DEF Airflow!Next

LEMMA AirflowInvariance == ASSUME ~Overlaps PROVE Airflow!Spec => []AirflowInv
  <1>1. Airflow!Init => AirflowInv
    BY AirflowInitEstablishes
  <1>2. AirflowInv /\ [Airflow!Next]_(Airflow!vars) => AirflowInv'
    BY AirflowNextPreserves
  <1> QED BY <1>1, <1>2, PTL DEF Airflow!Spec

\* With no two commands at once, every background Airflow can be reached through the
\* PID file between commands, whichever start, stop or kill of it failed, however the
\* group died, and whatever its PID went to.
THEOREM BackgroundReachable == ASSUME ~Overlaps PROVE Airflow!Spec => []Reachable
  <1>1. AirflowInv => Reachable
    BY DEF AirflowInv, Tracked, Up, Reachable, Airflow!Reachable, Airflow!Quiet
  <1> QED BY <1>1, AirflowInvariance, PTL

\* ... and signs with the secret the next command will read.
THEOREM SecretsMatch == ASSUME ~Overlaps PROVE Airflow!Spec => []Airflow!SignsAlike
  <1>1. AirflowInv => Airflow!SignsAlike
    BY DEF AirflowInv, Signed, Up, Airflow!SignsAlike
  <1> QED BY <1>1, AirflowInvariance, PTL

\* No command takes the route of a background Airflow whose group is still there: only
\* RemoveRoute takes a route away, and it comes after a wait that saw the group gone.
THEOREM RouteKept == ASSUME ~Overlaps PROVE Airflow!Spec => RouteKeptWhileUp
  <1> DEFINE Kept == route # NoPid /\ route' = NoPid /\ cli' # cli => ~Airflow!UpInBackground(route)
  <1>1. AirflowInv /\ [Airflow!Next]_(Airflow!vars) => [Kept]_(Airflow!vars)
    <2> SUFFICES ASSUME AirflowInv, Airflow!Next, route # NoPid, route' = NoPid, cli' # cli
                 PROVE  ~Airflow!UpInBackground(route)
      OBVIOUS
    <2>1. PICK c \in Clis : Airflow!RegisterRoute(c) \/ Airflow!RemoveRoute(c)
      BY DEF Airflow!Next, Airflow!StartBegin, Airflow!StopBegin,
             Airflow!StartStep, Airflow!StopStep, Airflow!CliKilled,
             Airflow!MasterDies, Airflow!KidsDie, Airflow!PidReused,
             Airflow!RoutePruned, Airflow!world, Airflow!PersistSecret, Airflow!Install,
             Airflow!Spawn, Airflow!SpawnFails, Airflow!WritePid, Airflow!WritePidFails,
             Airflow!HealthCheck, Airflow!ForegroundEnds, Airflow!StopProcess, Airflow!GroupGone,
             Airflow!WaitTimeout, Airflow!KillTimeout, Airflow!RemovePid, Airflow!CleanUp
    <2>2. CASE Airflow!RegisterRoute(c)
      BY <2>2, PidAssumption DEF Airflow!RegisterRoute, AirflowInv, Known
    <2>3. CASE Airflow!RemoveRoute(c)
      BY <2>3 DEF Airflow!RemoveRoute, AirflowInv, Known, NoneUp, Up, Airflow!TypeOK
    <2> QED BY <2>1, <2>2, <2>3
  <1> HIDE DEF Kept
  <1>2. RouteKeptWhileUp <=> [][Kept]_(Airflow!vars)
    BY DEF RouteKeptWhileUp, Airflow!RouteKeptWhileUp, Kept
  <1> QED BY <1>1, <1>2, AirflowInvariance, PTL DEF Airflow!Spec
=============================================================================
