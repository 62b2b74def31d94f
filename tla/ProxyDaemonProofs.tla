-------------------------- MODULE ProxyDaemonProofs --------------------------
(***************************************************************************)
(* What holds of ProxyDaemon for any number of terminals, projects,        *)
(* versions and daemons: its type; that commands run one at a time lose no *)
(* daemon; and that starts that race leave one up.                         *)
(***************************************************************************)
EXTENDS ProxyDaemon, SequenceTheorems, TLAPS

-----------------------------------------------------------------------------
(* The invariants.                                                         *)

Stays(e) == e.state # "dead" /\ ~e.asked

\* What a command that has got as far as k says has become of daemon d, with the PID
\* file as f: from its spawning to the PID file, and up to the SIGTERM, it has d in
\* hand; from then to the next spawning there is no such daemon; else the PID file
\* names it.
Finds(k, f, d) ==
  CASE k.pc \in {"truncate", "write", "term"} -> d = k.pid
    [] k.pc \in {"poll", "unlink", "clean", "spawn"} -> FALSE
    [] OTHER -> f # NoFile /\ f.pid = d

InOrder(k) == \A d \in DOMAIN daemon : Stays(daemon[d]) => Finds(k, pidFile, d)

\* Commands run one at a time: one at most is running, and every daemon that is up
\* to stay is where that one says, or where the PID file does when none is.
Orderly ==
  alone =>
    /\ \A c, o \in Clis : cli[c].pc # "idle" /\ cli[o].pc # "idle" => c = o
    /\ \A c \in Clis : cli[c].pc # "idle" => InOrder(cli[c])
    /\ Settled => InOrder(IdleCli)

\* A command that is going to start a daemon unless it finds one.
Committed == {"ensure", "stop", "term", "poll", "unlink", "clean", "spawn"}

\* As long as there are only starts, none of which fails: a stop is part of a
\* restart; a daemon that was asked to go and is still there has a command waiting
\* for it; and with a route there is a daemon to stay, or a command about to start one.
OnlyRestarts(k) ==
  k.pc # "list" /\ (k.pc \in {"stop", "term", "poll", "unlink"} => k.stops = "restart")
AskedIsAwaited ==
  \A d \in DOMAIN daemon : daemon[d].state # "dead" /\ daemon[d].asked =>
    \E c \in Clis : cli[c].pc = "poll" /\ cli[c].pid = d
ServedOrComing ==
  routes # {} =>
    (\E d \in DOMAIN daemon : Stays(daemon[d])) \/ \E c \in Clis : cli[c].pc \in Committed

Racing ==
  calm => (\A c \in Clis : OnlyRestarts(cli[c])) /\ AskedIsAwaited /\ ServedOrComing

\* What a command has in hand is a daemon that was spawned.
Spawned ==
  /\ pidFile # NoFile => pidFile.pid \in DOMAIN daemon
  /\ \A c \in Clis :
        cli[c].pc \in {"truncate", "write", "term", "poll"} => cli[c].pid \in DOMAIN daemon

-----------------------------------------------------------------------------
(* The sequence of daemons.                                                *)

LEMMA DaemonsFunction ==
  ASSUME TypeOK
  PROVE  /\ DOMAIN daemon = 1 .. Len(daemon) /\ Len(daemon) \in Nat
         /\ \A d \in DOMAIN daemon :
              /\ daemon[d] \in Daemon /\ daemon[d].state \in DaemonStates
              /\ daemon[d].asked \in BOOLEAN
              /\ d \in Pids /\ d # 0
<1>1. daemon \in Seq(Daemon) /\ Len(daemon) <= MaxDaemons
  BY DEF TypeOK
<1>2. DOMAIN daemon = 1 .. Len(daemon) /\ Len(daemon) \in Nat
      /\ \A d \in 1 .. Len(daemon) : daemon[d] \in Daemon
  BY <1>1
<1>3. \A e \in Daemon : e.state \in DaemonStates /\ e.asked \in BOOLEAN
  BY DEF Daemon
<1>4. \A d \in 1 .. Len(daemon) : d \in Pids /\ d # 0
  BY <1>1, <1>2, BoundAssumption DEF Pids
<1> QED
  BY <1>2, <1>3, <1>4

\* One daemon changes: there are as many as before, and the others are as they were.
LEMMA OneChanges ==
  ASSUME TypeOK, NEW d \in DOMAIN daemon, NEW e \in Daemon,
         daemon' = [daemon EXCEPT ![d] = e]
  PROVE  /\ daemon' \in Seq(Daemon) /\ Len(daemon') = Len(daemon)
         /\ DOMAIN daemon' = DOMAIN daemon
         /\ \A j \in DOMAIN daemon : daemon'[j] = IF j = d THEN e ELSE daemon[j]
<1>1. daemon \in Seq(Daemon) /\ d \in 1 .. Len(daemon)
  BY DEF TypeOK
<1>2. QED
  BY <1>1, ExceptSeq

\* One is spawned: it comes last and is up to stay.
LEMMA OneMore ==
  ASSUME TypeOK, Len(daemon) < MaxDaemons,
         daemon' = Append(daemon, [state |-> "starting", asked |-> FALSE])
  PROVE  /\ daemon' \in Seq(Daemon) /\ Len(daemon') = Len(daemon) + 1
         /\ Len(daemon') \in Pids
         /\ DOMAIN daemon' = DOMAIN daemon \cup {Len(daemon')}
         /\ Len(daemon') \notin DOMAIN daemon
         /\ \A j \in DOMAIN daemon : daemon'[j] = daemon[j]
         /\ daemon'[Len(daemon')] = [state |-> "starting", asked |-> FALSE]
<1>1. daemon \in Seq(Daemon) /\ [state |-> "starting", asked |-> FALSE] \in Daemon
  BY DEF TypeOK, Daemon, DaemonStates
<1>2. QED
  BY <1>1, AppendProperties, BoundAssumption DEF Pids

-----------------------------------------------------------------------------
(* Types.                                                                  *)

LEMMA InitTyped == Init => TypeOK /\ Spawned
<1>1. << >> \in Seq(Daemon) /\ Len(<< >>) = 0
  OBVIOUS
<1>2. IdleCli \in Cli
  BY DEF IdleCli, Cli, Labels, Builds
<1>3. QED
  BY <1>1, <1>2, BoundAssumption DEF Init, TypeOK, PidFiles, Spawned, IdleCli

LEMMA Kinds ==
  /\ IdleCli \in Cli /\ IdleCli.pc = "idle"
  /\ \A k \in Cli : /\ k.pc \in Labels /\ k.ver \in Builds /\ k.pid \in {0} \cup Pids
                    /\ k.stops \in {"asked", "restart"}
  /\ Dead \in Daemon /\ Dead.state = "dead"
  /\ \A k \in Daemon : [k EXCEPT !.asked = TRUE] \in Daemon /\ [k EXCEPT !.state = "serving"] \in Daemon
  /\ NoFile \in PidFiles /\ \A p \in Pids, v \in Builds : [pid |-> p, ver |-> v] \in PidFiles
BY DEF IdleCli, Cli, Labels, Builds, Daemon, DaemonStates, Dead, PidFiles

-----------------------------------------------------------------------------
(* What a command's step makes of the commands.                            *)

\* c alone moves, to k.
Becomes(c, k) ==
  /\ cli' \in [Clis -> Cli]
  /\ cli'[c] = k
  /\ \A o \in Clis : o # c => cli'[o] = cli[o]

At(c, l) == [pc |-> l, ver |-> cli[c].ver, pid |-> cli[c].pid, stops |-> cli[c].stops]

\* After a stop a restart goes on, and a command that was to stop is done.
StopOver(c) ==
  IF cli[c].stops = "restart" THEN Becomes(c, At(c, "clean")) ELSE Becomes(c, IdleCli)

LEMMA OneMoves ==
  ASSUME TypeOK, NEW c \in Clis, NEW k \in Cli, cli' = [cli EXCEPT ![c] = k]
  PROVE  Becomes(c, k)
BY DEF TypeOK, Becomes

LEMMA FinishMoves ==
  ASSUME TypeOK, NEW c \in Clis, Finish(c)
  PROVE  Becomes(c, IdleCli)
BY OneMoves, Kinds DEF Finish

LEMMA GotoMoves ==
  ASSUME TypeOK, NEW c \in Clis, NEW l \in Labels, Goto(c, l)
  PROVE  Becomes(c, At(c, l))
<1> USE DEF At
<1>1. cli[c] \in Cli
  BY DEF TypeOK
<1>2. [pc |-> l, ver |-> cli[c].ver, pid |-> cli[c].pid, stops |-> cli[c].stops] \in Cli
  BY <1>1 DEF Cli
<1>3. [cli[c] EXCEPT !.pc = l] =
        [pc |-> l, ver |-> cli[c].ver, pid |-> cli[c].pid, stops |-> cli[c].stops]
  BY <1>1 DEF Cli
<1>4. cli' = [cli EXCEPT ![c] = [cli[c] EXCEPT !.pc = l]]
  BY DEF Goto
<1> QED
  BY <1>2, <1>3, <1>4, OneMoves

\* The fields of a command that change together.
LEMMA TwoFields ==
  ASSUME NEW k \in Cli, NEW l \in Labels
  PROVE  /\ \A v \in Builds : [k EXCEPT !.pc = l, !.ver = v] =
                [pc |-> l, ver |-> v, pid |-> k.pid, stops |-> k.stops]
         /\ \A p \in Pids : [k EXCEPT !.pc = l, !.pid = p] =
                [pc |-> l, ver |-> k.ver, pid |-> p, stops |-> k.stops]
         /\ [k EXCEPT !.pc = l, !.stops = "restart"] =
                [pc |-> l, ver |-> k.ver, pid |-> k.pid, stops |-> "restart"]
<1> DEFINE m == [pc |-> l, ver |-> k.ver, pid |-> k.pid, stops |-> k.stops]
<1>1. [k EXCEPT !.pc = l] = m /\ m \in Cli
  BY DEF Cli
<1>2. /\ \A v \in Builds : [m EXCEPT !.ver = v] =
            [pc |-> l, ver |-> v, pid |-> k.pid, stops |-> k.stops]
      /\ \A p \in Pids : [m EXCEPT !.pid = p] =
            [pc |-> l, ver |-> k.ver, pid |-> p, stops |-> k.stops]
      /\ [m EXCEPT !.stops = "restart"] =
            [pc |-> l, ver |-> k.ver, pid |-> k.pid, stops |-> "restart"]
  OBVIOUS
<1>3. /\ \A v \in Builds : [k EXCEPT !.pc = l, !.ver = v] = [[k EXCEPT !.pc = l] EXCEPT !.ver = v]
      /\ \A p \in Pids : [k EXCEPT !.pc = l, !.pid = p] = [[k EXCEPT !.pc = l] EXCEPT !.pid = p]
      /\ [k EXCEPT !.pc = l, !.stops = "restart"] = [[k EXCEPT !.pc = l] EXCEPT !.stops = "restart"]
  OBVIOUS
<1> HIDE DEF m
<1> QED
  BY <1>1, <1>2, <1>3

LEMMA BeginMoves ==
  ASSUME TypeOK, NEW c \in Clis, NEW l \in Labels, NEW v \in Builds, Begin(c, l, v)
  PROVE  Becomes(c, [pc |-> l, ver |-> v, pid |-> 0, stops |-> "asked"])
<1>1. [pc |-> l, ver |-> v, pid |-> 0, stops |-> "asked"] \in Cli
  BY DEF Cli
<1>2. [IdleCli EXCEPT !.pc = l, !.ver = v] = [pc |-> l, ver |-> v, pid |-> 0, stops |-> "asked"]
  <2>1. IdleCli.pid = 0 /\ IdleCli.stops = "asked"
    BY DEF IdleCli
  <2>2. IdleCli \in Cli
    BY Kinds
  <2>3. [IdleCli EXCEPT !.pc = l, !.ver = v] =
          [pc |-> l, ver |-> v, pid |-> IdleCli.pid, stops |-> IdleCli.stops]
    BY <2>2, TwoFields
  <2> QED
    BY <2>1, <2>3
<1> QED
  BY <1>1, <1>2, OneMoves DEF Begin

LEMMA AfterStopMoves ==
  ASSUME TypeOK, NEW c \in Clis, AfterStop(c)
  PROVE  StopOver(c)
<1>1. "clean" \in Labels
  BY DEF Labels
<1> QED
  BY <1>1, FinishMoves, GotoMoves DEF AfterStop, StopOver

\* EnsureRunning finds another version's daemon: what it stops is to be started again.
LEMMA RestartMoves ==
  ASSUME TypeOK, NEW c \in Clis,
         cli' = [cli EXCEPT ![c].pc = "stop", ![c].stops = "restart"]
  PROVE  Becomes(c, [pc |-> "stop", ver |-> cli[c].ver, pid |-> cli[c].pid, stops |-> "restart"])
<1>1. cli[c] \in Cli
  BY DEF TypeOK
<1>2. [pc |-> "stop", ver |-> cli[c].ver, pid |-> cli[c].pid, stops |-> "restart"] \in Cli
  BY <1>1 DEF Cli, Labels
<1>3. [cli[c] EXCEPT !.pc = "stop", !.stops = "restart"] =
        [pc |-> "stop", ver |-> cli[c].ver, pid |-> cli[c].pid, stops |-> "restart"]
  BY <1>1, TwoFields DEF Labels
<1>4. cli' = [cli EXCEPT ![c] = [cli[c] EXCEPT !.pc = "stop", !.stops = "restart"]]
  BY <1>1 DEF TypeOK
<1> QED
  BY <1>2, <1>3, <1>4, OneMoves

\* SpawnDaemon and StopDaemon go on with a daemon in hand.
LEMMA InHandMoves ==
  ASSUME TypeOK, NEW c \in Clis, NEW l \in Labels, NEW p \in Pids,
         cli' = [cli EXCEPT ![c].pc = l, ![c].pid = p]
  PROVE  Becomes(c, [pc |-> l, ver |-> cli[c].ver, pid |-> p, stops |-> cli[c].stops])
<1>1. cli[c] \in Cli
  BY DEF TypeOK
<1>2. [pc |-> l, ver |-> cli[c].ver, pid |-> p, stops |-> cli[c].stops] \in Cli
  BY <1>1 DEF Cli
<1>3. [cli[c] EXCEPT !.pc = l, !.pid = p] =
        [pc |-> l, ver |-> cli[c].ver, pid |-> p, stops |-> cli[c].stops]
  BY <1>1, TwoFields
<1>4. cli' = [cli EXCEPT ![c] = [cli[c] EXCEPT !.pc = l, !.pid = p]]
  BY <1>1 DEF TypeOK
<1> QED
  BY <1>2, <1>3, <1>4, OneMoves

-----------------------------------------------------------------------------
(* Types are kept.                                                         *)

LEMMA BeginTyped ==
  ASSUME TypeOK, Spawned, NEW c \in Clis, NEW l \in {"ensure", "list", "stop", "check"},
         NEW v \in Builds, Begin(c, l, v), UNCHANGED <<pidFile, daemon>>,
         routes' \subseteq Projects, calm' \in BOOLEAN
  PROVE  TypeOK' /\ Spawned'
<1>1. Becomes(c, [pc |-> l, ver |-> v, pid |-> 0, stops |-> "asked"])
  BY BeginMoves DEF Labels
<1>2. alone' \in BOOLEAN
  BY DEF Begin, TypeOK
<1>3. TypeOK'
  BY <1>1, <1>2 DEF TypeOK, Becomes
<1>4. Spawned'
  BY <1>1 DEF Spawned, Becomes
<1> QED
  BY <1>3, <1>4

\* What each step makes of its command.
LEMMA StepMoves ==
  ASSUME TypeOK, Spawned, NEW c \in Clis
  PROVE  /\ StopIfEmpty(c) => Becomes(c, At(c, "stop")) \/ Becomes(c, IdleCli)
         /\ StatusCheck(c) =>
              IF IsRunning THEN Becomes(c, IdleCli) ELSE Becomes(c, At(c, "ensure"))
         /\ EnsureRunning(c) =>
              \/ IsRunning /\ Becomes(c, IdleCli)
              \/ Becomes(c, [pc |-> "stop", ver |-> cli[c].ver, pid |-> cli[c].pid, stops |-> "restart"])
              \/ ~IsRunning /\ Becomes(c, At(c, "clean"))
         /\ CleanPidFile(c) => Becomes(c, At(c, "spawn"))
         /\ SpawnDaemon(c) =>
              Becomes(c, [pc |-> "truncate", ver |-> cli[c].ver, pid |-> Len(daemon'),
                          stops |-> cli[c].stops])
         /\ TruncatePidFile(c) => Becomes(c, At(c, "write"))
         /\ StartFails(c) \/ WritePidFile(c) \/ WritePidFails(c) => Becomes(c, IdleCli)
         /\ StopDaemon(c) =>
              IF IsRunning
                THEN Becomes(c, [pc |-> "term", ver |-> cli[c].ver, pid |-> pidFile.pid,
                                 stops |-> cli[c].stops])
                ELSE StopOver(c) \/ Becomes(c, At(c, "unlink"))
         /\ Terminate(c) => Becomes(c, At(c, "poll"))
         /\ PollGone(c) \/ RemovePidFile(c) => StopOver(c)
         /\ StopTimeout(c) => Becomes(c, At(c, "unlink"))
<1>1. {"stop", "ensure", "clean", "spawn", "write", "unlink", "truncate", "poll", "term"}
        \subseteq Labels
  BY DEF Labels
<1>2. SpawnDaemon(c) => Len(daemon') \in Pids
  BY OneMore DEF SpawnDaemon
<1>3. IsRunning => pidFile.pid \in Pids
  BY DaemonsFunction DEF IsRunning, IsAlive
<1>4. StopIfEmpty(c) => Becomes(c, At(c, "stop")) \/ Becomes(c, IdleCli)
  BY <1>1, GotoMoves, FinishMoves DEF StopIfEmpty
<1>5. StatusCheck(c) =>
              IF IsRunning THEN Becomes(c, IdleCli) ELSE Becomes(c, At(c, "ensure"))
  BY <1>1, GotoMoves, FinishMoves DEF StatusCheck
<1>6. EnsureRunning(c) =>
              \/ IsRunning /\ Becomes(c, IdleCli)
              \/ Becomes(c, [pc |-> "stop", ver |-> cli[c].ver, pid |-> cli[c].pid, stops |-> "restart"])
              \/ ~IsRunning /\ Becomes(c, At(c, "clean"))
  BY <1>1, GotoMoves, FinishMoves, RestartMoves DEF EnsureRunning
<1>7. CleanPidFile(c) =>
              Becomes(c, At(c, "spawn"))
  BY <1>1, GotoMoves DEF CleanPidFile
<1>8. SpawnDaemon(c) =>
              Becomes(c, [pc |-> "truncate", ver |-> cli[c].ver, pid |-> Len(daemon'),
                          stops |-> cli[c].stops])
  BY <1>1, <1>2, InHandMoves DEF SpawnDaemon
<1>9. StartFails(c) =>
              Becomes(c, IdleCli)
  BY <1>1, FinishMoves DEF StartFails
<1>10. TruncatePidFile(c) =>
              Becomes(c, At(c, "write"))
  BY <1>1, GotoMoves DEF TruncatePidFile
<1>11. WritePidFile(c) =>
              Becomes(c, IdleCli)
  BY <1>1, FinishMoves DEF WritePidFile
<1>12. WritePidFails(c) =>
              Becomes(c, IdleCli)
  BY <1>1, FinishMoves DEF WritePidFails
<1>13. StopDaemon(c) =>
              IF IsRunning
                THEN Becomes(c, [pc |-> "term", ver |-> cli[c].ver, pid |-> pidFile.pid,
                                 stops |-> cli[c].stops])
                ELSE StopOver(c) \/ Becomes(c, At(c, "unlink"))
  BY <1>1, <1>3, InHandMoves, AfterStopMoves, GotoMoves DEF StopDaemon, IsRunning
<1>17. Terminate(c) => Becomes(c, At(c, "poll"))
  BY <1>1, GotoMoves DEF Terminate
<1>14. PollGone(c) =>
              StopOver(c)
  BY <1>1, AfterStopMoves DEF PollGone
<1>15. StopTimeout(c) =>
              Becomes(c, At(c, "unlink"))
  BY <1>1, GotoMoves DEF StopTimeout
<1>16. RemovePidFile(c) =>
              StopOver(c)
  BY <1>1, AfterStopMoves DEF RemovePidFile
<1> QED
  BY <1>4, <1>5, <1>6, <1>7, <1>8, <1>9, <1>10, <1>11, <1>12, <1>13, <1>14, <1>15, <1>16,
     <1>17

LEMMA AtFields ==
  ASSUME NEW c \in Clis, NEW l
  PROVE  /\ At(c, l).pc = l /\ At(c, l).ver = cli[c].ver
         /\ At(c, l).pid = cli[c].pid /\ At(c, l).stops = cli[c].stops
BY DEF At

InHand == {"truncate", "write", "term", "poll"}

LEMMA SpawnedKept ==
  ASSUME Spawned, NEW c \in Clis, NEW k, Becomes(c, k),
         k.pc \in InHand => k.pid \in DOMAIN daemon',
         pidFile' # NoFile => pidFile' = pidFile \/ pidFile'.pid \in DOMAIN daemon',
         DOMAIN daemon \subseteq DOMAIN daemon'
  PROVE  Spawned'
BY DEF Spawned, Becomes, InHand

LEMMA CliStepTyped ==
  ASSUME TypeOK, Spawned, NEW c \in Clis, CliStep(c)
  PROVE  TypeOK' /\ Spawned'
<1>0. /\ IdleCli.pc \notin InHand
      /\ NoFile \in PidFiles /\ \A p \in Pids, v \in Builds : [pid |-> p, ver |-> v] \in PidFiles
      /\ {"stop", "ensure", "clean", "spawn", "unlink"} \cap InHand = {}
  BY Kinds DEF InHand
<1>1. CASE StopIfEmpty(c)
  <2>1. Becomes(c, At(c, "stop")) \/ Becomes(c, IdleCli)
    BY <1>1, StepMoves
  <2>2. TypeOK'
    BY <1>0, <1>1, <2>1 DEF StopIfEmpty, TypeOK, Becomes
  <2>3. Spawned'
    BY <1>0, <1>1, <2>1, SpawnedKept, AtFields DEF StopIfEmpty
  <2> QED
    BY <2>2, <2>3
<1>2. CASE StatusCheck(c)
  <2>1. Becomes(c, At(c, "ensure")) \/ Becomes(c, IdleCli)
    BY <1>2, StepMoves
  <2>2. TypeOK'
    BY <1>0, <1>2, <2>1 DEF StatusCheck, TypeOK, Becomes
  <2>3. Spawned'
    BY <1>0, <1>2, <2>1, SpawnedKept, AtFields DEF StatusCheck
  <2> QED
    BY <2>2, <2>3
<1>3. CASE EnsureRunning(c)
  <2>1. Becomes(c, IdleCli) \/ Becomes(c, [pc |-> "stop", ver |-> cli[c].ver, pid |-> cli[c].pid,
                       stops |-> "restart"])
        \/ Becomes(c, At(c, "clean"))
    BY <1>3, StepMoves
  <2>2. TypeOK'
    BY <1>0, <1>3, <2>1 DEF EnsureRunning, TypeOK, Becomes
  <2>3. Spawned'
    BY <1>0, <1>3, <2>1, SpawnedKept, AtFields DEF EnsureRunning
  <2> QED
    BY <2>2, <2>3
<1>4. CASE CleanPidFile(c)
  <2>1. Becomes(c, At(c, "spawn"))
    BY <1>4, StepMoves
  <2>2. TypeOK'
    BY <1>0, <1>4, <2>1 DEF CleanPidFile, TypeOK, Becomes
  <2>3. Spawned'
    BY <1>0, <1>4, <2>1, SpawnedKept, AtFields DEF CleanPidFile
  <2> QED
    BY <2>2, <2>3
<1>5. CASE SpawnDaemon(c)
  <2>1. daemon' \in Seq(Daemon) /\ Len(daemon') <= MaxDaemons
        /\ DOMAIN daemon' = DOMAIN daemon \cup {Len(daemon')}
    BY <1>5, OneMore, DaemonsFunction DEF SpawnDaemon, Pids
  <2>2. Becomes(c, [pc |-> "truncate", ver |-> cli[c].ver, pid |-> Len(daemon'),
                    stops |-> cli[c].stops])
    BY <1>5, StepMoves
  <2>3. TypeOK'
    BY <1>5, <2>1, <2>2 DEF SpawnDaemon, TypeOK, Becomes
  <2>4. Spawned'
    BY <1>5, <2>1, <2>2, SpawnedKept DEF SpawnDaemon
  <2> QED
    BY <2>3, <2>4
<1>6. CASE StartFails(c)
  <2>1. Becomes(c, IdleCli)
    BY <1>6, StepMoves
  <2>2. TypeOK'
    BY <1>0, <1>6, <2>1 DEF StartFails, TypeOK, Becomes
  <2>3. Spawned'
    BY <1>0, <1>6, <2>1, SpawnedKept, AtFields DEF StartFails
  <2> QED
    BY <2>2, <2>3
<1>7. CASE TruncatePidFile(c)
  <2>1. Becomes(c, At(c, "write"))
    BY <1>7, StepMoves
  <2>2. TypeOK'
    BY <1>0, <1>7, <2>1 DEF TruncatePidFile, TypeOK, Becomes
  <2>3. Spawned'
    BY <1>0, <1>7, <2>1, SpawnedKept, AtFields DEF TruncatePidFile, Spawned
  <2> QED
    BY <2>2, <2>3
<1>8. CASE WritePidFile(c)
  <2>1. cli[c].pid \in DOMAIN daemon /\ cli[c].pid \in Pids /\ cli[c].ver \in Builds
    BY <1>8, DaemonsFunction, Kinds DEF WritePidFile, Spawned, TypeOK
  <2>2. Becomes(c, IdleCli)
    BY <1>8, StepMoves
  <2>3. TypeOK'
    BY <1>0, <1>8, <2>1, <2>2 DEF WritePidFile, TypeOK, Becomes
  <2>4. Spawned'
    BY <1>0, <1>8, <2>1, <2>2, SpawnedKept DEF WritePidFile
  <2> QED
    BY <2>3, <2>4
<1>9. CASE WritePidFails(c)
  <2>1. cli[c].pid \in DOMAIN daemon
    BY <1>9 DEF WritePidFails, Spawned
  <2>2. [daemon[cli[c].pid] EXCEPT !.asked = IsAlive(cli[c].pid)] \in Daemon
    BY <2>1, DaemonsFunction DEF Daemon, IsAlive
  <2>3. daemon' \in Seq(Daemon) /\ Len(daemon') = Len(daemon) /\ DOMAIN daemon' = DOMAIN daemon
    BY <1>9, <2>1, <2>2, OneChanges DEF WritePidFails
  <2>4. Becomes(c, IdleCli)
    BY <1>9, StepMoves
  <2>5. TypeOK'
    BY <1>9, <2>3, <2>4 DEF WritePidFails, TypeOK, Becomes
  <2>6. Spawned'
    BY <1>0, <1>9, <2>1, <2>3, <2>4, SpawnedKept, AtFields DEF WritePidFails
  <2> QED
    BY <2>5, <2>6
<1>10. CASE StopDaemon(c)
  <2>1. CASE IsRunning
    <3>1. pidFile.pid \in DOMAIN daemon
      BY <2>1 DEF IsRunning, IsAlive
    <3>2. Becomes(c, [pc |-> "term", ver |-> cli[c].ver, pid |-> pidFile.pid,
                      stops |-> cli[c].stops])
      BY <1>10, <2>1, StepMoves
    <3>3. TypeOK'
      BY <1>10, <3>2 DEF StopDaemon, TypeOK, Becomes
    <3>4. Spawned'
      BY <1>10, <3>1, <3>2, SpawnedKept DEF StopDaemon
    <3> QED
      BY <3>3, <3>4
  <2>2. CASE ~IsRunning
    <3>1. UNCHANGED <<routes, pidFile, daemon, alone, calm>>
      BY <1>10 DEF StopDaemon
    <3>2. CASE StopOver(c)
      <4>1. Becomes(c, IdleCli) \/ Becomes(c, At(c, "clean"))
        BY <3>2 DEF StopOver
      <4>2. TypeOK'
        BY <3>1, <4>1 DEF TypeOK, Becomes
      <4>3. Spawned'
        BY <1>0, <3>1, <4>1, SpawnedKept, AtFields
      <4> QED
        BY <4>2, <4>3
    <3>3. CASE Becomes(c, At(c, "unlink"))
      <4>1. TypeOK'
        BY <3>1, <3>3 DEF TypeOK, Becomes
      <4>2. Spawned'
        BY <1>0, <3>1, <3>3, SpawnedKept, AtFields
      <4> QED
        BY <4>1, <4>2
    <3> QED
      BY <1>10, <2>2, <3>2, <3>3, StepMoves
  <2> QED
    BY <2>1, <2>2
<1>11. CASE PollGone(c)
  <2>1. Becomes(c, IdleCli) \/ Becomes(c, At(c, "clean"))
    BY <1>11, StepMoves DEF StopOver
  <2>2. TypeOK'
    BY <1>0, <1>11, <2>1 DEF PollGone, TypeOK, Becomes
  <2>3. Spawned'
    BY <1>0, <1>11, <2>1, SpawnedKept, AtFields DEF PollGone
  <2> QED
    BY <2>2, <2>3
<1>12. CASE StopTimeout(c)
  <2>1. cli[c].pid \in DOMAIN daemon
    BY <1>12 DEF StopTimeout, Spawned
  <2>2. Dead \in Daemon
    BY Kinds
  <2>3. daemon' \in Seq(Daemon) /\ Len(daemon') = Len(daemon) /\ DOMAIN daemon' = DOMAIN daemon
    BY <1>12, <2>1, <2>2, OneChanges DEF StopTimeout
  <2>4. Becomes(c, At(c, "unlink"))
    BY <1>12, StepMoves
  <2>5. TypeOK'
    BY <1>12, <2>3, <2>4 DEF StopTimeout, TypeOK, Becomes
  <2>6. Spawned'
    BY <1>0, <1>12, <2>1, <2>3, <2>4, SpawnedKept, AtFields DEF StopTimeout
  <2> QED
    BY <2>5, <2>6
<1>13. CASE RemovePidFile(c)
  <2>1. Becomes(c, IdleCli) \/ Becomes(c, At(c, "clean"))
    BY <1>13, StepMoves DEF StopOver
  <2>2. TypeOK'
    BY <1>0, <1>13, <2>1 DEF RemovePidFile, TypeOK, Becomes
  <2>3. Spawned'
    BY <1>0, <1>13, <2>1, SpawnedKept, AtFields DEF RemovePidFile
  <2> QED
    BY <2>2, <2>3
<1>14. CASE Terminate(c)
  <2>1. cli[c].pid \in DOMAIN daemon
    BY <1>14 DEF Terminate, Spawned
  <2>2. [daemon[cli[c].pid] EXCEPT !.asked = IsAlive(cli[c].pid)] \in Daemon
    BY <2>1, DaemonsFunction DEF Daemon, IsAlive
  <2>3. daemon' \in Seq(Daemon) /\ Len(daemon') = Len(daemon) /\ DOMAIN daemon' = DOMAIN daemon
    BY <1>14, <2>1, <2>2, OneChanges DEF Terminate
  <2>4. Becomes(c, At(c, "poll"))
    BY <1>14, StepMoves
  <2>5. TypeOK'
    BY <1>14, <2>3, <2>4 DEF Terminate, TypeOK, Becomes
  <2>6. Spawned'
    BY <1>14, <2>1, <2>3, <2>4, SpawnedKept, AtFields DEF Terminate, Spawned
  <2> QED
    BY <2>5, <2>6
<1> QED
  BY <1>1, <1>2, <1>3, <1>4, <1>5, <1>6, <1>7, <1>8, <1>9, <1>10, <1>11, <1>12, <1>13,
     <1>14 DEF CliStep

\* A daemon's own step: it comes to serve or to its end.
LEMMA DaemonStep ==
  ASSUME TypeOK, NEW d \in DOMAIN daemon, Bind(d) \/ ShutDown(d) \/ DaemonDies(d)
  PROVE  /\ daemon' \in Seq(Daemon) /\ Len(daemon') = Len(daemon)
         /\ DOMAIN daemon' = DOMAIN daemon
         /\ \A j \in DOMAIN daemon : j # d => daemon'[j] = daemon[j]
         /\ \/ daemon'[d] = Dead
            \/ /\ ~PortTaken /\ daemon[d].state = "starting"
               /\ daemon'[d] = [daemon[d] EXCEPT !.state = "serving"]
<1>1. CASE Bind(d)
  <2> DEFINE e == IF PortTaken THEN Dead ELSE [daemon[d] EXCEPT !.state = "serving"]
  <2>1. e \in Daemon
    BY DaemonsFunction, Kinds
  <2>2. daemon' = [daemon EXCEPT ![d] = e] /\ daemon[d].state = "starting"
    BY <1>1 DEF Bind
  <2>3. e = Dead \/ (~PortTaken /\ e = [daemon[d] EXCEPT !.state = "serving"])
    OBVIOUS
  <2> HIDE DEF e
  <2>4. QED
    BY <2>1, <2>2, <2>3, OneChanges
<1>2. CASE ShutDown(d) \/ DaemonDies(d)
  BY <1>2, Kinds, OneChanges DEF ShutDown, DaemonDies
<1> QED
  BY <1>1, <1>2

LEMMA NextTyped ==
  ASSUME TypeOK, Spawned, [Next]_vars
  PROVE  TypeOK' /\ Spawned'
<1>1. ASSUME NEW c \in Clis, NEW j \in Projects, RemoveRoute(c, j)
      PROVE  TypeOK' /\ Spawned'
  <2>1. routes' \subseteq Projects /\ calm' \in BOOLEAN /\ UNCHANGED <<pidFile, daemon>>
    BY <1>1 DEF RemoveRoute, TypeOK
  <2>2. CASE routes' = {}
    BY <1>1, <2>1, <2>2, BeginTyped DEF RemoveRoute, Builds
  <2>3. CASE routes' # {}
    BY <1>1, <2>1, <2>3 DEF RemoveRoute, TypeOK, Spawned
  <2> QED
    BY <2>2, <2>3
<1>2. ASSUME NEW c \in Clis, NEW j \in Projects, NEW v \in Builds, RegisterRoute(c, j, v)
      PROVE  TypeOK' /\ Spawned'
  <2>1. routes' \subseteq Projects /\ calm' \in BOOLEAN /\ UNCHANGED <<pidFile, daemon>>
    BY <1>2 DEF RegisterRoute, TypeOK
  <2> QED
    BY <1>2, <2>1, BeginTyped DEF RegisterRoute
<1>3. ASSUME NEW c \in Clis, ProxyStop(c) \/ \E v \in Builds : ProxyStatus(c, v)
      PROVE  TypeOK' /\ Spawned'
  <2>1. routes' \subseteq Projects /\ calm' \in BOOLEAN /\ UNCHANGED <<pidFile, daemon>>
    BY <1>3 DEF ProxyStop, ProxyStatus, TypeOK
  <2> QED
    BY <1>3, <2>1, BeginTyped DEF ProxyStop, ProxyStatus, Builds
<1>4. ASSUME NEW c \in Clis, CliKilled(c)
      PROVE  TypeOK' /\ Spawned'
  <2>1. Becomes(c, IdleCli) /\ IdleCli.pc = "idle"
    BY <1>4, FinishMoves, Kinds DEF CliKilled
  <2>2. TypeOK'
    BY <1>4, <2>1 DEF CliKilled, Becomes, TypeOK
  <2>3. Spawned'
    BY <1>4, <2>1 DEF CliKilled, Becomes, Spawned
  <2> QED
    BY <2>2, <2>3
<1>5. ASSUME NEW d \in DOMAIN daemon, Bind(d) \/ ShutDown(d) \/ DaemonDies(d)
      PROVE  TypeOK' /\ Spawned'
  <2>1. UNCHANGED <<routes, pidFile, cli, alone>> /\ calm' \in BOOLEAN
    BY <1>5 DEF Bind, ShutDown, DaemonDies, TypeOK
  <2>2. daemon' \in Seq(Daemon) /\ Len(daemon') = Len(daemon) /\ DOMAIN daemon' = DOMAIN daemon
    BY <1>5, DaemonStep
  <2>3. TypeOK'
    BY <2>1, <2>2 DEF TypeOK
  <2>4. Spawned'
    BY <2>1, <2>2 DEF Spawned
  <2> QED
    BY <2>3, <2>4
<1>6. CASE UNCHANGED vars
  BY <1>6 DEF vars, TypeOK, Spawned
<1> QED
  BY <1>1, <1>2, <1>3, <1>4, <1>5, <1>6, CliStepTyped DEF Next

\* Every variable keeps its type, and the PID file and the commands name daemons
\* that were spawned (SpawnDaemon, WritePidFile).
THEOREM Typed == Spec => [](TypeOK /\ Spawned)
<1>1. TypeOK /\ Spawned /\ [Next]_vars => TypeOK' /\ Spawned'
  BY NextTyped
<1> QED
  BY InitTyped, <1>1, PTL DEF Spec

-----------------------------------------------------------------------------
(* Commands run one at a time lose no daemon.                              *)

LEMMA FindsIt ==
  ASSUME NEW k, NEW f, NEW d
  PROVE  /\ k.pc \in {"truncate", "write", "term"} => (Finds(k, f, d) <=> d = k.pid)
         /\ k.pc \in {"poll", "unlink", "clean", "spawn"} => ~Finds(k, f, d)
         /\ k.pc \in {"idle", "list", "check", "ensure", "stop"} =>
              (Finds(k, f, d) <=> f # NoFile /\ f.pid = d)
BY DEF Finds

\* A command that runs, runs by itself; one that begins finds all in order.
LEMMA ByItself ==
  ASSUME Orderly, alone, NEW c \in Clis
  PROVE  /\ cli[c].pc # "idle" =>
              /\ \A o \in Clis : o # c => cli[o].pc = "idle"
              /\ InOrder(cli[c])
         /\ Settled => InOrder(IdleCli)
BY DEF Orderly

\* One command moves and all is in order for it.
LEMMA OrderKept ==
  ASSUME NEW c \in Clis, NEW k, Becomes(c, k),
         alone' => /\ \A o \in Clis : o # c => cli[o].pc = "idle"
                   /\ \A d \in DOMAIN daemon' : Stays(daemon'[d]) => Finds(k, pidFile', d)
  PROVE  Orderly'
<1> SUFFICES ASSUME alone'
             PROVE  /\ \A a, o \in Clis : cli'[a].pc # "idle" /\ cli'[o].pc # "idle" => a = o
                    /\ \A a \in Clis : cli'[a].pc # "idle" =>
                          \A d \in DOMAIN daemon' : Stays(daemon'[d]) => Finds(cli'[a], pidFile', d)
                    /\ (\A a \in Clis : cli'[a].pc = "idle") =>
                          \A d \in DOMAIN daemon' : Stays(daemon'[d]) => Finds(IdleCli, pidFile', d)
  BY DEF Orderly, InOrder, Settled
<1>1. cli'[c] = k /\ \A o \in Clis : o # c => cli'[o].pc = "idle"
  BY DEF Becomes
<1>2. k.pc = "idle" => \A d : Finds(k, pidFile', d) <=> Finds(IdleCli, pidFile', d)
  BY FindsIt, Kinds
<1> QED
  BY <1>1, <1>2

LEMMA CliStepOrderly ==
  ASSUME TypeOK, Spawned, Orderly, NEW c \in Clis, CliStep(c)
  PROVE  Orderly'
<1>1. alone' = alone /\ cli[c].pc # "idle"
  BY DEF CliStep, StopIfEmpty, StatusCheck, EnsureRunning, CleanPidFile, SpawnDaemon,
         StartFails, TruncatePidFile, WritePidFile, WritePidFails, StopDaemon, Terminate,
         PollGone, StopTimeout, RemovePidFile
<1>2. alone' => /\ \A o \in Clis : o # c => cli[o].pc = "idle"
                /\ \A d \in DOMAIN daemon : Stays(daemon[d]) => Finds(cli[c], pidFile, d)
  BY <1>1, ByItself DEF InOrder
<1>3. CASE StopIfEmpty(c)
  <2>1. Becomes(c, At(c, "stop")) \/ Becomes(c, IdleCli)
    BY <1>3, StepMoves
  <2> QED
    BY <1>2, <1>3, <2>1, OrderKept, FindsIt, AtFields, Kinds DEF StopIfEmpty
<1>4. CASE StatusCheck(c)
  <2>1. Becomes(c, At(c, "ensure")) \/ Becomes(c, IdleCli)
    BY <1>4, StepMoves
  <2> QED
    BY <1>2, <1>4, <2>1, OrderKept, FindsIt, AtFields, Kinds DEF StatusCheck
<1>5. CASE EnsureRunning(c)
  <2>1. (IsRunning /\ Becomes(c, IdleCli)) \/ Becomes(c, [pc |-> "stop", ver |-> cli[c].ver, pid |-> cli[c].pid,
                       stops |-> "restart"])
        \/ (~IsRunning /\ Becomes(c, At(c, "clean")))
    BY <1>5, StepMoves
  <2>2. ~IsRunning => \A d \in DOMAIN daemon : Stays(daemon[d]) => ~(pidFile # NoFile /\ pidFile.pid = d)
    BY DEF IsRunning, IsAlive, Stays
  <2> QED
    BY <1>2, <1>5, <2>1, <2>2, OrderKept, FindsIt, AtFields, Kinds DEF EnsureRunning
<1>6. CASE CleanPidFile(c)
  <2>1. Becomes(c, At(c, "spawn"))
    BY <1>6, StepMoves
  <2> QED
    BY <1>2, <1>6, <2>1, OrderKept, FindsIt, AtFields, Kinds DEF CleanPidFile
<1>7. CASE SpawnDaemon(c)
  <2>1. Becomes(c, [pc |-> "truncate", ver |-> cli[c].ver, pid |-> Len(daemon'),
                    stops |-> cli[c].stops])
    BY <1>7, StepMoves
  <2>2. /\ DOMAIN daemon' = DOMAIN daemon \cup {Len(daemon')}
        /\ \A d \in DOMAIN daemon : daemon'[d] = daemon[d]
    BY <1>7, OneMore DEF SpawnDaemon
  <2> QED
    BY <1>2, <1>7, <2>1, <2>2, OrderKept, FindsIt DEF SpawnDaemon
<1>8. CASE StartFails(c)
  <2>1. Becomes(c, IdleCli)
    BY <1>8, StepMoves
  <2> QED
    BY <1>2, <1>8, <2>1, OrderKept, FindsIt, AtFields, Kinds DEF StartFails
<1>9. CASE TruncatePidFile(c)
  <2>1. Becomes(c, At(c, "write"))
    BY <1>9, StepMoves
  <2> QED
    BY <1>2, <1>9, <2>1, OrderKept, FindsIt, AtFields, Kinds DEF TruncatePidFile
<1>10. CASE WritePidFile(c)
  <2>1. Becomes(c, IdleCli)
    BY <1>10, StepMoves
  <2>2. pidFile' # NoFile /\ pidFile'.pid = cli[c].pid
    <3>1. cli[c].pid \in Nat /\ cli[c].ver \in Versions \cup {DevBuild}
      BY BoundAssumption, Kinds DEF TypeOK, Builds, Pids
    <3> QED
      BY <1>10, <3>1, NoFileAssumption DEF WritePidFile
  <2> QED
    BY <1>2, <1>10, <2>1, <2>2, OrderKept, FindsIt, Kinds DEF WritePidFile
<1>11. CASE WritePidFails(c)
  <2>1. Becomes(c, IdleCli)
    BY <1>11, StepMoves
  <2>2. cli[c].pid \in DOMAIN daemon
    BY <1>11 DEF WritePidFails, Spawned
  <2>3. [daemon[cli[c].pid] EXCEPT !.asked = IsAlive(cli[c].pid)] \in Daemon
        /\ ~Stays([daemon[cli[c].pid] EXCEPT !.asked = IsAlive(cli[c].pid)])
    BY <2>2, DaemonsFunction DEF Daemon, IsAlive, Stays
  <2>4. /\ DOMAIN daemon' = DOMAIN daemon
        /\ \A d \in DOMAIN daemon : Stays(daemon'[d]) => d # cli[c].pid /\ daemon'[d] = daemon[d]
    BY <1>11, <2>2, <2>3, OneChanges DEF WritePidFails
  <2> QED
    BY <1>2, <1>11, <2>1, <2>4, OrderKept, FindsIt, AtFields, Kinds DEF WritePidFails
<1>12. CASE StopDaemon(c)
  <2>1. (IsRunning /\ Becomes(c, [pc |-> "term", ver |-> cli[c].ver, pid |-> pidFile.pid,
                    stops |-> cli[c].stops]))
        \/ (~IsRunning /\ (\/ Becomes(c, IdleCli) \/ Becomes(c, At(c, "clean"))
                           \/ Becomes(c, At(c, "unlink"))))
    BY <1>12, StepMoves DEF StopOver
  <2>2. CASE IsRunning
    BY <1>2, <1>12, <2>1, <2>2, OrderKept, FindsIt DEF StopDaemon
  <2>3. CASE ~IsRunning
    <3>1. \A d \in DOMAIN daemon : Stays(daemon[d]) => ~(pidFile # NoFile /\ pidFile.pid = d)
      BY <2>3 DEF IsRunning, IsAlive, Stays
    <3> QED
      BY <1>2, <1>12, <2>1, <2>3, <3>1, OrderKept, FindsIt, AtFields, Kinds DEF StopDaemon
  <2> QED
    BY <2>2, <2>3
<1>13. CASE PollGone(c)
  <2>1. Becomes(c, IdleCli) \/ Becomes(c, At(c, "clean"))
    BY <1>13, StepMoves DEF StopOver
  <2> QED
    BY <1>2, <1>13, <2>1, OrderKept, FindsIt, AtFields, Kinds DEF PollGone
<1>14. CASE StopTimeout(c)
  <2>1. Becomes(c, At(c, "unlink"))
    BY <1>14, StepMoves
  <2>2. cli[c].pid \in DOMAIN daemon
    BY <1>14 DEF StopTimeout, Spawned
  <2>3. Dead \in Daemon
        /\ ~Stays(Dead)
    BY Kinds DEF Stays
  <2>4. /\ DOMAIN daemon' = DOMAIN daemon
        /\ \A d \in DOMAIN daemon : Stays(daemon'[d]) => d # cli[c].pid /\ daemon'[d] = daemon[d]
    BY <1>14, <2>2, <2>3, OneChanges DEF StopTimeout
  <2> QED
    BY <1>2, <1>14, <2>1, <2>4, OrderKept, FindsIt, AtFields, Kinds DEF StopTimeout
<1>15. CASE RemovePidFile(c)
  <2>1. Becomes(c, IdleCli) \/ Becomes(c, At(c, "clean"))
    BY <1>15, StepMoves DEF StopOver
  <2> QED
    BY <1>2, <1>15, <2>1, OrderKept, FindsIt, AtFields, Kinds DEF RemovePidFile
<1>16. CASE Terminate(c)
  <2>1. Becomes(c, At(c, "poll"))
    BY <1>16, StepMoves
  <2>2. cli[c].pid \in DOMAIN daemon
    BY <1>16 DEF Terminate, Spawned
  <2>3. [daemon[cli[c].pid] EXCEPT !.asked = IsAlive(cli[c].pid)] \in Daemon
        /\ ~Stays([daemon[cli[c].pid] EXCEPT !.asked = IsAlive(cli[c].pid)])
    BY <2>2, DaemonsFunction DEF Daemon, IsAlive, Stays
  <2>4. /\ DOMAIN daemon' = DOMAIN daemon
        /\ \A d \in DOMAIN daemon : Stays(daemon'[d]) => d # cli[c].pid /\ daemon'[d] = daemon[d]
    BY <1>16, <2>2, <2>3, OneChanges DEF Terminate
  <2> QED
    BY <1>2, <1>16, <2>1, <2>4, OrderKept, FindsIt, AtFields DEF Terminate
<1> QED
  BY <1>3, <1>4, <1>5, <1>6, <1>7, <1>8, <1>9, <1>10, <1>11, <1>12, <1>13, <1>14, <1>15,
     <1>16 DEF CliStep

LEMMA NextOrderly ==
  ASSUME TypeOK, Spawned, Orderly, [Next]_vars
  PROVE  Orderly'
<1>1. ASSUME NEW c \in Clis, NEW l \in {"ensure", "list", "stop", "check"}, NEW v \in Builds,
             Begin(c, l, v), UNCHANGED <<pidFile, daemon>>
      PROVE  Orderly'
  <2>1. Becomes(c, [pc |-> l, ver |-> v, pid |-> 0, stops |-> "asked"])
    BY <1>1, BeginMoves DEF Labels
  <2>2. alone' => alone /\ Settled
    BY <1>1 DEF Begin, Settled
  <2>3. alone' => \A d \in DOMAIN daemon : Stays(daemon[d]) => Finds(IdleCli, pidFile, d)
    BY <2>2, ByItself DEF InOrder
  <2> QED
    BY <1>1, <2>1, <2>2, <2>3, OrderKept, FindsIt, Kinds DEF Settled
<1>2. ASSUME NEW c \in Clis, NEW j \in Projects, RemoveRoute(c, j)
      PROVE  Orderly'
  <2>1. CASE routes' = {}
    BY <1>1, <1>2, <2>1 DEF RemoveRoute, Builds
  <2>2. CASE routes' # {}
    BY <1>2, <2>2 DEF RemoveRoute, Orderly, InOrder, Settled
  <2> QED
    BY <2>1, <2>2
<1>3. ASSUME NEW c \in Clis, NEW j \in Projects, NEW v \in Builds, RegisterRoute(c, j, v)
      PROVE  Orderly'
  BY <1>1, <1>3 DEF RegisterRoute
<1>4. ASSUME NEW c \in Clis, ProxyStop(c) \/ \E v \in Builds : ProxyStatus(c, v)
      PROVE  Orderly'
  BY <1>1, <1>4 DEF ProxyStop, ProxyStatus, Builds
<1>5. ASSUME NEW c \in Clis, CliKilled(c)
      PROVE  Orderly'
  BY <1>5 DEF CliKilled, Orderly
<1>6. ASSUME NEW d \in DOMAIN daemon, Bind(d) \/ ShutDown(d) \/ DaemonDies(d)
      PROVE  Orderly'
  <2>1. UNCHANGED <<pidFile, cli, alone>>
    BY <1>6 DEF Bind, ShutDown, DaemonDies
  <2>2. /\ DOMAIN daemon' = DOMAIN daemon
        /\ \A j \in DOMAIN daemon : Stays(daemon'[j]) => Stays(daemon[j])
    <3>1. ~Stays(Dead)
      BY Kinds DEF Stays
    <3>2. daemon[d].state = "starting"
          /\ Stays([daemon[d] EXCEPT !.state = "serving"]) => Stays(daemon[d])
      BY DaemonsFunction DEF Stays, Daemon
    <3> QED
      BY <1>6, <3>1, <3>2, DaemonStep
  <2> QED
    BY <2>1, <2>2 DEF Orderly, InOrder, Settled
<1>7. CASE UNCHANGED vars
  BY <1>7 DEF vars, Orderly, InOrder, Settled
<1> QED
  BY <1>2, <1>3, <1>4, <1>5, <1>6, <1>7, CliStepOrderly DEF Next

LEMMA OrderlyAlways == Spec => []Orderly
<1>1. Init => Orderly
  BY Kinds DEF Init, Orderly, InOrder, Settled
<1>2. TypeOK /\ Spawned /\ Orderly /\ [Next]_vars => Orderly'
  BY NextOrderly
<1> QED
  BY <1>1, <1>2, Typed, PTL DEF Spec

\* TrackedWhenAlone: as long as commands run one at a time and to their end, the PID
\* file names every daemon that is up to stay (EnsureRunning, StartDaemon, StopDaemon).
THEOREM NoneLost == Spec => []TrackedWhenAlone
<1>1. Orderly => TrackedWhenAlone
  BY FindsIt, Kinds DEF Orderly, TrackedWhenAlone, InOrder, Staying, Stays
<1> QED
  BY <1>1, OrderlyAlways, PTL

-----------------------------------------------------------------------------
(* Starts that race leave a daemon up.                                     *)

\* A daemon that is asked to go and is not gone keeps the command that waits for it.
LEMMA AwaitedKept ==
  ASSUME AskedIsAwaited, NEW c \in Clis, NEW k, Becomes(c, k),
         \A d \in DOMAIN daemon' : daemon'[d].state # "dead" /\ daemon'[d].asked =>
           \/ k.pc = "poll" /\ k.pid = d
           \/ /\ d \in DOMAIN daemon /\ daemon[d].state # "dead" /\ daemon[d].asked
              /\ ~(cli[c].pc = "poll" /\ cli[c].pid = d)
  PROVE  AskedIsAwaited'
<1> SUFFICES ASSUME NEW d \in DOMAIN daemon', daemon'[d].state # "dead", daemon'[d].asked
             PROVE  \E o \in Clis : cli'[o].pc = "poll" /\ cli'[o].pid = d
  BY DEF AskedIsAwaited
<1>1. CASE k.pc = "poll" /\ k.pid = d
  BY <1>1 DEF Becomes
<1>2. CASE ~(k.pc = "poll" /\ k.pid = d)
  <2>1. d \in DOMAIN daemon /\ daemon[d].state # "dead" /\ daemon[d].asked
        /\ ~(cli[c].pc = "poll" /\ cli[c].pid = d)
    BY <1>2
  <2>2. PICK o \in Clis : cli[o].pc = "poll" /\ cli[o].pid = d
    BY <2>1 DEF AskedIsAwaited
  <2>3. o # c
    BY <2>1, <2>2
  <2> QED
    BY <2>2, <2>3 DEF Becomes
<1> QED
  BY <1>1, <1>2

\* There is a daemon to stay still, or c is about to start one, or c neither was nor is.
LEMMA ServedKept ==
  ASSUME ServedOrComing, NEW c \in Clis, NEW k, Becomes(c, k),
         \/ k.pc \in Committed
         \/ \E d \in DOMAIN daemon' : Stays(daemon'[d])
         \/ \E o \in Clis : o # c /\ cli[o].pc \in Committed
         \/ /\ routes' \subseteq routes /\ cli[c].pc \notin Committed
            /\ \A d \in DOMAIN daemon : Stays(daemon[d]) => d \in DOMAIN daemon' /\ Stays(daemon'[d])
  PROVE  ServedOrComing'
BY DEF ServedOrComing, Becomes

LEMMA RestartsKept ==
  ASSUME \A o \in Clis : OnlyRestarts(cli[o]), NEW c \in Clis, NEW k, Becomes(c, k), OnlyRestarts(k)
  PROVE  \A o \in Clis : OnlyRestarts(cli'[o])
BY DEF Becomes

\* What the PID file names and lives is up to stay, or a command waits for its end.
LEMMA FoundOrAwaited ==
  ASSUME TypeOK, AskedIsAwaited, NEW d \in DOMAIN daemon, daemon[d].state # "dead"
  PROVE  Stays(daemon[d]) \/ \E o \in Clis : cli[o].pc = "poll" /\ cli[o].pid = d
BY DaemonsFunction DEF AskedIsAwaited, Stays

LEMMA CliStepRacing ==
  ASSUME TypeOK, Spawned, calm, calm', NEW c \in Clis, CliStep(c),
         \A o \in Clis : OnlyRestarts(cli[o]), AskedIsAwaited, ServedOrComing
  PROVE  (\A o \in Clis : OnlyRestarts(cli'[o])) /\ AskedIsAwaited' /\ ServedOrComing'
<1>0. OnlyRestarts(cli[c]) /\ OnlyRestarts(IdleCli) /\ IdleCli.pc # "poll"
  BY Kinds DEF OnlyRestarts
<1>1. CASE StopIfEmpty(c)
  BY <1>0, <1>1 DEF StopIfEmpty, OnlyRestarts
<1>2. CASE StatusCheck(c)
  <2>1. Becomes(c, At(c, "ensure")) \/ Becomes(c, IdleCli)
    BY <1>2, StepMoves
  <2>2. UNCHANGED <<routes, daemon>> /\ cli[c].pc = "check"
    BY <1>2 DEF StatusCheck
  <2>3. \A o \in Clis : OnlyRestarts(cli'[o])
    BY <1>0, <2>1, RestartsKept, AtFields DEF OnlyRestarts
  <2>4. AskedIsAwaited'
    BY <1>0, <2>1, <2>2, AwaitedKept, AtFields
  <2>5. ServedOrComing'
    BY <2>1, <2>2, ServedKept, AtFields DEF Committed
  <2> QED
    BY <2>3, <2>4, <2>5
<1>3. CASE EnsureRunning(c)
  <2>1. (IsRunning /\ Becomes(c, IdleCli)) \/ Becomes(c, [pc |-> "stop", ver |-> cli[c].ver, pid |-> cli[c].pid,
                       stops |-> "restart"])
        \/ (~IsRunning /\ Becomes(c, At(c, "clean")))
    BY <1>3, StepMoves
  <2>2. UNCHANGED <<routes, daemon>> /\ cli[c].pc = "ensure"
    BY <1>3 DEF EnsureRunning
  <2>3. \A o \in Clis : OnlyRestarts(cli'[o])
    BY <1>0, <2>1, RestartsKept, AtFields DEF OnlyRestarts
  <2>4. AskedIsAwaited'
    BY <1>0, <2>1, <2>2, AwaitedKept, AtFields
  <2>5. IsRunning => \/ \E d \in DOMAIN daemon : Stays(daemon[d])
                     \/ \E o \in Clis : o # c /\ cli[o].pc \in Committed
    BY <2>2, FoundOrAwaited DEF IsRunning, IsAlive, Committed
  <2>6. ServedOrComing'
    BY <2>1, <2>2, <2>5, ServedKept, AtFields DEF Committed
  <2> QED
    BY <2>3, <2>4, <2>6
<1>4. CASE CleanPidFile(c)
  <2>1. Becomes(c, At(c, "spawn"))
    BY <1>4, StepMoves
  <2>2. UNCHANGED <<routes, daemon>> /\ cli[c].pc = "clean"
    BY <1>4 DEF CleanPidFile
  <2>3. \A o \in Clis : OnlyRestarts(cli'[o])
    BY <1>0, <2>1, RestartsKept, AtFields DEF OnlyRestarts
  <2>4. AskedIsAwaited'
    BY <2>1, <2>2, AwaitedKept, AtFields
  <2>5. ServedOrComing'
    BY <2>1, ServedKept, AtFields DEF Committed
  <2> QED
    BY <2>3, <2>4, <2>5
<1>5. CASE SpawnDaemon(c)
  <2>1. Becomes(c, [pc |-> "truncate", ver |-> cli[c].ver, pid |-> Len(daemon'),
                    stops |-> cli[c].stops])
    BY <1>5, StepMoves
  <2>2. /\ DOMAIN daemon' = DOMAIN daemon \cup {Len(daemon')}
        /\ \A d \in DOMAIN daemon : daemon'[d] = daemon[d]
        /\ daemon'[Len(daemon')] = [state |-> "starting", asked |-> FALSE]
    BY <1>5, OneMore DEF SpawnDaemon
  <2>3. cli[c].pc = "spawn"
    BY <1>5 DEF SpawnDaemon
  <2>4. \A o \in Clis : OnlyRestarts(cli'[o])
    BY <2>1, RestartsKept DEF OnlyRestarts
  <2>5. /\ Stays(daemon'[Len(daemon')])
        /\ \A d \in DOMAIN daemon' : daemon'[d].asked => d \in DOMAIN daemon /\ daemon'[d] = daemon[d]
    <3> DEFINE e == [state |-> "starting", asked |-> FALSE]
    <3>1. e.state # "dead" /\ ~e.asked
      BY Zenon
    <3>2. daemon'[Len(daemon')] = e
      BY <2>2
    <3> HIDE DEF e
    <3> QED
      BY <2>2, <3>1, <3>2 DEF Stays
  <2>6. AskedIsAwaited'
    BY <2>1, <2>3, <2>5, AwaitedKept
  <2>7. ServedOrComing'
    BY <2>1, <2>2, <2>5, ServedKept
  <2> QED
    BY <2>4, <2>6, <2>7
<1>6. CASE StartFails(c)
  BY <1>6 DEF StartFails
<1>7. CASE TruncatePidFile(c)
  <2>1. Becomes(c, At(c, "write"))
    BY <1>7, StepMoves
  <2>2. UNCHANGED <<routes, daemon>> /\ cli[c].pc = "truncate"
    BY <1>7 DEF TruncatePidFile
  <2>3. \A o \in Clis : OnlyRestarts(cli'[o])
    BY <1>0, <2>1, RestartsKept, AtFields DEF OnlyRestarts
  <2>4. AskedIsAwaited'
    BY <1>0, <2>1, <2>2, AwaitedKept, AtFields
  <2>5. ServedOrComing'
    BY <2>1, <2>2, ServedKept DEF Committed
  <2> QED
    BY <2>3, <2>4, <2>5
<1>8. CASE WritePidFile(c)
  <2>1. Becomes(c, IdleCli)
    BY <1>8, StepMoves
  <2>2. UNCHANGED <<routes, daemon>> /\ cli[c].pc = "write"
    BY <1>8 DEF WritePidFile
  <2>3. \A o \in Clis : OnlyRestarts(cli'[o])
    BY <1>0, <2>1, RestartsKept, AtFields DEF OnlyRestarts
  <2>4. AskedIsAwaited'
    BY <1>0, <2>1, <2>2, AwaitedKept, AtFields
  <2>5. ServedOrComing'
    BY <2>1, <2>2, ServedKept DEF Committed
  <2> QED
    BY <2>3, <2>4, <2>5
<1>9. CASE WritePidFails(c)
  BY <1>9 DEF WritePidFails
<1>10. CASE StopDaemon(c)
  <2>1. cli[c].pc = "stop" /\ cli[c].stops = "restart"
    BY <1>0, <1>10 DEF StopDaemon, OnlyRestarts
  <2>2. CASE IsRunning
    <3>1. /\ UNCHANGED daemon
          /\ Becomes(c, [pc |-> "term", ver |-> cli[c].ver, pid |-> pidFile.pid, stops |-> "restart"])
      BY <1>10, <2>1, <2>2, StepMoves DEF StopDaemon
    <3>2. \A o \in Clis : OnlyRestarts(cli'[o])
      BY <3>1, RestartsKept DEF OnlyRestarts
    <3>3. AskedIsAwaited'
      BY <2>1, <3>1, AwaitedKept
    <3>4. ServedOrComing'
      BY <3>1, ServedKept DEF Committed
    <3> QED
      BY <3>2, <3>3, <3>4
  <2>3. CASE ~IsRunning
    <3>1. (Becomes(c, At(c, "clean")) \/ Becomes(c, At(c, "unlink"))) /\ UNCHANGED daemon
      BY <1>10, <2>1, <2>3, StepMoves DEF StopOver, StopDaemon
    <3>2. \A o \in Clis : OnlyRestarts(cli'[o])
      BY <2>1, <3>1, RestartsKept, AtFields DEF OnlyRestarts
    <3>3. AskedIsAwaited'
      BY <2>1, <3>1, AwaitedKept, AtFields
    <3>4. ServedOrComing'
      BY <3>1, ServedKept, AtFields DEF Committed
    <3> QED
      BY <3>2, <3>3, <3>4
  <2> QED
    BY <2>2, <2>3
<1>11. CASE PollGone(c)
  <2>1. Becomes(c, At(c, "clean"))
    BY <1>0, <1>11, StepMoves DEF StopOver, OnlyRestarts, PollGone
  <2>2. UNCHANGED <<routes, daemon>> /\ ~IsAlive(cli[c].pid)
    BY <1>11 DEF PollGone
  <2>3. \A d \in DOMAIN daemon : daemon[d].state # "dead" => d # cli[c].pid
    BY <2>2 DEF IsAlive
  <2>4. \A o \in Clis : OnlyRestarts(cli'[o])
    BY <1>0, <2>1, RestartsKept, AtFields DEF OnlyRestarts
  <2>5. AskedIsAwaited'
    BY <2>1, <2>2, <2>3, AwaitedKept, AtFields
  <2>6. ServedOrComing'
    BY <2>1, ServedKept, AtFields DEF Committed
  <2> QED
    BY <2>4, <2>5, <2>6
<1>12. CASE StopTimeout(c)
  <2>1. Becomes(c, At(c, "unlink"))
    BY <1>12, StepMoves
  <2>2. cli[c].pid \in DOMAIN daemon /\ cli[c].pc = "poll"
    BY <1>12 DEF StopTimeout, Spawned
  <2>3. /\ DOMAIN daemon' = DOMAIN daemon
        /\ \A d \in DOMAIN daemon : daemon'[d].state # "dead" => d # cli[c].pid /\ daemon'[d] = daemon[d]
    BY <1>12, <2>2, Kinds, OneChanges DEF StopTimeout
  <2>4. \A o \in Clis : OnlyRestarts(cli'[o])
    BY <1>0, <2>1, <2>2, RestartsKept, AtFields DEF OnlyRestarts
  <2>5. AskedIsAwaited'
    BY <2>1, <2>3, AwaitedKept, AtFields
  <2>6. ServedOrComing'
    BY <2>1, ServedKept, AtFields DEF Committed
  <2> QED
    BY <2>4, <2>5, <2>6
<1>14. CASE Terminate(c)
  <2>1. Becomes(c, At(c, "poll"))
    BY <1>14, StepMoves
  <2>2. cli[c].pid \in DOMAIN daemon /\ cli[c].pc = "term"
    BY <1>14 DEF Terminate, Spawned
  <2>3. [daemon[cli[c].pid] EXCEPT !.asked = IsAlive(cli[c].pid)] \in Daemon
    BY <2>2, DaemonsFunction DEF Daemon, IsAlive
  <2>4. /\ DOMAIN daemon' = DOMAIN daemon
        /\ \A d \in DOMAIN daemon : d # cli[c].pid => daemon'[d] = daemon[d]
    BY <1>14, <2>2, <2>3, OneChanges DEF Terminate
  <2>5. \A o \in Clis : OnlyRestarts(cli'[o])
    BY <1>0, <2>1, <2>2, RestartsKept, AtFields DEF OnlyRestarts
  <2>6. AskedIsAwaited'
    BY <2>1, <2>2, <2>4, AwaitedKept, AtFields
  <2>7. ServedOrComing'
    BY <2>1, ServedKept, AtFields DEF Committed
  <2> QED
    BY <2>5, <2>6, <2>7
<1>13. CASE RemovePidFile(c)
  <2>1. Becomes(c, At(c, "clean"))
    BY <1>0, <1>13, StepMoves DEF StopOver, OnlyRestarts, RemovePidFile
  <2>2. UNCHANGED <<routes, daemon>> /\ cli[c].pc = "unlink"
    BY <1>13 DEF RemovePidFile
  <2>3. \A o \in Clis : OnlyRestarts(cli'[o])
    BY <1>0, <2>1, RestartsKept, AtFields DEF OnlyRestarts
  <2>4. AskedIsAwaited'
    BY <2>1, <2>2, AwaitedKept, AtFields
  <2>5. ServedOrComing'
    BY <2>1, ServedKept, AtFields DEF Committed
  <2> QED
    BY <2>3, <2>4, <2>5
<1> QED
  BY <1>1, <1>2, <1>3, <1>4, <1>5, <1>6, <1>7, <1>8, <1>9, <1>10, <1>11, <1>12, <1>13,
     <1>14 DEF CliStep

\* A daemon that loses the port loses it to one that is up, or is being replaced.
LEMMA DaemonStepRacing ==
  ASSUME TypeOK, calm', NEW d \in DOMAIN daemon, Bind(d) \/ ShutDown(d),
         AskedIsAwaited, ServedOrComing
  PROVE  AskedIsAwaited' /\ ServedOrComing'
<1>1. UNCHANGED <<routes, cli>>
  BY DEF Bind, ShutDown
<1>2. /\ DOMAIN daemon' = DOMAIN daemon
      /\ \A j \in DOMAIN daemon : j # d => daemon'[j] = daemon[j]
      /\ \/ daemon'[d] = Dead
         \/ daemon[d].state = "starting" /\ daemon'[d] = [daemon[d] EXCEPT !.state = "serving"]
  BY DaemonStep
<1>3. daemon[d].state = "starting" =>
        /\ [daemon[d] EXCEPT !.state = "serving"].asked = daemon[d].asked
        /\ Stays(daemon[d]) => Stays([daemon[d] EXCEPT !.state = "serving"])
  BY DaemonsFunction DEF Daemon, Stays
<1>4. AskedIsAwaited'
  <2> SUFFICES ASSUME NEW j \in DOMAIN daemon, daemon'[j].state # "dead", daemon'[j].asked
               PROVE  \E o \in Clis : cli[o].pc = "poll" /\ cli[o].pid = j
    BY <1>1, <1>2 DEF AskedIsAwaited
  <2>1. CASE j # d
    BY <1>2, <2>1 DEF AskedIsAwaited
  <2>2. CASE j = d
    <3>1. daemon'[d] # Dead
      BY <2>2, Kinds
    <3>2. daemon[d].state = "starting" /\ daemon[d].asked
      BY <1>2, <1>3, <2>2, <3>1
    <3> QED
      BY <2>2, <3>2 DEF AskedIsAwaited
  <2> QED
    BY <2>1, <2>2
<1>5. ASSUME Stays(daemon[d]), daemon'[d] = Dead
      PROVE  \E j \in DOMAIN daemon : j # d /\ daemon[j].state = "serving"
  <2>1. Bind(d) /\ daemon[d].state = "starting"
    BY <1>5 DEF Bind, ShutDown, Stays
  <2>2. daemon'[d] = IF PortTaken THEN Dead ELSE [daemon[d] EXCEPT !.state = "serving"]
    <3> DEFINE e == IF PortTaken THEN Dead ELSE [daemon[d] EXCEPT !.state = "serving"]
    <3>1. e \in Daemon /\ daemon' = [daemon EXCEPT ![d] = e]
      BY <2>1, DaemonsFunction, Kinds DEF Bind
    <3> HIDE DEF e
    <3>2. daemon'[d] = e
      BY <3>1, OneChanges
    <3> QED
      BY <3>2 DEF e
  <2>3. [daemon[d] EXCEPT !.state = "serving"].state = "serving"
    BY DaemonsFunction DEF Daemon
  <2>4. PortTaken
    BY <1>5, <2>2, <2>3, Kinds
  <2> QED
    BY <2>1, <2>4 DEF PortTaken
<1>6. ServedOrComing'
  <2> SUFFICES ASSUME routes' # {}
               PROVE  \/ \E j \in DOMAIN daemon' : Stays(daemon'[j])
                      \/ \E o \in Clis : cli'[o].pc \in Committed
    BY DEF ServedOrComing
  <2>1. CASE \E o \in Clis : cli[o].pc \in Committed
    BY <1>1, <2>1
  <2>2. CASE \E j \in DOMAIN daemon : Stays(daemon[j])
    <3>1. PICK j \in DOMAIN daemon : Stays(daemon[j])
      BY <2>2
    <3>2. CASE j # d \/ daemon'[d] # Dead
      BY <1>2, <1>3, <3>1, <3>2
    <3>3. CASE j = d /\ daemon'[d] = Dead
      <4>1. PICK i \in DOMAIN daemon : i # d /\ daemon[i].state = "serving"
        BY <1>5, <3>1, <3>3
      <4>2. Stays(daemon[i]) \/ \E o \in Clis : cli[o].pc = "poll"
        BY <4>1, FoundOrAwaited
      <4> QED
        BY <1>1, <1>2, <4>1, <4>2 DEF Committed
    <3> QED
      BY <3>2, <3>3
  <2> QED
    BY <1>1, <2>1, <2>2 DEF ServedOrComing
<1> QED
  BY <1>4, <1>6

LEMMA NextRacing ==
  ASSUME TypeOK, Spawned, Racing, [Next]_vars
  PROVE  Racing'
<1> SUFFICES ASSUME calm'
             PROVE  (\A o \in Clis : OnlyRestarts(cli'[o])) /\ AskedIsAwaited' /\ ServedOrComing'
  BY DEF Racing, OnlyRestarts
<1>1. calm
  BY DEF Next, RemoveRoute, RegisterRoute, ProxyStop, ProxyStatus, CliKilled, Bind, ShutDown,
         DaemonDies, CliStep, StopIfEmpty, StatusCheck, EnsureRunning, CleanPidFile, SpawnDaemon,
         StartFails, TruncatePidFile, WritePidFile, WritePidFails, StopDaemon, Terminate,
         PollGone, StopTimeout, RemovePidFile, vars
<1>2. (\A o \in Clis : OnlyRestarts(cli[o])) /\ AskedIsAwaited /\ ServedOrComing
  BY <1>1 DEF Racing
<1>3. ASSUME NEW c \in Clis, NEW v \in Builds,
             \/ \E j \in Projects : RegisterRoute(c, j, v)
             \/ ProxyStatus(c, v)
      PROVE  (\A o \in Clis : OnlyRestarts(cli'[o])) /\ AskedIsAwaited' /\ ServedOrComing'
  <2>1. PICK l \in {"ensure", "check"} :
          Begin(c, l, v) /\ UNCHANGED daemon /\ (l = "ensure" \/ UNCHANGED routes)
    BY <1>3 DEF RegisterRoute, ProxyStatus
  <2>2. Becomes(c, [pc |-> l, ver |-> v, pid |-> 0, stops |-> "asked"]) /\ cli[c].pc = "idle"
    BY <2>1, BeginMoves DEF Labels, Begin
  <2>3. \A o \in Clis : OnlyRestarts(cli'[o])
    BY <1>2, <2>2, RestartsKept DEF OnlyRestarts
  <2>4. AskedIsAwaited'
    BY <1>2, <2>1, <2>2, AwaitedKept
  <2>5. ServedOrComing'
    BY <1>2, <2>1, <2>2, ServedKept DEF Committed
  <2> QED
    BY <2>3, <2>4, <2>5
<1>4. ASSUME NEW d \in DOMAIN daemon, Bind(d) \/ ShutDown(d)
      PROVE  (\A o \in Clis : OnlyRestarts(cli'[o])) /\ AskedIsAwaited' /\ ServedOrComing'
  <2>1. UNCHANGED cli
    BY <1>4 DEF Bind, ShutDown
  <2> QED
    BY <1>2, <1>4, <2>1, DaemonStepRacing
<1>5. CASE UNCHANGED vars
  BY <1>2, <1>5 DEF vars, AskedIsAwaited, ServedOrComing
<1>6. ASSUME NEW c \in Clis, CliStep(c)
      PROVE  (\A o \in Clis : OnlyRestarts(cli'[o])) /\ AskedIsAwaited' /\ ServedOrComing'
  BY <1>1, <1>2, <1>6, CliStepRacing
<1>7. \A c \in Clis, j \in Projects : ~RemoveRoute(c, j)
  BY DEF RemoveRoute
<1>8. \A c \in Clis : ~ProxyStop(c) /\ ~CliKilled(c)
  BY DEF ProxyStop, CliKilled
<1>9. \A d \in DOMAIN daemon : ~DaemonDies(d)
  BY DEF DaemonDies
<1> QED
  BY <1>3, <1>4, <1>5, <1>6, <1>7, <1>8, <1>9 DEF Next

LEMMA RacingAlways == Spec => []Racing
<1>1. Init => Racing
  BY Kinds DEF Init, Racing, OnlyRestarts, AskedIsAwaited, ServedOrComing
<1>2. TypeOK /\ Spawned /\ Racing /\ [Next]_vars => Racing'
  BY NextRacing
<1> QED
  BY <1>1, <1>2, Typed, PTL DEF Spec

\* RacingStartsServed: starts that race, and restart each other's daemon, never end
\* with a registered route and no daemon to stay (EnsureRunning, StopDaemon, Serve).
THEOREM NoneUnserved == Spec => []RacingStartsServed
<1>1. Racing => RacingStartsServed
  BY DEF Racing, RacingStartsServed, ServedOrComing, Settled, Committed, Staying, Stays
<1> QED
  BY <1>1, RacingAlways, PTL

=============================================================================
