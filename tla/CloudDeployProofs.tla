------------------------- MODULE CloudDeployProofs -------------------------
(***************************************************************************)
(* What holds of CloudDeploy for any number of commands, deployments and   *)
(* checkouts, and any requests: its type; NothingMissing; and what a       *)
(* deploy ships, what it asks before it empties a deployment, and how it   *)
(* leaves its checkout.  Of CosmosBoost, for any tree, that a deploy packs *)
(* no stale stamp.  Of ApcDeploy, that what a deploy reports to have sent  *)
(* to a Private Cloud is there.                                            *)
(*                                                                         *)
(* That nothing is finalized but what is at Astro rests on what each       *)
(* command has done by the time it is where it is (Done), and on deploys   *)
(* being numbered in order, so that no command's deploy is created again   *)
(* (IInv).  That it is the command's own rests on whom the command has met *)
(* (Meeting), and on what it finds where it is (WorkInv).  That a stamp is *)
(* fresh rests on a command having cleaned up before it stamps, and on all *)
(* that run beside it being raced when it is (BoostInv).  That what was    *)
(* sent is there rests on what nobody else has touched being, at each      *)
(* step, as the command left it, and on a file being read from its start   *)
(* unless a connection was lost (ApcInv).  Boost!Sound and Apc!Sound, which*)
(* MCCloudDeploy assumes, say what the constants of the two are.           *)
(***************************************************************************)
EXTENDS MCCloudDeploy, FiniteSetTheorems, TLAPS

\* Deploys are numbered from 1 on, and no tag is ahead of the deploys.
Numbered ==
  \E n \in 0..MaxDeploys :
    /\ Created = 1..n
    /\ \A i \in 1..n : deploys[i].tag \in 1..i

Begun == Labels \ {"idle", "create"}
Built == {"restore", "check", "rm", "new", "copy", "start", "wait", "passed", "failed", "tag"}
Sent == {"tar", "gzip", "upload", "finalize"}

\* A command at work knows where, and at what.
Placed(c) ==
  run[c].pc # "idle" =>
    run[c].dep \in Deployments /\ run[c].dir \in Checkouts /\ run[c].q \in Requests

\* What a command has done by the time it is where it is.
Done(c) ==
  /\ run[c].pc \in Begun => run[c].id \in Created
  /\ run[c].version \in uploads \cup {NoFiles}
  /\ run[c].pc \in Sent /\ run[c].q.kind \in {"full", "image"} =>
       registry[run[c].dep][deploys[run[c].id].tag] # Nothing
  /\ run[c].pc \in Built => engine[run[c].dep][0] # Nothing

AllDone == \A c \in Clis : Placed(c) /\ Done(c)

IInv == TypeOK /\ Numbered /\ AllDone /\ NothingMissing

(* The steps most actions are: the command goes on, or ends, and Astro, the local
   images that carry no tag, and the other commands stay as they are. *)
GoesOn(c) ==
  /\ run[c].pc \in Begun /\ run'[c].pc \in Begun
  /\ run'[c].dep = run[c].dep /\ run'[c].dir = run[c].dir /\ run'[c].q = run[c].q
  /\ run'[c].id = run[c].id /\ run'[c].version = run[c].version
  /\ run'[c].pc \in Sent /\ run[c].q.kind \in {"full", "image"} => run[c].pc \in Sent
  /\ run'[c].pc \in Built => run[c].pc \in Built

Others(c) == \A e \in Clis \ {c} : run'[e] = run[e]

Moves(c) == run' \in [Clis -> RunType] /\ Others(c) /\ (GoesOn(c) \/ run'[c] = Idle)

EngineKept == \A d \in Deployments : engine[d][0] # Nothing => engine'[d][0] # Nothing

----------------------------------------------------------------------------
(* Lemmas. *)

\* The invariant holds at the start.
LEMMA InitEstablishes == Init => IInv
  <1> SUFFICES ASSUME Init PROVE IInv
    OBVIOUS
  <1> USE RequestAssumption
  <1>1. TypeOK
    BY DEF Init, TypeOK, DeployType, LiveType, CheckoutType, RunType, Idle, IdleRun, Ids, Tags,
           NoFiles, Tarballs, Labels, Tests, NoRequest
  <1>2. Created = 1..0
    BY DEF Init, Created
  <1>3. Numbered
    BY <1>2 DEF Numbered
  <1>4. AllDone
    BY DEF Init, AllDone, Placed, Done, Idle, IdleRun, Begun, Built, Sent, Labels
  <1>5. NothingMissing
    BY DEF Init, NothingMissing
  <1> QED BY <1>1, <1>3, <1>4, <1>5 DEF IInv

\* The number a new deploy gets is the next one.
LEMMA NextNumber ==
  ASSUME Numbered
  PROVE  \E n \in 0..MaxDeploys :
           /\ Created = 1..n /\ Cardinality(Created) = n
           /\ \A i \in 1..n : deploys[i].tag \in 1..i
  <1>1. PICK n \in 0..MaxDeploys : Created = 1..n /\ \A i \in 1..n : deploys[i].tag \in 1..i
    BY DEF Numbered
  <1>2. Cardinality(1..n) = n
    BY FS_Interval, RequestAssumption
  <1> QED BY <1>1, <1>2

\* A command that goes on or ends disturbs nothing.
LEMMA MoveKeeps ==
  ASSUME IInv, NEW c \in Clis, UNCHANGED cloud, EngineKept, Others(c),
         GoesOn(c) \/ run'[c] = Idle
  PROVE  Numbered' /\ AllDone' /\ NothingMissing'
  <1> USE DEF IInv
  <1>1. Created' = Created
    BY DEF cloud, Created
  <1>2. Numbered'
    BY <1>1 DEF cloud, Numbered
  <1>3. ASSUME NEW e \in Clis PROVE Placed(e)' /\ Done(e)'
    <2>1. Placed(e) /\ Done(e)
      BY DEF AllDone
    <2>2. CASE e # c
      BY <2>1, <2>2, <1>1 DEF Others, EngineKept, Placed, Done, cloud, Built
    <2>3. CASE e = c /\ run'[c] = Idle
      BY <2>3 DEF Placed, Done, Idle, IdleRun, Begun, Built, Sent, Labels
    <2>4. CASE e = c /\ GoesOn(c)
      <3>1. run[c].pc # "idle"
        BY <2>4 DEF GoesOn, Begun
      <3> QED BY <2>1, <2>4, <1>1, <3>1 DEF GoesOn, EngineKept, Placed, Done, cloud
    <2> QED BY <2>2, <2>3, <2>4
  <1>4. NothingMissing'
    BY DEF NothingMissing, cloud
  <1> QED BY <1>2, <1>3, <1>4 DEF AllDone

\* A command's record is replaced by another.
LEMMA RunPut ==
  ASSUME TypeOK, NEW c \in Clis, NEW r \in RunType, run' = [run EXCEPT ![c] = r]
  PROVE  run' \in [Clis -> RunType] /\ Others(c) /\ run'[c] = r
  BY DEF TypeOK, Others

\* Goto changes where one command is, and nothing else.
LEMMA GotoMoves ==
  ASSUME TypeOK, NEW c \in Clis, NEW label \in Labels, Goto(c, label)
  PROVE  run' \in [Clis -> RunType] /\ Others(c) /\ run'[c] = [run[c] EXCEPT !.pc = label]
  <1> DEFINE r == [run[c] EXCEPT !.pc = label]
  <1>1. run[c] \in RunType
    BY DEF TypeOK
  <1>2. r \in RunType
    BY <1>1 DEF RunType
  <1>3. run' = [run EXCEPT ![c] = r]
    BY DEF Goto
  <1> QED BY <1>2, <1>3, RunPut

\* A command that ends is idle, and the others stay as they are.
LEMMA ExitMoves ==
  ASSUME TypeOK, NEW c \in Clis, Exit(c)
  PROVE  run' \in [Clis -> RunType] /\ Others(c) /\ run'[c] = Idle
  <1>1. Idle \in RunType
    BY RequestAssumption
    DEF Idle, IdleRun, RunType, Labels, NoRequest, Tests, NoFiles, Ids
  <1> QED BY <1>1 DEF TypeOK, Exit, Others

\* A command that goes elsewhere, and changes nothing else of what it knows.
LEMMA GotoGoesOn ==
  ASSUME TypeOK, NEW c \in Clis, NEW label \in Begun, Goto(c, label), run[c].pc \in Begun,
         label \in Built => run[c].pc \in Built,
         label \in Sent /\ run[c].q.kind \in {"full", "image"} => run[c].pc \in Sent
  PROVE  run' \in [Clis -> RunType] /\ Others(c) /\ GoesOn(c)
  <1>1. label \in Labels
    BY DEF Begun
  <1>2. /\ run' \in [Clis -> RunType] /\ Others(c)
        /\ run'[c] = [run[c] EXCEPT !.pc = label]
    BY <1>1, GotoMoves
  <1>3. run[c] \in RunType
    BY DEF TypeOK
  <1> QED BY <1>2, <1>3 DEF GoesOn, RunType

\* After a test a command goes on to the next, past them, or ends.
LEMMA ProceedMoves ==
  ASSUME TypeOK, NEW c \in Clis, NEW done, Proceed(c, done), run[c].pc \in Built
  PROVE  run' \in [Clis -> RunType] /\ Others(c) /\ (GoesOn(c) \/ run'[c] = Idle)
  <1> DEFINE next == IF Files(c) \/ run[c].q.kind = "dags"
                       THEN NextTest(done, run[c].q.tests) ELSE "none"
  <1>1. run[c].pc \in Begun /\ run[c] \in RunType
    BY DEF Built, Begun, Labels, TypeOK
  <1>2. CASE next # "none"
    <2>1. next \in Tests
      BY <1>2 DEF NextTest, Tests
    <2>2. run' = [run EXCEPT ![c].pc = "rm", ![c].test = next]
      BY <1>2 DEF Proceed
    <2> DEFINE r == [run[c] EXCEPT !.pc = "rm", !.test = next]
    <2> HIDE DEF next
    <2>3. r \in RunType
      <3>1. "rm" \in Labels
        BY DEF Labels
      <3>2. [run[c] EXCEPT !.pc = "rm"] \in RunType
        BY <1>1, <3>1 DEF RunType
      <3>3. [[run[c] EXCEPT !.pc = "rm"] EXCEPT !.test = next] \in RunType
        BY <2>1, <3>2 DEF RunType
      <3> QED BY <3>3
    <2>4. run' \in [Clis -> RunType] /\ Others(c) /\ run'[c] = r
      <3>1. run' = [run EXCEPT ![c] = r]
        BY <2>2
      <3> QED BY <2>3, <3>1, RunPut
    <2>5. GoesOn(c)
      BY <1>1, <2>4 DEF GoesOn, RunType, Built, Begun, Sent, Labels
    <2> QED BY <2>4, <2>5
  <1>3. CASE next = "none" /\ AfterTests(c) = "idle"
    BY <1>3, ExitMoves DEF Proceed
  <1>4. CASE next = "none" /\ AfterTests(c) # "idle"
    <2>1. Goto(c, AfterTests(c))
      BY <1>4 DEF Proceed
    <2>2. \/ AfterTests(c) = "tag"
          \/ AfterTests(c) = "tar" /\ run[c].q.kind = "dags"
      <3>1. CASE run[c].q.kind # "dags"
        BY <3>1 DEF AfterTests
      <3>2. CASE run[c].q.kind = "dags"
        BY <3>2, <1>4 DEF AfterTests
      <3> QED BY <3>1, <3>2
    <2> QED BY <1>1, <2>1, <2>2, GotoGoesOn DEF Built, Begun, Sent, Labels
  <1> QED BY <1>2, <1>3, <1>4

(* A step of a command that Astro does not see. *)
Quiet(c) ==
  /\ Moves(c)
  /\ UNCHANGED <<facts, cloud>>
  /\ EngineKept
  /\ engine' \in [Deployments -> [Tags -> Images \cup {Nothing}]]
  /\ container' \in ContainerType \cup {Nothing}
  /\ checkout' \in [Checkouts -> CheckoutType]

\* Steps Astro does not see keep the invariant.
LEMMA QuietKeeps ==
  ASSUME IInv, NEW c \in Clis, Quiet(c)
  PROVE  IInv'
  <1>1. TypeOK'
    BY DEF IInv, TypeOK, Quiet, Moves, facts, cloud
  <1>2. Numbered' /\ AllDone' /\ NothingMissing'
    BY MoveKeeps DEF Quiet, Moves
  <1> QED BY <1>1, <1>2 DEF IInv

\* A checkout's record is replaced by another.
LEMMA CheckoutPut ==
  ASSUME TypeOK, NEW w \in Checkouts, NEW r \in CheckoutType,
         checkout' = [checkout EXCEPT ![w] = r]
  PROVE  checkout' \in [Checkouts -> CheckoutType]
  BY DEF TypeOK

\* Rewriting .dockerignore keeps the checkouts' types.
LEMMA SetIgnoreTyped ==
  ASSUME TypeOK, NEW c \in Clis, run[c].dir \in Checkouts,
         NEW ignore \in (SUBSET Lines) \cup {Nothing}, SetIgnore(c, ignore)
  PROVE  checkout' \in [Checkouts -> CheckoutType]
  <1> DEFINE r == [checkout[run[c].dir] EXCEPT !.ignore = ignore]
  <1>1. checkout[run[c].dir] \in CheckoutType
    BY DEF TypeOK
  <1>2. r \in CheckoutType
    BY <1>1 DEF CheckoutType
  <1>3. checkout' = [checkout EXCEPT ![run[c].dir] = r]
    BY DEF SetIgnore
  <1> QED BY <1>2, <1>3, CheckoutPut

\* Removing the archives keeps the checkouts' types.
LEMMA CleanUpTyped ==
  ASSUME TypeOK, NEW c \in Clis, run[c].dir \in Checkouts, CleanUp(c)
  PROVE  checkout' \in [Checkouts -> CheckoutType]
  <1> DEFINE r == [checkout[run[c].dir] EXCEPT !.tar = Nothing, !.gz = Nothing,
                                               !.monitor = @ /\ ~Monitors(c)]
  <1>1. checkout[run[c].dir] \in CheckoutType
    BY DEF TypeOK
  <1>2. r \in CheckoutType
    BY <1>1 DEF CheckoutType
  <1>3. checkout' = [checkout EXCEPT ![run[c].dir] = r]
    BY DEF CleanUp
  <1> QED BY <1>2, <1>3, CheckoutPut

(* The steps that end a command, and change nothing but files of its checkout. *)
Ends(c) ==
  \/ CreateFails(c) \/ IgnoreFails(c) \/ Canceled(c) \/ ExcludeFails(c) \/ ImageRefused(c)
  \/ ContainerFails(c) \/ PushFails(c) \/ NothingPacked(c)
  \/ TarOrUploadFails(c) \/ FinalizeFails(c) \/ Killed(c)

\* A command that fails, gives up or is killed ends quietly.
LEMMA EndsQuietly ==
  ASSUME IInv, NEW c \in Clis, Ends(c)
  PROVE  Quiet(c)
  <1>1. Exit(c) /\ UNCHANGED <<facts, cloud, engine, container>>
    BY DEF Ends, CreateFails, IgnoreFails, Canceled, ExcludeFails, ImageRefused,
           ContainerFails, PushFails, NothingPacked, TarOrUploadFails, FinalizeFails, Killed
  <1>2. Moves(c)
    BY <1>1, ExitMoves DEF IInv, Moves
  <1>3. TypeOK /\ run[c].dir \in Checkouts
    <2>1. run[c].pc # "idle"
      BY DEF Ends, CreateFails, IgnoreFails, Canceled, ExcludeFails, ImageRefused,
             ContainerFails, PushFails, NothingPacked, TarOrUploadFails, FinalizeFails, Killed, At, Active
    <2> QED BY <2>1 DEF IInv, AllDone, Placed
  <1>4. checkout[run[c].dir] \in CheckoutType
    BY <1>3 DEF TypeOK
  <1>5. Without(checkout[run[c].dir].ignore) \in (SUBSET Lines) \cup {Nothing}
    BY <1>4 DEF CheckoutType, Without
  <1>6. checkout' \in [Checkouts -> CheckoutType]
    <2>1. CASE UNCHANGED checkout
      BY <2>1, <1>3 DEF TypeOK
    <2>2. CASE SetIgnore(c, Without(checkout[run[c].dir].ignore))
      BY <2>2, <1>3, <1>5, SetIgnoreTyped
    <2>3. CASE CleanUp(c)
      BY <2>3, <1>3, CleanUpTyped
    <2>5. CASE checkout' = [checkout EXCEPT ![run[c].dir].monitor = @ /\ ~Monitors(c)]
      <3> DEFINE r == [checkout[run[c].dir] EXCEPT !.monitor = @ /\ ~Monitors(c)]
      <3>1. r \in CheckoutType
        BY <1>4 DEF CheckoutType
      <3>2. checkout' = [checkout EXCEPT ![run[c].dir] = r]
        BY <2>5
      <3> QED BY <3>1, <3>2, <1>3, CheckoutPut
    <2>4. CASE Killed(c)
      <3> DEFINE r == [checkout[run[c].dir] EXCEPT !.shaken = TRUE]
      <3>1. r \in CheckoutType
        BY <1>4 DEF CheckoutType
      <3>2. checkout' = [checkout EXCEPT ![run[c].dir] = r]
        BY <2>4 DEF Killed
      <3> QED BY <3>1, <3>2, <1>3, CheckoutPut
    <2> QED
      BY <2>1, <2>2, <2>3, <2>4, <2>5
      DEF Ends, CreateFails, IgnoreFails, Canceled, ExcludeFails, ImageRefused,
          ContainerFails, PushFails, NothingPacked, TarOrUploadFails, FinalizeFails
  <1> QED BY <1>1, <1>2, <1>3, <1>6 DEF Quiet, TypeOK, EngineKept, facts, cloud

\* What the invariant says of a command at work.
LEMMA AtWork ==
  ASSUME IInv, NEW c \in Clis, run[c].pc # "idle"
  PROVE  /\ TypeOK /\ Done(c) /\ run[c] \in RunType
         /\ run[c].dep \in Deployments /\ run[c].dir \in Checkouts
         /\ run[c].q.passes \in SUBSET Tests /\ run[c].q.files \in BOOLEAN
         /\ run[c].q.kind \in Kinds
         /\ checkout[run[c].dir] \in CheckoutType
  <1>1. /\ TypeOK /\ Done(c) /\ run[c].q \in RequestType
        /\ run[c].dep \in Deployments /\ run[c].dir \in Checkouts
    BY RequestAssumption DEF IInv, AllDone, Placed
  <1>2. run[c] \in RunType /\ checkout[run[c].dir] \in CheckoutType
    BY <1>1 DEF TypeOK
  <1>3. run[c].q.passes \in SUBSET Tests /\ run[c].q.files \in BOOLEAN /\ run[c].q.kind \in Kinds
    BY <1>1 DEF RequestType
  <1> QED BY <1>1, <1>2, <1>3

(* The steps of a command that goes on, before it is known what to push. *)
LEMMA PreparesQuietly ==
  ASSUME IInv, NEW c \in Clis,
         RemoveDagsLine(c) \/ Confirm(c) \/ ExcludeDags(c) \/ BuildFails(c) \/ RestoreIgnore(c)
  PROVE  Quiet(c)
  <1> USE DEF At
  <1>1. run[c].pc \in {"ignore", "confirm", "exclude", "build", "restore", "undo"}
    BY DEF RemoveDagsLine, Confirm, ExcludeDags, BuildFails, RestoreIgnore
  <1>2. /\ TypeOK /\ run[c] \in RunType /\ run[c].dir \in Checkouts
        /\ checkout[run[c].dir] \in CheckoutType
    BY <1>1, AtWork
  <1>3. run[c].pc \in Begun
    BY <1>1 DEF Begun, Labels
  <1>4. UNCHANGED <<facts, cloud, engine, container>>
    BY DEF RemoveDagsLine, Confirm, ExcludeDags, BuildFails, RestoreIgnore
  <1>5. checkout[run[c].dir].ignore \in (SUBSET Lines) \cup {Nothing}
    BY <1>2 DEF CheckoutType
  <1>6. checkout' \in [Checkouts -> CheckoutType] /\ Moves(c)
    <2>1. CASE RemoveDagsLine(c)
      <3>1. Without(checkout[run[c].dir].ignore) \in (SUBSET Lines) \cup {Nothing}
        BY <1>5 DEF Without
      <3>2. checkout' \in [Checkouts -> CheckoutType]
        BY <2>1, <3>1, <1>2, SetIgnoreTyped DEF RemoveDagsLine
      <3> QED
        BY <2>1, <3>2, <1>2, <1>3, GotoGoesOn
        DEF RemoveDagsLine, Moves, Begun, Built, Sent, Labels
    <2>2. CASE Confirm(c)
      <3> DEFINE label == IF run[c].q.kind # "dags" \/ run[c].q.tests # {} THEN BuildLabel(c)
                          ELSE AfterTests(c)
                 r == [run[c] EXCEPT !.pc = label, !.agreed = WouldEmpty(c)]
      <3>1. checkout' \in [Checkouts -> CheckoutType]
        BY <2>2, <1>2 DEF Confirm, TypeOK
      <3>2. CASE label = "idle"
        BY <2>2, <3>1, <3>2, <1>2, ExitMoves DEF Confirm, Moves
      <3>3. CASE label # "idle"
        <4>1. \/ label \in {"retag", "exclude", "build"}
              \/ label = "tar" /\ run[c].q.kind = "dags"
          <5>1. BuildLabel(c) \in {"retag", "exclude", "build"}
            BY DEF BuildLabel
          <5>2. run[c].q.kind = "dags" => AfterTests(c) \in {"tar", "idle"}
            BY DEF AfterTests
          <5> QED BY <5>1, <5>2, <3>3
        <4>2. run' = [run EXCEPT ![c] = r]
          BY <2>2, <3>3 DEF Confirm
        <4> HIDE DEF label
        <4>3. label \in Begun
          BY <4>1 DEF Begun, Labels
        <4>4. WouldEmpty(c) \in BOOLEAN
          BY DEF WouldEmpty
        <4>5. r \in RunType
          BY <1>2, <4>3, <4>4 DEF RunType, Begun
        <4>6. run' \in [Clis -> RunType] /\ Others(c) /\ run'[c] = r
          BY <4>2, <4>5, <1>2, RunPut
        <4>7. GoesOn(c)
          BY <4>6, <4>1, <4>3, <1>2, <1>3 DEF GoesOn, RunType, Built, Sent
        <4> QED BY <3>1, <4>6, <4>7 DEF Moves
      <3> QED BY <3>2, <3>3
    <2>3. CASE ExcludeDags(c)
      <3> DEFINE ignore == checkout[run[c].dir].ignore
                 r == [run[c] EXCEPT !.saved = ignore, !.pc = "build"]
      <3>1. With(ignore) \in (SUBSET Lines) \cup {Nothing}
        BY <1>5 DEF With, Lines
      <3>2. checkout' \in [Checkouts -> CheckoutType]
        BY <2>3, <3>1, <1>2, SetIgnoreTyped DEF ExcludeDags
      <3>3. run' = [run EXCEPT ![c] = r]
        BY <2>3 DEF ExcludeDags
      <3> HIDE DEF ignore
      <3>4. r \in RunType
        BY <1>2, <1>5 DEF RunType, Labels, ignore
      <3>5. run' \in [Clis -> RunType] /\ Others(c) /\ run'[c] = r
        BY <3>3, <3>4, <1>2, RunPut
      <3>6. GoesOn(c)
        BY <3>5, <1>2, <1>3 DEF GoesOn, RunType, Begun, Built, Sent, Labels
      <3> QED BY <3>2, <3>5, <3>6 DEF Moves
    <2>4. CASE BuildFails(c)
      <3>1. checkout' \in [Checkouts -> CheckoutType]
        BY <2>4, <1>2 DEF BuildFails, TypeOK
      <3>2. CASE Exit(c)
        BY <3>1, <3>2, <1>2, ExitMoves DEF Moves
      <3>3. CASE Goto(c, "undo")
        BY <3>1, <3>3, <1>2, <1>3, GotoGoesOn DEF Moves, Begun, Built, Sent, Labels
      <3> QED BY <2>4, <3>2, <3>3 DEF BuildFails
    <2>5. CASE RestoreIgnore(c)
      <3> DEFINE r == [run[c] EXCEPT !.saved = Nothing, !.pc = "check"]
      <3>1. run[c].saved \in (SUBSET Lines) \cup {Nothing}
        BY <1>2 DEF RunType
      <3>2. checkout' \in [Checkouts -> CheckoutType]
        BY <2>5, <3>1, <1>2, SetIgnoreTyped DEF RestoreIgnore
      <3>3. CASE run[c].pc = "undo"
        BY <2>5, <3>2, <3>3, <1>2, ExitMoves DEF RestoreIgnore, Moves
      <3>4. CASE run[c].pc = "restore"
        <4>1. run' = [run EXCEPT ![c] = r]
          BY <2>5, <3>4 DEF RestoreIgnore
        <4>2. r \in RunType
          BY <1>2 DEF RunType, Labels
        <4>3. run' \in [Clis -> RunType] /\ Others(c) /\ run'[c] = r
          BY <4>1, <4>2, <1>2, RunPut
        <4>4. GoesOn(c)
          BY <4>3, <3>4, <1>2, <1>3 DEF GoesOn, RunType, Begun, Built, Sent, Labels
        <4> QED BY <3>2, <4>3, <4>4 DEF Moves
      <3> QED BY <2>5, <3>3, <3>4 DEF RestoreIgnore
    <2> QED BY <2>1, <2>2, <2>3, <2>4, <2>5
  <1> QED BY <1>2, <1>4, <1>6 DEF Quiet, TypeOK, EngineKept, facts, cloud

(* The steps of a command that tests the image it has built. *)
LEMMA TestsQuietly ==
  ASSUME IInv, NEW c \in Clis,
         \/ ImageAccepted(c) \/ ParseSkipped(c) \/ RemoveOldContainer(c) \/ CreateContainer(c)
         \/ CopyCode(c) \/ StartContainer(c) \/ ReadVerdict(c)
  PROVE  Quiet(c)
  <1> USE DEF At
  <1>1. run[c].pc \in Built
    BY DEF ImageAccepted, ParseSkipped, RemoveOldContainer, CreateContainer, CopyCode,
           StartContainer, ReadVerdict, Built
  <1>2. /\ TypeOK /\ Done(c) /\ run[c] \in RunType /\ run[c].dep \in Deployments
        /\ run[c].q.passes \in SUBSET Tests
    <2>1. run[c].pc # "idle"
      BY <1>1 DEF Built
    <2> QED BY <2>1, AtWork
  <1>3. run[c].pc \in Begun
    BY <1>1 DEF Begun, Built, Labels
  <1>4. UNCHANGED <<facts, cloud, engine, checkout>>
    BY DEF ImageAccepted, ParseSkipped, RemoveOldContainer, CreateContainer, CopyCode,
           StartContainer, ReadVerdict
  <1>5. container \in ContainerType \cup {Nothing}
    BY <1>2 DEF TypeOK
  <1>6. Removed \in ContainerType \cup {Nothing}
    BY <1>5 DEF Removed
  <1>7. ASSUME NEW label \in {"new", "copy", "start", "wait", "failed"}, Goto(c, label)
        PROVE  Moves(c)
    BY <1>1, <1>2, <1>3, <1>7, GotoGoesOn DEF Moves, Begun, Built, Sent, Labels
  <1>8. ASSUME NEW done, Proceed(c, done)
        PROVE  Moves(c)
    BY <1>1, <1>2, <1>8, ProceedMoves DEF Moves
  <1>9. container' \in ContainerType \cup {Nothing} /\ Moves(c)
    <2>1. CASE ImageAccepted(c) \/ ParseSkipped(c)
      BY <2>1, <1>5, <1>8 DEF ImageAccepted, ParseSkipped
    <2>2. CASE RemoveOldContainer(c)
      BY <2>2, <1>6, <1>7 DEF RemoveOldContainer
    <2>3. CASE CreateContainer(c)
      <3> DEFINE image == engine[run[c].dep][0]
      <3>1. image \in Images
        <4>1. image # Nothing
          BY <1>1, <1>2 DEF Done
        <4>2. image \in Images \cup {Nothing}
          BY <1>2, RequestAssumption DEF TypeOK, Tags
        <4> QED BY <4>1, <4>2
      <3>2. image.passes \in SUBSET Tests
        BY <3>1 DEF Images
      <3>3. container' = [test |-> run[c].test, image |-> image.passes, code |-> image.passes,
                          running |-> FALSE, failed |-> FALSE]
        BY <2>3 DEF CreateContainer
      <3>4. run[c].test \in Tests
        BY <1>2 DEF RunType
      <3> HIDE DEF image
      <3>5. container' \in ContainerType
        BY <3>2, <3>3, <3>4 DEF ContainerType
      <3> QED BY <2>3, <3>5, <1>7 DEF CreateContainer
    <2>4. CASE CopyCode(c)
      <3>1. container \in ContainerType
        BY <2>4, <1>5 DEF CopyCode
      <3>2. container' \in ContainerType
        BY <2>4, <3>1, <1>2 DEF CopyCode, ContainerType
      <3> QED BY <2>4, <3>2, <1>7 DEF CopyCode
    <2>5. CASE StartContainer(c)
      <3>1. CASE container = Nothing
        BY <2>5, <3>1, <1>5, <1>7 DEF StartContainer
      <3>2. CASE container # Nothing
        <4>1. container' = [container EXCEPT !.running = TRUE]
          BY <2>5, <3>2 DEF StartContainer
        <4>2. container' \in ContainerType
          BY <4>1, <3>2, <1>5 DEF ContainerType
        <4> QED BY <2>5, <3>2, <4>2, <1>7 DEF StartContainer
      <3> QED BY <3>1, <3>2
    <2>6. CASE ReadVerdict(c)
      <3>1. Proceed(c, run[c].test) \/ Exit(c)
        BY <2>6 DEF ReadVerdict
      <3>2. Moves(c)
        BY <3>1, <1>2, <1>8, ExitMoves DEF Moves
      <3> QED BY <2>6, <3>2, <1>6 DEF ReadVerdict
    <2> QED BY <2>1, <2>2, <2>3, <2>4, <2>5, <2>6
  <1> QED BY <1>2, <1>4, <1>9 DEF Quiet, TypeOK, EngineKept, facts, cloud

(* What a deploy's record and tag are, once it is created. *)
LEMMA TagKnown ==
  ASSUME IInv, NEW c \in Clis, run[c].pc \in Begun
  PROVE  run[c].id \in Ids /\ deploys[run[c].id].tag \in Ids
  <1>1. run[c].id \in Created
    BY DEF IInv, AllDone, Done
  <1>2. PICK n \in 0..MaxDeploys : Created = 1..n /\ \A i \in 1..n : deploys[i].tag \in 1..i
    BY DEF IInv, Numbered
  <1> QED BY <1>1, <1>2, RequestAssumption DEF Ids

(* The steps of a command that tags what it will push, or packs what it will upload. *)
LEMMA PacksQuietly ==
  ASSUME IInv, NEW c \in Clis, TagImage(c) \/ MakeTar(c) \/ GzipTar(c)
  PROVE  Quiet(c)
  <1> USE DEF At
  <1>1. run[c].pc \in {"tag", "tar", "gzip"}
    BY DEF TagImage, MakeTar, GzipTar
  <1>2. /\ TypeOK /\ Done(c) /\ run[c] \in RunType
        /\ run[c].dep \in Deployments /\ run[c].dir \in Checkouts
        /\ run[c].q.files \in BOOLEAN /\ checkout[run[c].dir] \in CheckoutType
    BY <1>1, AtWork
  <1>3. run[c].pc \in Begun
    BY <1>1 DEF Begun, Labels
  <1>4. run[c].id \in Ids /\ deploys[run[c].id].tag \in Ids
    BY <1>3, TagKnown
  <1>5. UNCHANGED <<facts, cloud, container>>
    BY DEF TagImage, MakeTar, GzipTar
  <1>6. CASE TagImage(c)
    <2> DEFINE d == run[c].dep
               t == deploys[run[c].id].tag
    <2>1. engine' = [engine EXCEPT ![d][t] = engine[d][0]]
      BY <1>6 DEF TagImage
    <2>2. t \in Tags /\ 0 \in Tags /\ t # 0 /\ d \in Deployments
      BY <1>2, <1>4, RequestAssumption DEF Tags, Ids
    <2>3. engine \in [Deployments -> [Tags -> Images \cup {Nothing}]]
      BY <1>2 DEF TypeOK
    <2> HIDE DEF d, t
    <2>4. engine' \in [Deployments -> [Tags -> Images \cup {Nothing}]] /\ EngineKept
      BY <2>1, <2>2, <2>3 DEF EngineKept
    <2>5. Moves(c)
      BY <1>6, <1>1, <1>2, <1>3, GotoGoesOn DEF TagImage, Moves, Begun, Built, Sent, Labels
    <2> QED BY <1>2, <1>5, <1>6, <2>4, <2>5 DEF Quiet, TypeOK, TagImage
  <1>7. CASE MakeTar(c)
    <2> DEFINE w == run[c].dir
               tarball == [by |-> run[c].id, some |-> run[c].q.files]
               more == checkout[w].monitor \/ Monitors(c)
               r == [checkout[w] EXCEPT !.tar = tarball, !.monitor = more]
    <2>1. checkout' = [checkout EXCEPT ![w] = r]
      BY <1>7 DEF MakeTar
    <2>2. tarball \in Tarballs /\ more \in BOOLEAN
      BY <1>2, <1>4 DEF Tarballs, CheckoutType
    <2> HIDE DEF tarball, more
    <2>3. r \in CheckoutType
      BY <2>2, <1>2 DEF CheckoutType
    <2>4. checkout' \in [Checkouts -> CheckoutType]
      BY <2>1, <2>3, <1>2, CheckoutPut
    <2>5. Moves(c)
      BY <1>7, <1>2, <1>3, GotoGoesOn DEF MakeTar, Moves, Begun, Built, Sent, Labels
    <2> QED BY <1>2, <1>5, <1>7, <2>4, <2>5 DEF Quiet, TypeOK, MakeTar, EngineKept
  <1>8. CASE GzipTar(c)
    <2> DEFINE w == run[c].dir
               r == [checkout[w] EXCEPT !.gz = checkout[w].tar]
    <2>1. checkout' = [checkout EXCEPT ![w] = r]
      BY <1>8 DEF GzipTar
    <2>2. r \in CheckoutType
      BY <1>2 DEF CheckoutType
    <2>3. checkout' \in [Checkouts -> CheckoutType]
      BY <2>1, <2>2, <1>2, CheckoutPut
    <2>4. Moves(c)
      BY <1>8, <1>2, <1>3, GotoGoesOn DEF GzipTar, Moves, Begun, Built, Sent, Labels
    <2> QED BY <1>2, <1>5, <1>8, <2>3, <2>4 DEF Quiet, TypeOK, GzipTar, EngineKept
  <1> QED BY <1>6, <1>7, <1>8

(* Steps others see leave what other commands rest on. *)
Grows ==
  /\ Created \subseteq Created' /\ uploads \subseteq uploads'
  /\ \A i \in Created : deploys'[i].tag = deploys[i].tag
  /\ \A d \in Deployments, t \in Ids : registry[d][t] # Nothing => registry'[d][t] # Nothing
  /\ EngineKept

SameWork(e) ==
  /\ run'[e].pc = run[e].pc /\ run'[e].q = run[e].q
  /\ run'[e].dep = run[e].dep /\ run'[e].dir = run[e].dir
  /\ run'[e].id = run[e].id /\ run'[e].version = run[e].version

\* A command that does not move is not disturbed by what others do.
LEMMA SameWorkKeeps ==
  ASSUME IInv, NEW e \in Clis, SameWork(e), Grows
  PROVE  Placed(e)' /\ Done(e)'
  <1>1. Placed(e) /\ Done(e)
    BY DEF IInv, AllDone
  <1>2. Placed(e)'
    BY <1>1 DEF Placed, SameWork
  <1>3. run'[e].pc \in Begun => run'[e].id \in Created'
    BY <1>1 DEF Done, SameWork, Grows
  <1>4. run'[e].version \in uploads' \cup {NoFiles}
    BY <1>1 DEF Done, SameWork, Grows
  <1>5. run'[e].pc \in Sent /\ run'[e].q.kind \in {"full", "image"} =>
          registry'[run'[e].dep][deploys'[run'[e].id].tag] # Nothing
    <2> SUFFICES ASSUME run[e].pc \in Sent, run[e].q.kind \in {"full", "image"}
                 PROVE  registry'[run[e].dep][deploys'[run[e].id].tag] # Nothing
      BY DEF SameWork
    <2>1. run[e].pc # "idle" /\ run[e].pc \in Begun
      BY DEF Sent, Begun, Labels
    <2>2. deploys[run[e].id].tag \in Ids
      BY <2>1, TagKnown
    <2>3. run[e].id \in Created /\ run[e].dep \in Deployments
      BY <2>1, <1>1 DEF Done, Placed
    <2> QED BY <1>1, <2>2, <2>3 DEF Done, Grows
  <1>6. run'[e].pc \in Built => engine'[run'[e].dep][0] # Nothing
    <2> SUFFICES ASSUME run[e].pc \in Built
                 PROVE  engine'[run[e].dep][0] # Nothing
      BY DEF SameWork
    <2>1. run[e].dep \in Deployments
      BY <1>1 DEF Built, Placed
    <2> QED BY <1>1, <2>1 DEF Done, Grows, EngineKept
  <1> QED BY <1>2, <1>3, <1>4, <1>5, <1>6 DEF Done

\* Nor are all the others, when one command moves.
LEMMA OthersKeep ==
  ASSUME IInv, NEW c \in Clis, Others(c), Grows
  PROVE  \A e \in Clis \ {c} : Placed(e)' /\ Done(e)'
  BY SameWorkKeeps DEF Others, SameWork

(* Nothing at Astro changes. *)
LEMMA CloudKept ==
  ASSUME IInv, UNCHANGED cloud
  PROVE  Numbered' /\ NothingMissing' /\ (EngineKept => Grows)
  <1>1. Created' = Created
    BY DEF cloud, Created
  <1> QED BY <1>1 DEF IInv, cloud, Numbered, NothingMissing, Grows

\* A command begins: others may only learn that they met it.
LEMMA BeginKeeps ==
  ASSUME IInv, NEW c \in Clis, Begin(c)
  PROVE  IInv'
  <1>1. TypeOK /\ UNCHANGED <<facts, cloud, engine, container>>
    BY DEF IInv, Begin
  <1>2. PICK q \in Requests, d \in Deployments, w \in Checkouts, enabled \in BOOLEAN :
          BeginWith(c, q, d, w, enabled)
    BY DEF Begin
  <1> DEFINE met == IF Sharing(c, d, w) # {} THEN "sharing"
                    ELSE IF Company(c) # {} THEN "others" ELSE "nobody"
             r == [IdleRun(d, w) EXCEPT !.pc = "create", !.q = q, !.enabled = enabled,
                                        !.files = SeesFiles(q, d, w), !.met = met]
             shaken(v) == checkout[v].shaken \/ \E e \in Company(c) : run[e].dir = v /\ w = v
  <1>3. met \in {"nobody", "others", "sharing"}
    OBVIOUS
  <1>4. /\ r \in RunType
        /\ r.pc = "create" /\ r.version = NoFiles
        /\ r.q = q
        /\ r.dep = d /\ r.dir = w
    <2> HIDE DEF met
    <2>1. SeesFiles(q, d, w) \in BOOLEAN
      <3>1. q.files \in BOOLEAN /\ checkout[w].monitor \in BOOLEAN
        BY <1>1, RequestAssumption DEF RequestType, TypeOK, CheckoutType
      <3> QED BY <3>1 DEF SeesFiles
    <2> QED BY <1>3, <2>1 DEF IdleRun, RunType, Labels, Ids, Tests
  <1>5. ASSUME NEW e \in Clis, e # c
        PROVE  run'[e] \in RunType /\ SameWork(e)
    <2>1. run[e] \in RunType
      BY <1>1 DEF TypeOK
    <2>2. PICK m \in {"nobody", "others", "sharing"} : run'[e] = [run[e] EXCEPT !.met = m]
      <3>1. \/ run'[e] = [run[e] EXCEPT !.met = "sharing"]
            \/ run'[e] = [run[e] EXCEPT !.met = "others"]
            \/ run'[e] = run[e]
        BY <1>2, <1>5 DEF BeginWith
      <3>2. run[e] = [run[e] EXCEPT !.met = run[e].met]
        BY <2>1 DEF RunType
      <3> QED BY <2>1, <3>1, <3>2 DEF RunType
    <2> QED BY <2>1, <2>2 DEF RunType, SameWork
  <1>6. run'[c] = r
    BY <1>2 DEF BeginWith
  <1>7. run' \in [Clis -> RunType]
    <2>1. \A e \in Clis : run'[e] \in RunType
      BY <1>4, <1>5, <1>6
    <2> QED BY <1>2, <2>1 DEF BeginWith
  <1>8. checkout' \in [Checkouts -> CheckoutType]
    <2>1. ASSUME NEW v \in Checkouts
          PROVE  [checkout[v] EXCEPT !.shaken = shaken(v)] \in CheckoutType
      <3>1. checkout[v] \in CheckoutType
        BY <1>1 DEF TypeOK
      <3>2. shaken(v) \in BOOLEAN
        BY <3>1 DEF CheckoutType
      <3> HIDE DEF shaken
      <3> QED BY <3>1, <3>2 DEF CheckoutType
    <2> QED BY <1>2, <2>1 DEF BeginWith
  <1>9. TypeOK'
    BY <1>1, <1>7, <1>8 DEF TypeOK, facts, cloud
  <1>10. Grows /\ Numbered' /\ NothingMissing'
    BY <1>1, CloudKept DEF EngineKept
  <1>11. Placed(c)' /\ Done(c)'
    BY <1>4, <1>6 DEF Placed, Done, Begun, Built, Sent, Labels
  <1>12. AllDone'
    BY <1>5, <1>10, <1>11, SameWorkKeeps DEF AllDone
  <1> QED BY <1>9, <1>10, <1>12 DEF IInv

\* A new deploy gets the next number, and a tag that is not ahead of it.
LEMMA CreateKeeps ==
  ASSUME IInv, NEW c \in Clis, CreateDeploy(c)
  PROVE  IInv'
  <1> USE DEF At
  <1>1. PICK n \in 0..MaxDeploys :
          /\ Created = 1..n /\ Cardinality(Created) = n
          /\ \A i \in 1..n : deploys[i].tag \in 1..i
    BY NextNumber DEF IInv
  <1>2. n < MaxDeploys /\ n \in Nat /\ MaxDeploys \in Nat /\ n + 1 \in Ids
    BY <1>1, RequestAssumption DEF CreateDeploy, Ids
  <1>3. /\ TypeOK /\ run[c] \in RunType /\ run[c].pc = "create" /\ run[c].q.kind \in Kinds
        /\ run[c].version \in uploads \cup {NoFiles}
    BY AtWork DEF CreateDeploy, Done
  <1>4. PICK t \in 1..(n + 1) : deploys' = [deploys EXCEPT ![n + 1] = [state |-> "open", tag |-> t]]
    <2>1. PICK t \in {LastTag, LastTag + 1} \ {0} :
            deploys' = [deploys EXCEPT ![n + 1] = [state |-> "open", tag |-> t]]
      BY <1>1 DEF CreateDeploy
    <2>2. LastTag \in 0..n
      <3>1. CASE n = 0
        BY <3>1, <1>1 DEF LastTag
      <3>2. CASE n # 0
        BY <3>2, <1>1, <1>2 DEF LastTag
      <3> QED BY <3>1, <3>2
    <2>3. t \in 1..(n + 1)
      BY <2>2, <1>2
    <2> QED BY <2>1, <2>3
  <1>5. Created' = 1..(n + 1) /\ \A i \in 1..n : deploys'[i] = deploys[i]
    <2>1. deploys \in [Ids -> DeployType]
      BY <1>3 DEF TypeOK
    <2>2. \A i \in Ids : deploys'[i].state # "none" <=> deploys[i].state # "none" \/ i = n + 1
      BY <2>1, <1>2, <1>4
    <2>3. Created' = Created \cup {n + 1}
      BY <2>2, <1>2 DEF Created
    <2> QED BY <2>1, <2>3, <1>1, <1>2, <1>4 DEF Ids
  <1>6. deploys' \in [Ids -> DeployType]
    <2>1. [state |-> "open", tag |-> t] \in DeployType
      BY <1>2 DEF DeployType, Tags, Ids
    <2> QED BY <2>1, <1>3, <1>4 DEF TypeOK
  <1>7. deploys'[n + 1].tag = t
    BY <1>2, <1>3, <1>4 DEF TypeOK
  <1>8. Numbered'
    <2>1. \A i \in 1..(n + 1) : deploys'[i].tag \in 1..i
      BY <1>1, <1>2, <1>5, <1>7
    <2> QED BY <2>1, <1>2, <1>5 DEF Numbered
  <1> DEFINE kind == run[c].q.kind
             label == CASE kind \in {"full", "image"} -> "ignore"
                        [] kind = "dags" -> "confirm"
                        [] kind = "bundle" -> "tar"
                        [] kind = "unbundle" -> "finalize"
             r == [run[c] EXCEPT !.id = n + 1, !.pc = label]
  <1>9. /\ label \in {"ignore", "confirm", "tar", "finalize"}
        /\ label \in {"tar", "finalize"} => kind \notin {"full", "image"}
    BY <1>3 DEF Kinds
  <1>10. run' = [run EXCEPT ![c] = r]
    <2>1. run' = [run EXCEPT ![c].id = Cardinality(Created) + 1, ![c].pc = label]
      BY DEF CreateDeploy
    <2> HIDE DEF label
    <2> QED BY <2>1, <1>1
  <1> HIDE DEF label
  <1>11. label \in Labels /\ label \notin Built /\ label # "idle"
    BY <1>9 DEF Labels, Built
  <1>12. r \in RunType
    BY <1>2, <1>3, <1>11 DEF RunType
  <1>13. run' \in [Clis -> RunType] /\ Others(c) /\ run'[c] = r
    BY <1>3, <1>10, <1>12, RunPut
  <1>14. UNCHANGED <<facts, live, registry, uploads, engine, container, checkout>>
    BY DEF CreateDeploy
  <1>15. Grows
    BY <1>1, <1>2, <1>5, <1>14 DEF Grows, EngineKept
  <1>16. Placed(c)' /\ Done(c)'
    <2>1. Placed(c)
      BY DEF IInv, AllDone
    <2>2. /\ run'[c].dep = run[c].dep /\ run'[c].dir = run[c].dir /\ run'[c].q = run[c].q
          /\ run'[c].id = n + 1 /\ run'[c].pc = label /\ run'[c].version = run[c].version
      BY <1>3, <1>13 DEF RunType
    <2>3. Placed(c)'
      BY <2>1, <2>2, <1>3 DEF Placed
    <2>4. ~(run'[c].pc \in Sent /\ run'[c].q.kind \in {"full", "image"})
      BY <2>2, <1>9 DEF Sent
    <2> QED BY <2>2, <2>3, <2>4, <1>2, <1>3, <1>5, <1>11, <1>14 DEF Done
  <1>17. AllDone'
    BY <1>13, <1>15, <1>16, OthersKeep DEF AllDone
  <1>18. TypeOK'
    BY <1>3, <1>6, <1>13, <1>14 DEF TypeOK, facts
  <1>19. NothingMissing'
    BY <1>14 DEF IInv, NothingMissing
  <1> QED BY <1>8, <1>17, <1>18, <1>19 DEF IInv

(* An image is there, whether it was built or prebuilt. *)
LEMMA ImageMadeKeeps ==
  ASSUME IInv, NEW c \in Clis, NEW image \in Images, NEW label \in Built,
         run[c].pc \in Begun, Goto(c, label),
         engine' = [engine EXCEPT ![run[c].dep][0] = image],
         UNCHANGED <<facts, cloud, container, checkout>>
  PROVE  IInv'
  <1>1. /\ TypeOK /\ Done(c) /\ run[c] \in RunType /\ run[c].dep \in Deployments
        /\ run[c].pc # "idle"
    <2>1. run[c].pc # "idle"
      BY DEF Begun
    <2> QED BY <2>1, AtWork
  <1>2. label \in Labels
    BY DEF Built, Labels
  <1>3. run' \in [Clis -> RunType] /\ Others(c) /\ run'[c] = [run[c] EXCEPT !.pc = label]
    BY <1>1, <1>2, GotoMoves
  <1>4. engine' \in [Deployments -> [Tags -> Images \cup {Nothing}]] /\ EngineKept
    <2>1. engine \in [Deployments -> [Tags -> Images \cup {Nothing}]] /\ 0 \in Tags
      BY <1>1 DEF TypeOK, Tags
    <2> QED BY <2>1, <1>1, NothingAssumption DEF EngineKept
  <1>5. engine'[run[c].dep][0] # Nothing
    <2>1. engine \in [Deployments -> [Tags -> Images \cup {Nothing}]] /\ 0 \in Tags
      BY <1>1 DEF TypeOK, Tags
    <2> QED BY <2>1, <1>1, NothingAssumption
  <1>6. TypeOK'
    BY <1>1, <1>3, <1>4 DEF TypeOK, facts, cloud
  <1>7. Numbered' /\ NothingMissing' /\ Grows
    BY <1>4, CloudKept
  <1>8. Placed(c)' /\ Done(c)'
    <2>1. /\ run'[c].dep = run[c].dep /\ run'[c].dir = run[c].dir /\ run'[c].q = run[c].q
          /\ run'[c].id = run[c].id /\ run'[c].pc = label /\ run'[c].version = run[c].version
      BY <1>1, <1>3 DEF RunType
    <2>2. Placed(c)'
      BY <2>1, <1>1 DEF IInv, AllDone, Placed
    <2>3. label \notin Sent
      BY DEF Built, Sent
    <2> QED BY <2>1, <2>2, <2>3, <1>1, <1>5, <1>7 DEF Done, Grows
  <1>9. AllDone'
    BY <1>3, <1>7, <1>8, OthersKeep DEF AllDone
  <1> QED BY <1>6, <1>7, <1>9 DEF IInv

\* A build, or an image named on the command line, keeps the invariant.
LEMMA BuildKeeps ==
  ASSUME IInv, NEW c \in Clis, Build(c) \/ TagPrebuilt(c)
  PROVE  IInv'
  <1> USE DEF At
  <1>1. run[c].pc \in Begun
    BY DEF Build, TagPrebuilt, Begun, Labels
  <1>2. TypeOK /\ run[c].id \in Ids /\ run[c].q.passes \in SUBSET Tests
    BY <1>1, TagKnown, AtWork DEF Begun
  <1>3. ASSUME NEW dags \in BOOLEAN
        PROVE  [by |-> run[c].id, passes |-> run[c].q.passes, dags |-> dags] \in Images
    BY <1>2 DEF Images
  <1>4. UNCHANGED <<facts, cloud, container, checkout>>
    BY DEF Build, TagPrebuilt
  <1>5. CASE Build(c)
    <2> DEFINE ignore == checkout[run[c].dir].ignore
               dags == ignore = Nothing \/ "dags/" \notin ignore
               label == IF WithoutDags(c) THEN "restore" ELSE "check"
    <2>1. label \in Built /\ dags \in BOOLEAN
      BY DEF Built
    <2>2. /\ engine' = [engine EXCEPT ![run[c].dep][0] =
                          [by |-> run[c].id, passes |-> run[c].q.passes, dags |-> dags]]
          /\ Goto(c, label)
      BY <1>5 DEF Build
    <2> HIDE DEF dags, label
    <2> QED BY <2>1, <2>2, <1>1, <1>3, <1>4, ImageMadeKeeps
  <1>6. CASE TagPrebuilt(c)
    <2>1. CASE Exit(c) /\ UNCHANGED engine
      <3>1. Moves(c)
        BY <2>1, <1>2, ExitMoves DEF Moves
      <3>2. Quiet(c)
        BY <2>1, <3>1, <1>2, <1>4 DEF Quiet, TypeOK, EngineKept
      <3> QED BY <3>2, QuietKeeps
    <2>2. ASSUME NEW dags \in BOOLEAN, Goto(c, "check"),
                 engine' = [engine EXCEPT ![run[c].dep][0] =
                              [by |-> run[c].id, passes |-> run[c].q.passes, dags |-> dags]]
          PROVE  IInv'
      <3>1. "check" \in Built
        BY DEF Built
      <3> QED BY <2>2, <3>1, <1>1, <1>3, <1>4, ImageMadeKeeps
    <2> QED BY <1>6, <2>1, <2>2 DEF TagPrebuilt
  <1> QED BY <1>5, <1>6

\* The end of the test container moves every command that waits for it.
LEMMA ContainerExitsKeeps ==
  ASSUME IInv, ContainerExits
  PROVE  IInv'
  <1>1. TypeOK /\ UNCHANGED <<facts, cloud, engine, checkout>>
    BY DEF IInv, ContainerExits
  <1> DEFINE passed == container.test \in container.image \cap container.code
             label == IF passed THEN "passed" ELSE "failed"
  <1>2. /\ container' = [container EXCEPT !.running = FALSE, !.failed = ~passed]
        /\ run' = [c \in Clis |->
                    IF At(c, "wait") THEN [run[c] EXCEPT !.pc = label] ELSE run[c]]
    BY DEF ContainerExits
  <1>3. label \in Built \cap Labels /\ label \notin Sent /\ passed \in BOOLEAN
    BY DEF Built, Labels, Sent
  <1>4. container \in ContainerType
    BY <1>1 DEF TypeOK, ContainerExits
  <1> HIDE DEF passed, label
  <1>5. container' \in ContainerType
    BY <1>2, <1>3, <1>4 DEF ContainerType
  <1>6. ASSUME NEW c \in Clis
        PROVE  run'[c] \in RunType /\ Placed(c)' /\ Done(c)'
    <2>1. run[c] \in RunType
      BY <1>1 DEF TypeOK
    <2>2. Grows
      BY <1>1, CloudKept DEF EngineKept
    <2>3. CASE ~At(c, "wait")
      <3>1. run'[c] = run[c]
        BY <2>3, <1>2
      <3> QED BY <2>1, <2>2, <3>1, SameWorkKeeps DEF SameWork
    <2>4. CASE At(c, "wait")
      <3>1. run'[c] = [run[c] EXCEPT !.pc = label]
        BY <2>4, <1>2
      <3>2. run'[c] \in RunType
        BY <2>1, <3>1, <1>3 DEF RunType
      <3>3. /\ run'[c].dep = run[c].dep /\ run'[c].dir = run[c].dir /\ run'[c].q = run[c].q
            /\ run'[c].id = run[c].id /\ run'[c].pc = label /\ run'[c].version = run[c].version
        BY <2>1, <3>1 DEF RunType
      <3>4. Placed(c) /\ Done(c) /\ run[c].pc \in Begun /\ run[c].pc \in Built /\ run[c].pc # "idle"
        BY <2>4 DEF IInv, AllDone, At, Begun, Built, Labels
      <3>5. Placed(c)'
        BY <3>3, <3>4 DEF Placed
      <3>6. Done(c)'
        BY <3>3, <3>4, <2>2, <1>1, <1>3 DEF Done, Grows
      <3> QED BY <3>2, <3>5, <3>6
    <2> QED BY <2>3, <2>4
  <1>7. run' \in [Clis -> RunType]
    BY <1>2, <1>6
  <1>8. TypeOK'
    BY <1>1, <1>5, <1>7 DEF TypeOK, facts, cloud
  <1>9. Numbered' /\ NothingMissing'
    BY <1>1, CloudKept
  <1> QED BY <1>6, <1>8, <1>9 DEF IInv, AllDone

\* After a push the image is in the registry, under the deploy's tag.
LEMMA PushKeeps ==
  ASSUME IInv, NEW c \in Clis, PushImage(c)
  PROVE  IInv'
  <1> USE DEF At
  <1> DEFINE d == run[c].dep
             t == deploys[run[c].id].tag
             image == engine[d][t]
  <1>1. run[c].pc \in Begun /\ run[c].pc = "push"
    BY DEF PushImage, Begun, Labels
  <1>2. /\ TypeOK /\ Placed(c) /\ Done(c) /\ run[c] \in RunType
        /\ d \in Deployments /\ run[c].id \in Ids /\ t \in Ids /\ run[c].pc # "idle"
    BY <1>1, TagKnown, AtWork DEF IInv, AllDone
  <1>3. t \in Tags /\ t # 0 /\ 0 \in Tags
    BY <1>2, RequestAssumption DEF Tags, Ids
  <1>4. /\ image # Nothing
        /\ registry' = [registry EXCEPT ![d][t] = image]
        /\ engine' = [engine EXCEPT ![d][t] = Nothing]
        /\ Goto(c, AfterPush(c)) \/ Exit(c)
        /\ UNCHANGED <<facts, deploys, live, uploads, container, checkout>>
    BY DEF PushImage
  <1>5. /\ engine \in [Deployments -> [Tags -> Images \cup {Nothing}]]
        /\ registry \in [Deployments -> [Tags -> Images \cup {Nothing}]]
    BY <1>2 DEF TypeOK
  <1> HIDE DEF d, t
  <1>6. image \in Images
    BY <1>2, <1>3, <1>4, <1>5
  <1> HIDE DEF image
  <1>7. engine' \in [Deployments -> [Tags -> Images \cup {Nothing}]] /\ EngineKept
    BY <1>2, <1>3, <1>4, <1>5 DEF EngineKept
  <1>8. /\ registry' \in [Deployments -> [Tags -> Images \cup {Nothing}]]
        /\ registry'[d][t] # Nothing
        /\ \A e \in Deployments, u \in Tags : registry[e][u] # Nothing => registry'[e][u] # Nothing
    BY <1>2, <1>3, <1>4, <1>5, <1>6
  <1>9. Created' = Created
    BY <1>4 DEF Created
  <1>10. Grows
    BY <1>4, <1>7, <1>8, <1>9 DEF Grows, Tags
  <1>11. run' \in [Clis -> RunType] /\ Others(c) /\ Placed(c)' /\ Done(c)'
    <2>1. CASE Exit(c)
      <3>1. run' \in [Clis -> RunType] /\ Others(c) /\ run'[c] = Idle
        BY <2>1, <1>2, ExitMoves
      <3> QED BY <3>1 DEF Placed, Done, Idle, IdleRun, Begun, Built, Sent, Labels
    <2>2. CASE Goto(c, AfterPush(c))
      <3>1. AfterPush(c) \in {"tar", "finalize"}
        BY DEF AfterPush
      <3>2. AfterPush(c) \in Labels /\ AfterPush(c) \notin Built
        BY <3>1 DEF Labels, Built
      <3>3. /\ run' \in [Clis -> RunType] /\ Others(c)
            /\ run'[c] = [run[c] EXCEPT !.pc = AfterPush(c)]
        BY <2>2, <3>2, <1>2, GotoMoves
      <3>4. /\ run'[c].dep = run[c].dep /\ run'[c].dir = run[c].dir /\ run'[c].q = run[c].q
            /\ run'[c].id = run[c].id /\ run'[c].pc = AfterPush(c)
            /\ run'[c].version = run[c].version
        BY <1>2, <3>3 DEF RunType
      <3>5. Placed(c)'
        BY <3>4, <1>2 DEF Placed
      <3>6. registry'[run'[c].dep][deploys'[run'[c].id].tag] # Nothing
        BY <3>4, <1>4, <1>8 DEF d, t
      <3>7. Done(c)'
        BY <3>2, <3>4, <3>6, <1>1, <1>2, <1>4, <1>9 DEF Done
      <3> QED BY <3>3, <3>5, <3>7
    <2> QED BY <1>4, <2>1, <2>2
  <1>12. AllDone'
    BY <1>10, <1>11, OthersKeep DEF AllDone
  <1>13. TypeOK'
    BY <1>2, <1>4, <1>7, <1>8, <1>11 DEF TypeOK, facts
  <1>14. Numbered'
    BY <1>4, <1>9 DEF IInv, Numbered
  <1>15. NothingMissing'
    <2>1. \A e \in Deployments : live[e].image \in Tags
      BY <1>2 DEF TypeOK, LiveType
    <2> QED BY <2>1, <1>4, <1>8 DEF IInv, NothingMissing
  <1> QED BY <1>12, <1>13, <1>14, <1>15 DEF IInv

\* After an upload the command knows a version that is in the blob store.
LEMMA UploadKeeps ==
  ASSUME IInv, NEW c \in Clis, UploadTar(c)
  PROVE  IInv'
  <1> USE DEF At
  <1> DEFINE archive == checkout[run[c].dir].gz
             r == [run[c] EXCEPT !.version = archive, !.pc = "finalize"]
  <1>1. run[c].pc \in Begun /\ run[c].pc = "upload" /\ run[c].pc \in Sent
    BY DEF UploadTar, Begun, Sent, Labels
  <1>2. /\ TypeOK /\ Placed(c) /\ Done(c) /\ run[c] \in RunType
        /\ run[c].dir \in Checkouts /\ checkout[run[c].dir] \in CheckoutType
    BY <1>1, AtWork DEF IInv, AllDone
  <1>3. /\ archive # Nothing /\ uploads' = uploads \cup {archive} /\ CleanUp(c)
        /\ UNCHANGED <<facts, deploys, live, registry, engine, container>>
    BY DEF UploadTar
  <1>4. run' = [run EXCEPT ![c] = r]
    BY DEF UploadTar
  <1>5. archive \in Tarballs
    BY <1>2, <1>3 DEF CheckoutType
  <1> HIDE DEF archive
  <1>6. r \in RunType
    BY <1>2, <1>5 DEF RunType, Labels
  <1>7. run' \in [Clis -> RunType] /\ Others(c) /\ run'[c] = r
    BY <1>2, <1>4, <1>6, RunPut
  <1>8. /\ run'[c].dep = run[c].dep /\ run'[c].dir = run[c].dir /\ run'[c].q = run[c].q
        /\ run'[c].id = run[c].id /\ run'[c].pc = "finalize" /\ run'[c].version = archive
    BY <1>2, <1>7 DEF RunType
  <1>9. Created' = Created
    BY <1>3 DEF Created
  <1>10. Grows
    BY <1>3, <1>9 DEF Grows, EngineKept
  <1>11. Placed(c)'
    BY <1>2, <1>8, <1>1 DEF Placed
  <1>12. Done(c)'
    <2>1. "finalize" \notin Built
      BY DEF Built
    <2> QED BY <2>1, <1>1, <1>2, <1>3, <1>8, <1>9 DEF Done
  <1>13. AllDone'
    BY <1>7, <1>10, <1>11, <1>12, OthersKeep DEF AllDone
  <1>14. checkout' \in [Checkouts -> CheckoutType]
    BY <1>2, <1>3, CleanUpTyped
  <1>15. TypeOK'
    BY <1>2, <1>3, <1>5, <1>7, <1>14 DEF TypeOK, facts
  <1>16. Numbered' /\ NothingMissing'
    BY <1>3, <1>9 DEF IInv, Numbered, NothingMissing
  <1> QED BY <1>13, <1>15, <1>16 DEF IInv

(* What is finalized is at Astro. *)
LEMMA FinalizeKeeps ==
  ASSUME IInv, NEW c \in Clis, Finalize(c)
  PROVE  IInv'
  <1> USE DEF At
  <1> DEFINE d == run[c].dep
             i == run[c].id
  <1>1. run[c].pc = "finalize" /\ run[c].pc \in Begun /\ run[c].pc \in Sent
    BY DEF Finalize, Begun, Sent, Labels
  <1>2. /\ TypeOK /\ Done(c) /\ run[c] \in RunType /\ d \in Deployments
        /\ i \in Ids /\ i \in Created /\ deploys[i].tag \in Ids
    BY <1>1, TagKnown, AtWork DEF Done
  <1>3. /\ live' = Finalized(c)
        /\ deploys' = [deploys EXCEPT ![i].state = "final"]
        /\ Exit(c)
        /\ UNCHANGED <<facts, registry, uploads, engine, container, checkout>>
    BY DEF Finalize
  <1>4. run' \in [Clis -> RunType] /\ Others(c) /\ run'[c] = Idle
    BY <1>2, <1>3, ExitMoves
  <1>5. deploys \in [Ids -> DeployType] /\ live \in [Deployments -> LiveType]
    BY <1>2 DEF TypeOK
  <1>6. /\ deploys' \in [Ids -> DeployType]
        /\ \A j \in Ids : deploys'[j].tag = deploys[j].tag
        /\ \A j \in Ids : deploys'[j].state # "none" <=> deploys[j].state # "none"
    <2> DEFINE r == [deploys[i] EXCEPT !.state = "final"]
    <2>1. deploys[i] \in DeployType /\ deploys[i].state # "none"
      BY <1>2, <1>5 DEF Created
    <2>2. r \in DeployType /\ r.tag = deploys[i].tag /\ r.state = "final"
      BY <2>1 DEF DeployType
    <2>3. deploys' = [deploys EXCEPT ![i] = r]
      BY <1>3
    <2> HIDE DEF r, i
    <2>4. deploys' \in [Ids -> DeployType]
      BY <2>2, <2>3, <1>5
    <2>5. \A j \in Ids : deploys'[j] = IF j = i THEN r ELSE deploys[j]
      BY <2>3, <1>5
    <2> QED BY <2>1, <2>2, <2>4, <2>5
  <1>7. Created' = Created
    BY <1>6 DEF Created
  <1>8. Grows
    BY <1>3, <1>6, <1>7 DEF Grows, EngineKept, Created
  <1>9. Placed(c)' /\ Done(c)'
    BY <1>4 DEF Placed, Done, Idle, IdleRun, Begun, Built, Sent, Labels
  <1>10. AllDone'
    BY <1>4, <1>8, <1>9, OthersKeep DEF AllDone
  <1>11. Numbered'
    <2>1. PICK n \in 0..MaxDeploys : Created = 1..n /\ \A j \in 1..n : deploys[j].tag \in 1..j
      BY DEF IInv, Numbered
    <2>2. \A j \in 1..n : deploys'[j].tag \in 1..j
      BY <2>1, <1>6 DEF Created
    <2> QED BY <2>1, <2>2, <1>7 DEF Numbered
  <1>12. /\ run[c].version \in uploads \cup {NoFiles} /\ uploads \subseteq Tarballs
         /\ run[c].q.kind \in {"full", "image"} => registry[d][deploys[i].tag] # Nothing
    BY <1>1, <1>2, SMTT(30) DEF Done, TypeOK
  <1> DEFINE image == IF run[c].q.kind \in {"full", "image"} THEN deploys[i].tag ELSE live[d].image
             dags == IF run[c].q.kind \in {"full", "dags"} /\ run[c].enabled
                       THEN run[c].version ELSE live[d].dags
             bundle == IF run[c].q.kind \in {"bundle", "unbundle"}
                         THEN run[c].version ELSE live[d].bundle
             l == [live[d] EXCEPT !.image = image, !.dags = dags, !.bundle = bundle]
  <1>13. live' = [live EXCEPT ![d] = l]
    BY <1>3 DEF Finalized
  <1>14. live[d] \in LiveType
    BY <1>2, <1>5
  <1>15. /\ image \in Tags /\ (image # 0 => registry[d][image] # Nothing)
         /\ dags \in uploads \cup {NoFiles} /\ bundle \in uploads \cup {NoFiles}
    BY <1>2, <1>12, <1>14 DEF IInv, NothingMissing, LiveType, Tags
  <1> HIDE DEF image, dags, bundle, d, i
  <1>16. l \in LiveType /\ l.image = image /\ l.dags = dags /\ l.bundle = bundle
    BY <1>12, <1>14, <1>15 DEF LiveType
  <1> HIDE DEF l
  <1>17. /\ live' \in [Deployments -> LiveType]
         /\ \A e \in Deployments : live'[e] = IF e = d THEN l ELSE live[e]
    BY <1>2, <1>5, <1>13, <1>16
  <1>18. TypeOK'
    BY <1>2, <1>3, <1>4, <1>6, <1>17 DEF TypeOK, facts
  <1>19. NothingMissing'
    BY <1>3, <1>15, <1>16, <1>17 DEF IInv, NothingMissing
  <1> QED BY <1>10, <1>11, <1>18, <1>19 DEF IInv

----------------------------------------------------------------------------
(* Theorems. *)

\* The invariant is inductive.
THEOREM NextKeeps == IInv /\ [Next]_vars => IInv'
  <1> SUFFICES ASSUME IInv, [Next]_vars PROVE IInv'
    OBVIOUS
  <1>1. ASSUME NEW c \in Clis, Step(c)
        PROVE  IInv'
    <2>1. CASE Begin(c)
      BY <2>1, BeginKeeps
    <2>2. CASE CreateDeploy(c)
      BY <2>2, CreateKeeps
    <2>3. CASE Ends(c)
      BY <2>3, EndsQuietly, QuietKeeps
    <2>4. CASE RemoveDagsLine(c) \/ Confirm(c) \/ ExcludeDags(c) \/ BuildFails(c) \/ RestoreIgnore(c)
      BY <2>4, PreparesQuietly, QuietKeeps
    <2>5. CASE Build(c) \/ TagPrebuilt(c)
      BY <2>5, BuildKeeps
    <2>6. CASE \/ ImageAccepted(c) \/ ParseSkipped(c) \/ RemoveOldContainer(c) \/ CreateContainer(c)
               \/ CopyCode(c) \/ StartContainer(c) \/ ReadVerdict(c)
      BY <2>6, TestsQuietly, QuietKeeps
    <2>7. CASE TagImage(c) \/ MakeTar(c) \/ GzipTar(c)
      BY <2>7, PacksQuietly, QuietKeeps
    <2>8. CASE PushImage(c)
      BY <2>8, PushKeeps
    <2>9. CASE UploadTar(c)
      BY <2>9, UploadKeeps
    <2>10. CASE Finalize(c)
      BY <2>10, FinalizeKeeps
    <2> QED
      BY <1>1, <2>1, <2>2, <2>3, <2>4, <2>5, <2>6, <2>7, <2>8, <2>9, <2>10 DEF Step, Ends
  <1>2. CASE ContainerExits
    BY <1>2, ContainerExitsKeeps
  <1>3. CASE UNCHANGED vars
    <2>1. UNCHANGED cloud /\ EngineKept /\ \A e \in Clis : SameWork(e)
      BY <1>3 DEF vars, cloud, EngineKept, SameWork
    <2>2. TypeOK'
      BY <1>3 DEF IInv, TypeOK, vars
    <2> QED BY <2>1, <2>2, CloudKept, SameWorkKeeps DEF IInv, AllDone
  <1> QED BY <1>1, <1>2, <1>3 DEF Next

\* Every variable keeps its type, whatever commands interleave, fail or are killed.
THEOREM Typed == Spec => []TypeOK
  <1>1. IInv => TypeOK
    BY DEF IInv
  <1> QED BY <1>1, InitEstablishes, NextKeeps, PTL DEF Spec

\* No deployment is ever told to run an image that was not pushed, or files that were not
\* uploaded, however many commands deploy, fail or are killed (Deploy, DeployBundle).
THEOREM NothingMissed == Spec => []NothingMissing
  <1>1. IInv => NothingMissing
    BY DEF IInv
  <1> QED BY <1>1, InitEstablishes, NextKeeps, PTL DEF Spec

----------------------------------------------------------------------------
(* The invariant of the other properties. *)

Making == {"confirm", "exclude", "build", "undo", "retag"} \cup Built

\* A command that met nobody is alone; one that shared nothing has its checkout and its
\* deployment to itself.
Meeting ==
  \A c, e \in Clis : c # e /\ Active(c) /\ Active(e) =>
    /\ run[c].met # "nobody"
    /\ run[c].dep = run[e].dep \/ run[c].dir = run[e].dir => run[c].met = "sharing"

(* The deploy uploads DAGs or a bundle. *)
Brings(c) ==
  \/ run[c].q.kind \in {"dags", "bundle"}
  \/ run[c].q.kind = "full" /\ run[c].enabled /\ Files(c)

\* A command is where its request leads, and has been asked what it had to be.
OnCourse(c) ==
  /\ run[c].pc \in {"ignore", "tag", "push"} => run[c].q.kind \in {"full", "image"}
  /\ run[c].pc \in Making => run[c].q.kind \in {"full", "image", "dags"}
  /\ run[c].pc \in {"tar", "gzip", "upload"} => Brings(c)
  /\ run[c].pc \in {"exclude", "restore", "undo"} => WithoutDags(c)
  /\ run[c].pc = "retag" => run[c].q.prebuilt
  /\ run[c].pc \in Labels \ {"idle", "create", "ignore", "confirm"} =>
       (WouldEmpty(c) => run[c].agreed)
  /\ run[c].pc # "finalize" \/ ~Brings(c) => run[c].version = NoFiles

LeavesOut(ignore) == ignore # Nothing /\ "dags/" \in ignore

Own(c, image) ==
  /\ image.by = run[c].id /\ image.passes = run[c].q.passes
  /\ run[c].q.kind # "dags" /\ ~run[c].q.prebuilt => (image.dags <=> ~WithoutDags(c))

OwnTar(c) == [by |-> run[c].id, some |-> run[c].q.files]

\* What a command that shared nothing with another finds, where it is, is its own.
ToItself(c) ==
  Active(c) /\ run[c].met # "sharing" =>
    LET v == checkout[run[c].dir]
        d == run[c].dep
        t == deploys[run[c].id].tag
    IN /\ run[c].pc = "confirm" /\ run[c].q.kind # "dags" => ~LeavesOut(v.ignore)
       /\ run[c].pc = "build" /\ run[c].q.kind # "dags" =>
            (LeavesOut(v.ignore) <=> WithoutDags(c))
       /\ run[c].pc \in Built => Own(c, engine[d][0])
       /\ run[c].pc = "push" => Own(c, engine[d][t])
       /\ run[c].pc \in Sent /\ run[c].q.kind \in {"full", "image"} => Own(c, registry[d][t])
       /\ run[c].pc = "gzip" => v.tar = OwnTar(c)
       /\ run[c].pc = "upload" => v.gz = OwnTar(c)
       /\ run[c].pc = "finalize" /\ Brings(c) => run[c].version = OwnTar(c)

\* The container of a command that is alone runs its tests on its code, and the command
\* is past them only if its code passes.
Alone(c) ==
  Active(c) /\ run[c].met = "nobody" =>
    /\ run[c].pc \in {"copy", "start", "wait"} =>
         /\ container # Nothing /\ container.test = run[c].test
         /\ container.image = run[c].q.passes /\ container.code = run[c].q.passes
         /\ container.running <=> run[c].pc = "wait"
    /\ run[c].pc = "passed" => run[c].test \in run[c].q.passes
    /\ run[c].pc \in {"tag", "push"} \cup Sent /\ Files(c) /\ "pytest" \in run[c].q.tests =>
         "pytest" \in run[c].q.passes

\* A command's deploy is open, and no other command's.
Opened(c) ==
  run[c].pc \in Begun =>
    /\ deploys[run[c].id].state = "open"
    /\ \A e \in Clis \ {c} : run[e].pc \in Begun => run[e].id # run[c].id

Original(ignore) == {ignore, Without(ignore)}
NoneLeft(v) == v.tar = Nothing /\ v.gz = Nothing /\ ~v.monitor

(* A command has "dags/" in .dockerignore for a build, and the file in memory. *)
Excluding(c) ==
  run[c].pc \in {"restore", "undo"} \/ (run[c].pc = "build" /\ WithoutDags(c))

\* The command can still put its checkout as it found it.
InHand(c) ==
  LET v == checkout[run[c].dir]
      f == found[run[c].dir]
  IN /\ IF Excluding(c) THEN run[c].saved \in Original(f) ELSE v.ignore \in Original(f)
     /\ IF run[c].pc \in {"gzip", "upload"} THEN v.monitor => Monitors(c) ELSE NoneLeft(v)

\* A checkout where no command was killed or met another is as it was found, or in the
\* hands of the one command that runs there.
Tidy(w) ==
  ~checkout[w].shaken =>
    /\ \A c, e \in Clis : Active(c) /\ Active(e) /\ run[c].dir = w /\ run[e].dir = w => c = e
    /\ \A c \in Clis : Active(c) /\ run[c].dir = w => InHand(c)
    /\ (\A c \in Clis : Active(c) => run[c].dir # w) =>
         checkout[w].ignore \in Original(found[w]) /\ NoneLeft(checkout[w])

\* The invariant.
WorkInv ==
  /\ IInv /\ Meeting
  /\ \A c \in Clis : OnCourse(c) /\ ToItself(c) /\ Alone(c) /\ Opened(c)
  /\ \A w \in Checkouts : Tidy(w)

(* What a command was asked, and where, stays. *)
Same(c) ==
  /\ run'[c].q = run[c].q /\ run'[c].dep = run[c].dep /\ run'[c].dir = run[c].dir
  /\ run'[c].enabled = run[c].enabled /\ run'[c].files = run[c].files
  /\ run'[c].met = run[c].met

(* And all else that it knows. *)
Knows(c) ==
  /\ Same(c)
  /\ run'[c].id = run[c].id /\ run'[c].version = run[c].version
  /\ run'[c].saved = run[c].saved /\ run'[c].agreed = run[c].agreed
  /\ run'[c].test = run[c].test

(* A command's steps touch nothing but its checkout, its deployment and its deploy. *)
Frame(c) ==
  /\ UNCHANGED facts
  /\ \A w \in Checkouts : w # run[c].dir => checkout'[w] = checkout[w]
  /\ \A d \in Deployments : d # run[c].dep => engine'[d] = engine[d] /\ registry'[d] = registry[d]
  /\ \A i \in Created : deploys'[i].tag = deploys[i].tag
  /\ checkout[run[c].dir].shaken => checkout'[run[c].dir].shaken

(* A command that goes on has the deploy it had, or a new one. *)
Numbers(c) ==
  \/ run[c].pc # "create" /\ run'[c].id = run[c].id /\ deploys' = deploys
  \/ /\ run'[c].id \notin Created /\ deploys'[run'[c].id].state = "open"
     /\ \A i \in Created : deploys'[i] = deploys[i]

(* A command goes on to what the invariant says of where it then is. *)
Advances(c) ==
  /\ Active(c) /\ Others(c) /\ Frame(c)
  /\ run'[c].pc # "idle" /\ Same(c) /\ Numbers(c)
  /\ OnCourse(c)' /\ ToItself(c)' /\ Alone(c)'
  /\ checkout'[run[c].dir].shaken \/ InHand(c)'

(* A command ends, and its checkout is as it was found. *)
Leaves(c) ==
  /\ Active(c) /\ Others(c) /\ Frame(c)
  /\ run'[c] = Idle
  /\ \/ deploys' = deploys
     \/ run[c].pc \in Begun /\ \A i \in Created : i # run[c].id => deploys'[i] = deploys[i]
  /\ LET v == checkout'[run[c].dir] IN
       v.shaken \/ (v.ignore \in Original(found[run[c].dir]) /\ NoneLeft(v))

----------------------------------------------------------------------------
\* The invariant holds at the start.
LEMMA WorkBegins == Init => WorkInv
  <1> SUFFICES ASSUME Init PROVE WorkInv
    OBVIOUS
  <1>1. IInv
    BY InitEstablishes
  <1>2. \A c \in Clis : run[c].pc = "idle" /\ run[c].version = NoFiles
    BY DEF Init, Idle, IdleRun
  <1>3. Meeting /\ \A c \in Clis : OnCourse(c) /\ ToItself(c) /\ Alone(c) /\ Opened(c)
    BY <1>2 DEF Meeting, OnCourse, ToItself, Alone, Opened, Active, Making, Built, Begun
  <1>4. \A w \in Checkouts : Tidy(w)
    BY <1>2 DEF Init, Tidy, Active, Original, NoneLeft
  <1> QED BY <1>1, <1>3, <1>4 DEF WorkInv

\* Another command's step disturbs nothing of what a command rests on.
LEMMA OthersApart ==
  ASSUME WorkInv, NEW c \in Clis, NEW e \in Clis, e # c, Active(c), Others(c), Frame(c)
  PROVE  OnCourse(e)' /\ ToItself(e)' /\ Alone(e)'
  <1>1. run'[e] = run[e] /\ service' = service /\ found' = found
    BY DEF Others, Frame, facts
  <1>2. OnCourse(e) /\ ToItself(e) /\ Alone(e) /\ Placed(e) /\ Done(e)
    BY DEF WorkInv, IInv, AllDone
  <1>3. OnCourse(e)'
    BY <1>1, <1>2 DEF OnCourse, WouldEmpty, WithoutDags, Remote, Files, Brings
  <1>4. Alone(e)'
    <2>1. ~(Active(e) /\ run[e].met = "nobody")
      BY SMTT(30) DEF WorkInv, Meeting
    <2> QED BY <2>1, <1>1 DEF Alone, Active
  <1>5. ToItself(e)'
    <2> SUFFICES ASSUME Active(e), run[e].met # "sharing"
                 PROVE  ToItself(e)'
      BY <1>1 DEF ToItself, Active
    <2>1. run[c].dep # run[e].dep /\ run[c].dir # run[e].dir
      BY DEF WorkInv, Meeting
    <2>2. run[e].dep \in Deployments /\ run[e].dir \in Checkouts
      BY <1>2 DEF Placed, Active
    <2>3. /\ checkout'[run[e].dir] = checkout[run[e].dir]
          /\ engine'[run[e].dep] = engine[run[e].dep]
          /\ registry'[run[e].dep] = registry[run[e].dep]
      BY <2>1, <2>2 DEF Frame
    <2>4. run[e].pc \in Begun => deploys'[run[e].id].tag = deploys[run[e].id].tag
      BY <1>2 DEF Done, Frame
    <2>5. "push" \in Begun /\ Sent \subseteq Begun
      BY DEF Sent, Begun, Labels
    <2> QED BY <1>1, <1>2, <2>3, <2>4, <2>5, ZenonT(30)
            DEF ToItself, Active, Own, OwnTar, LeavesOut, WithoutDags, Remote, Brings, Files
  <1> QED BY <1>3, <1>4, <1>5

\* One command's place in its checkout is no other's.
LEMMA TidyElsewhere ==
  ASSUME WorkInv, NEW c \in Clis, Active(c), Others(c), Frame(c),
         run'[c].pc = "idle" \/ run'[c].dir = run[c].dir,
         NEW w \in Checkouts, w # run[c].dir
  PROVE  Tidy(w)'
  <1>1. /\ checkout'[w] = checkout[w] /\ found' = found /\ service' = service
        /\ \A e \in Clis : e # c => run'[e] = run[e]
    BY DEF Others, Frame, facts
  <1>2. \A e \in Clis : Active(e)' /\ run'[e].dir = w <=> Active(e) /\ run[e].dir = w
    BY <1>1 DEF Active
  <1>3. \A e \in Clis : run[e].dir = w => run'[e] = run[e]
    BY <1>1
  <1> SUFFICES ASSUME ~checkout[w].shaken
               PROVE  Tidy(w)'
    BY <1>1 DEF Tidy
  <1>4. Tidy(w)
    BY DEF WorkInv
  <1>5. ASSUME NEW e \in Clis, Active(e)', run'[e].dir = w
        PROVE  InHand(e)'
    <2>1. run[e].dir = w /\ run'[e] = run[e] /\ Active(e)
      BY <1>2, <1>3, <1>5
    <2>2. InHand(e)
      BY <2>1, <1>4 DEF Tidy
    <2> QED BY <2>1, <2>2, <1>1 DEF InHand, Excluding, Monitors, WithoutDags, Remote
  <1>6. \A d, e \in Clis : Active(d)' /\ Active(e)' /\ run'[d].dir = w /\ run'[e].dir = w => d = e
    BY <1>2, <1>4 DEF Tidy
  <1>7. (\A e \in Clis : Active(e)' => run'[e].dir # w) =>
          checkout'[w].ignore \in Original(found'[w]) /\ NoneLeft(checkout'[w])
    BY <1>1, <1>2, <1>4 DEF Tidy
  <1> QED BY <1>5, <1>6, <1>7 DEF Tidy

\* A command that goes on as its place asks keeps the invariant.
LEMMA AdvanceKeeps ==
  ASSUME WorkInv, IInv', NEW c \in Clis, Advances(c)
  PROVE  WorkInv'
  <1> USE DEF Advances
  <1>1. Meeting'
    <2>1. \A e \in Clis : Active(e)' <=> Active(e)
      BY DEF Active, Others
    <2>2. \A e \in Clis : /\ run'[e].met = run[e].met /\ run'[e].dep = run[e].dep
                          /\ run'[e].dir = run[e].dir
      BY DEF Others, Same
    <2> QED BY <2>1, <2>2 DEF WorkInv, Meeting
  <1>2. \A e \in Clis : OnCourse(e)' /\ ToItself(e)' /\ Alone(e)'
    BY OthersApart
  <1>3. ASSUME NEW w \in Checkouts
        PROVE  Tidy(w)'
    <2>1. CASE w # run[c].dir
      BY <2>1, TidyElsewhere DEF Same
    <2>2. CASE w = run[c].dir
      <3> SUFFICES ASSUME ~checkout'[w].shaken
                   PROVE  Tidy(w)'
        BY DEF Tidy
      <3>1. ~checkout[w].shaken /\ InHand(c)'
        BY <2>2 DEF Frame
      <3>2. \A e \in Clis : Active(e) /\ run[e].dir = w => e = c
        BY <2>2, <3>1 DEF WorkInv, Tidy
      <3>3. \A e \in Clis : Active(e)' /\ run'[e].dir = w => e = c
        BY <3>2 DEF Others, Active
      <3>4. Active(c)' /\ run'[c].dir = w
        BY <2>2 DEF Same, Active
      <3> QED BY <3>1, <3>3, <3>4 DEF Tidy
    <2> QED BY <2>1, <2>2
  <1>4. ASSUME NEW e \in Clis, run'[e].pc \in Begun
        PROVE  Opened(e)'
    <2>1. \A a \in Clis : run[a].pc \in Begun => run[a].id \in Created
      BY DEF WorkInv, IInv, AllDone, Done
    <2>2. \A a \in Clis : Opened(a)
      BY DEF WorkInv
    <2>3. \A a \in Clis : a # c => run'[a] = run[a]
      BY DEF Others
    <2>4. run[c].pc = "create" \/ run[c].pc \in Begun
      <3>1. run[c].pc \in Labels \ {"idle"}
        BY DEF WorkInv, IInv, TypeOK, RunType, Active
      <3> QED BY <3>1 DEF Begun
    <2>5. CASE run[c].pc # "create" /\ run'[c].id = run[c].id /\ deploys' = deploys
      BY <2>2, <2>3, <2>4, <2>5, <1>4 DEF Opened
    <2>6. CASE /\ run'[c].id \notin Created /\ deploys'[run'[c].id].state = "open"
               /\ \A i \in Created : deploys'[i] = deploys[i]
      BY <2>1, <2>2, <2>3, <2>6, <1>4 DEF Opened
    <2> QED BY <2>5, <2>6 DEF Numbers
  <1> QED BY <1>1, <1>2, <1>3, <1>4 DEF WorkInv, Opened

\* So does one that ends and leaves its checkout as it was.
LEMMA LeaveKeeps ==
  ASSUME WorkInv, IInv', NEW c \in Clis, Leaves(c)
  PROVE  WorkInv'
  <1> USE DEF Leaves
  <1>1. ~Active(c)' /\ run'[c].pc = "idle" /\ run'[c].version = NoFiles
    BY DEF Active, Idle, IdleRun
  <1>2. Meeting'
    BY <1>1 DEF WorkInv, Meeting, Active, Others
  <1>3. \A e \in Clis : OnCourse(e)' /\ ToItself(e)' /\ Alone(e)'
    <2>1. OnCourse(c)' /\ ToItself(c)' /\ Alone(c)'
      BY <1>1 DEF OnCourse, ToItself, Alone, Making, Built
    <2> QED BY <2>1, OthersApart
  <1>4. ASSUME NEW w \in Checkouts
        PROVE  Tidy(w)'
    <2>1. CASE w # run[c].dir
      BY <2>1, <1>1, TidyElsewhere
    <2>2. CASE w = run[c].dir
      <3> SUFFICES ASSUME ~checkout'[w].shaken
                   PROVE  Tidy(w)'
        BY DEF Tidy
      <3>1. /\ ~checkout[w].shaken /\ found' = found
            /\ checkout'[w].ignore \in Original(found[w]) /\ NoneLeft(checkout'[w])
        BY <2>2 DEF Frame, facts
      <3>2. \A e \in Clis : Active(e) /\ run[e].dir = w => e = c
        BY <2>2, <3>1 DEF WorkInv, Tidy
      <3>3. \A e \in Clis : Active(e)' => run'[e].dir # w
        BY <3>2, <1>1 DEF Others, Active
      <3> QED BY <3>1, <3>3 DEF Tidy
    <2> QED BY <2>1, <2>2
  <1>5. ASSUME NEW e \in Clis, run'[e].pc \in Begun
        PROVE  Opened(e)'
    <2>1. \A a \in Clis : a # c => run'[a] = run[a]
      BY DEF Others
    <2>2. e # c /\ run'[c].pc \notin Begun
      BY <1>1, <1>5 DEF Begun
    <2>3. run[e].id \in Created /\ Opened(e)
      BY <2>1, <2>2, <1>5 DEF WorkInv, IInv, AllDone, Done
    <2> QED BY <2>1, <2>2, <2>3, <1>5 DEF Opened
  <1> QED BY <1>2, <1>3, <1>4, <1>5 DEF WorkInv, Opened

----------------------------------------------------------------------------
(* What each step makes of the command's record. *)

\* Goto changes where a command is.
LEMMA GotoKnows ==
  ASSUME TypeOK, NEW c \in Clis, NEW label, Goto(c, label)
  PROVE  Others(c) /\ Knows(c) /\ run'[c].pc = label
  <1>1. run[c] \in RunType
    BY DEF TypeOK
  <1>2. Others(c) /\ run'[c] = [run[c] EXCEPT !.pc = label]
    BY DEF Goto, Others, TypeOK
  <1> QED BY <1>1, <1>2 DEF RunType, Knows, Same

\* Exit ends it.
LEMMA ExitEnds ==
  ASSUME TypeOK, NEW c \in Clis, Exit(c)
  PROVE  Others(c) /\ run'[c] = Idle
  BY DEF Exit, Others, TypeOK

\* What the invariant says of a command under way.
LEMMA UnderWay ==
  ASSUME WorkInv, NEW c \in Clis, run[c].pc # "idle"
  PROVE  /\ TypeOK /\ Done(c) /\ Active(c) /\ run[c] \in RunType
         /\ run[c].dep \in Deployments /\ run[c].dir \in Checkouts
         /\ run[c].q \in Requests /\ run[c].q.kind \in Kinds
         /\ checkout[run[c].dir] \in CheckoutType
         /\ OnCourse(c) /\ ToItself(c) /\ Alone(c)
         /\ checkout[run[c].dir].shaken \/ InHand(c)
  <1>1. IInv /\ Active(c)
    BY DEF WorkInv, Active
  <1>2. /\ TypeOK /\ Done(c) /\ run[c] \in RunType
        /\ run[c].dep \in Deployments /\ run[c].dir \in Checkouts /\ run[c].q.kind \in Kinds
        /\ checkout[run[c].dir] \in CheckoutType
    BY <1>1, AtWork
  <1>3. run[c].q \in Requests
    BY <1>1 DEF IInv, AllDone, Placed
  <1>4. checkout[run[c].dir].shaken \/ InHand(c)
    BY <1>1, <1>2 DEF WorkInv, Tidy
  <1> QED BY <1>1, <1>2, <1>3, <1>4 DEF WorkInv

\* Steps that touch none of what is shared keep to themselves.
LEMMA NothingTouched ==
  ASSUME NEW c, UNCHANGED <<facts, deploys, registry, engine, checkout>>
  PROVE  Frame(c)
  BY DEF Frame

\* A command that ends with no file of its own in the checkout leaves it as it was.
LEMMA PlainExit ==
  ASSUME WorkInv, NEW c \in Clis, run[c].pc \notin {"idle", "gzip", "upload"}, ~Excluding(c),
         Frame(c), Exit(c), UNCHANGED checkout,
         \/ deploys' = deploys
         \/ run[c].pc \in Begun /\ \A i \in Created : i # run[c].id => deploys'[i] = deploys[i]
  PROVE  Leaves(c)
  <1>1. TypeOK /\ Active(c) /\ (checkout[run[c].dir].shaken \/ InHand(c))
    BY UnderWay
  <1>2. Others(c) /\ run'[c] = Idle
    BY <1>1, ExitEnds
  <1> QED BY <1>1, <1>2 DEF Leaves, InHand

----------------------------------------------------------------------------
(* The steps that end a command. *)

\* Whoever fails, gives up or is killed leaves the checkout as it was, or shaken.
LEMMA EndsLeave ==
  ASSUME WorkInv, NEW c \in Clis, Ends(c)
  PROVE  Leaves(c)
  <1> DEFINE w == run[c].dir
  <1>1. /\ Exit(c) /\ UNCHANGED <<facts, cloud, engine, container>>
        /\ run[c].pc # "idle"
    BY DEF Ends, CreateFails, IgnoreFails, Canceled, ExcludeFails, ImageRefused,
           ContainerFails, PushFails, NothingPacked, TarOrUploadFails, FinalizeFails, Killed, At, Active
  <1>2. /\ TypeOK /\ Active(c) /\ w \in Checkouts /\ checkout[w] \in CheckoutType
        /\ checkout[w].shaken \/ InHand(c)
    BY <1>1, UnderWay
  <1>3. Others(c) /\ run'[c] = Idle
    BY <1>1, <1>2, ExitEnds
  <1>4. checkout \in [Checkouts -> CheckoutType]
    BY <1>2 DEF TypeOK
  <1>5. CASE UNCHANGED checkout /\ run[c].pc \notin {"gzip", "upload"} /\ ~Excluding(c)
    <2>1. Frame(c)
      BY <1>1, <1>5 DEF Frame, cloud
    <2> QED BY <2>1, <1>1, <1>5, PlainExit DEF cloud
  <1>6. CASE IgnoreFails(c) /\ SetIgnore(c, Without(checkout[w].ignore))
    <2> DEFINE v == [checkout[w] EXCEPT !.ignore = Without(checkout[w].ignore)]
    <2>1. checkout' = [checkout EXCEPT ![w] = v]
      BY <1>6 DEF SetIgnore
    <2>2. /\ v.shaken = checkout[w].shaken /\ v.ignore = Without(checkout[w].ignore)
          /\ v.tar = checkout[w].tar /\ v.gz = checkout[w].gz /\ v.monitor = checkout[w].monitor
      BY <1>2 DEF CheckoutType
    <2> HIDE DEF v
    <2>3. checkout'[w] = v /\ \A u \in Checkouts : u # w => checkout'[u] = checkout[u]
      BY <2>1, <1>2, <1>4
    <2>4. Frame(c)
      BY <1>1, <2>2, <2>3 DEF Frame, cloud
    <2>5. v.shaken \/ (v.ignore \in Original(found[w]) /\ NoneLeft(v))
      <3>1. ASSUME InHand(c)
            PROVE  checkout[w].ignore \in Original(found[w]) /\ NoneLeft(checkout[w])
        BY <3>1, <1>6 DEF InHand, IgnoreFails, At, Excluding
      <3>2. \A x : x \in Original(found[w]) => Without(x) \in Original(found[w])
        BY DEF Original, Without
      <3> QED BY <1>2, <2>2, <3>1, <3>2 DEF NoneLeft
    <2> QED BY <1>1, <1>2, <1>3, <2>3, <2>4, <2>5 DEF Leaves, cloud
  <1>7. CASE TarOrUploadFails(c)
    <2> DEFINE v == [checkout[w] EXCEPT !.tar = Nothing, !.gz = Nothing,
                                        !.monitor = @ /\ ~Monitors(c)]
    <2>1. checkout' = [checkout EXCEPT ![w] = v]
      BY <1>7 DEF TarOrUploadFails, CleanUp
    <2>2. /\ v.shaken = checkout[w].shaken /\ v.ignore = checkout[w].ignore
          /\ v.tar = Nothing /\ v.gz = Nothing /\ (v.monitor => checkout[w].monitor /\ ~Monitors(c))
      BY <1>2 DEF CheckoutType
    <2> HIDE DEF v
    <2>3. checkout'[w] = v /\ \A u \in Checkouts : u # w => checkout'[u] = checkout[u]
      BY <2>1, <1>2, <1>4
    <2>4. Frame(c)
      BY <1>1, <2>2, <2>3 DEF Frame, cloud
    <2>5. v.shaken \/ (v.ignore \in Original(found[w]) /\ NoneLeft(v))
      BY <1>2, <1>7, <2>2 DEF InHand, TarOrUploadFails, Excluding, NoneLeft
    <2> QED BY <1>1, <1>2, <1>3, <2>3, <2>4, <2>5 DEF Leaves, cloud
  <1>9. CASE /\ run[c].pc = "tar"
             /\ checkout' = [checkout EXCEPT ![w].monitor = @ /\ ~Monitors(c)]
    <2> DEFINE v == [checkout[w] EXCEPT !.monitor = @ /\ ~Monitors(c)]
    <2>1. checkout' = [checkout EXCEPT ![w] = v]
      BY <1>9
    <2>2. /\ v.shaken = checkout[w].shaken /\ v.ignore = checkout[w].ignore
          /\ v.tar = checkout[w].tar /\ v.gz = checkout[w].gz
          /\ v.monitor => checkout[w].monitor
      BY <1>2 DEF CheckoutType
    <2> HIDE DEF v
    <2>3. checkout'[w] = v /\ \A u \in Checkouts : u # w => checkout'[u] = checkout[u]
      BY <2>1, <1>2, <1>4
    <2>4. Frame(c)
      BY <1>1, <2>2, <2>3 DEF Frame, cloud
    <2>5. v.shaken \/ (v.ignore \in Original(found[w]) /\ NoneLeft(v))
      BY <1>2, <1>9, <2>2 DEF InHand, Excluding, NoneLeft
    <2> QED BY <1>1, <1>2, <1>3, <2>3, <2>4, <2>5 DEF Leaves, cloud
  <1>8. CASE Killed(c)
    <2> DEFINE v == [checkout[w] EXCEPT !.shaken = TRUE]
    <2>1. checkout' = [checkout EXCEPT ![w] = v]
      BY <1>8 DEF Killed
    <2>2. v.shaken
      BY <1>2 DEF CheckoutType
    <2> HIDE DEF v
    <2>3. checkout'[w] = v /\ \A u \in Checkouts : u # w => checkout'[u] = checkout[u]
      BY <2>1, <1>2, <1>4
    <2>4. Frame(c)
      BY <1>1, <2>2, <2>3 DEF Frame, cloud
    <2> QED BY <1>1, <1>2, <1>3, <2>2, <2>3, <2>4 DEF Leaves, cloud
  <1> QED
    BY <1>5, <1>6, <1>7, <1>8, <1>9
    DEF Ends, CreateFails, IgnoreFails, Canceled, ExcludeFails, ImageRefused,
        ContainerFails, PushFails, NothingPacked, FinalizeFails, Excluding, At

\* A deploy that is finalized is over.
LEMMA FinalizeLeaves ==
  ASSUME WorkInv, NEW c \in Clis, Finalize(c)
  PROVE  Leaves(c)
  <1>1. /\ run[c].pc = "finalize" /\ Exit(c)
        /\ deploys' = [deploys EXCEPT ![run[c].id].state = "final"]
        /\ UNCHANGED <<facts, registry, uploads, engine, container, checkout>>
    BY DEF Finalize, At
  <1>2. TypeOK
    BY <1>1, UnderWay
  <1>3. \A i \in Ids : deploys'[i].tag = deploys[i].tag
    <2>1. \A i \in Ids : deploys[i] \in DeployType
      BY <1>2 DEF TypeOK
    <2>2. \A i \in Ids : \/ deploys'[i] = deploys[i]
                         \/ deploys'[i] = [deploys[i] EXCEPT !.state = "final"]
      BY <1>1, <1>2 DEF TypeOK
    <2> QED BY <2>1, <2>2 DEF DeployType
  <1>4. Frame(c)
    BY <1>1, <1>3 DEF Frame, Created
  <1>5. run[c].pc \in Begun /\ \A i \in Created : i # run[c].id => deploys'[i] = deploys[i]
    BY <1>1, <1>2 DEF Begun, Labels, Created, TypeOK
  <1> QED BY <1>1, <1>4, <1>5, PlainExit DEF Excluding

----------------------------------------------------------------------------
(* The steps of a command that goes on. *)

\* A step that changes nothing but where a command is, and perhaps the container.
LEMMA GoingOn ==
  ASSUME WorkInv, NEW c \in Clis, NEW label, run[c].pc # "idle", label # "idle",
         Goto(c, label), UNCHANGED <<facts, deploys, registry, engine, checkout>>
  PROVE  /\ Others(c) /\ Frame(c) /\ Knows(c) /\ run'[c].pc = label
         /\ (WouldEmpty(c)' <=> WouldEmpty(c)) /\ (WithoutDags(c)' <=> WithoutDags(c))
         /\ (Brings(c)' <=> Brings(c))
  <1>1. TypeOK
    BY UnderWay
  <1>2. Others(c) /\ Knows(c) /\ run'[c].pc = label /\ Frame(c)
    BY <1>1, GotoKnows, NothingTouched
  <1> QED BY <1>2 DEF Knows, Same, WouldEmpty, WithoutDags, Remote, Brings, Files, facts

\* The new ignore file of a checkout, and nothing else, is changed.
LEMMA IgnoreSet ==
  ASSUME WorkInv, NEW c \in Clis, run[c].pc # "idle", NEW ignore, SetIgnore(c, ignore)
  PROVE  LET w == run[c].dir IN
         /\ checkout'[w].ignore = ignore /\ checkout'[w].shaken = checkout[w].shaken
         /\ checkout'[w].tar = checkout[w].tar /\ checkout'[w].gz = checkout[w].gz
         /\ checkout'[w].monitor = checkout[w].monitor
         /\ \A u \in Checkouts : u # w => checkout'[u] = checkout[u]
  <1> DEFINE w == run[c].dir
             v == [checkout[w] EXCEPT !.ignore = ignore]
  <1>1. /\ TypeOK /\ w \in Checkouts /\ checkout[w] \in CheckoutType
    BY UnderWay
  <1>2. checkout \in [Checkouts -> CheckoutType]
    BY <1>1 DEF TypeOK
  <1>3. checkout' = [checkout EXCEPT ![w] = v]
    BY DEF SetIgnore
  <1>4. /\ v.shaken = checkout[w].shaken /\ v.ignore = ignore
        /\ v.tar = checkout[w].tar /\ v.gz = checkout[w].gz /\ v.monitor = checkout[w].monitor
    BY <1>1 DEF CheckoutType
  <1> HIDE DEF v
  <1>5. checkout'[w] = v /\ \A u \in Checkouts : u # w => checkout'[u] = checkout[u]
    BY <1>1, <1>2, <1>3
  <1> QED BY <1>4, <1>5

\* What a build that ships begins with has no line that leaves the DAGs out.
LEMMA RemoveAdvances ==
  ASSUME WorkInv, NEW c \in Clis, RemoveDagsLine(c)
  PROVE  Advances(c)
  <1> DEFINE w == run[c].dir
  <1>1. /\ run[c].pc = "ignore" /\ Goto(c, "confirm") /\ SetIgnore(c, Without(checkout[w].ignore))
        /\ UNCHANGED <<facts, cloud, engine, container>>
    BY DEF RemoveDagsLine, At
  <1>2. /\ TypeOK /\ Active(c) /\ OnCourse(c) /\ run[c].q.kind \in {"full", "image"}
        /\ checkout[w].shaken \/ InHand(c)
    BY <1>1, UnderWay DEF OnCourse
  <1>3. Others(c) /\ Knows(c) /\ run'[c].pc = "confirm"
    BY <1>1, <1>2, GotoKnows
  <1>4. /\ checkout'[w].ignore = Without(checkout[w].ignore)
        /\ checkout'[w].shaken = checkout[w].shaken
        /\ checkout'[w].tar = checkout[w].tar /\ checkout'[w].gz = checkout[w].gz
        /\ checkout'[w].monitor = checkout[w].monitor
        /\ \A u \in Checkouts : u # w => checkout'[u] = checkout[u]
    BY <1>1, IgnoreSet
  <1>5. Frame(c)
    BY <1>1, <1>4 DEF Frame, cloud
  <1>6. OnCourse(c)'
    BY <1>1, <1>2, <1>3 DEF OnCourse, Knows, Same, Making, Built, Labels
  <1>7. ToItself(c)'
    BY <1>3, <1>4 DEF ToItself, Knows, Same, LeavesOut, Without, Built, Sent
  <1>8. Alone(c)'
    BY <1>3 DEF Alone, Sent
  <1>9. ASSUME InHand(c) PROVE InHand(c)'
    <2>1. checkout[w].ignore \in Original(found[w]) /\ NoneLeft(checkout[w])
      BY <1>1, <1>9 DEF InHand, Excluding
    <2>2. Without(checkout[w].ignore) \in Original(found[w])
      BY <2>1 DEF Original, Without
    <2> QED BY <1>1, <1>3, <1>4, <2>1, <2>2 DEF InHand, Excluding, NoneLeft, Knows, Same, facts
  <1> QED BY <1>1, <1>2, <1>3, <1>4, <1>5, <1>6, <1>7, <1>8, <1>9 DEF Advances, Numbers, Knows, Same, cloud

\* What was confirmed is known from then on.
LEMMA ConfirmGoes ==
  ASSUME WorkInv, NEW c \in Clis, Confirm(c)
  PROVE  Advances(c) \/ Leaves(c)
  <1> DEFINE w == run[c].dir
             label == IF run[c].q.kind # "dags" \/ run[c].q.tests # {} THEN BuildLabel(c)
                      ELSE AfterTests(c)
             r == [run[c] EXCEPT !.pc = label, !.agreed = WouldEmpty(c)]
  <1>1. run[c].pc = "confirm" /\ UNCHANGED <<facts, cloud, engine, container, checkout>>
    BY DEF Confirm, At
  <1>2. /\ TypeOK /\ Active(c) /\ OnCourse(c) /\ ToItself(c) /\ run[c] \in RunType
        /\ run[c].q.kind \in {"full", "image", "dags"} /\ run[c].version = NoFiles
        /\ checkout[w].shaken \/ InHand(c)
    BY <1>1, UnderWay DEF OnCourse, Making
  <1>3. Frame(c)
    BY <1>1 DEF Frame, cloud
  <1>4. CASE label = "idle"
    <2>1. Exit(c)
      BY <1>4 DEF Confirm
    <2> QED BY <2>1, <1>1, <1>3, PlainExit DEF Excluding, cloud
  <1>5. CASE label # "idle"
    <2>1. \/ label = "retag" /\ run[c].q.prebuilt
          \/ label = "exclude" /\ WithoutDags(c)
          \/ label = "build" /\ ~WithoutDags(c)
          \/ label = "tar" /\ run[c].q.kind = "dags"
      <3>1. CASE run[c].q.kind # "dags" \/ run[c].q.tests # {}
        BY <3>1 DEF BuildLabel
      <3>2. CASE ~(run[c].q.kind # "dags" \/ run[c].q.tests # {})
        BY <3>2, <1>5 DEF AfterTests
      <3> QED BY <3>1, <3>2
    <2>2. run' = [run EXCEPT ![c] = r]
      BY <1>5 DEF Confirm
    <2> HIDE DEF label
    <2>3. Others(c) /\ run'[c] = r
      BY <1>2, <2>2 DEF Others, TypeOK
    <2>4. /\ run'[c].pc = label /\ Same(c) /\ run'[c].id = run[c].id
          /\ run'[c].version = run[c].version /\ run'[c].saved = run[c].saved
          /\ run'[c].agreed = WouldEmpty(c)
      BY <1>2, <2>3 DEF RunType, Same
    <2> HIDE DEF r
    <2>5. /\ WithoutDags(c)' <=> WithoutDags(c)
          /\ WouldEmpty(c)' <=> WouldEmpty(c)
          /\ Brings(c)' <=> Brings(c)
      BY <1>1, <2>4 DEF Same, WithoutDags, Remote, WouldEmpty, Files, Brings, facts
    <2>6. WouldEmpty(c)' => run'[c].agreed
      BY <2>4, <2>5
    <2>7. label \in {"retag", "exclude", "build", "tar"}
      BY <2>1
    <2>8. OnCourse(c)'
      BY <1>2, <2>1, <2>4, <2>5, <2>6, <2>7 DEF OnCourse, Same, Brings, Making, Built, Labels
    <2>9. ToItself(c)'
      BY <1>1, <1>2, <2>1, <2>4, <2>5, <2>7 DEF ToItself, Same, Active, Built, Sent
    <2>10. Alone(c)'
      <3>1. label \notin {"copy", "start", "wait", "passed", "tag", "push"} \cup (Sent \ {"tar"})
        BY <2>7 DEF Sent
      <3>2. label = "tar" => run[c].q.tests = {}
        BY <1>2, <2>1 DEF label, BuildLabel
      <3> QED BY <3>1, <3>2, <2>4 DEF Alone, Same
    <2>11. InHand(c) => InHand(c)'
      BY <1>1, <2>1, <2>4, <2>5 DEF InHand, Same, Excluding, facts
    <2> QED BY <1>1, <1>2, <1>3, <1>5, <2>3, <2>4, <2>8, <2>9, <2>10, <2>11 DEF Advances, Numbers, cloud
  <1> QED BY <1>4, <1>5

\* The DAGs are left out while the file is kept in memory.
LEMMA ExcludeAdvances ==
  ASSUME WorkInv, NEW c \in Clis, ExcludeDags(c)
  PROVE  Advances(c)
  <1> DEFINE w == run[c].dir
             ignore == checkout[w].ignore
             r == [run[c] EXCEPT !.saved = ignore, !.pc = "build"]
  <1>1. /\ run[c].pc = "exclude" /\ SetIgnore(c, With(ignore)) /\ run' = [run EXCEPT ![c] = r]
        /\ UNCHANGED <<facts, cloud, engine, container>>
    BY DEF ExcludeDags, At
  <1>2. /\ TypeOK /\ Active(c) /\ OnCourse(c) /\ run[c] \in RunType
        /\ run[c].q.kind \in {"full", "image", "dags"} /\ WithoutDags(c)
        /\ checkout[w].shaken \/ InHand(c)
    BY <1>1, UnderWay DEF OnCourse, Making
  <1>3. /\ Others(c) /\ Same(c) /\ run'[c].pc = "build" /\ run'[c].saved = ignore
        /\ run'[c].id = run[c].id /\ run'[c].version = run[c].version
        /\ run'[c].agreed = run[c].agreed
    <2> HIDE DEF ignore
    <2>1. Others(c) /\ run'[c] = r
      BY <1>1, <1>2 DEF Others, TypeOK
    <2> QED BY <1>2, <2>1 DEF RunType, Same
  <1>4. /\ checkout'[w].ignore = With(ignore)
        /\ checkout'[w].shaken = checkout[w].shaken
        /\ checkout'[w].tar = checkout[w].tar /\ checkout'[w].gz = checkout[w].gz
        /\ checkout'[w].monitor = checkout[w].monitor
        /\ \A u \in Checkouts : u # w => checkout'[u] = checkout[u]
    BY <1>1, IgnoreSet
  <1>5. Frame(c)
    BY <1>1, <1>4 DEF Frame, cloud
  <1>6. /\ WithoutDags(c)' /\ (WouldEmpty(c)' <=> WouldEmpty(c))
        /\ (Brings(c)' <=> Brings(c))
    BY <1>1, <1>2, <1>3 DEF Same, WithoutDags, Remote, WouldEmpty, Files, Brings, facts
  <1>7. OnCourse(c)'
    BY <1>1, <1>2, <1>3, <1>6 DEF OnCourse, Same, Making, Built, Labels
  <1>8. LeavesOut(checkout'[w].ignore)
    <2>1. ignore \in (SUBSET Lines) \cup {Nothing}
      BY <1>1, UnderWay DEF CheckoutType
    <2>2. With(ignore) \in SUBSET Lines /\ "dags/" \in With(ignore)
      BY <2>1 DEF With, Lines
    <2> QED BY <2>2, <1>4, NothingAssumption DEF LeavesOut
  <1>9. ToItself(c)'
    BY <1>3, <1>6, <1>8 DEF ToItself, Same, Built, Sent
  <1>10. Alone(c)'
    BY <1>3 DEF Alone, Sent
  <1>11. ASSUME InHand(c) PROVE InHand(c)'
    BY <1>1, <1>3, <1>4, <1>6, <1>11 DEF InHand, Excluding, NoneLeft, Same, facts
  <1> QED BY <1>1, <1>2, <1>3, <1>4, <1>5, <1>7, <1>9, <1>10, <1>11 DEF Advances, Numbers, cloud

\* A build that fails first puts the file back.
LEMMA BuildFailsGoes ==
  ASSUME WorkInv, NEW c \in Clis, BuildFails(c)
  PROVE  Advances(c) \/ Leaves(c)
  <1>1. /\ run[c].pc = "build" /\ UNCHANGED <<facts, cloud, engine, container, checkout>>
    BY DEF BuildFails, At
  <1>2. /\ TypeOK /\ Active(c) /\ OnCourse(c)
        /\ checkout[run[c].dir].shaken \/ InHand(c)
    BY <1>1, UnderWay
  <1>3. CASE ~WithoutDags(c)
    <2>1. Exit(c) /\ Frame(c)
      BY <1>1, <1>3 DEF BuildFails, Frame, cloud
    <2> QED BY <2>1, <1>1, <1>3, PlainExit DEF Excluding, cloud
  <1>4. CASE WithoutDags(c)
    <2>1. Goto(c, "undo")
      BY <1>4 DEF BuildFails
    <2>2. /\ Others(c) /\ Frame(c) /\ Knows(c) /\ run'[c].pc = "undo"
          /\ (WouldEmpty(c)' <=> WouldEmpty(c)) /\ WithoutDags(c)'
          /\ (Brings(c)' <=> Brings(c))
      BY <2>1, <1>1, <1>4, GoingOn DEF cloud
    <2>3. OnCourse(c)'
      BY <1>1, <1>2, <2>2 DEF OnCourse, Knows, Same, Making, Built, Labels
    <2>4. ToItself(c)' /\ Alone(c)'
      BY <2>2 DEF ToItself, Alone, Built, Sent
    <2>5. InHand(c) => InHand(c)'
      BY <1>1, <1>4, <2>2 DEF InHand, Excluding, NoneLeft, Knows, Same, facts
    <2> QED BY <1>1, <1>2, <2>2, <2>3, <2>4, <2>5 DEF Advances, Numbers, Knows, cloud
  <1> QED BY <1>3, <1>4

\* The file kept in memory is the one that was found.
LEMMA RestoreGoes ==
  ASSUME WorkInv, NEW c \in Clis, RestoreIgnore(c)
  PROVE  Advances(c) \/ Leaves(c)
  <1> DEFINE w == run[c].dir
             r == [run[c] EXCEPT !.saved = Nothing, !.pc = "check"]
  <1>1. /\ run[c].pc \in {"restore", "undo"} /\ SetIgnore(c, run[c].saved)
        /\ UNCHANGED <<facts, cloud, engine, container>>
    BY DEF RestoreIgnore, At
  <1>2. /\ TypeOK /\ Active(c) /\ OnCourse(c) /\ ToItself(c) /\ run[c] \in RunType
        /\ checkout[w].shaken \/ InHand(c)
    BY <1>1, UnderWay
  <1>3. /\ checkout'[w].ignore = run[c].saved
        /\ checkout'[w].shaken = checkout[w].shaken
        /\ checkout'[w].tar = checkout[w].tar /\ checkout'[w].gz = checkout[w].gz
        /\ checkout'[w].monitor = checkout[w].monitor
        /\ \A u \in Checkouts : u # w => checkout'[u] = checkout[u]
    BY <1>1, IgnoreSet
  <1>4. Frame(c)
    BY <1>1, <1>3 DEF Frame, cloud
  <1>5. ASSUME InHand(c)
        PROVE  checkout'[w].ignore \in Original(found[w]) /\ NoneLeft(checkout'[w])
    BY <1>1, <1>3, <1>5 DEF InHand, Excluding, NoneLeft
  <1>6. CASE run[c].pc = "undo"
    <2>1. Exit(c)
      BY <1>6 DEF RestoreIgnore, At
    <2>2. Others(c) /\ run'[c] = Idle
      BY <2>1, <1>2, ExitEnds
    <2> QED BY <1>1, <2>2, <1>2, <1>3, <1>4, <1>5 DEF Leaves, cloud
  <1>7. CASE run[c].pc = "restore"
    <2>1. run' = [run EXCEPT ![c] = r]
      BY <1>7 DEF RestoreIgnore, At
    <2>2. /\ Others(c) /\ Same(c) /\ run'[c].pc = "check"
          /\ run'[c].id = run[c].id /\ run'[c].version = run[c].version
          /\ run'[c].agreed = run[c].agreed
      <3>1. Others(c) /\ run'[c] = r
        BY <2>1, <1>2 DEF Others, TypeOK
      <3> QED BY <1>2, <3>1 DEF RunType, Same
    <2>3. /\ WithoutDags(c)' <=> WithoutDags(c)
          /\ WouldEmpty(c)' <=> WouldEmpty(c)
          /\ Brings(c)' <=> Brings(c)
      BY <1>1, <2>2 DEF Same, WithoutDags, Remote, WouldEmpty, Files, Brings, facts
    <2>4. OnCourse(c)'
      BY <1>2, <1>7, <2>2, <2>3 DEF OnCourse, Same, Making, Built, Labels
    <2>5. ToItself(c)'
      BY <1>1, <1>2, <1>7, <2>2, <2>3 DEF ToItself, Same, Own, Built, Sent
    <2>6. Alone(c)'
      BY <2>2 DEF Alone, Sent
    <2>7. InHand(c) => InHand(c)'
      BY <1>1, <1>5, <2>2 DEF InHand, Same, Excluding, facts
    <2> QED BY <1>1, <1>2, <1>3, <1>4, <2>2, <2>4, <2>5, <2>6, <2>7 DEF Advances, Numbers, cloud
  <1> QED BY <1>1, <1>6, <1>7

\* A step that only makes the command's image.
LEMMA ImageAdvances ==
  ASSUME WorkInv, NEW c \in Clis, NEW image, NEW label \in {"restore", "check"},
         run[c].pc \in {"build", "retag"}, label = "restore" <=> Excluding(c),
         ToItself(c) /\ run[c].met # "sharing" => Own(c, image),
         Goto(c, label), engine' = [engine EXCEPT ![run[c].dep][0] = image],
         UNCHANGED <<facts, cloud, container, checkout>>
  PROVE  Advances(c)
  <1> DEFINE w == run[c].dir
             d == run[c].dep
  <1>1. /\ TypeOK /\ Active(c) /\ OnCourse(c) /\ ToItself(c) /\ d \in Deployments
        /\ checkout[w].shaken \/ InHand(c)
    BY UnderWay
  <1>2. Others(c) /\ Knows(c) /\ run'[c].pc = label
    BY <1>1, GotoKnows
  <1>3. /\ engine'[d][0] = image
        /\ \A e \in Deployments : e # d => engine'[e] = engine[e]
    <2>1. engine \in [Deployments -> [Tags -> Images \cup {Nothing}]] /\ 0 \in Tags
      BY <1>1 DEF TypeOK, Tags
    <2> QED BY <2>1, <1>1
  <1>4. Frame(c)
    BY <1>3 DEF Frame, cloud
  <1>5. /\ WithoutDags(c)' <=> WithoutDags(c)
        /\ WouldEmpty(c)' <=> WouldEmpty(c)
        /\ Brings(c)' <=> Brings(c)
    BY <1>2 DEF Knows, Same, WithoutDags, Remote, WouldEmpty, Files, Brings, facts
  <1>6. OnCourse(c)'
    BY <1>1, <1>2, <1>5 DEF OnCourse, Knows, Same, Excluding, Making, Built, Labels
  <1>7. ToItself(c)'
    <2>1. SUFFICES ASSUME run[c].met # "sharing"
                   PROVE  ToItself(c)'
      BY <1>2 DEF ToItself, Knows, Same
    <2>2. Own(c, image)'
      BY <1>1, <1>2, <1>5, <2>1 DEF Own, Knows, Same
    <2> QED BY <1>2, <1>3, <2>2 DEF ToItself, Knows, Same, Built, Sent
  <1>8. Alone(c)'
    BY <1>2 DEF Alone, Sent
  <1>9. InHand(c) => InHand(c)'
    BY <1>2, <1>5 DEF InHand, Excluding, NoneLeft, Knows, Same, facts
  <1> QED BY <1>1, <1>2, <1>4, <1>6, <1>7, <1>8, <1>9 DEF Advances, Numbers, Knows, cloud

\* A build has the DAGs in it unless they were left out, and they were if they come on
\* their own.
LEMMA BuildAdvances ==
  ASSUME WorkInv, NEW c \in Clis, Build(c)
  PROVE  Advances(c)
  <1> DEFINE ignore == checkout[run[c].dir].ignore
             dags == ignore = Nothing \/ "dags/" \notin ignore
             image == [by |-> run[c].id, passes |-> run[c].q.passes, dags |-> dags]
             label == IF WithoutDags(c) THEN "restore" ELSE "check"
  <1>1. /\ run[c].pc = "build" /\ engine' = [engine EXCEPT ![run[c].dep][0] = image]
        /\ Goto(c, label) /\ UNCHANGED <<facts, cloud, container, checkout>>
    BY DEF Build, At
  <1>2. label \in {"restore", "check"} /\ (label = "restore" <=> Excluding(c))
    BY <1>1 DEF Excluding
  <1>3. ASSUME ToItself(c), run[c].met # "sharing"
        PROVE  Own(c, image)
    <2>1. run[c].q.kind # "dags" => (LeavesOut(ignore) <=> WithoutDags(c))
      BY <1>1, <1>3 DEF ToItself, Active
    <2>2. dags <=> ~LeavesOut(ignore)
      BY DEF LeavesOut
    <2> HIDE DEF dags
    <2>3. image.by = run[c].id /\ image.passes = run[c].q.passes /\ image.dags = dags
      OBVIOUS
    <2> HIDE DEF image
    <2> QED BY <2>1, <2>2, <2>3 DEF Own
  <1> HIDE DEF image, label
  <1> QED BY <1>1, <1>2, <1>3, ImageAdvances

\* An image built elsewhere is taken for the deploy's own.
LEMMA PrebuiltGoes ==
  ASSUME WorkInv, NEW c \in Clis, TagPrebuilt(c)
  PROVE  Advances(c) \/ Leaves(c)
  <1>1. run[c].pc = "retag" /\ UNCHANGED <<facts, cloud, container, checkout>>
    BY DEF TagPrebuilt, At
  <1>2. CASE Exit(c) /\ UNCHANGED engine
    <2>1. Frame(c)
      BY <1>1, <1>2 DEF Frame, cloud
    <2> QED BY <2>1, <1>1, <1>2, PlainExit DEF Excluding, cloud
  <1>3. ASSUME NEW dags \in BOOLEAN, Goto(c, "check"),
               engine' = [engine EXCEPT ![run[c].dep][0] =
                            [by |-> run[c].id, passes |-> run[c].q.passes, dags |-> dags]]
        PROVE  Advances(c)
    <2> DEFINE image == [by |-> run[c].id, passes |-> run[c].q.passes, dags |-> dags]
    <2>1. run[c].q.prebuilt
      BY <1>1, UnderWay DEF OnCourse
    <2>2. Own(c, image)
      BY <2>1 DEF Own
    <2>3. ~Excluding(c) /\ run[c].pc \in {"build", "retag"}
      BY <1>1 DEF Excluding
    <2>4. engine' = [engine EXCEPT ![run[c].dep][0] = image]
      BY <1>3
    <2> HIDE DEF image
    <2> QED BY <2>2, <2>3, <2>4, <1>1, <1>3, ImageAdvances
  <1> QED BY <1>2, <1>3 DEF TagPrebuilt

\* Past its tests is only who has passed them.
LEMMA ProceedGoes ==
  ASSUME WorkInv, NEW c \in Clis, NEW done, Proceed(c, done),
         run[c].pc \in {"check", "rm", "passed"},
         run[c].met = "nobody" /\ done = "pytest" => "pytest" \in run[c].q.passes,
         UNCHANGED <<facts, cloud, engine, checkout>>
  PROVE  Advances(c) \/ Leaves(c)
  <1> DEFINE next == IF Files(c) \/ run[c].q.kind = "dags"
                       THEN NextTest(done, run[c].q.tests) ELSE "none"
  <1>1. /\ TypeOK /\ Active(c) /\ OnCourse(c) /\ ToItself(c) /\ run[c] \in RunType
        /\ run[c].q.kind \in {"full", "image", "dags"} /\ run[c].version = NoFiles
        /\ checkout[run[c].dir].shaken \/ InHand(c)
    BY UnderWay DEF OnCourse, Making, Built
  <1>2. Frame(c)
    BY DEF Frame, cloud
  <1>3. ASSUME NEW label \in {"rm", "tag", "tar"}, Others(c), Same(c), run'[c].pc = label,
               run'[c].id = run[c].id, run'[c].version = run[c].version,
               run'[c].agreed = run[c].agreed,
               label = "tag" => run[c].q.kind # "dags", label = "tar" => run[c].q.kind = "dags",
               label # "rm" => next = "none"
        PROVE  Advances(c)
    <2>1. /\ WithoutDags(c)' <=> WithoutDags(c)
          /\ WouldEmpty(c)' <=> WouldEmpty(c)
          /\ Brings(c)' <=> Brings(c)
      BY <1>3 DEF Same, WithoutDags, Remote, WouldEmpty, Files, Brings, facts
    <2>2. OnCourse(c)'
      BY <1>1, <1>3, <2>1, SMTT(30) DEF OnCourse, Same, Brings, Making, Built, Labels
    <2>3. ToItself(c)'
      BY <1>1, <1>3, <2>1, Zenon DEF ToItself, Same, Own, Built, Sent, cloud
    <2>4. Alone(c)'
      <3>1. /\ Files(c) /\ "pytest" \in run[c].q.tests /\ next = "none" => done = "pytest"
        BY DEF NextTest
      <3> HIDE DEF next
      <3> QED BY <3>1, <1>3 DEF Alone, Same, Files, Sent
    <2>5. InHand(c) => InHand(c)'
      BY <1>3 DEF InHand, Excluding, NoneLeft, Same, facts
    <2> QED BY <1>1, <1>2, <1>3, <2>2, <2>3, <2>4, <2>5 DEF Advances, Numbers, cloud
  <1>4. CASE next # "none"
    <2> DEFINE r == [run[c] EXCEPT !.pc = "rm", !.test = next]
    <2>1. run' = [run EXCEPT ![c] = r]
      BY <1>4 DEF Proceed
    <2> HIDE DEF next
    <2>2. Others(c) /\ run'[c] = r
      BY <1>1, <2>1 DEF Others, TypeOK
    <2>3. /\ Same(c) /\ run'[c].pc = "rm" /\ run'[c].id = run[c].id
          /\ run'[c].version = run[c].version /\ run'[c].agreed = run[c].agreed
      BY <1>1, <2>2 DEF RunType, Same
    <2> QED BY <1>3, <2>2, <2>3
  <1>5. CASE next = "none" /\ AfterTests(c) = "idle"
    <2>1. Exit(c)
      BY <1>5 DEF Proceed
    <2> QED BY <2>1, <1>2, PlainExit DEF Excluding, cloud
  <1>6. CASE next = "none" /\ AfterTests(c) # "idle"
    <2>1. Goto(c, AfterTests(c))
      BY <1>6 DEF Proceed
    <2>2. \/ AfterTests(c) = "tag" /\ run[c].q.kind # "dags"
          \/ AfterTests(c) = "tar" /\ run[c].q.kind = "dags"
      BY <1>6 DEF AfterTests
    <2>3. Others(c) /\ Knows(c) /\ run'[c].pc = AfterTests(c)
      BY <1>1, <2>1, GotoKnows
    <2> HIDE DEF next
    <2> QED BY <1>3, <1>6, <2>2, <2>3 DEF Knows
  <1> QED BY <1>4, <1>5, <1>6

\* Testing changes nothing but the container.
LEMMA TestAdvances ==
  ASSUME WorkInv, NEW c \in Clis, NEW label \in {"new", "copy", "start", "wait", "failed"},
         Goto(c, label), run[c].pc \in {"rm", "new", "copy", "start"}, Alone(c)',
         UNCHANGED <<facts, cloud, engine, checkout>>
  PROVE  Advances(c)
  <1>1. /\ Active(c) /\ OnCourse(c) /\ ToItself(c)
        /\ checkout[run[c].dir].shaken \/ InHand(c)
    BY UnderWay
  <1>2. /\ Others(c) /\ Frame(c) /\ Knows(c) /\ run'[c].pc = label
        /\ (WouldEmpty(c)' <=> WouldEmpty(c)) /\ (WithoutDags(c)' <=> WithoutDags(c))
        /\ (Brings(c)' <=> Brings(c))
    BY GoingOn DEF cloud
  <1>3. OnCourse(c)'
    BY <1>1, <1>2, SMTT(30) DEF OnCourse, Knows, Same, Making, Built, Labels
  <1>4. ToItself(c)'
    BY <1>1, <1>2, Zenon DEF ToItself, Knows, Same, Own, Built, Sent, cloud
  <1>5. InHand(c) => InHand(c)'
    BY <1>2 DEF InHand, Excluding, NoneLeft, Knows, Same, facts
  <1> QED BY <1>1, <1>2, <1>3, <1>4, <1>5 DEF Advances, Numbers, Knows, cloud

\* A command that is alone tests its own code, on its own image, in a container of its own.
LEMMA TestsGo ==
  ASSUME WorkInv, NEW c \in Clis,
         \/ ImageAccepted(c) \/ ParseSkipped(c) \/ RemoveOldContainer(c) \/ CreateContainer(c)
         \/ CopyCode(c) \/ StartContainer(c) \/ ReadVerdict(c)
  PROVE  Advances(c) \/ Leaves(c)
  <1> USE DEF At
  <1>1. /\ run[c].pc \in {"check", "rm", "new", "copy", "start", "passed", "failed"}
        /\ UNCHANGED <<facts, cloud, engine, checkout>>
    BY DEF ImageAccepted, ParseSkipped, RemoveOldContainer, CreateContainer, CopyCode,
           StartContainer, ReadVerdict
  <1>2. TypeOK /\ Active(c) /\ Done(c) /\ ToItself(c) /\ Alone(c) /\ run[c].dep \in Deployments
    BY <1>1, UnderWay
  <1>3. ASSUME NEW label, Goto(c, label)
        PROVE  Knows(c) /\ run'[c].pc = label
    BY <1>2, <1>3, GotoKnows
  <1>4. CASE ImageAccepted(c)
    BY <1>1, <1>4, ProceedGoes DEF ImageAccepted
  <1>5. CASE ParseSkipped(c)
    BY <1>1, <1>5, ProceedGoes DEF ParseSkipped
  <1>6. CASE RemoveOldContainer(c)
    <2>1. Goto(c, "new") /\ run[c].pc = "rm"
      BY <1>6 DEF RemoveOldContainer
    <2>2. Alone(c)'
      BY <2>1, <1>3 DEF Alone, Sent
    <2> QED BY <2>1, <2>2, <1>1, TestAdvances
  <1>7. CASE CreateContainer(c)
    <2> DEFINE image == engine[run[c].dep][0]
    <2>1. Goto(c, "copy") /\ run[c].pc = "new"
      BY <1>7 DEF CreateContainer
    <2>2. Alone(c)'
      <3>1. SUFFICES ASSUME run[c].met = "nobody"
                     PROVE  Alone(c)'
        BY <2>1, <1>3 DEF Alone, Knows, Same
      <3>2. image.passes = run[c].q.passes
        BY <2>1, <3>1, <1>2 DEF ToItself, Own, Built
      <3>3. container' = [test |-> run[c].test, image |-> run[c].q.passes,
                          code |-> run[c].q.passes, running |-> FALSE, failed |-> FALSE]
        BY <1>7, <3>2 DEF CreateContainer
      <3>4. run[c].test \in Tests /\ run[c].q.passes \in SUBSET Tests
        BY <2>1, AtWork DEF WorkInv, RunType
      <3>5. container' # Nothing
        <4>1. container' \in ContainerType
          BY <3>3, <3>4 DEF ContainerType
        <4> QED BY <4>1, NothingAssumption
      <3> QED BY <2>1, <3>3, <3>5, <1>3 DEF Alone, Knows, Same, Sent
    <2> QED BY <2>1, <2>2, <1>1, TestAdvances
  <1>8. CASE CopyCode(c)
    <2>1. Goto(c, "start") /\ run[c].pc = "copy"
      BY <1>8 DEF CopyCode
    <2>2. container \in ContainerType /\ container' = [container EXCEPT !.code = run[c].q.passes]
      BY <1>2, <1>8 DEF CopyCode, TypeOK
    <2>3. /\ container'.test = container.test /\ container'.image = container.image
          /\ container'.code = run[c].q.passes /\ container'.running = container.running
          /\ container' # Nothing
      <3>1. run[c].q.passes \in SUBSET Tests
        BY <2>1, AtWork DEF WorkInv
      <3>2. container' \in ContainerType
        BY <2>2, <3>1 DEF ContainerType
      <3> QED BY <2>2, <3>2, NothingAssumption DEF ContainerType
    <2>4. Alone(c)'
      BY <2>1, <2>3, <1>2, <1>3 DEF Alone, Active, Knows, Same, Sent
    <2> QED BY <2>1, <2>4, <1>1, TestAdvances
  <1>9. CASE StartContainer(c)
    <2>1. run[c].pc = "start"
      BY <1>9 DEF StartContainer
    <2>2. CASE container = Nothing
      <3>1. Goto(c, "failed")
        BY <1>9, <2>2 DEF StartContainer
      <3>2. Alone(c)'
        BY <3>1, <1>3 DEF Alone, Sent
      <3> QED BY <2>1, <3>1, <3>2, <1>1, TestAdvances
    <2>3. CASE container # Nothing
      <3>1. Goto(c, "wait") /\ container' = [container EXCEPT !.running = TRUE]
        BY <1>9, <2>3 DEF StartContainer
      <3>2. container \in ContainerType
        BY <1>2, <2>3 DEF TypeOK
      <3>3. /\ container'.test = container.test /\ container'.image = container.image
            /\ container'.code = container.code /\ container'.running
            /\ container' # Nothing
        <4>1. container' \in ContainerType
          BY <3>1, <3>2 DEF ContainerType
        <4> QED BY <3>1, <3>2, <4>1, NothingAssumption DEF ContainerType
      <3>4. Alone(c)'
        BY <2>1, <3>1, <3>3, <1>2, <1>3 DEF Alone, Active, Knows, Same, Sent
      <3> QED BY <2>1, <3>1, <3>4, <1>1, TestAdvances
    <2> QED BY <2>2, <2>3
  <1>10. CASE ReadVerdict(c)
    <2>1. run[c].pc \in {"passed", "failed"}
      BY <1>10 DEF ReadVerdict
    <2>2. CASE Exit(c)
      BY <2>1, <2>2, <1>1, PlainExit, NothingTouched DEF Excluding, cloud
    <2>3. CASE run[c].pc = "passed" /\ Proceed(c, run[c].test)
      <3>1. run[c].met = "nobody" => run[c].test \in run[c].q.passes
        BY <2>3, <1>2 DEF Alone
      <3> QED BY <2>3, <3>1, <1>1, ProceedGoes
    <2> QED BY <1>10, <2>2, <2>3 DEF ReadVerdict
  <1> QED BY <1>4, <1>5, <1>6, <1>7, <1>8, <1>9, <1>10

\* The end of the container is a verdict on the code of a command that is alone.
LEMMA ContainerExitsWork ==
  ASSUME WorkInv, IInv', ContainerExits
  PROVE  WorkInv'
  <1> DEFINE passed == container.test \in container.image \cap container.code
             label == IF passed THEN "passed" ELSE "failed"
  <1>1. /\ TypeOK /\ UNCHANGED <<facts, cloud, engine, checkout>>
        /\ container # Nothing /\ container.running
    BY DEF WorkInv, IInv, ContainerExits
  <1>2. run' = [c \in Clis |-> IF At(c, "wait") THEN [run[c] EXCEPT !.pc = label] ELSE run[c]]
    BY DEF ContainerExits
  <1>3. label \in {"passed", "failed"} /\ (label = "passed" <=> passed)
    OBVIOUS
  <1> HIDE DEF label
  <1>4. ASSUME NEW c \in Clis
        PROVE  Knows(c) /\ run'[c].pc = IF run[c].pc = "wait" THEN label ELSE run[c].pc
    <2>1. run[c] \in RunType
      BY <1>1 DEF TypeOK
    <2>2. run'[c] = IF run[c].pc = "wait" THEN [run[c] EXCEPT !.pc = label] ELSE run[c]
      BY <1>2 DEF At
    <2> QED BY <2>1, <2>2 DEF RunType, Knows, Same
  <1>5. ASSUME NEW c \in Clis
        PROVE  /\ Active(c)' <=> Active(c)
               /\ WithoutDags(c)' <=> WithoutDags(c)
               /\ WouldEmpty(c)' <=> WouldEmpty(c)
               /\ Brings(c)' <=> Brings(c)
    BY <1>1, <1>3, <1>4
    DEF Active, Knows, Same, WithoutDags, Remote, WouldEmpty, Files, Brings, facts
  <1>6. Meeting'
    BY <1>4, <1>5 DEF WorkInv, Meeting, Knows, Same
  <1>7. ASSUME NEW c \in Clis
        PROVE  OnCourse(c)' /\ ToItself(c)' /\ Alone(c)' /\ (InHand(c)' <=> InHand(c))
    <2>1. OnCourse(c) /\ ToItself(c) /\ Alone(c)
      BY DEF WorkInv
    <2>2. OnCourse(c)'
      BY <2>1, <1>3, <1>4, <1>5, SMTT(30) DEF OnCourse, Knows, Same, Making, Built, Labels
    <2>3. ToItself(c)'
      BY <2>1, <1>1, <1>3, <1>4, <1>5, Zenon DEF ToItself, Knows, Same, Own, OwnTar, Built, Sent, cloud
    <2>4. Alone(c)'
      BY <2>1, <1>1, <1>3, <1>4, <1>5 DEF Alone, Knows, Same, Files, Sent
    <2>5. InHand(c)' <=> InHand(c)
      BY <1>1, <1>3, <1>4, <1>5 DEF InHand, Knows, Same, Excluding, Monitors, facts
    <2> QED BY <2>2, <2>3, <2>4, <2>5
  <1>8. ASSUME NEW w \in Checkouts
        PROVE  Tidy(w)'
    <2>1. Tidy(w) /\ checkout' = checkout /\ found' = found
      BY <1>1 DEF WorkInv, facts
    <2>2. \A c \in Clis : run'[c].dir = run[c].dir /\ (Active(c)' <=> Active(c))
      BY <1>4, <1>5 DEF Knows, Same
    <2> QED BY <2>1, <2>2, <1>7 DEF Tidy
  <1>9. ASSUME NEW c \in Clis
        PROVE  Opened(c)'
    <2>1. \A e \in Clis : run'[e].id = run[e].id /\ (run'[e].pc \in Begun <=> run[e].pc \in Begun)
      BY <1>3, <1>4 DEF Knows, Begun, Labels
    <2> QED BY <2>1, <1>1 DEF WorkInv, Opened, cloud
  <1> QED BY <1>6, <1>7, <1>8, <1>9 DEF WorkInv

\* What is pushed under a deploy's tag is what it built.
LEMMA TagAdvances ==
  ASSUME WorkInv, NEW c \in Clis, TagImage(c)
  PROVE  Advances(c)
  <1> DEFINE d == run[c].dep
             t == deploys[run[c].id].tag
  <1>1. /\ run[c].pc = "tag" /\ Goto(c, "push")
        /\ engine' = [engine EXCEPT ![d][t] = engine[d][0]]
        /\ UNCHANGED <<facts, cloud, container, checkout>>
    BY DEF TagImage, At
  <1>2. /\ TypeOK /\ Active(c) /\ OnCourse(c) /\ ToItself(c) /\ Alone(c) /\ d \in Deployments
        /\ run[c].q.kind \in {"full", "image"}
        /\ checkout[run[c].dir].shaken \/ InHand(c)
    BY <1>1, UnderWay DEF OnCourse
  <1>3. t \in Ids
    BY <1>1, TagKnown DEF WorkInv, Begun, Labels
  <1>4. Others(c) /\ Knows(c) /\ run'[c].pc = "push"
    BY <1>1, <1>2, GotoKnows
  <1>5. /\ engine'[d][t] = engine[d][0]
        /\ \A e \in Deployments : e # d => engine'[e] = engine[e]
    <2>1. engine \in [Deployments -> [Tags -> Images \cup {Nothing}]] /\ t \in Tags
      BY <1>2, <1>3 DEF TypeOK, Tags
    <2> HIDE DEF d, t
    <2> QED BY <2>1, <1>1, <1>2
  <1>6. Frame(c)
    BY <1>1, <1>5 DEF Frame, cloud
  <1>7. /\ WithoutDags(c)' <=> WithoutDags(c)
        /\ WouldEmpty(c)' <=> WouldEmpty(c)
        /\ Brings(c)' <=> Brings(c)
    BY <1>1, <1>4 DEF Knows, Same, WithoutDags, Remote, WouldEmpty, Files, Brings, facts
  <1>8. OnCourse(c)'
    BY <1>1, <1>2, <1>4, <1>7 DEF OnCourse, Knows, Same, Making, Built, Labels
  <1>9. ToItself(c)'
    <2>1. SUFFICES ASSUME run[c].met # "sharing"
                   PROVE  ToItself(c)'
      BY <1>4 DEF ToItself, Knows, Same
    <2>2. Own(c, engine[d][0])
      BY <1>1, <1>2, <2>1 DEF ToItself, Built
    <2>3. run'[c].dep = d /\ deploys'[run'[c].id].tag = t
      BY <1>1, <1>4 DEF Knows, Same, cloud
    <2> HIDE DEF d, t
    <2>4. /\ engine'[d][t].by = run'[c].id /\ engine'[d][t].passes = run'[c].q.passes
          /\ run'[c].q.kind # "dags" /\ ~run'[c].q.prebuilt =>
               (engine'[d][t].dags <=> ~WithoutDags(c)')
      BY <1>4, <1>5, <1>7, <2>2 DEF Own, Knows, Same
    <2> QED BY <1>4, <2>3, <2>4 DEF ToItself, Own, Built, Sent
  <1>10. Alone(c)'
    BY <1>1, <1>2, <1>4 DEF Alone, Knows, Same, Files, Sent
  <1>11. InHand(c) => InHand(c)'
    BY <1>1, <1>4 DEF InHand, Excluding, NoneLeft, Knows, Same, facts
  <1> QED BY <1>1, <1>2, <1>4, <1>6, <1>8, <1>9, <1>10, <1>11 DEF Advances, Numbers, Knows, cloud

\* What is in the registry under a deploy's tag is what it pushed.
LEMMA PushGoes ==
  ASSUME WorkInv, NEW c \in Clis, PushImage(c)
  PROVE  Advances(c) \/ Leaves(c)
  <1> DEFINE d == run[c].dep
             t == deploys[run[c].id].tag
             image == engine[d][t]
  <1>1. /\ run[c].pc = "push"
        /\ registry' = [registry EXCEPT ![d][t] = image]
        /\ engine' = [engine EXCEPT ![d][t] = Nothing]
        /\ Goto(c, AfterPush(c)) \/ Exit(c)
        /\ UNCHANGED <<facts, deploys, live, uploads, container, checkout>>
    BY DEF PushImage, At
  <1>2. /\ TypeOK /\ Active(c) /\ OnCourse(c) /\ ToItself(c) /\ Alone(c) /\ d \in Deployments
        /\ run[c].q.kind \in {"full", "image"}
        /\ checkout[run[c].dir].shaken \/ InHand(c)
    BY <1>1, UnderWay DEF OnCourse
  <1>3. t \in Ids
    BY <1>1, TagKnown DEF WorkInv, Begun, Labels
  <1>4. /\ registry'[d][t] = image
        /\ \A e \in Deployments : e # d => engine'[e] = engine[e] /\ registry'[e] = registry[e]
    <2>1. /\ engine \in [Deployments -> [Tags -> Images \cup {Nothing}]] /\ t \in Tags
          /\ registry \in [Deployments -> [Tags -> Images \cup {Nothing}]]
      BY <1>2, <1>3 DEF TypeOK, Tags
    <2> HIDE DEF d, t, image
    <2> QED BY <2>1, <1>1, <1>2
  <1>5. Frame(c)
    BY <1>1, <1>4 DEF Frame
  <1>6. CASE Exit(c)
    BY <1>1, <1>5, <1>6, PlainExit DEF Excluding, cloud
  <1>7. CASE Goto(c, AfterPush(c))
    <2> DEFINE label == AfterPush(c)
    <2>1. \/ label = "tar" /\ Brings(c)
          \/ label = "finalize" /\ ~Brings(c)
      BY <1>2 DEF AfterPush, Brings, Files
    <2> HIDE DEF label
    <2>2. Others(c) /\ Knows(c) /\ run'[c].pc = label
      BY <1>2, <1>7, GotoKnows DEF label
    <2>3. /\ WithoutDags(c)' <=> WithoutDags(c)
          /\ WouldEmpty(c)' <=> WouldEmpty(c)
          /\ Brings(c)' <=> Brings(c)
      BY <1>1, <2>2 DEF Knows, Same, WithoutDags, Remote, WouldEmpty, Files, Brings, facts
    <2>4. OnCourse(c)'
      BY <1>1, <1>2, <2>1, <2>2, <2>3 DEF OnCourse, Knows, Same, Making, Built, Labels
    <2>5. ToItself(c)'
      <3>1. SUFFICES ASSUME run[c].met # "sharing"
                     PROVE  ToItself(c)'
        BY <2>2 DEF ToItself, Knows, Same
      <3>2. Own(c, image)
        BY <1>1, <1>2, <3>1 DEF ToItself
      <3>3. run'[c].dep = d /\ deploys'[run'[c].id].tag = t
        BY <1>1, <2>2 DEF Knows, Same
      <3> HIDE DEF d, t, image
      <3>4. /\ registry'[d][t].by = run'[c].id /\ registry'[d][t].passes = run'[c].q.passes
            /\ run'[c].q.kind # "dags" /\ ~run'[c].q.prebuilt =>
                 (registry'[d][t].dags <=> ~WithoutDags(c)')
        BY <1>4, <2>2, <2>3, <3>2 DEF Own, Knows, Same
      <3> QED BY <2>1, <2>2, <2>3, <3>3, <3>4 DEF ToItself, Own, Built, Sent
    <2>6. Alone(c)'
      BY <1>1, <1>2, <2>1, <2>2 DEF Alone, Knows, Same, Files, Sent
    <2>7. InHand(c) => InHand(c)'
      BY <1>1, <2>1, <2>2 DEF InHand, Excluding, NoneLeft, Knows, Same, facts
    <2> QED BY <1>1, <1>2, <1>5, <2>1, <2>2, <2>4, <2>5, <2>6, <2>7 DEF Advances, Numbers, Knows, cloud
  <1> QED BY <1>1, <1>6, <1>7

\* The archives a command leaves in its checkout are its own.
LEMMA PackAdvances ==
  ASSUME WorkInv, NEW c \in Clis, NEW v \in CheckoutType, NEW label \in {"gzip", "upload"},
         run[c].pc \in {"tar", "gzip"}, Goto(c, label),
         checkout' = [checkout EXCEPT ![run[c].dir] = v],
         v.shaken = checkout[run[c].dir].shaken, v.ignore = checkout[run[c].dir].ignore,
         v.monitor => checkout[run[c].dir].monitor \/ Monitors(c),
         run[c].met # "sharing" => /\ label = "gzip" => v.tar = OwnTar(c)
                                   /\ label = "upload" => v.gz = OwnTar(c),
         UNCHANGED <<facts, cloud, engine, container>>
  PROVE  Advances(c)
  <1> DEFINE w == run[c].dir
  <1>1. /\ TypeOK /\ Active(c) /\ OnCourse(c) /\ ToItself(c) /\ Alone(c) /\ Brings(c)
        /\ w \in Checkouts /\ (checkout[w].shaken \/ InHand(c))
    BY UnderWay DEF OnCourse
  <1>2. Others(c) /\ Knows(c) /\ run'[c].pc = label
    BY <1>1, GotoKnows
  <1>3. checkout'[w] = v /\ \A u \in Checkouts : u # w => checkout'[u] = checkout[u]
    BY <1>1 DEF TypeOK
  <1>4. Frame(c)
    BY <1>3 DEF Frame, cloud
  <1>5. /\ WithoutDags(c)' <=> WithoutDags(c)
        /\ WouldEmpty(c)' <=> WouldEmpty(c)
        /\ Brings(c)' <=> Brings(c)
    BY <1>2 DEF Knows, Same, WithoutDags, Remote, WouldEmpty, Files, Brings, facts
  <1>6. OnCourse(c)'
    BY <1>1, <1>2, <1>5 DEF OnCourse, Knows, Same, Making, Built, Labels
  <1>7. ToItself(c)'
    <2>1. SUFFICES ASSUME run[c].met # "sharing"
                   PROVE  ToItself(c)'
      BY <1>2 DEF ToItself, Knows, Same
    <2>2. OwnTar(c)' = OwnTar(c)
      BY <1>2 DEF OwnTar, Knows, Same
    <2>3. run[c].q.kind \in {"full", "image"} => Own(c, registry[run[c].dep][deploys[run[c].id].tag])
      BY <1>1, <2>1, SMTT(30) DEF ToItself, Sent
    <2>4. run[c].q.kind \in {"full", "image"} =>
            Own(c, registry[run[c].dep][deploys[run[c].id].tag])'
      BY <2>3, <1>2, <1>5 DEF Own, Knows, Same, cloud
    <2>5. label \notin Built /\ label # "finalize" /\ label # "push"
      BY DEF Built
    <2> QED BY <2>1, <2>2, <2>4, <2>5, <1>2, <1>3 DEF ToItself, Knows, Same
  <1>8. Alone(c)'
    BY <1>1, <1>2 DEF Alone, Knows, Same, Files, Sent
  <1>9. InHand(c) => InHand(c)'
    BY <1>1, <1>2, <1>3 DEF InHand, NoneLeft, Excluding, Monitors, Knows, Same, facts
  <1> QED BY <1>1, <1>2, <1>3, <1>4, <1>6, <1>7, <1>8, <1>9 DEF Advances, Numbers, Knows, cloud

\* The deploy's own files are packed, and what was packed is compressed.
LEMMA PacksGo ==
  ASSUME WorkInv, NEW c \in Clis, MakeTar(c) \/ GzipTar(c)
  PROVE  Advances(c)
  <1> DEFINE w == run[c].dir
             more == checkout[w].monitor \/ Monitors(c)
  <1>1. run[c].pc \in {"tar", "gzip"} /\ UNCHANGED <<facts, cloud, engine, container>>
    BY DEF MakeTar, GzipTar, At
  <1>2. /\ Active(c) /\ ToItself(c) /\ checkout[w] \in CheckoutType
        /\ run[c].q.files \in BOOLEAN
    BY <1>1, UnderWay, AtWork DEF WorkInv
  <1>3. CASE MakeTar(c)
    <2> DEFINE v == [checkout[w] EXCEPT !.tar = OwnTar(c), !.monitor = more]
    <2>1. checkout' = [checkout EXCEPT ![w] = v] /\ Goto(c, "gzip")
      BY <1>3 DEF MakeTar, OwnTar
    <2>2. /\ OwnTar(c) \in Tarballs /\ more \in BOOLEAN
          /\ more => checkout[w].monitor \/ Monitors(c)
      <3>1. run[c].id \in Ids
        BY <1>1, TagKnown DEF WorkInv, Begun, Labels
      <3> QED BY <3>1, <1>2 DEF OwnTar, Tarballs, CheckoutType, Monitors
    <2> HIDE DEF more
    <2>3. /\ v \in CheckoutType
          /\ v.shaken = checkout[w].shaken /\ v.ignore = checkout[w].ignore /\ v.tar = OwnTar(c)
          /\ v.monitor = more
      BY <1>2, <2>2 DEF CheckoutType
    <2> HIDE DEF v
    <2> QED BY <1>1, <2>1, <2>2, <2>3, PackAdvances
  <1>4. CASE GzipTar(c)
    <2> DEFINE v == [checkout[w] EXCEPT !.gz = checkout[w].tar]
    <2>1. /\ checkout' = [checkout EXCEPT ![w] = v] /\ Goto(c, "upload")
          /\ run[c].pc = "gzip"
      BY <1>4 DEF GzipTar, At
    <2>2. /\ v \in CheckoutType
          /\ v.shaken = checkout[w].shaken /\ v.ignore = checkout[w].ignore
          /\ v.gz = checkout[w].tar /\ v.monitor = checkout[w].monitor
      BY <1>2 DEF CheckoutType
    <2>3. run[c].met # "sharing" => v.gz = OwnTar(c)
      BY <1>2, <2>1, <2>2 DEF ToItself
    <2> HIDE DEF v
    <2> QED BY <1>1, <2>1, <2>2, <2>3, PackAdvances
  <1> QED BY <1>3, <1>4

\* The version a command finalizes is of the files it packed.
LEMMA UploadAdvances ==
  ASSUME WorkInv, NEW c \in Clis, UploadTar(c)
  PROVE  Advances(c)
  <1> DEFINE w == run[c].dir
             archive == checkout[w].gz
             r == [run[c] EXCEPT !.version = archive, !.pc = "finalize"]
             v == [checkout[w] EXCEPT !.tar = Nothing, !.gz = Nothing,
                                      !.monitor = @ /\ ~Monitors(c)]
  <1>1. /\ run[c].pc = "upload" /\ run' = [run EXCEPT ![c] = r]
        /\ checkout' = [checkout EXCEPT ![w] = v]
        /\ UNCHANGED <<facts, deploys, live, registry, engine, container>>
    BY DEF UploadTar, CleanUp, At
  <1>2. /\ TypeOK /\ Active(c) /\ OnCourse(c) /\ ToItself(c) /\ Alone(c) /\ Brings(c)
        /\ run[c] \in RunType /\ w \in Checkouts /\ checkout[w] \in CheckoutType
        /\ checkout[w].shaken \/ InHand(c)
    BY <1>1, UnderWay DEF OnCourse
  <1>3. /\ Others(c) /\ Same(c) /\ run'[c].pc = "finalize" /\ run'[c].version = archive
        /\ run'[c].id = run[c].id /\ run'[c].agreed = run[c].agreed
    <2> HIDE DEF archive
    <2>1. Others(c) /\ run'[c] = r
      BY <1>1, <1>2 DEF Others, TypeOK
    <2> QED BY <1>2, <2>1 DEF RunType, Same
  <1>4. /\ v.shaken = checkout[w].shaken /\ v.ignore = checkout[w].ignore
        /\ v.tar = Nothing /\ v.gz = Nothing /\ (v.monitor => checkout[w].monitor /\ ~Monitors(c))
    BY <1>2 DEF CheckoutType
  <1> HIDE DEF v
  <1>5. checkout'[w] = v /\ \A u \in Checkouts : u # w => checkout'[u] = checkout[u]
    BY <1>1, <1>2 DEF TypeOK
  <1>6. Frame(c)
    BY <1>1, <1>4, <1>5 DEF Frame
  <1>7. /\ WithoutDags(c)' <=> WithoutDags(c)
        /\ WouldEmpty(c)' <=> WouldEmpty(c)
        /\ Brings(c)' <=> Brings(c)
    BY <1>1, <1>3 DEF Same, WithoutDags, Remote, WouldEmpty, Files, Brings, facts
  <1>8. OnCourse(c)'
    BY <1>1, <1>2, <1>3, <1>7 DEF OnCourse, Same, Making, Built, Labels
  <1>9. ToItself(c)'
    <2>1. SUFFICES ASSUME run[c].met # "sharing"
                   PROVE  ToItself(c)'
      BY <1>3 DEF ToItself, Same
    <2>2. archive = OwnTar(c) /\ OwnTar(c)' = OwnTar(c)
      BY <1>1, <1>2, <1>3, <2>1 DEF ToItself, OwnTar, Same
    <2>3. run[c].q.kind \in {"full", "image"} => Own(c, registry[run[c].dep][deploys[run[c].id].tag])
      BY <1>1, <1>2, <2>1, SMTT(30) DEF ToItself, Sent
    <2>4. run[c].q.kind \in {"full", "image"} =>
            Own(c, registry[run[c].dep][deploys[run[c].id].tag])'
      BY <2>3, <1>1, <1>3, <1>7, Zenon DEF Own, Same
    <2> QED BY <2>2, <2>4, <1>3 DEF ToItself, Same, Built
  <1>10. Alone(c)'
    BY <1>1, <1>2, <1>3 DEF Alone, Same, Files, Sent
  <1>11. InHand(c) => InHand(c)'
    BY <1>1, <1>3, <1>4, <1>5 DEF InHand, NoneLeft, Excluding, Same, facts
  <1> QED BY <1>1, <1>2, <1>3, <1>4, <1>5, <1>6, <1>8, <1>9, <1>10, <1>11, SMTT(30) DEF Advances, Numbers, cloud

\* A deploy that was just created changes nobody else's.
LEMMA CreateAdvances ==
  ASSUME WorkInv, NEW c \in Clis, CreateDeploy(c)
  PROVE  Advances(c)
  <1> DEFINE kind == run[c].q.kind
             label == CASE kind \in {"full", "image"} -> "ignore"
                        [] kind = "dags" -> "confirm"
                        [] kind = "bundle" -> "tar"
                        [] kind = "unbundle" -> "finalize"
             id == Cardinality(Created) + 1
             r == [run[c] EXCEPT !.id = id, !.pc = label]
  <1>1. /\ run[c].pc = "create" /\ run' = [run EXCEPT ![c].id = id, ![c].pc = label]
        /\ UNCHANGED <<facts, live, registry, uploads, engine, container, checkout>>
    BY DEF CreateDeploy, At
  <1>2. /\ TypeOK /\ Active(c) /\ OnCourse(c) /\ run[c] \in RunType
        /\ run[c].q \in Requests /\ kind \in Kinds /\ run[c].version = NoFiles
        /\ checkout[run[c].dir].shaken \/ InHand(c)
    BY <1>1, UnderWay DEF OnCourse
  <1>3. \/ kind \in {"full", "image"} /\ label = "ignore"
        \/ kind = "dags" /\ label = "confirm"
        \/ kind = "bundle" /\ label = "tar"
        \/ kind = "unbundle" /\ label = "finalize"
    BY <1>2 DEF Kinds
  <1> HIDE DEF label, id
  <1>4. Others(c) /\ run'[c] = r
    <2>1. run' = [run EXCEPT ![c] = r]
      BY <1>1
    <2> HIDE DEF r
    <2> QED BY <2>1, <1>2 DEF Others, TypeOK
  <1>5. /\ Same(c) /\ run'[c].pc = label /\ run'[c].version = NoFiles
        /\ run'[c].agreed = run[c].agreed /\ run'[c].id = id
    BY <1>2, <1>4 DEF RunType, Same
  <1>6. /\ \A i \in Created : deploys'[i] = deploys[i]
        /\ id \notin Created /\ deploys'[id].state = "open"
    <2>1. PICK n \in 0..MaxDeploys : Created = 1..n /\ Cardinality(Created) = n
      BY NextNumber DEF WorkInv, IInv
    <2>2. PICK t : deploys' = [deploys EXCEPT ![n + 1] = [state |-> "open", tag |-> t]]
      BY <2>1 DEF CreateDeploy
    <2>3. id = n + 1 /\ id \in Ids /\ id \notin Created
      BY <2>1, RequestAssumption DEF CreateDeploy, Ids, id
    <2>4. deploys \in [Ids -> DeployType] /\ \A i \in Created : i \in Ids
      BY <1>2 DEF TypeOK, Created
    <2> QED BY <2>2, <2>3, <2>4
  <1>7. Frame(c)
    BY <1>1, <1>6 DEF Frame
  <1>8. ~WouldEmpty(c)' \/ label \in {"ignore", "confirm"}
    BY <1>3, <1>5 DEF WouldEmpty, Same
  <1>9. Brings(c)' \/ label # "tar"
    BY <1>3, <1>5 DEF Brings, Same
  <1>10. OnCourse(c)'
    BY <1>3, <1>5, <1>8, <1>9 DEF OnCourse, Same, Making, Built
  <1>11. ToItself(c)'
    BY <1>3, <1>5 DEF ToItself, Brings, Same, Built, Sent
  <1>12. Alone(c)'
    <2>1. kind \in {"bundle", "unbundle"} => run[c].q.tests = {}
      BY <1>2, RequestAssumption
    <2> QED BY <2>1, <1>3, <1>5 DEF Alone, Same, Sent
  <1>13. InHand(c) => InHand(c)'
    BY <1>1, <1>3, <1>5 DEF InHand, Excluding, Same, facts
  <1>14. label # "idle"
    BY <1>3
  <1> QED BY <1>1, <1>2, <1>4, <1>5, <1>7, <1>10, <1>11, <1>12, <1>6, <1>13, <1>14 DEF Advances, Numbers

\* A command that begins knows whom it meets, and they know.
LEMMA BeginWork ==
  ASSUME WorkInv, IInv', NEW c \in Clis, Begin(c)
  PROVE  WorkInv'
  <1>1. /\ ~Active(c) /\ TypeOK /\ UNCHANGED <<facts, cloud, engine, container>>
    BY DEF WorkInv, IInv, Begin
  <1>2. PICK q \in Requests, d \in Deployments, w \in Checkouts, enabled \in BOOLEAN :
          BeginWith(c, q, d, w, enabled)
    BY DEF Begin
  <1> DEFINE met == IF Sharing(c, d, w) # {} THEN "sharing"
                    ELSE IF Company(c) # {} THEN "others" ELSE "nobody"
             r == [IdleRun(d, w) EXCEPT !.pc = "create", !.q = q, !.enabled = enabled,
                                        !.files = SeesFiles(q, d, w), !.met = met]
  <1>3. /\ run'[c].pc = "create" /\ run'[c].met = met /\ run'[c].dep = d /\ run'[c].dir = w
        /\ run'[c].version = NoFiles
    <2>1. run'[c] = r
      BY <1>2 DEF BeginWith
    <2> HIDE DEF met
    <2> QED BY <2>1 DEF IdleRun
  <1>4. ASSUME NEW e \in Clis, e # c
        PROVE  /\ run'[e].pc = run[e].pc /\ run'[e].q = run[e].q /\ run'[e].dep = run[e].dep
               /\ run'[e].dir = run[e].dir /\ run'[e].enabled = run[e].enabled
               /\ run'[e].files = run[e].files /\ run'[e].id = run[e].id
               /\ run'[e].version = run[e].version /\ run'[e].saved = run[e].saved
               /\ run'[e].agreed = run[e].agreed /\ run'[e].test = run[e].test
               /\ run'[e].met = IF e \in Sharing(c, d, w) THEN "sharing"
                                ELSE IF e \in Company(c) /\ run[e].met = "nobody" THEN "others"
                                ELSE run[e].met
    <2>1. run[e] \in RunType
      BY <1>1 DEF TypeOK
    <2>2. run'[e] = IF e \in Sharing(c, d, w) THEN [run[e] EXCEPT !.met = "sharing"]
                    ELSE IF e \in Company(c) /\ run[e].met = "nobody"
                      THEN [run[e] EXCEPT !.met = "others"]
                    ELSE run[e]
      BY <1>2, <1>4 DEF BeginWith
    <2> QED BY <2>1, <2>2 DEF RunType
  <1>5. ASSUME NEW v \in Checkouts
        PROVE  /\ checkout'[v].ignore = checkout[v].ignore /\ checkout'[v].tar = checkout[v].tar
               /\ checkout'[v].gz = checkout[v].gz /\ checkout'[v].monitor = checkout[v].monitor
               /\ checkout[v].shaken => checkout'[v].shaken
               /\ v = w /\ (\E e \in Company(c) : run[e].dir = w) => checkout'[v].shaken
    <2> DEFINE shaken == checkout[v].shaken \/ \E e \in Company(c) : run[e].dir = v /\ w = v
    <2>1. checkout[v] \in CheckoutType
      BY <1>1 DEF TypeOK
    <2>2. checkout'[v] = [checkout[v] EXCEPT !.shaken = shaken]
      BY <1>2 DEF BeginWith
    <2>3. /\ checkout[v].shaken => shaken
          /\ v = w /\ (\E e \in Company(c) : run[e].dir = w) => shaken
      OBVIOUS
    <2> HIDE DEF shaken
    <2> QED BY <2>1, <2>2, <2>3 DEF CheckoutType
  <1>6. \A e \in Clis : /\ e \in Company(c) <=> e # c /\ Active(e)
                        /\ e \in Sharing(c, d, w) <=>
                             e # c /\ Active(e) /\ (run[e].dep = d \/ run[e].dir = w)
    BY DEF Company, Sharing
  <1>7. \A e \in Clis : Active(e)' <=> Active(e) \/ e = c
    BY <1>3, <1>4 DEF Active
  <1>8. met # "sharing" => Sharing(c, d, w) = {}
    OBVIOUS
  <1>9. met = "nobody" => Company(c) = {}
    OBVIOUS
  <1> HIDE DEF met
  <1>10. Meeting'
    <2> SUFFICES ASSUME NEW a \in Clis, NEW e \in Clis, a # e, Active(a)', Active(e)'
                 PROVE  /\ run'[a].met # "nobody"
                        /\ run'[a].dep = run'[e].dep \/ run'[a].dir = run'[e].dir =>
                             run'[a].met = "sharing"
      BY DEF Meeting
    <2>1. CASE a = c
      BY <2>1, <1>3, <1>4, <1>6, <1>7, <1>8, <1>9
    <2>2. CASE e = c
      BY <2>2, <1>3, <1>4, <1>6, <1>7
    <2>3. CASE a # c /\ e # c
      BY <2>3, <1>4, <1>6, <1>7 DEF WorkInv, Meeting
    <2> QED BY <2>1, <2>2, <2>3
  <1>11. OnCourse(c)' /\ ToItself(c)' /\ Alone(c)'
    BY <1>3 DEF OnCourse, ToItself, Alone, Making, Built, Sent
  <1>12. ASSUME NEW e \in Clis, e # c
         PROVE  /\ WithoutDags(e)' <=> WithoutDags(e)
                /\ WouldEmpty(e)' <=> WouldEmpty(e)
                /\ Brings(e)' <=> Brings(e)
    BY <1>1, <1>4, <1>12 DEF WithoutDags, Remote, WouldEmpty, Files, Brings, facts
  <1>13. ASSUME NEW e \in Clis, e # c
         PROVE  OnCourse(e)' /\ ToItself(e)' /\ Alone(e)'
    <2>1. OnCourse(e) /\ ToItself(e) /\ Alone(e) /\ Placed(e)
      BY DEF WorkInv, IInv, AllDone
    <2>2. OnCourse(e)'
      BY <2>1, <1>4, <1>12, <1>13 DEF OnCourse
    <2>3. Alone(e)'
      BY <2>1, <1>1, <1>4, <1>13, SMTT(30) DEF Alone, Active, Files
    <2>4. ToItself(e)'
      <3> SUFFICES ASSUME Active(e), run[e].met # "sharing"
                   PROVE  ToItself(e)'
        BY <1>4, <1>13 DEF ToItself, Active
      <3>1. run[e].dir \in Checkouts
        BY <2>1 DEF Placed, Active
      <3>2. OwnTar(e)' = OwnTar(e)
        BY <1>4, <1>13 DEF OwnTar
      <3>3. \A i : Own(e, i)' <=> Own(e, i)
        BY <1>4, <1>12, <1>13 DEF Own
      <3> QED BY <2>1, <3>1, <3>2, <1>1, <1>4, <1>5, <1>12, <1>13, ZenonT(30)
              DEF ToItself, Own, cloud
    <2> QED BY <2>2, <2>3, <2>4
  <1>14. ASSUME NEW v \in Checkouts
         PROVE  Tidy(v)'
    <2> SUFFICES ASSUME ~checkout'[v].shaken
                 PROVE  Tidy(v)'
      BY DEF Tidy
    <2>1. ~checkout[v].shaken /\ found' = found
      BY <1>1, <1>5 DEF facts
    <2>2. Tidy(v)
      BY DEF WorkInv
    <2>3. v = w => \A e \in Clis : Active(e) => run[e].dir # w
      BY <1>1, <1>5, <1>6
    <2>4. \A a, e \in Clis : Active(a)' /\ Active(e)' /\ run'[a].dir = v /\ run'[e].dir = v => a = e
      BY <2>1, <2>2, <2>3, <1>3, <1>4, <1>7 DEF Tidy
    <2>5. ASSUME NEW e \in Clis, Active(e)', run'[e].dir = v
          PROVE  InHand(e)'
      <3>1. CASE e = c
        <4>1. checkout[v].ignore \in Original(found[v]) /\ NoneLeft(checkout[v])
          BY <3>1, <2>1, <2>2, <2>3, <2>5, <1>3 DEF Tidy
        <4> QED BY <4>1, <3>1, <2>1, <2>5, <1>3, <1>5 DEF InHand, Excluding, NoneLeft
      <3>2. CASE e # c
        <4>1. InHand(e)
          BY <3>2, <2>1, <2>2, <2>5, <1>4, <1>7 DEF Tidy
        <4> QED BY <4>1, <3>2, <2>1, <2>5, <1>4, <1>1, <1>5, <1>12 DEF InHand, Excluding, Monitors, NoneLeft, facts
      <3> QED BY <3>1, <3>2
    <2>6. (\A e \in Clis : Active(e)' => run'[e].dir # v) =>
            checkout'[v].ignore \in Original(found'[v]) /\ NoneLeft(checkout'[v])
      BY <2>1, <2>2, <1>1, <1>3, <1>4, <1>5, <1>7 DEF Tidy, NoneLeft
    <2> QED BY <2>4, <2>5, <2>6 DEF Tidy
  <1>15. ASSUME NEW e \in Clis, run'[e].pc \in Begun
         PROVE  Opened(e)'
    <2>1. "create" \notin Begun
      BY DEF Begun
    <2> QED BY <2>1, <1>1, <1>3, <1>4, <1>15 DEF WorkInv, Opened, cloud
  <1> QED BY <1>10, <1>11, <1>13, <1>14, <1>15 DEF WorkInv, Opened

----------------------------------------------------------------------------
(* The properties. *)

\* The invariant is inductive.
THEOREM WorkKeeps == WorkInv /\ [Next]_vars => WorkInv'
  <1> SUFFICES ASSUME WorkInv, [Next]_vars PROVE WorkInv'
    OBVIOUS
  <1>1. IInv'
    BY NextKeeps DEF WorkInv
  <1>2. ASSUME NEW c \in Clis, Step(c)
        PROVE  WorkInv'
    <2>1. CASE Begin(c)
      BY <2>1, <1>1, BeginWork
    <2>2. CASE Advances(c) \/ Leaves(c)
      BY <2>2, <1>1, AdvanceKeeps, LeaveKeeps
    <2>3. CASE Ends(c) \/ Finalize(c)
      BY <2>2, <2>3, EndsLeave, FinalizeLeaves
    <2>4. CASE CreateDeploy(c) \/ RemoveDagsLine(c) \/ Confirm(c) \/ ExcludeDags(c)
      BY <2>2, <2>4, CreateAdvances, RemoveAdvances, ConfirmGoes, ExcludeAdvances
    <2>5. CASE Build(c) \/ BuildFails(c) \/ RestoreIgnore(c) \/ TagPrebuilt(c)
      BY <2>2, <2>5, BuildAdvances, BuildFailsGoes, RestoreGoes, PrebuiltGoes
    <2>6. CASE \/ ImageAccepted(c) \/ ParseSkipped(c) \/ RemoveOldContainer(c) \/ CreateContainer(c)
               \/ CopyCode(c) \/ StartContainer(c) \/ ReadVerdict(c)
      BY <2>2, <2>6, TestsGo
    <2>7. CASE TagImage(c) \/ PushImage(c) \/ MakeTar(c) \/ GzipTar(c) \/ UploadTar(c)
      BY <2>2, <2>7, TagAdvances, PushGoes, PacksGo, UploadAdvances
    <2> QED
      BY <1>2, <2>1, <2>3, <2>4, <2>5, <2>6, <2>7 DEF Step, Ends
  <1>3. CASE ContainerExits
    BY <1>1, <1>3, ContainerExitsWork
  <1>4. CASE UNCHANGED vars
    <2>1. Meeting' /\ \A c \in Clis : OnCourse(c)' /\ Alone(c)' /\ Opened(c)'
      BY <1>4, SMTT(30)
      DEF WorkInv, Meeting, OnCourse, Alone, Opened, Active, WithoutDags, Remote, WouldEmpty,
          Files, Brings, vars
    <2>2. ASSUME NEW c \in Clis
          PROVE  ToItself(c)'
      BY <1>4, ZenonT(30)
      DEF WorkInv, ToItself, Active, Own, OwnTar, LeavesOut, WithoutDags, Remote, Files,
          Brings, vars
    <2>3. \A w \in Checkouts : Tidy(w)'
      BY <1>4 DEF WorkInv, Tidy, InHand, Excluding, Monitors, Active, WithoutDags, Remote, vars
    <2> QED BY <2>1, <2>2, <2>3, <1>1 DEF WorkInv
  <1> QED BY <1>2, <1>3, <1>4 DEF Next

\* When no deploy is under way in a checkout, and none there was killed or met another,
\* its files are as they were found, however many commands deploy, fail or are killed
\* elsewhere (buildImageWithoutDags, UploadBundle and deployDags put them back).
THEOREM FilesKept == Spec => []CheckoutKept
  <1>1. WorkInv => CheckoutKept
    BY DEF WorkInv, Tidy, CheckoutKept, Original, NoneLeft
  <1> QED BY <1>1, WorkBegins, WorkKeeps, PTL DEF Spec

\* What is known where a deploy is finalized.
LEMMA AtTheEnd ==
  ASSUME WorkInv, NEW c \in Clis, run[c].pc = "finalize", run[c].met # "sharing"
  PROVE  LET image == registry[run[c].dep][deploys[run[c].id].tag]
         IN /\ run[c].q.kind \in {"full", "image"} =>
                 /\ image.by = run[c].id /\ image.dags \in BOOLEAN
                 /\ ~run[c].q.prebuilt => (image.dags <=> ~WithoutDags(c))
            /\ run[c].version = IF Brings(c) THEN OwnTar(c) ELSE NoFiles
  <1> DEFINE image == registry[run[c].dep][deploys[run[c].id].tag]
  <1>1. /\ TypeOK /\ Active(c) /\ Done(c) /\ OnCourse(c) /\ ToItself(c)
        /\ run[c].dep \in Deployments
    BY UnderWay
  <1>2. run[c].pc \in Sent
    BY DEF Sent
  <1>3. run[c].version = IF Brings(c) THEN OwnTar(c) ELSE NoFiles
    BY <1>1 DEF OnCourse, ToItself
  <1>4. ASSUME run[c].q.kind \in {"full", "image"}
        PROVE  /\ image.by = run[c].id /\ image.dags \in BOOLEAN
               /\ ~run[c].q.prebuilt => (image.dags <=> ~WithoutDags(c))
    <2>1. image # Nothing /\ Own(c, image)
      BY <1>1, <1>2, <1>4 DEF Done, ToItself
    <2>2. deploys[run[c].id].tag \in Ids
      BY TagKnown DEF WorkInv, Begun, Labels
    <2>3. image \in Images
      BY <2>1, <2>2, <1>1 DEF TypeOK, Tags
    <2> HIDE DEF image
    <2>4. image.dags \in BOOLEAN
      BY <2>3 DEF Images
    <2> QED BY <2>1, <2>4, <1>4 DEF Own
  <1> QED BY <1>3, <1>4

\* A deploy that shares neither checkout nor deployment with one that runs meanwhile ships
\* its own image and its own DAGs, whatever deploys before it left behind; one that meets
\* no other is finalized only if its code passes the tests it was asked to pass
\* (deploy.go's build, upload and finalize; docker_image.go's Pytest).
THEOREM ShipsOwn == Spec => ShipsAsTested
  <1>1. ASSUME WorkInv, NEW c \in Clis, Finalizes(c), run[c].met # "sharing"
        PROVE  LET r == run[c]
                   image == registry[r.dep][deploys[r.id].tag]
               IN /\ r.q.kind \in {"full", "image"} =>
                       /\ image.by = r.id
                       /\ ~r.q.prebuilt => image.dags = ~WithoutDags(c)
                  /\ r.version.by = IF \/ r.q.kind \in {"dags", "bundle"}
                                       \/ r.q.kind = "full" /\ r.enabled /\ Files(c)
                                      THEN r.id ELSE 0
    <2> DEFINE image == registry[run[c].dep][deploys[run[c].id].tag]
    <2>1. /\ run[c].q.kind \in {"full", "image"} =>
                 /\ image.by = run[c].id /\ image.dags \in BOOLEAN
                 /\ ~run[c].q.prebuilt => (image.dags <=> ~WithoutDags(c))
          /\ run[c].version = IF Brings(c) THEN OwnTar(c) ELSE NoFiles
      BY <1>1, AtTheEnd DEF Finalizes, At
    <2>2. OwnTar(c).by = run[c].id /\ NoFiles.by = 0
      BY DEF OwnTar, NoFiles
    <2>3. run[c].version.by = IF Brings(c) THEN run[c].id ELSE 0
      BY <2>1, <2>2
    <2>4. run[c].q.kind \in {"full", "image"} /\ ~run[c].q.prebuilt =>
            image.dags = ~WithoutDags(c)
      <3>1. WithoutDags(c) \in BOOLEAN
        BY <1>1, AtWork DEF WithoutDags, Remote, Finalizes, At, WorkInv, RunType
      <3> HIDE DEF image
      <3> QED BY <2>1, <3>1, Zenon
    <2> QED BY <2>1, <2>3, <2>4, SMTT(30) DEF Brings
  <1>2. ASSUME WorkInv, NEW c \in Clis, Finalizes(c), run[c].met = "nobody", Files(c),
               "pytest" \in run[c].q.tests
        PROVE  "pytest" \in run[c].q.passes
    <2>1. run[c].pc = "finalize" /\ Alone(c) /\ Active(c)
      BY <1>2, UnderWay DEF Finalizes, At
    <2> QED BY <2>1, <1>2 DEF Alone, Sent
  <1>3. Spec => []WorkInv
    BY WorkBegins, WorkKeeps, PTL DEF Spec
  <1>4. WorkInv => [\A c \in Clis : Finalizes(c) /\ run[c].met # "sharing" =>
                     LET r == run[c]
                         image == registry[r.dep][deploys[r.id].tag]
                     IN /\ r.q.kind \in {"full", "image"} =>
                             /\ image.by = r.id
                             /\ ~r.q.prebuilt => image.dags = ~WithoutDags(c)
                        /\ r.version.by = IF \/ r.q.kind \in {"dags", "bundle"}
                                             \/ r.q.kind = "full" /\ r.enabled /\ Files(c)
                                            THEN r.id ELSE 0]_vars
    BY <1>1
  <1>5. WorkInv => [\A c \in Clis : Finalizes(c) /\ run[c].met = "nobody" /\ Files(c)
                     /\ "pytest" \in run[c].q.tests => "pytest" \in run[c].q.passes]_vars
    BY <1>2
  <1> QED BY <1>3, <1>4, <1>5, PTL DEF ShipsAsTested, ShipsItsOwn, TestedWhenAlone

\* A deployment loses its DAGs only to a deploy that found none and was agreed to, or that
\* met another or a monitoring DAG left behind, for any number of commands (Deploy's
\* confirmation, kept over everything that happens until it finalizes).
THEOREM Agreed == Spec => EmptiedKnowingly
  <1>1. ASSUME WorkInv, [Next]_vars, NEW d \in Deployments, live[d].dags.some,
               ~live'[d].dags.some
        PROVE  \E c \in Clis : /\ Finalizes(c) /\ run[c].dep = d
                               /\ \/ run[c].agreed
                                  \/ run[c].met = "sharing"
                                  \/ Files(c) /\ ~run[c].q.files
    <2>1. PICK c \in Clis : Finalize(c)
      <3>1. live' # live
        BY <1>1
      <3> QED
        BY <1>1, <3>1, ZenonT(30)
        DEF Next, Step, vars, cloud, ContainerExits, Begin, CreateDeploy, CreateFails,
            RemoveDagsLine, IgnoreFails, Confirm, Canceled, ExcludeDags, ExcludeFails, Build,
            BuildFails, RestoreIgnore, TagPrebuilt, ImageAccepted, ImageRefused, ParseSkipped,
            RemoveOldContainer, CreateContainer, CopyCode, ContainerFails, StartContainer,
            ReadVerdict, TagImage, PushImage, PushFails, MakeTar, GzipTar, UploadTar,
            NothingPacked, TarOrUploadFails, FinalizeFails, Killed
    <2>2. /\ run[c].pc = "finalize" /\ live' = Finalized(c)
          /\ deploys' = [deploys EXCEPT ![run[c].id].state = "final"]
      BY <2>1 DEF Finalize, At
    <2>3. /\ TypeOK /\ Active(c) /\ OnCourse(c) /\ run[c].dep \in Deployments /\ Opened(c)
      BY <1>1, <2>2, UnderWay DEF WorkInv
    <2>4. Finalizes(c)
      <3>1. run[c].id \in Ids /\ deploys[run[c].id].state = "open"
        BY <1>1, <2>2, <2>3, TagKnown DEF WorkInv, Opened, Begun, Labels
      <3>2. deploys'[run[c].id].state = "final"
        BY <2>2, <2>3, <3>1 DEF TypeOK, DeployType
      <3> QED BY <2>2, <3>1, <3>2 DEF Finalizes, At
    <2>5. /\ run[c].dep = d /\ run[c].q.kind \in {"full", "dags"} /\ run[c].enabled
          /\ ~run[c].version.some
      <3> DEFINE r == run[c]
                 l == [live[r.dep] EXCEPT
                         !.image = IF r.q.kind \in {"full", "image"} THEN deploys[r.id].tag ELSE @,
                         !.dags = IF r.q.kind \in {"full", "dags"} /\ r.enabled
                                    THEN r.version ELSE @,
                         !.bundle = IF r.q.kind \in {"bundle", "unbundle"} THEN r.version ELSE @]
      <3>1. live' = [live EXCEPT ![r.dep] = l]
        BY <2>2 DEF Finalized
      <3>2. live \in [Deployments -> LiveType] /\ live[r.dep] \in LiveType
        BY <2>3 DEF TypeOK
      <3>3. l.dags = IF r.q.kind \in {"full", "dags"} /\ r.enabled
                       THEN r.version ELSE live[r.dep].dags
        BY <3>2 DEF LiveType
      <3> HIDE DEF l
      <3>4. live'[d] = IF d = r.dep THEN l ELSE live[d]
        BY <3>1, <3>2, <1>1
      <3> QED BY <3>3, <3>4, <1>1
    <2>6. CASE run[c].met # "sharing"
      <3>1. run[c].version = IF Brings(c) THEN OwnTar(c) ELSE NoFiles
        BY <2>2, <2>6, <1>1, AtTheEnd
      <3>2. OwnTar(c).some = run[c].q.files
        BY DEF OwnTar
      <3>3. WouldEmpty(c) => run[c].agreed
        BY <2>2, <2>3 DEF OnCourse, Labels
      <3>4. CASE Brings(c)
        <4>1. ~run[c].q.files
          BY <3>1, <3>2, <3>4, <2>5
        <4> QED BY <4>1, <3>3, <2>4, <2>5 DEF WouldEmpty
      <3>5. CASE ~Brings(c)
        BY <3>3, <3>5, <2>4, <2>5 DEF Brings, WouldEmpty
      <3> QED BY <3>4, <3>5, SMTT(30)
    <2> QED BY <2>4, <2>5, <2>6, SMTT(30)
  <1>2. Spec => []WorkInv
    BY WorkBegins, WorkKeeps, PTL DEF Spec
  <1>3. WorkInv /\ [Next]_vars =>
          [\A d \in Deployments : live[d].dags.some /\ ~live'[d].dags.some =>
             \E c \in Clis : /\ Finalizes(c) /\ run[c].dep = d
                             /\ \/ run[c].agreed
                                \/ run[c].met = "sharing"
                                \/ Files(c) /\ ~run[c].q.files]_vars
    BY <1>1
  <1> QED BY <1>2, <1>3, PTL DEF Spec, EmptiedKnowingly

(***************************************************************************)
(* The Cosmos Boost step.                                                  *)
(***************************************************************************)
Going(c) == cmd[c].at # "idle"
Past(c) == cmd[c].at \in {"stamp", "pack"}
Texts == [body : Body, at : Nat]
SidecarOf(d) == disk[<<"sidecar", d>>]
SlimOf(f) == disk[<<"slim", f>>]

\* What a command that is somewhere knows of where it is.
Course(c) ==
  /\ cmd[c].dirs \subseteq Dir /\ cmd[c].found \subseteq Boost!Artifact
  /\ cmd[c].slimmed \subseteq Boost!Manifests
  /\ Past(c) => cmd[c].dirs = {} /\ cmd[c].found = {} /\ ~cmd[c].refused
  /\ cmd[c].at = "clean" =>
       /\ \A p \in Project : cmd[c].tree[p] = Nothing
       /\ \A f \in Manifest : cmd[c].read[f] = Nothing
       /\ cmd[c].slimmed = {} /\ cmd[c].missed = {} /\ cmd[c].stamped = {}
  /\ ~cmd[c].slims =>
       \A f \in Boost!Manifests : Home[f] \in Boost!Projects => cmd[c].read[f] = Nothing
  /\ cmd[c].at = "pack" => cmd[c].stamped = Dir \/ cmd[c].failed
  /\ ~cmd[c].failed =>
       /\ cmd[c].missed = {}
       /\ \A f \in Manifest : cmd[c].read[f] = Boost!Unreadable => cmd[c].read[f] = Nothing

\* What it has read is what the files say.
Learned(c) ==
  /\ \A p \in Boost!Projects : cmd[c].tree[p] \in {Nothing, Boost!HashProject(p)}
  /\ \A f \in Boost!Manifests : cmd[c].read[f] \in {Nothing, Boost!Unreadable, text[f]}

\* The artifacts it need not remove any more.
Passed(c, a) ==
  ~cmd[c].refused /\ Boost!PlaceOf(a) \notin cmd[c].dirs /\ a \notin cmd[c].found

FreshSidecar(d) == SidecarOf(d).by = "us" =>
  /\ d \in Boost!Projects => SidecarOf(d).of.hash = Boost!HashProject(d)
  /\ d \notin Boost!Projects =>
       \E f \in DOMAIN SidecarOf(d).of.manifests :
         SidecarOf(d).of.hash = Boost!HashDocument(text[f])
  /\ \A f \in DOMAIN SidecarOf(d).of.manifests :
       SidecarOf(d).of.manifests[f].version = Boost!HashDocument(text[f])
FreshSlim(f) == SlimOf(f).by = "us" => SlimOf(f).of = Boost!BuildSlimManifest(text[f])

FreshTo(c) ==
  /\ \A d \in Dir : Passed(c, <<"sidecar", d>>) => FreshSidecar(d)
  /\ \A f \in Boost!Manifests : Passed(c, <<"slim", f>>) => FreshSlim(f)

Due(c, d) ==
  IF d \in Boost!Projects /\ ~cmd[c].slims THEN {}
  ELSE {f \in Boost!Within(d) : Boost!IsDbtManifest(text[f])}

\* The sidecar a command that is alone has written.
Stamped(c, d) ==
  /\ SidecarOf(d).by = "us" =>
       \A f \in DOMAIN SidecarOf(d).of.manifests :
         \/ SidecarOf(d).of.manifests[f].slim = Nothing
         \/ /\ f \in cmd[c].slimmed
            /\ SidecarOf(d).of.manifests[f].slim = Boost!BuildSlimManifest(text[f])
  /\ ~cmd[c].failed =>
       IF d \in Boost!Projects \/ Due(c, d) # {}
       THEN SidecarOf(d).by = "us" /\ DOMAIN SidecarOf(d).of.manifests = Due(c, d)
       ELSE SidecarOf(d).by = "none"

OwnWork(c) ==
  /\ \A a \in Boost!Artifact : Passed(c, a) =>
       /\ disk[a].by # "other"
       /\ cmd[c].at = "clean" => disk[a].by = "none"
  /\ \A f \in cmd[c].slimmed : SlimOf(f) = Boost!Ours(Boost!BuildSlimManifest(text[f]))
  /\ Past(c) => \A d \in Dir :
       IF d \in cmd[c].stamped THEN Stamped(c, d) ELSE SidecarOf(d).by = "none"

Good(c) ==
  /\ Course(c)
  /\ ~cmd[c].raced => Learned(c) /\ FreshTo(c) /\ (cmd[c].alone => OwnWork(c))

\* A command is a record of these fields.
Shape(c) ==
  /\ cmd[c] =
       [at |-> cmd[c].at, kind |-> cmd[c].kind, slims |-> cmd[c].slims, dirs |-> cmd[c].dirs,
        found |-> cmd[c].found, refused |-> cmd[c].refused, tree |-> cmd[c].tree,
        read |-> cmd[c].read, slimmed |-> cmd[c].slimmed, missed |-> cmd[c].missed,
        stamped |-> cmd[c].stamped, failed |-> cmd[c].failed, alone |-> cmd[c].alone,
        raced |-> cmd[c].raced]
  /\ cmd[c].tree = [p \in Project |-> cmd[c].tree[p]]
  /\ cmd[c].read = [f \in Manifest |-> cmd[c].read[f]]
  /\ cmd[c].slims \in BOOLEAN /\ cmd[c].refused \in BOOLEAN /\ cmd[c].failed \in BOOLEAN
  /\ cmd[c].alone \in BOOLEAN /\ cmd[c].raced \in BOOLEAN

BoostType ==
  /\ text \in [DOMAIN text -> Texts] /\ DOMAIN text \subseteq Boost!File
  /\ disk = [a \in Boost!Artifact |-> disk[a]]
  /\ cmd = [c \in Clis |-> cmd[c]] /\ \A c \in Clis : Shape(c)

Beside ==
  \A c, o \in Clis : c # o /\ Going(c) /\ Going(o) =>
    (cmd[c].raced <=> cmd[o].raced) /\ ~cmd[c].alone

BoostInv == BoostType /\ Beside /\ \A c \in Clis : Going(c) => Good(c)

LEMMA TreeStarts == Boost!BoostInit => BoostInv
  <1> SUFFICES ASSUME Boost!BoostInit PROVE BoostInv
    OBVIOUS
  <1>1. PICK l \in Layouts : text \in [l -> [body : Body, at : {0}]]
    BY DEF Boost!BoostInit
  <1>2. text \in [DOMAIN text -> Texts] /\ DOMAIN text \subseteq Boost!File
    BY <1>1, BoostSound DEF Boost!Sound, Texts
  <1>3. disk = [a \in Boost!Artifact |-> Boost!NoArtifact] /\ cmd = [c \in Clis |-> Boost!Idle]
    BY DEF Boost!BoostInit
  <1>4. \A c \in Clis : Shape(c)
    BY <1>3 DEF Shape, Boost!Idle
  <1>5. disk = [a \in Boost!Artifact |-> disk[a]] /\ cmd = [c \in Clis |-> cmd[c]]
    BY <1>3
  <1>6. \A c \in Clis : ~Going(c)
    BY <1>3 DEF Going, Boost!Idle
  <1> QED BY <1>2, <1>4, <1>5, <1>6 DEF BoostInv, BoostType, Beside

\* A step of one command keeps what is known of all if it leaves the files, what it
\* writes is fresh, and it either ends or keeps what is known of itself.
LEMMA OneSteps ==
  ASSUME BoostInv, NEW c \in Clis, Going(c), UNCHANGED text,
         \A o \in Clis \ {c} : cmd'[o] = cmd[o], cmd' = [o \in Clis |-> cmd'[o]],
         Shape(c)',
         disk' = [a \in Boost!Artifact |-> disk'[a]],
         ~cmd[c].raced =>
           /\ \A d \in Dir : SidecarOf(d)' = SidecarOf(d) \/ FreshSidecar(d)'
           /\ \A f \in Boost!Manifests : SlimOf(f)' = SlimOf(f) \/ FreshSlim(f)',
         \/ cmd'[c].at = "idle"
         \/ cmd'[c].raced = cmd[c].raced /\ cmd'[c].alone = cmd[c].alone /\ Good(c)'
  PROVE  BoostInv'
  <1>1. BoostType'
    <2>1. BoostType
      BY DEF BoostInv
    <2>2. ASSUME NEW o \in Clis
          PROVE  Shape(o)'
      <3>1. CASE o = c
        BY <3>1
      <3>2. CASE o # c
        BY <2>1, <3>2 DEF BoostType, Shape
      <3> QED BY <3>1, <3>2
    <2> QED BY <2>1, <2>2 DEF BoostType
  <1>2. Beside'
    BY DEF BoostInv, Beside, Going
  <1>3. ASSUME NEW o \in Clis, Going(o)', o # c
        PROVE  Good(o)'
    <2>1. cmd'[o] = cmd[o] /\ Going(o)
      BY <1>3 DEF Going
    <2>2. Good(o) /\ (cmd[o].raced <=> cmd[c].raced) /\ ~cmd[o].alone
      BY <1>3, <2>1 DEF BoostInv, Beside
    <2>3. Boost!Manifests' = Boost!Manifests /\ Boost!Projects' = Boost!Projects
      BY DEF Boost!Manifests, Boost!Projects
    <2>4. Course(o)'
      BY <2>1, <2>2, <2>3 DEF Good, Course, Past, Boost!Unreadable
    <2>5. ASSUME ~cmd[o].raced
          PROVE  Learned(o)' /\ FreshTo(o)'
      <3>1. Learned(o)'
        BY <2>1, <2>2, <2>3, <2>5 DEF Good, Learned, Boost!HashProject, Boost!Unreadable
      <3>2. \A a \in Boost!Artifact : Passed(o, a)' <=> Passed(o, a)
        BY <2>1 DEF Passed, Boost!PlaceOf
      <3>3. \A d \in Dir : SidecarOf(d)' = SidecarOf(d) => (FreshSidecar(d)' <=> FreshSidecar(d))
        BY <2>3 DEF FreshSidecar, Boost!HashProject, Boost!HashDocument
      <3>4. \A f \in Boost!Manifests :
              SlimOf(f)' = SlimOf(f) => (FreshSlim(f)' <=> FreshSlim(f))
        BY DEF FreshSlim, Boost!BuildSlimManifest
      <3>5. FreshTo(o)
        BY <2>2, <2>5 DEF Good
      <3>6. ASSUME NEW d \in Dir, Passed(o, <<"sidecar", d>>)'
            PROVE  FreshSidecar(d)'
        <4>1. <<"sidecar", d>> \in Boost!Artifact
          BY DEF Boost!Artifact
        <4>2. FreshSidecar(d)
          BY <3>2, <3>5, <3>6, <4>1 DEF FreshTo
        <4> QED BY <2>2, <2>5, <3>3, <4>2
      <3>7. ASSUME NEW f \in Boost!Manifests, Passed(o, <<"slim", f>>)'
            PROVE  FreshSlim(f)'
        <4>1. <<"slim", f>> \in Boost!Artifact
          BY DEF Boost!Artifact, Boost!Manifests
        <4>2. FreshSlim(f)
          BY <3>2, <3>5, <3>7, <4>1 DEF FreshTo
        <4> QED BY <2>2, <2>5, <3>4, <4>2
      <3> QED BY <2>3, <3>1, <3>6, <3>7 DEF FreshTo
    <2> QED BY <2>1, <2>2, <2>4, <2>5 DEF Good
  <1>4. Going(c)' => Good(c)'
    BY DEF Going
  <1> QED BY <1>1, <1>2, <1>3, <1>4 DEF BoostInv

LEMMA IdleShape ==
  ASSUME NEW m, m = Boost!Idle
  PROVE  /\ m = [at |-> m.at, kind |-> m.kind, slims |-> m.slims, dirs |-> m.dirs,
                 found |-> m.found, refused |-> m.refused, tree |-> m.tree,
                 read |-> m.read, slimmed |-> m.slimmed, missed |-> m.missed,
                 stamped |-> m.stamped, failed |-> m.failed, alone |-> m.alone,
                 raced |-> m.raced]
         /\ m.tree = [p \in Project |-> m.tree[p]]
         /\ m.read = [f \in Manifest |-> m.read[f]]
         /\ m.slims = FALSE /\ m.refused = FALSE /\ m.failed = FALSE
         /\ m.alone = TRUE /\ m.raced = FALSE /\ m.at = "idle"
  BY DEF Boost!Idle

\* A command that ends and writes nothing, and one that ends at all, is nobody's concern.
LEMMA BoostEnds ==
  ASSUME BoostInv, NEW c \in Clis, Going(c), UNCHANGED <<text, disk>>,
         cmd' = [cmd EXCEPT ![c] = Boost!Idle]
  PROVE  BoostInv'
  <1>1. BoostType
    BY DEF BoostInv
  <1>2. cmd'[c] = Boost!Idle /\ \A o \in Clis \ {c} : cmd'[o] = cmd[o]
    BY <1>1 DEF BoostType
  <1>3. Shape(c)' /\ cmd'[c].at = "idle"
    BY <1>2, IdleShape DEF Shape
  <1>4. /\ \A d \in Dir : SidecarOf(d)' = SidecarOf(d)
        /\ \A f \in Boost!Manifests : SlimOf(f)' = SlimOf(f)
    BY DEF SidecarOf, SlimOf
  <1>5. cmd' = [o \in Clis |-> cmd'[o]] /\ disk' = [a \in Boost!Artifact |-> disk'[a]]
    BY <1>1 DEF BoostType
  <1> QED BY <1>2, <1>3, <1>4, <1>5, OneSteps

\* What the files say of what is written.
LEMMA SameFiles ==
  ASSUME UNCHANGED text
  PROVE  /\ Boost!Manifests' = Boost!Manifests /\ Boost!Projects' = Boost!Projects
         /\ \A p : Boost!HashProject(p)' = Boost!HashProject(p)
         /\ \A d : Boost!Within(d)' = Boost!Within(d)
         /\ \A d \in Dir : SidecarOf(d)' = SidecarOf(d) =>
              (FreshSidecar(d)' <=> FreshSidecar(d))
         /\ \A f \in Manifest : SlimOf(f)' = SlimOf(f) => (FreshSlim(f)' <=> FreshSlim(f))
  <1>1. Boost!Manifests' = Boost!Manifests /\ Boost!Projects' = Boost!Projects
    BY DEF Boost!Manifests, Boost!Projects
  <1>2. \A p : Boost!HashProject(p)' = Boost!HashProject(p)
    BY DEF Boost!HashProject
  <1>3. \A d : Boost!Within(d)' = Boost!Within(d)
    BY <1>1 DEF Boost!Within
  <1>4. \A d \in Dir : SidecarOf(d)' = SidecarOf(d) => (FreshSidecar(d)' <=> FreshSidecar(d))
    BY <1>1, <1>2 DEF FreshSidecar, Boost!HashDocument
  <1>5. \A f \in Manifest : SlimOf(f)' = SlimOf(f) => (FreshSlim(f)' <=> FreshSlim(f))
    BY DEF FreshSlim, Boost!BuildSlimManifest
  <1> QED BY <1>1, <1>2, <1>3, <1>4, <1>5

LEMMA Keys ==
  /\ \A d \in Dir : <<"sidecar", d>> \in Boost!Artifact
  /\ \A f \in Manifest : <<"slim", f>> \in Boost!Artifact
  /\ \A f \in Boost!Manifests : f \in Manifest /\ f \in DOMAIN text
  BY DEF Boost!Artifact, Boost!Manifests

\* A step of the cleanup: what comes to be passed is not there.
LEMMA Cleans ==
  ASSUME BoostInv, NEW c \in Clis, cmd[c].at = "clean", UNCHANGED text,
         \A o \in Clis \ {c} : cmd'[o] = cmd[o], cmd' = [o \in Clis |-> cmd'[o]],
         Shape(c)',
         disk' = [a \in Boost!Artifact |-> disk'[a]],
         /\ cmd'[c].slims = cmd[c].slims /\ cmd'[c].tree = cmd[c].tree
         /\ cmd'[c].read = cmd[c].read /\ cmd'[c].slimmed = cmd[c].slimmed
         /\ cmd'[c].missed = cmd[c].missed /\ cmd'[c].stamped = cmd[c].stamped
         /\ cmd'[c].failed = cmd[c].failed /\ cmd'[c].alone = cmd[c].alone
         /\ cmd'[c].raced = cmd[c].raced,
         cmd'[c].at \in {"clean", "stamp"},
         cmd'[c].dirs \subseteq Dir, cmd'[c].found \subseteq Boost!Artifact,
         cmd'[c].at = "stamp" =>
           cmd'[c].dirs = {} /\ cmd'[c].found = {} /\ ~cmd'[c].refused,
         \A a \in Boost!Artifact : disk'[a] = disk[a] \/ disk'[a].by = "none",
         \A a \in Boost!Artifact :
           Passed(c, a)' => (Passed(c, a) /\ disk'[a] = disk[a]) \/ disk'[a].by = "none"
  PROVE  BoostInv'
  <1>1. Going(c) /\ BoostType /\ Good(c) /\ Course(c)
    BY DEF BoostInv, Going, Good
  <1>2. /\ \A d \in Dir : SidecarOf(d)' = SidecarOf(d) \/ SidecarOf(d)'.by = "none"
        /\ \A f \in Boost!Manifests : SlimOf(f)' = SlimOf(f) \/ SlimOf(f)'.by = "none"
    BY Keys DEF SidecarOf, SlimOf
  <1>3. /\ \A d \in Dir : SidecarOf(d)' = SidecarOf(d) \/ FreshSidecar(d)'
        /\ \A f \in Boost!Manifests : SlimOf(f)' = SlimOf(f) \/ FreshSlim(f)'
    <2>1. \A d \in Dir : SidecarOf(d)'.by = "none" => FreshSidecar(d)'
      BY DEF FreshSidecar
    <2>2. \A f \in Boost!Manifests : SlimOf(f)'.by = "none" => FreshSlim(f)'
      BY DEF FreshSlim
    <2> QED BY <1>2, <2>1, <2>2
  <1>4. Course(c)'
    BY <1>1, SameFiles DEF Course, Past, Boost!Unreadable
  <1>5. Learned(c) => Learned(c)'
    BY SameFiles DEF Learned, Boost!Unreadable
  <1>6. ASSUME FreshTo(c)
        PROVE  FreshTo(c)'
    <2>1. ASSUME NEW d \in Dir, Passed(c, <<"sidecar", d>>)'
          PROVE  FreshSidecar(d)'
      <3>1. CASE disk'[<<"sidecar", d>>].by = "none"
        BY <3>1 DEF FreshSidecar, SidecarOf
      <3>2. CASE Passed(c, <<"sidecar", d>>) /\ disk'[<<"sidecar", d>>] = disk[<<"sidecar", d>>]
        BY <1>6, <3>2, SameFiles DEF FreshTo, SidecarOf
      <3> QED BY <2>1, <3>1, <3>2, Keys
    <2>2. ASSUME NEW f \in Boost!Manifests, Passed(c, <<"slim", f>>)'
          PROVE  FreshSlim(f)'
      <3>0. f \in Manifest
        BY Keys
      <3>1. CASE disk'[<<"slim", f>>].by = "none"
        BY <3>1 DEF FreshSlim, SlimOf
      <3>2. CASE Passed(c, <<"slim", f>>) /\ disk'[<<"slim", f>>] = disk[<<"slim", f>>]
        BY <1>6, <3>0, <3>2, SameFiles DEF FreshTo, SlimOf
      <3> QED BY <2>2, <3>0, <3>1, <3>2, Keys
    <2> QED BY <2>1, <2>2, SameFiles DEF FreshTo
  <1>7. ASSUME OwnWork(c)
        PROVE  OwnWork(c)'
    <2>1. \A a \in Boost!Artifact : Passed(c, a)' => disk'[a].by = "none"
      BY <1>7 DEF OwnWork
    <2>2. cmd[c].slimmed = {} /\ cmd[c].stamped = {}
      BY <1>1 DEF Course
    <2>3. ASSUME Past(c)'
          PROVE  \A d \in Dir : SidecarOf(d)'.by = "none"
      <3>1. \A d \in Dir : Passed(c, <<"sidecar", d>>)'
        BY <2>3 DEF Past, Passed
      <3> QED BY <2>1, <3>1, Keys DEF SidecarOf
    <2> QED BY <2>1, <2>2, <2>3 DEF OwnWork
  <1>8. Good(c)'
    BY <1>1, <1>4, <1>5, <1>6, <1>7 DEF Good
  <1> QED BY <1>1, <1>3, <1>8, OneSteps

\* Past the cleanup every artifact is passed.
LEMMA AllPassed ==
  ASSUME NEW c \in Clis, Course(c), Past(c)
  PROVE  \A a : Passed(c, a)
  BY DEF Course, Passed

\* A step of the stamping, where what is written is fresh.
LEMMA Stamps ==
  ASSUME BoostInv, NEW c \in Clis, cmd[c].at = "stamp", UNCHANGED text,
         \A o \in Clis \ {c} : cmd'[o] = cmd[o], cmd' = [o \in Clis |-> cmd'[o]],
         Shape(c)',
         disk' = [a \in Boost!Artifact |-> disk'[a]],
         cmd'[c].raced = cmd[c].raced, cmd'[c].alone = cmd[c].alone,
         cmd'[c].at \in {"stamp", "pack"}, Course(c)',
         ~cmd[c].raced =>
           /\ \A d \in Dir : SidecarOf(d)' = SidecarOf(d) \/ FreshSidecar(d)'
           /\ \A f \in Boost!Manifests : SlimOf(f)' = SlimOf(f) \/ FreshSlim(f)'
           /\ Learned(c)'
           /\ cmd[c].alone => OwnWork(c)'
  PROVE  BoostInv'
  <1>1. Going(c) /\ Good(c) /\ Course(c) /\ Past(c)
    BY DEF BoostInv, Going, Good, Past
  <1>2. ASSUME ~cmd[c].raced
        PROVE  FreshTo(c)'
    <2>1. FreshTo(c) /\ \A a : Passed(c, a)
      BY <1>1, <1>2, AllPassed DEF Good
    <2>2. \A d \in Dir : FreshSidecar(d)'
      BY <1>2, <2>1, SameFiles DEF FreshTo
    <2>3. \A f \in Boost!Manifests : FreshSlim(f)'
      BY <1>2, <2>1, SameFiles, Keys DEF FreshTo
    <2> QED BY <2>2, <2>3, SameFiles DEF FreshTo
  <1>3. Good(c)'
    BY <1>2 DEF Good
  <1> QED BY <1>1, <1>3, OneSteps

LEMMA ListKeeps ==
  ASSUME BoostInv, NEW c \in Clis, Boost!ListArtifacts(c)
  PROVE  BoostInv'
  <1>1. BoostType /\ Shape(c) /\ cmd[c].at = "clean" /\ Course(c)
    BY DEF BoostInv, BoostType, Boost!ListArtifacts, Good, Going
  <1>2. PICK d, there :
          /\ there = {a \in Boost!Artifact : Boost!PlaceOf(a) = d /\ disk[a].by # "none"}
          /\ cmd' = [cmd EXCEPT ![c].dirs = @ \ {d}, ![c].found = there]
    BY DEF Boost!ListArtifacts
  <1>3. /\ cmd'[c] =
            [at |-> cmd[c].at, kind |-> cmd[c].kind, slims |-> cmd[c].slims,
              dirs |-> cmd[c].dirs \ {d}, found |-> there, refused |-> cmd[c].refused,
              tree |-> cmd[c].tree, read |-> cmd[c].read, slimmed |-> cmd[c].slimmed,
              missed |-> cmd[c].missed, stamped |-> cmd[c].stamped, failed |-> cmd[c].failed,
              alone |-> cmd[c].alone, raced |-> cmd[c].raced]
        /\ \A o \in Clis \ {c} : cmd'[o] = cmd[o]
        /\ cmd' = [o \in Clis |-> cmd'[o]]
    BY <1>1, <1>2 DEF Shape, BoostType
  <1>4. Shape(c)'
    BY <1>1, <1>3 DEF Shape
  <1>5. UNCHANGED <<text, disk>> /\ cmd[c].found = {}
    BY DEF Boost!ListArtifacts
  <1>6. \A a \in Boost!Artifact :
          Passed(c, a)' => (Passed(c, a) /\ disk'[a] = disk[a]) \/ disk'[a].by = "none"
    BY <1>2, <1>3, <1>5 DEF Passed, Boost!PlaceOf
  <1>7. there \subseteq Boost!Artifact /\ cmd[c].dirs \ {d} \subseteq Dir
    BY <1>1, <1>2 DEF Course
  <1>8. disk' = [a \in Boost!Artifact |-> disk'[a]]
    BY <1>1, <1>5, SMTT(30) DEF BoostType
  <1> QED BY <1>1, <1>3, <1>4, <1>5, <1>6, <1>7, <1>8, Cleans

LEMMA RemoveKeeps ==
  ASSUME BoostInv, NEW c \in Clis, Boost!RemoveArtifact(c)
  PROVE  BoostInv'
  <1>1. BoostType /\ Shape(c) /\ cmd[c].at = "clean" /\ Course(c)
    BY DEF BoostInv, BoostType, Boost!RemoveArtifact, Good, Going
  <1>2. PICK b \in cmd[c].found :
          /\ disk' = IF disk[b].by = "us" THEN [disk EXCEPT ![b] = Boost!NoArtifact] ELSE disk
          /\ cmd' = [cmd EXCEPT ![c].found = @ \ {b},
                                ![c].refused = @ \/ ~(disk[b].by = "us")]
          /\ UNCHANGED text
    BY DEF Boost!RemoveArtifact
  <1>3. /\ cmd'[c] =
            [at |-> cmd[c].at, kind |-> cmd[c].kind, slims |-> cmd[c].slims,
              dirs |-> cmd[c].dirs, found |-> cmd[c].found \ {b},
              refused |-> cmd[c].refused \/ ~(disk[b].by = "us"), tree |-> cmd[c].tree,
              read |-> cmd[c].read, slimmed |-> cmd[c].slimmed, missed |-> cmd[c].missed,
              stamped |-> cmd[c].stamped, failed |-> cmd[c].failed, alone |-> cmd[c].alone,
              raced |-> cmd[c].raced]
        /\ \A o \in Clis \ {c} : cmd'[o] = cmd[o]
        /\ cmd' = [o \in Clis |-> cmd'[o]]
    BY <1>1, <1>2 DEF Shape, BoostType
  <1>4. Shape(c)'
    BY <1>1, <1>3 DEF Shape
  <1>5. disk' = [a \in Boost!Artifact |-> disk'[a]]
    BY <1>1, <1>2 DEF BoostType
  <1>6. b \in Boost!Artifact
    BY <1>1, <1>2 DEF Course
  <1>7. /\ \A a \in Boost!Artifact : disk'[a] = disk[a] \/ disk'[a].by = "none"
        /\ disk[b].by = "us" => disk'[b].by = "none"
        /\ \A a \in Boost!Artifact : a # b => disk'[a] = disk[a]
    BY <1>1, <1>2, <1>6 DEF BoostType, Boost!NoArtifact
  <1>10. /\ cmd'[c].at = "clean" /\ cmd'[c].dirs = cmd[c].dirs
         /\ cmd'[c].found = cmd[c].found \ {b}
         /\ cmd'[c].refused = (cmd[c].refused \/ ~(disk[b].by = "us"))
         /\ cmd'[c].slims = cmd[c].slims /\ cmd'[c].tree = cmd[c].tree
         /\ cmd'[c].read = cmd[c].read /\ cmd'[c].slimmed = cmd[c].slimmed
         /\ cmd'[c].missed = cmd[c].missed /\ cmd'[c].stamped = cmd[c].stamped
         /\ cmd'[c].failed = cmd[c].failed /\ cmd'[c].alone = cmd[c].alone
         /\ cmd'[c].raced = cmd[c].raced
    BY <1>1, <1>3
  <1>8. \A a \in Boost!Artifact :
          Passed(c, a)' => (Passed(c, a) /\ disk'[a] = disk[a]) \/ disk'[a].by = "none"
    <2>1. ~cmd'[c].refused => ~cmd[c].refused /\ disk[b].by = "us"
      BY <1>1, <1>10 DEF Shape
    <2> QED BY <1>7, <1>10, <2>1 DEF Passed, Boost!PlaceOf
  <1>9. cmd[c].found \ {b} \subseteq Boost!Artifact /\ cmd[c].dirs \subseteq Dir
    BY <1>1 DEF Course
  <1> QED BY <1>1, <1>2, <1>3, <1>4, <1>5, <1>7, <1>8, <1>9, <1>10, Cleans, Zenon

LEMMA RemoveFailsKeeps ==
  ASSUME BoostInv, NEW c \in Clis, Boost!RemoveFails(c)
  PROVE  BoostInv'
  <1>1. BoostType /\ Shape(c) /\ cmd[c].at = "clean" /\ Course(c)
    BY DEF BoostInv, BoostType, Boost!RemoveFails, Good, Going
  <1>2. PICK b \in cmd[c].found :
          /\ cmd' = [cmd EXCEPT ![c].found = @ \ {b}, ![c].refused = TRUE]
          /\ UNCHANGED <<text, disk>>
    BY DEF Boost!RemoveFails
  <1>3. /\ cmd'[c] =
            [at |-> cmd[c].at, kind |-> cmd[c].kind, slims |-> cmd[c].slims,
              dirs |-> cmd[c].dirs, found |-> cmd[c].found \ {b}, refused |-> TRUE,
              tree |-> cmd[c].tree, read |-> cmd[c].read, slimmed |-> cmd[c].slimmed,
              missed |-> cmd[c].missed, stamped |-> cmd[c].stamped, failed |-> cmd[c].failed,
              alone |-> cmd[c].alone, raced |-> cmd[c].raced]
        /\ \A o \in Clis \ {c} : cmd'[o] = cmd[o]
        /\ cmd' = [o \in Clis |-> cmd'[o]]
    BY <1>1, <1>2 DEF Shape, BoostType
  <1>4. Shape(c)'
    BY <1>1, <1>3 DEF Shape
  <1>5. disk' = [a \in Boost!Artifact |-> disk'[a]]
    BY <1>1, <1>2 DEF BoostType
  <1>6. \A a \in Boost!Artifact : ~Passed(c, a)'
    BY <1>3 DEF Passed
  <1>8. /\ cmd'[c].at = "clean" /\ cmd'[c].dirs = cmd[c].dirs
        /\ cmd'[c].found = cmd[c].found \ {b}
        /\ cmd'[c].slims = cmd[c].slims /\ cmd'[c].tree = cmd[c].tree
        /\ cmd'[c].read = cmd[c].read /\ cmd'[c].slimmed = cmd[c].slimmed
        /\ cmd'[c].missed = cmd[c].missed /\ cmd'[c].stamped = cmd[c].stamped
        /\ cmd'[c].failed = cmd[c].failed /\ cmd'[c].alone = cmd[c].alone
        /\ cmd'[c].raced = cmd[c].raced
    BY <1>1, <1>3
  <1>7. cmd[c].found \ {b} \subseteq Boost!Artifact /\ cmd[c].dirs \subseteq Dir
    BY <1>1 DEF Course
  <1> QED BY <1>1, <1>2, <1>3, <1>4, <1>5, <1>6, <1>7, <1>8, Cleans

LEMMA EnsureCleanKeeps ==
  ASSUME BoostInv, NEW c \in Clis, Boost!EnsureClean(c)
  PROVE  BoostInv'
  <1>1. /\ BoostType /\ Shape(c) /\ cmd[c].at = "clean" /\ Course(c) /\ Going(c)
        /\ cmd[c].dirs = {} /\ cmd[c].found = {} /\ UNCHANGED <<text, disk>>
    BY DEF BoostInv, BoostType, Boost!EnsureClean, Good, Going
  <1>2. CASE cmd' = [cmd EXCEPT ![c] = Boost!Idle]
    BY <1>1, <1>2, BoostEnds
  <1>3. ASSUME ~cmd[c].refused, cmd' = [cmd EXCEPT ![c].at = "stamp"]
        PROVE  BoostInv'
    <2>1. /\ cmd'[c] =
               [at |-> "stamp", kind |-> cmd[c].kind, slims |-> cmd[c].slims,
                 dirs |-> cmd[c].dirs, found |-> cmd[c].found, refused |-> cmd[c].refused,
                 tree |-> cmd[c].tree, read |-> cmd[c].read, slimmed |-> cmd[c].slimmed,
                 missed |-> cmd[c].missed, stamped |-> cmd[c].stamped,
                 failed |-> cmd[c].failed, alone |-> cmd[c].alone, raced |-> cmd[c].raced]
          /\ \A o \in Clis \ {c} : cmd'[o] = cmd[o]
          /\ cmd' = [o \in Clis |-> cmd'[o]]
      BY <1>1, <1>3 DEF Shape, BoostType
    <2>2. Shape(c)'
      BY <1>1, <2>1 DEF Shape
    <2>3. disk' = [a \in Boost!Artifact |-> disk'[a]]
      BY <1>1 DEF BoostType
    <2>4. \A a \in Boost!Artifact : Passed(c, a) /\ disk'[a] = disk[a]
      BY <1>1, <1>3 DEF Passed
    <2>5. cmd'[c].dirs = {} /\ cmd'[c].found = {} /\ ~cmd'[c].refused
      BY <1>1, <1>3, <2>1
    <2> QED BY <1>1, <2>1, <2>2, <2>3, <2>4, <2>5, Cleans
  <1> QED BY <1>2, <1>3 DEF Boost!EnsureClean

\* What a command that stamps has besides.
LEMMA Stamping ==
  ASSUME BoostInv, NEW c \in Clis, cmd[c].at = "stamp"
  PROVE  /\ BoostType /\ Shape(c) /\ Course(c) /\ Going(c) /\ Past(c)
         /\ cmd[c].dirs = {} /\ cmd[c].found = {} /\ ~cmd[c].refused
         /\ ~cmd[c].raced => Learned(c) /\ FreshTo(c)
         /\ ~cmd[c].raced /\ cmd[c].alone =>
              /\ OwnWork(c)
              /\ \A a \in Boost!Artifact : disk[a].by # "other"
              /\ \A d \in Dir :
                   IF d \in cmd[c].stamped THEN Stamped(c, d) ELSE SidecarOf(d).by = "none"
  <1>1. Going(c) /\ Past(c)
    BY DEF Going, Past
  <1>2. BoostType /\ Shape(c) /\ Good(c) /\ Course(c)
    BY <1>1 DEF BoostInv, BoostType, Good
  <1>3. \A a : Passed(c, a)
    BY <1>1, <1>2, AllPassed
  <1>4. cmd[c].dirs = {} /\ cmd[c].found = {} /\ ~cmd[c].refused
    BY <1>1, <1>2 DEF Course
  <1>5. OwnWork(c) =>
          /\ \A a \in Boost!Artifact : disk[a].by # "other"
          /\ \A d \in Dir :
               IF d \in cmd[c].stamped THEN Stamped(c, d) ELSE SidecarOf(d).by = "none"
    BY <1>1, <1>3 DEF OwnWork
  <1> QED BY <1>1, <1>2, <1>4, <1>5 DEF Good

\* What a command that is alone has stamped stays so while it goes on.
LEMMA StampedKept ==
  ASSUME NEW c \in Clis, NEW d \in Dir, UNCHANGED text, Stamped(c, d),
         SidecarOf(d)' = SidecarOf(d), cmd'[c].slims = cmd[c].slims,
         cmd[c].slimmed \subseteq cmd'[c].slimmed, cmd[c].failed => cmd'[c].failed
  PROVE  Stamped(c, d)'
  <1>1. Due(c, d)' = Due(c, d)
    BY SameFiles DEF Due, Boost!IsDbtManifest
  <1> QED BY <1>1, SameFiles DEF Stamped, Boost!BuildSlimManifest

LEMMA OwnKept ==
  ASSUME BoostInv, NEW c \in Clis, cmd[c].at = "stamp", UNCHANGED <<text, disk>>,
         ~cmd[c].raced /\ cmd[c].alone,
         cmd'[c].at \in {"stamp", "pack"}, cmd'[c].slims = cmd[c].slims,
         cmd'[c].slimmed = cmd[c].slimmed, cmd[c].failed => cmd'[c].failed,
         cmd[c].stamped \subseteq cmd'[c].stamped,
         \A d \in Dir : d \in cmd'[c].stamped /\ d \notin cmd[c].stamped => Stamped(c, d)'
  PROVE  OwnWork(c)'
  <1>1. /\ OwnWork(c)
        /\ \A a \in Boost!Artifact : disk[a].by # "other"
        /\ \A d \in Dir :
             IF d \in cmd[c].stamped THEN Stamped(c, d) ELSE SidecarOf(d).by = "none"
    BY Stamping
  <1>2. \A d \in Dir : SidecarOf(d)' = SidecarOf(d)
    BY DEF SidecarOf
  <1>3. \A d \in Dir :
          (IF d \in cmd[c].stamped THEN Stamped(c, d) ELSE SidecarOf(d).by = "none")'
    <2> SUFFICES ASSUME NEW d \in Dir
                 PROVE  (IF d \in cmd[c].stamped THEN Stamped(c, d)
                         ELSE SidecarOf(d).by = "none")'
      OBVIOUS
    <2>1. CASE d \in cmd[c].stamped
      BY <1>1, <1>2, <2>1, StampedKept
    <2>2. CASE d \notin cmd[c].stamped
      BY <1>1, <1>2, <2>2
    <2> QED BY <2>1, <2>2
  <1>4. \A f \in cmd'[c].slimmed :
          SlimOf(f)' = Boost!Ours(Boost!BuildSlimManifest(text[f]))'
    BY <1>1 DEF OwnWork, SlimOf, Boost!Ours, Boost!BuildSlimManifest
  <1>5. cmd'[c].at # "clean"
    OBVIOUS
  <1> QED BY <1>1, <1>3, <1>4, <1>5 DEF OwnWork

\* Where nothing is written, what is written is fresh.
LEMMA NothingWritten ==
  ASSUME UNCHANGED disk
  PROVE  /\ \A d \in Dir : SidecarOf(d)' = SidecarOf(d)
         /\ \A f \in Boost!Manifests : SlimOf(f)' = SlimOf(f)
  BY DEF SidecarOf, SlimOf

LEMMA HashTreeKeeps ==
  ASSUME BoostInv, NEW c \in Clis, Boost!HashTree(c)
  PROVE  BoostInv'
  <1>1. BoostType /\ Shape(c) /\ cmd[c].at = "stamp" /\ Course(c)
    BY Stamping DEF Boost!HashTree
  <1>5. UNCHANGED <<text, disk>> /\ disk' = [a \in Boost!Artifact |-> disk'[a]]
    BY <1>1 DEF Boost!HashTree, BoostType
  <1>6. PICK p \in Boost!Projects :
          /\ p \notin cmd[c].stamped
          /\ \/ cmd' = [cmd EXCEPT ![c].tree[p] = Boost!HashProject(p)]
             \/ cmd' = [cmd EXCEPT ![c].stamped = @ \cup {p}, ![c].failed = TRUE]
    BY DEF Boost!HashTree
  <1>7. p \in Project
    BY DEF Boost!Projects
  <1>8. ASSUME cmd' = [cmd EXCEPT ![c].tree[p] = Boost!HashProject(p)]
        PROVE  BoostInv'
    <2>1. PICK t : t = [cmd[c].tree EXCEPT ![p] = Boost!HashProject(p)]
      OBVIOUS
    <2>2. cmd' = [cmd EXCEPT ![c].tree = t]
      BY <1>1, <1>8, <2>1 DEF BoostType
    <2>3. /\ cmd'[c] =
               [at |-> cmd[c].at, kind |-> cmd[c].kind, slims |-> cmd[c].slims,
                 dirs |-> cmd[c].dirs, found |-> cmd[c].found, refused |-> cmd[c].refused,
                 tree |-> t, read |-> cmd[c].read, slimmed |-> cmd[c].slimmed,
                 missed |-> cmd[c].missed, stamped |-> cmd[c].stamped,
                 failed |-> cmd[c].failed, alone |-> cmd[c].alone, raced |-> cmd[c].raced]
          /\ \A o \in Clis \ {c} : cmd'[o] = cmd[o]
          /\ cmd' = [o \in Clis |-> cmd'[o]]
      BY <1>1, <2>2 DEF Shape, BoostType
    <2>4. /\ t = [q \in Project |-> t[q]] /\ t[p] = Boost!HashProject(p)
          /\ \A q \in Project \ {p} : t[q] = cmd[c].tree[q]
      BY <1>1, <1>7, <2>1 DEF Shape
    <2>5. Shape(c)'
      BY <1>1, <2>3, <2>4 DEF Shape
    <2>6. Course(c)'
      BY <1>1, <1>5, <2>3, SameFiles DEF Course, Past, Boost!Unreadable
    <2>7. ASSUME ~cmd[c].raced
          PROVE  Learned(c)'
      <3>1. Learned(c)
        BY <1>1, <2>7, Stamping
      <3>2. \A q \in Boost!Projects : t[q] \in {Nothing, Boost!HashProject(q)}
        BY <2>4, <3>1 DEF Learned, Boost!Projects
      <3> QED BY <1>5, <2>3, <3>1, <3>2, SameFiles DEF Learned, Boost!Unreadable
    <2>8. ~cmd[c].raced /\ cmd[c].alone => OwnWork(c)'
      BY <1>1, <1>5, <2>3, OwnKept
    <2> QED BY <1>1, <1>5, <2>3, <2>5, <2>6, <2>7, <2>8, NothingWritten, Stamps
  <1>9. ASSUME cmd' = [cmd EXCEPT ![c].stamped = @ \cup {p}, ![c].failed = TRUE]
        PROVE  BoostInv'
    <2>1. /\ cmd'[c] =
               [at |-> cmd[c].at, kind |-> cmd[c].kind, slims |-> cmd[c].slims,
                 dirs |-> cmd[c].dirs, found |-> cmd[c].found, refused |-> cmd[c].refused,
                 tree |-> cmd[c].tree, read |-> cmd[c].read, slimmed |-> cmd[c].slimmed,
                 missed |-> cmd[c].missed, stamped |-> cmd[c].stamped \cup {p},
                 failed |-> TRUE, alone |-> cmd[c].alone, raced |-> cmd[c].raced]
          /\ \A o \in Clis \ {c} : cmd'[o] = cmd[o]
          /\ cmd' = [o \in Clis |-> cmd'[o]]
      BY <1>1, <1>9 DEF Shape, BoostType
    <2>2. Shape(c)'
      BY <1>1, <2>1 DEF Shape
    <2>3. Course(c)'
      BY <1>1, <1>5, <2>1, SameFiles DEF Course, Past, Boost!Unreadable
    <2>4. ~cmd[c].raced => Learned(c)'
      <3>1. ~cmd[c].raced => Learned(c)
        BY <1>1, Stamping
      <3> QED BY <1>5, <2>1, <3>1, SameFiles DEF Learned, Boost!Unreadable
    <2>5. ASSUME ~cmd[c].raced, cmd[c].alone
          PROVE  OwnWork(c)'
      <3>1. \A d \in Dir : d \notin cmd[c].stamped => SidecarOf(d).by = "none"
        BY <1>1, <2>5, Stamping
      <3>2. ASSUME NEW d \in Dir, d \notin cmd[c].stamped
            PROVE  Stamped(c, d)'
        BY <1>5, <2>1, <3>1, <3>2 DEF Stamped, SidecarOf
      <3> QED BY <1>1, <1>5, <2>1, <2>5, <3>2, OwnKept
    <2> QED BY <1>1, <1>5, <2>1, <2>2, <2>3, <2>4, <2>5, NothingWritten, Stamps
  <1> QED BY <1>6, <1>8, <1>9

LEMMA ReadKeeps ==
  ASSUME BoostInv, NEW c \in Clis, Boost!ReadManifest(c)
  PROVE  BoostInv'
  <1>1. BoostType /\ Shape(c) /\ cmd[c].at = "stamp" /\ Course(c)
    BY Stamping DEF Boost!ReadManifest
  <1>2. UNCHANGED <<text, disk>> /\ disk' = [a \in Boost!Artifact |-> disk'[a]]
    BY <1>1 DEF Boost!ReadManifest, BoostType
  <1>30. PICK f \in Boost!Manifests :
          /\ Home[f] \in Boost!Projects => cmd[c].slims
          /\ \/ cmd' = [cmd EXCEPT ![c].read[f] = text[f]]
             \/ cmd' = [cmd EXCEPT ![c].read[f] = Boost!Unreadable, ![c].failed = TRUE]
    BY DEF Boost!ReadManifest
  <1>31. PICK bad \in BOOLEAN :
           IF bad
           THEN cmd' = [cmd EXCEPT ![c].read[f] = Boost!Unreadable, ![c].failed = TRUE]
           ELSE cmd' = [cmd EXCEPT ![c].read[f] = text[f]]
    BY <1>30
  <1>32. PICK says : says = IF bad THEN Boost!Unreadable ELSE text[f]
    OBVIOUS
  <1>3. /\ Home[f] \in Boost!Projects => cmd[c].slims
        /\ IF bad THEN says = Boost!Unreadable ELSE says = text[f]
        /\ \/ bad /\ cmd' = [cmd EXCEPT ![c].read[f] = says, ![c].failed = TRUE]
           \/ ~bad /\ cmd' = [cmd EXCEPT ![c].read[f] = says]
    BY <1>30, <1>31, <1>32
  <1>4. f \in Manifest /\ text[f] # Boost!Unreadable
    BY <1>1, BoostSound, Keys
       DEF BoostType, Texts, Boost!Unreadable, Boost!Sound
  <1>50. PICK r : r = [cmd[c].read EXCEPT ![f] = says]
    OBVIOUS
  <1>51. PICK fails \in BOOLEAN : fails <=> (bad \/ cmd[c].failed)
    OBVIOUS
  <1>5. /\ r = [cmd[c].read EXCEPT ![f] = says]
        /\ fails <=> (bad \/ cmd[c].failed)
    BY <1>50, <1>51
  <1>6. /\ cmd'[c] =
             [at |-> cmd[c].at, kind |-> cmd[c].kind, slims |-> cmd[c].slims,
               dirs |-> cmd[c].dirs, found |-> cmd[c].found, refused |-> cmd[c].refused,
               tree |-> cmd[c].tree, read |-> r, slimmed |-> cmd[c].slimmed,
               missed |-> cmd[c].missed, stamped |-> cmd[c].stamped, failed |-> fails,
               alone |-> cmd[c].alone, raced |-> cmd[c].raced]
        /\ \A o \in Clis \ {c} : cmd'[o] = cmd[o]
        /\ cmd' = [o \in Clis |-> cmd'[o]]
    <2>1. CASE bad
      <3>1. cmd' = [cmd EXCEPT ![c].read = r, ![c].failed = TRUE] /\ fails = TRUE
        BY <1>1, <1>3, <1>5, <2>1 DEF BoostType, Shape
      <3> QED BY <1>1, <3>1 DEF Shape, BoostType
    <2>2. CASE ~bad
      <3>1. cmd' = [cmd EXCEPT ![c].read = r] /\ fails = cmd[c].failed
        BY <1>1, <1>3, <1>5, <2>2 DEF BoostType, Shape
      <3> QED BY <1>1, <3>1 DEF Shape, BoostType
    <2> QED BY <2>1, <2>2
  <1>7. /\ r = [g \in Manifest |-> r[g]] /\ r[f] = says
        /\ \A g \in Manifest \ {f} : r[g] = cmd[c].read[g]
    BY <1>1, <1>4, <1>5 DEF Shape
  <1>8. Shape(c)'
    BY <1>1, <1>6, <1>7 DEF Shape
  <1>9. Course(c)'
    <2>1. ~cmd[c].slims =>
             \A g \in Boost!Manifests : Home[g] \in Boost!Projects => r[g] = Nothing
      BY <1>1, <1>3, <1>7, Keys DEF Course
    <2>2. ~fails => /\ cmd[c].missed = {}
                    /\ \A g \in Manifest : r[g] = Boost!Unreadable => r[g] = Nothing
      BY <1>1, <1>3, <1>4, <1>5, <1>7 DEF Course
    <2>3. /\ cmd[c].dirs \subseteq Dir /\ cmd[c].found \subseteq Boost!Artifact
          /\ cmd[c].slimmed \subseteq Boost!Manifests
      BY <1>1 DEF Course
    <2>4. cmd[c].dirs = {} /\ cmd[c].found = {} /\ ~cmd[c].refused
      BY <1>1, Stamping
    <2>5. Boost!Unreadable' = Boost!Unreadable
      BY DEF Boost!Unreadable
    <2> QED BY <1>1, <1>2, <1>6, <2>1, <2>2, <2>3, <2>4, <2>5, SameFiles DEF Course, Past
  <1>10. ASSUME ~cmd[c].raced
         PROVE  Learned(c)'
    <2>1. Learned(c)
      BY <1>1, <1>10, Stamping
    <2>2. \A g \in Boost!Manifests : r[g] \in {Nothing, Boost!Unreadable, text[g]}
      BY <1>3, <1>7, <2>1, Keys DEF Learned
    <2> QED BY <1>2, <1>6, <2>1, <2>2, SameFiles DEF Learned, Boost!Unreadable
  <1>11. ~cmd[c].raced /\ cmd[c].alone => OwnWork(c)'
    BY <1>1, <1>2, <1>5, <1>6, OwnKept
  <1> QED BY <1>1, <1>2, <1>6, <1>8, <1>9, <1>10, <1>11, NothingWritten, Stamps

\* Where one artifact is written the others stay.
LEMMA OneWritten ==
  ASSUME BoostType, NEW b \in Boost!Artifact, NEW v, disk' = [disk EXCEPT ![b] = v]
  PROVE  /\ disk'[b] = v /\ \A a \in Boost!Artifact \ {b} : disk'[a] = disk[a]
         /\ disk' = [a \in Boost!Artifact |-> disk'[a]]
  BY DEF BoostType

LEMMA OneSlim ==
  ASSUME BoostType, NEW g \in Manifest, NEW v, disk' = [disk EXCEPT ![<<"slim", g>>] = v]
  PROVE  /\ SlimOf(g)' = v /\ \A f \in Manifest \ {g} : SlimOf(f)' = SlimOf(f)
         /\ \A d \in Dir : SidecarOf(d)' = SidecarOf(d)
         /\ \A a \in Boost!Artifact : disk'[a] = disk[a] \/ disk'[a] = v
         /\ disk' = [a \in Boost!Artifact |-> disk'[a]]
  <1>1. \A f \in Manifest \ {g} : <<"slim", f>> # <<"slim", g>>
    OBVIOUS
  <1>2. \A d \in Dir : <<"sidecar", d>> # <<"slim", g>>
    OBVIOUS
  <1> QED BY <1>1, <1>2, Keys, OneWritten DEF SlimOf, SidecarOf

LEMMA OneSidecar ==
  ASSUME BoostType, NEW e \in Dir, NEW v, disk' = [disk EXCEPT ![<<"sidecar", e>>] = v]
  PROVE  /\ SidecarOf(e)' = v /\ \A d \in Dir \ {e} : SidecarOf(d)' = SidecarOf(d)
         /\ \A f \in Manifest : SlimOf(f)' = SlimOf(f)
         /\ \A a \in Boost!Artifact : disk'[a] = disk[a] \/ disk'[a] = v
         /\ disk' = [a \in Boost!Artifact |-> disk'[a]]
  <1>1. \A d \in Dir \ {e} : <<"sidecar", d>> # <<"sidecar", e>>
    OBVIOUS
  <1>2. \A f \in Manifest : <<"slim", f>> # <<"sidecar", e>>
    OBVIOUS
  <1> QED BY <1>1, <1>2, Keys, OneWritten DEF SlimOf, SidecarOf

LEMMA SlimKeeps ==
  ASSUME BoostInv, NEW c \in Clis, Boost!WriteSlimManifest(c)
  PROVE  BoostInv'
  <1>1. BoostType /\ Shape(c) /\ cmd[c].at = "stamp" /\ Course(c) /\ UNCHANGED text
    BY Stamping DEF Boost!WriteSlimManifest
  <1>2. PICK f \in Boost!Manifests :
          /\ Boost!Dbt(c, f) /\ f \in Boost!Pending(c, Home[f])
          /\ \/ /\ disk' = [disk EXCEPT ![<<"slim", f>>] =
                              Boost!Ours(Boost!BuildSlimManifest(cmd[c].read[f]))]
                /\ cmd' = [cmd EXCEPT ![c].slimmed = @ \cup {f}]
             \/ /\ disk' \in {disk, [disk EXCEPT ![<<"slim", f>>] = Boost!Torn]}
                /\ cmd' = [cmd EXCEPT ![c].missed = @ \cup {f}, ![c].failed = TRUE]
    BY DEF Boost!WriteSlimManifest
  <1>3. f \in Manifest /\ f \in DOMAIN text
    BY Keys
  <1>4. f \notin cmd[c].slimmed /\ cmd[c].read[f] \notin {Nothing, Boost!Unreadable}
    BY <1>2 DEF Boost!Dbt, Boost!Pending, Boost!Read
  <1>5. ~cmd[c].raced => Learned(c) /\ cmd[c].read[f] = text[f]
    BY <1>1, <1>4, Stamping DEF Learned
  <1>6. ASSUME ~cmd[c].raced, cmd[c].alone
        PROVE  /\ \A a \in Boost!Artifact : disk[a].by # "other"
               /\ \A g \in cmd[c].slimmed :
                    SlimOf(g) = Boost!Ours(Boost!BuildSlimManifest(text[g]))
               /\ \A d \in Dir :
                    IF d \in cmd[c].stamped THEN Stamped(c, d) ELSE SidecarOf(d).by = "none"
    BY <1>1, <1>6, Stamping DEF OwnWork
  <1>7. ASSUME disk' = [disk EXCEPT ![<<"slim", f>>] =
                          Boost!Ours(Boost!BuildSlimManifest(cmd[c].read[f]))],
               cmd' = [cmd EXCEPT ![c].slimmed = @ \cup {f}]
        PROVE  BoostInv'
    <2>1. /\ cmd'[c] =
               [at |-> cmd[c].at, kind |-> cmd[c].kind, slims |-> cmd[c].slims,
                 dirs |-> cmd[c].dirs, found |-> cmd[c].found, refused |-> cmd[c].refused,
                 tree |-> cmd[c].tree, read |-> cmd[c].read,
                 slimmed |-> cmd[c].slimmed \cup {f}, missed |-> cmd[c].missed,
                 stamped |-> cmd[c].stamped, failed |-> cmd[c].failed,
                 alone |-> cmd[c].alone, raced |-> cmd[c].raced]
          /\ \A o \in Clis \ {c} : cmd'[o] = cmd[o]
          /\ cmd' = [o \in Clis |-> cmd'[o]]
      BY <1>1, <1>7 DEF Shape, BoostType
    <2>2. PICK v : v = Boost!Ours(Boost!BuildSlimManifest(cmd[c].read[f]))
      OBVIOUS
    <2>3. /\ SlimOf(f)' = v /\ \A g \in Manifest \ {f} : SlimOf(g)' = SlimOf(g)
          /\ \A d \in Dir : SidecarOf(d)' = SidecarOf(d)
          /\ \A a \in Boost!Artifact : disk'[a] = disk[a] \/ disk'[a] = v
          /\ disk' = [a \in Boost!Artifact |-> disk'[a]]
      BY <1>1, <1>3, <1>7, <2>2, OneSlim
    <2>4. v.by = "us" /\ v.of = Boost!BuildSlimManifest(cmd[c].read[f])
      BY <2>2 DEF Boost!Ours
    <2>5. Shape(c)'
      BY <1>1, <2>1 DEF Shape
    <2>6. Course(c)'
      BY <1>1, <2>1, SameFiles DEF Course, Past, Boost!Unreadable
    <2>7. ~cmd[c].raced => Learned(c)'
      BY <1>1, <1>5, <2>1, SameFiles DEF Learned, Boost!Unreadable
    <2>8. ~cmd[c].raced => \A g \in Boost!Manifests : SlimOf(g)' = SlimOf(g) \/ FreshSlim(g)'
      <3>1. ~cmd[c].raced => FreshSlim(f)'
        BY <1>1, <1>5, <2>3, <2>4 DEF FreshSlim, Boost!BuildSlimManifest
      <3> QED BY <2>3, <3>1, Keys
    <2>9. ASSUME ~cmd[c].raced, cmd[c].alone
          PROVE  OwnWork(c)'
      <3>1. \A a \in Boost!Artifact : disk'[a].by # "other"
        BY <1>6, <2>3, <2>4, <2>9
      <3>2. ASSUME NEW g \in cmd'[c].slimmed
            PROVE  (SlimOf(g) = Boost!Ours(Boost!BuildSlimManifest(text[g])))'
        <4>1. CASE g = f
          BY <1>1, <1>5, <2>2, <2>3, <2>9, <4>1 DEF Boost!Ours, Boost!BuildSlimManifest
        <4>2. CASE g # f
          <5>1. g \in cmd[c].slimmed /\ g \in Manifest
            BY <1>1, <2>1, <3>2, <4>2, Keys DEF Course
          <5> QED BY <1>1, <1>6, <2>3, <2>9, <4>2, <5>1
                  DEF Boost!Ours, Boost!BuildSlimManifest
        <4> QED BY <4>1, <4>2
      <3>3. \A d \in Dir :
              (IF d \in cmd[c].stamped THEN Stamped(c, d) ELSE SidecarOf(d).by = "none")'
        <4>1. \A d \in Dir : d \in cmd[c].stamped => Stamped(c, d)'
          BY <1>1, <1>6, <2>1, <2>3, <2>9, StampedKept
        <4> QED BY <1>6, <2>1, <2>3, <2>9, <4>1
      <3> QED BY <1>1, <2>1, <3>1, <3>2, <3>3 DEF OwnWork
    <2> QED BY <1>1, <2>1, <2>3, <2>5, <2>6, <2>7, <2>8, <2>9, Stamps
  <1>8. ASSUME disk' \in {disk, [disk EXCEPT ![<<"slim", f>>] = Boost!Torn]},
               cmd' = [cmd EXCEPT ![c].missed = @ \cup {f}, ![c].failed = TRUE]
        PROVE  BoostInv'
    <2>1. /\ cmd'[c] =
               [at |-> cmd[c].at, kind |-> cmd[c].kind, slims |-> cmd[c].slims,
                 dirs |-> cmd[c].dirs, found |-> cmd[c].found, refused |-> cmd[c].refused,
                 tree |-> cmd[c].tree, read |-> cmd[c].read, slimmed |-> cmd[c].slimmed,
                 missed |-> cmd[c].missed \cup {f}, stamped |-> cmd[c].stamped,
                 failed |-> TRUE, alone |-> cmd[c].alone, raced |-> cmd[c].raced]
          /\ \A o \in Clis \ {c} : cmd'[o] = cmd[o]
          /\ cmd' = [o \in Clis |-> cmd'[o]]
      BY <1>1, <1>8 DEF Shape, BoostType
    <2>2. Boost!Torn.by = "torn"
      BY DEF Boost!Torn
    <2>3. /\ SlimOf(f)' = SlimOf(f) \/ SlimOf(f)'.by = "torn"
          /\ \A g \in Manifest \ {f} : SlimOf(g)' = SlimOf(g)
          /\ \A d \in Dir : SidecarOf(d)' = SidecarOf(d)
          /\ \A a \in Boost!Artifact : disk'[a] = disk[a] \/ disk'[a].by = "torn"
          /\ disk' = [a \in Boost!Artifact |-> disk'[a]]
      <3>1. CASE disk' = disk
        BY <1>1, <3>1 DEF BoostType, SlimOf, SidecarOf
      <3>2. CASE disk' = [disk EXCEPT ![<<"slim", f>>] = Boost!Torn]
        BY <1>1, <1>3, <2>2, <3>2, OneSlim
      <3> QED BY <1>8, <3>1, <3>2
    <2>5. Shape(c)'
      BY <1>1, <2>1 DEF Shape
    <2>6. Course(c)'
      BY <1>1, <2>1, SameFiles DEF Course, Past, Boost!Unreadable
    <2>7. ~cmd[c].raced => Learned(c)'
      BY <1>1, <1>5, <2>1, SameFiles DEF Learned, Boost!Unreadable
    <2>8. \A g \in Boost!Manifests : SlimOf(g)' = SlimOf(g) \/ FreshSlim(g)'
      BY <2>3, Keys DEF FreshSlim
    <2>9. ASSUME ~cmd[c].raced, cmd[c].alone
          PROVE  OwnWork(c)'
      <3>1. \A a \in Boost!Artifact : disk'[a].by # "other"
        BY <1>6, <2>3, <2>9
      <3>2. ASSUME NEW g \in cmd'[c].slimmed
            PROVE  (SlimOf(g) = Boost!Ours(Boost!BuildSlimManifest(text[g])))'
        <4>1. g \in cmd[c].slimmed /\ g \in Manifest /\ g # f
          BY <1>1, <1>4, <2>1, <3>2, Keys DEF Course
        <4> QED BY <1>1, <1>6, <2>3, <2>9, <4>1 DEF Boost!Ours, Boost!BuildSlimManifest
      <3>3. \A d \in Dir :
              (IF d \in cmd[c].stamped THEN Stamped(c, d) ELSE SidecarOf(d).by = "none")'
        <4>1. \A d \in Dir : d \in cmd[c].stamped => Stamped(c, d)'
          BY <1>1, <1>6, <2>1, <2>3, <2>9, StampedKept
        <4> QED BY <1>6, <2>1, <2>3, <2>9, <4>1
      <3> QED BY <1>1, <2>1, <3>1, <3>2, <3>3 DEF OwnWork
    <2> QED BY <1>1, <2>1, <2>3, <2>5, <2>6, <2>7, <2>8, <2>9, Stamps
  <1> QED BY <1>2, <1>7, <1>8

\* What a directory's sidecar will name, a command has read, and slimmed if it slims;
\* and these are all that are due when nothing failed.
LEMMA NamedAre ==
  ASSUME BoostInv, NEW c \in Clis, cmd[c].at = "stamp", ~cmd[c].raced, NEW d \in Dir
  PROVE  /\ \A f \in Boost!Named(c, d) :
              /\ f \in Manifest /\ cmd[c].read[f] = text[f]
              /\ cmd[c].slims => f \in cmd[c].slimmed
         /\ ~cmd[c].failed /\ Boost!Pending(c, d) = {} => Boost!Named(c, d) = Due(c, d)
  <1>1. Learned(c) /\ Course(c) /\ BoostType
    BY Stamping
  <1>2. ASSUME NEW f \in Boost!Named(c, d)
        PROVE  /\ f \in Boost!Within(d) /\ f \in Boost!Manifests /\ cmd[c].read[f] = text[f]
               /\ cmd[c].read[f] \notin {Nothing, Boost!Unreadable}
               /\ Boost!IsDbtManifest(text[f])
               /\ cmd[c].slims => f \in cmd[c].slimmed
    <2>1. f \in Boost!Within(d) /\ Boost!Dbt(c, f) /\ (cmd[c].slims => f \in cmd[c].slimmed)
      BY <1>2 DEF Boost!Named
    <2>2. f \in Boost!Manifests
      BY <2>1 DEF Boost!Within
    <2> QED BY <1>1, <2>1, <2>2 DEF Learned, Boost!Dbt
  <1>3. ASSUME ~cmd[c].failed, Boost!Pending(c, d) = {}
        PROVE  Boost!Named(c, d) = Due(c, d)
    <2>1. /\ cmd[c].missed = {}
          /\ \A f \in Manifest : cmd[c].read[f] = Boost!Unreadable => cmd[c].read[f] = Nothing
      BY <1>1, <1>3 DEF Course
    <2>2. ASSUME NEW f \in Boost!Named(c, d)
          PROVE  f \in Due(c, d)
      <3>1. d \in Boost!Projects => cmd[c].slims
        BY <1>1, <1>2, <2>2 DEF Course, Boost!Within
      <3> QED BY <1>2, <2>2, <3>1 DEF Due
    <2>3. ASSUME NEW f \in Due(c, d)
          PROVE  f \in Boost!Named(c, d)
      <3>1. /\ d \in Boost!Projects => cmd[c].slims
            /\ f \in Boost!Within(d) /\ Boost!IsDbtManifest(text[f])
        BY <2>3 DEF Due
      <3>2. f \in Boost!Manifests /\ f \in Manifest
        BY <3>1, Keys DEF Boost!Within
      <3>3. Boost!Read(c, f)
        BY <1>3, <3>1 DEF Boost!Pending
      <3>4. cmd[c].read[f] = text[f] /\ cmd[c].read[f] \notin {Nothing, Boost!Unreadable}
        BY <1>1, <2>1, <3>2, <3>3 DEF Learned, Boost!Read
      <3>5. Boost!Dbt(c, f)
        BY <3>1, <3>4 DEF Boost!Dbt
      <3>6. cmd[c].slims => f \in cmd[c].slimmed
        BY <1>3, <2>1, <3>1, <3>5 DEF Boost!Pending
      <3> QED BY <3>1, <3>5, <3>6 DEF Boost!Named
    <2> QED BY <2>2, <2>3
  <1>4. \A f \in Boost!Manifests : f \in Manifest
    BY Keys
  <1> QED BY <1>2, <1>3, <1>4

LEMMA SidecarKeeps ==
  ASSUME BoostInv, NEW c \in Clis, Boost!WriteSidecar(c)
  PROVE  BoostInv'
  <1>1. BoostType /\ Shape(c) /\ cmd[c].at = "stamp" /\ Course(c) /\ UNCHANGED text
    BY Stamping DEF Boost!WriteSidecar
  <1>2. PICK d \in Dir \ cmd[c].stamped :
          /\ Boost!Reached(c, d) /\ Boost!Pending(c, d) = {}
          /\ d \in Boost!Projects \/ Boost!Named(c, d) # {}
          /\ \/ /\ disk' = [disk EXCEPT ![<<"sidecar", d>>] =
                              Boost!Ours(Boost!Sidecar(c, d))]
                /\ cmd' = [cmd EXCEPT ![c].stamped = @ \cup {d}]
             \/ /\ disk' \in {disk, [disk EXCEPT ![<<"sidecar", d>>] = Boost!Torn]}
                /\ cmd' = [cmd EXCEPT ![c].stamped = @ \cup {d}, ![c].failed = TRUE]
    BY DEF Boost!WriteSidecar
  <1>3. d \in Dir /\ d \notin cmd[c].stamped
    OBVIOUS
  <1>4. ~cmd[c].raced => Learned(c)
    BY <1>1, Stamping
  <1>5. ASSUME ~cmd[c].raced, cmd[c].alone
        PROVE  /\ \A a \in Boost!Artifact : disk[a].by # "other"
               /\ \A g \in cmd[c].slimmed :
                    SlimOf(g) = Boost!Ours(Boost!BuildSlimManifest(text[g]))
               /\ \A e \in Dir :
                    IF e \in cmd[c].stamped THEN Stamped(c, e) ELSE SidecarOf(e).by = "none"
    BY <1>1, <1>5, Stamping DEF OwnWork
  <1>6. \A g \in cmd[c].slimmed : g \in Manifest
    BY <1>1, Keys DEF Course
  <1>7. ASSUME disk' = [disk EXCEPT ![<<"sidecar", d>>] = Boost!Ours(Boost!Sidecar(c, d))],
               cmd' = [cmd EXCEPT ![c].stamped = @ \cup {d}]
        PROVE  BoostInv'
    <2>1. /\ cmd'[c] =
               [at |-> cmd[c].at, kind |-> cmd[c].kind, slims |-> cmd[c].slims,
                 dirs |-> cmd[c].dirs, found |-> cmd[c].found, refused |-> cmd[c].refused,
                 tree |-> cmd[c].tree, read |-> cmd[c].read, slimmed |-> cmd[c].slimmed,
                 missed |-> cmd[c].missed, stamped |-> cmd[c].stamped \cup {d},
                 failed |-> cmd[c].failed, alone |-> cmd[c].alone, raced |-> cmd[c].raced]
          /\ \A o \in Clis \ {c} : cmd'[o] = cmd[o]
          /\ cmd' = [o \in Clis |-> cmd'[o]]
      BY <1>1, <1>7 DEF Shape, BoostType
    <2>2. PICK s : s = Boost!Sidecar(c, d)
      OBVIOUS
    <2>3. PICK v : v = Boost!Ours(s)
      OBVIOUS
    <2>4. /\ SidecarOf(d)' = v /\ \A e \in Dir \ {d} : SidecarOf(e)' = SidecarOf(e)
          /\ \A f \in Manifest : SlimOf(f)' = SlimOf(f)
          /\ \A a \in Boost!Artifact : disk'[a] = disk[a] \/ disk'[a] = v
          /\ disk' = [a \in Boost!Artifact |-> disk'[a]]
      BY <1>1, <1>3, <1>7, <2>2, <2>3, OneSidecar
    <2>5. v.by = "us" /\ v.of = s
      BY <2>3 DEF Boost!Ours
    <2>6. PICK primary : primary = CHOOSE f \in Boost!Named(c, d) : TRUE
      OBVIOUS
    <2>7. /\ s.hash = IF d \in Boost!Projects THEN cmd[c].tree[d]
                      ELSE Boost!HashDocument(cmd[c].read[primary])
          /\ DOMAIN s.manifests = Boost!Named(c, d)
          /\ \A f \in Boost!Named(c, d) :
               /\ s.manifests[f].version = Boost!HashDocument(cmd[c].read[f])
               /\ s.manifests[f].slim =
                    IF cmd[c].slims THEN Boost!BuildSlimManifest(cmd[c].read[f]) ELSE Nothing
      BY <2>2, <2>6 DEF Boost!Sidecar
    <2>8. Shape(c)'
      BY <1>1, <2>1 DEF Shape
    <2>9. Course(c)'
      BY <1>1, <2>1, SameFiles DEF Course, Past, Boost!Unreadable
    <2>10. ~cmd[c].raced => Learned(c)'
      BY <1>1, <1>4, <2>1, SameFiles DEF Learned, Boost!Unreadable
    <2>11. ASSUME ~cmd[c].raced
           PROVE  FreshSidecar(d)'
      <3>1. d \in Boost!Projects => s.hash = Boost!HashProject(d)
        BY <1>2, <1>4, <2>7, <2>11 DEF Learned, Boost!Reached
      <3>2. \A f \in Boost!Named(c, d) : s.manifests[f].version = Boost!HashDocument(text[f])
        BY <1>1, <1>3, <2>7, <2>11, NamedAre
      <3>3. ASSUME d \notin Boost!Projects
            PROVE  /\ primary \in DOMAIN s.manifests
                   /\ s.hash = Boost!HashDocument(text[primary])
        <4>1. primary \in Boost!Named(c, d)
          BY <1>2, <2>6, <3>3
        <4> QED BY <1>1, <1>3, <2>7, <2>11, <3>3, <4>1, NamedAre
      <3>4. SidecarOf(d)'.of = s
        BY <2>4, <2>5
      <3>5. \A f : Boost!HashDocument(text[f])' = Boost!HashDocument(text[f])
        BY <1>1 DEF Boost!HashDocument
      <3> QED BY <1>1, <2>7, <3>1, <3>2, <3>3, <3>4, <3>5, SameFiles DEF FreshSidecar
    <2>12. ~cmd[c].raced => /\ \A e \in Dir : SidecarOf(e)' = SidecarOf(e) \/ FreshSidecar(e)'
                            /\ \A f \in Boost!Manifests : SlimOf(f)' = SlimOf(f)
      BY <2>4, <2>11, Keys
    <2>13. ASSUME ~cmd[c].raced, cmd[c].alone
           PROVE  OwnWork(c)'
      <3>1. \A a \in Boost!Artifact : disk'[a].by # "other"
        BY <1>5, <2>4, <2>5, <2>13
      <3>2. \A g \in cmd'[c].slimmed :
              (SlimOf(g) = Boost!Ours(Boost!BuildSlimManifest(text[g])))'
        BY <1>1, <1>5, <1>6, <2>1, <2>4, <2>13 DEF Boost!Ours, Boost!BuildSlimManifest
      <3>3. Stamped(c, d)'
        <4>1. \A f \in Boost!Named(c, d) :
                \/ s.manifests[f].slim = Nothing
                \/ /\ f \in cmd[c].slimmed
                   /\ s.manifests[f].slim = Boost!BuildSlimManifest(text[f])
          BY <1>1, <1>3, <2>7, <2>13, NamedAre
        <4>2. ~cmd[c].failed => Boost!Named(c, d) = Due(c, d)
          BY <1>1, <1>2, <1>3, <2>13, NamedAre
        <4>3. SidecarOf(d)' = v /\ v.by = "us" /\ v.of = s
          BY <2>4, <2>5
        <4>4. Due(c, d)' = Due(c, d)
          BY <1>1, <2>1, SameFiles DEF Due, Boost!IsDbtManifest
        <4>5. \A f : Boost!BuildSlimManifest(text[f])' = Boost!BuildSlimManifest(text[f])
          BY <1>1 DEF Boost!BuildSlimManifest
        <4>6. cmd[c].failed = cmd'[c].failed /\ cmd[c].slimmed = cmd'[c].slimmed
          BY <2>1
        <4>7. ~cmd[c].failed =>
                d \in Boost!Projects' \/ Due(c, d)' # {}
          BY <1>1, <1>2, <4>2, <4>4, SameFiles
        <4> QED BY <2>7, <4>1, <4>2, <4>3, <4>4, <4>5, <4>6, <4>7 DEF Stamped
      <3>4. \A e \in Dir :
              (IF e \in cmd[c].stamped THEN Stamped(c, e) ELSE SidecarOf(e).by = "none")'
        <4>1. \A e \in Dir : e \in cmd[c].stamped => Stamped(c, e)'
          BY <1>1, <1>3, <1>5, <2>1, <2>4, <2>13, StampedKept
        <4> QED BY <1>5, <2>1, <2>4, <2>13, <3>3, <4>1
      <3> QED BY <1>1, <2>1, <3>1, <3>2, <3>4 DEF OwnWork
    <2> QED BY <1>1, <2>1, <2>4, <2>8, <2>9, <2>10, <2>12, <2>13, Stamps
  <1>8. ASSUME disk' \in {disk, [disk EXCEPT ![<<"sidecar", d>>] = Boost!Torn]},
               cmd' = [cmd EXCEPT ![c].stamped = @ \cup {d}, ![c].failed = TRUE]
        PROVE  BoostInv'
    <2>1. /\ cmd'[c] =
               [at |-> cmd[c].at, kind |-> cmd[c].kind, slims |-> cmd[c].slims,
                 dirs |-> cmd[c].dirs, found |-> cmd[c].found, refused |-> cmd[c].refused,
                 tree |-> cmd[c].tree, read |-> cmd[c].read, slimmed |-> cmd[c].slimmed,
                 missed |-> cmd[c].missed, stamped |-> cmd[c].stamped \cup {d},
                 failed |-> TRUE, alone |-> cmd[c].alone, raced |-> cmd[c].raced]
          /\ \A o \in Clis \ {c} : cmd'[o] = cmd[o]
          /\ cmd' = [o \in Clis |-> cmd'[o]]
      BY <1>1, <1>8 DEF Shape, BoostType
    <2>2. Boost!Torn.by = "torn"
      BY DEF Boost!Torn
    <2>3. /\ SidecarOf(d)' = SidecarOf(d) \/ SidecarOf(d)'.by = "torn"
          /\ \A e \in Dir \ {d} : SidecarOf(e)' = SidecarOf(e)
          /\ \A f \in Manifest : SlimOf(f)' = SlimOf(f)
          /\ \A a \in Boost!Artifact : disk'[a] = disk[a] \/ disk'[a].by = "torn"
          /\ disk' = [a \in Boost!Artifact |-> disk'[a]]
      <3>1. CASE disk' = disk
        BY <1>1, <3>1 DEF BoostType, SlimOf, SidecarOf
      <3>2. CASE disk' = [disk EXCEPT ![<<"sidecar", d>>] = Boost!Torn]
        BY <1>1, <1>3, <2>2, <3>2, OneSidecar
      <3> QED BY <1>8, <3>1, <3>2
    <2>5. Shape(c)'
      BY <1>1, <2>1 DEF Shape
    <2>6. Course(c)'
      BY <1>1, <2>1, SameFiles DEF Course, Past, Boost!Unreadable
    <2>7. ~cmd[c].raced => Learned(c)'
      BY <1>1, <1>4, <2>1, SameFiles DEF Learned, Boost!Unreadable
    <2>8. /\ \A e \in Dir : SidecarOf(e)' = SidecarOf(e) \/ FreshSidecar(e)'
          /\ \A f \in Boost!Manifests : SlimOf(f)' = SlimOf(f)
      <3>1. SidecarOf(d)'.by = "torn" => FreshSidecar(d)'
        BY DEF FreshSidecar
      <3> QED BY <2>3, <3>1, Keys
    <2>9. ASSUME ~cmd[c].raced, cmd[c].alone
          PROVE  OwnWork(c)'
      <3>1. \A a \in Boost!Artifact : disk'[a].by # "other"
        BY <1>5, <2>3, <2>9
      <3>2. \A g \in cmd'[c].slimmed :
              (SlimOf(g) = Boost!Ours(Boost!BuildSlimManifest(text[g])))'
        BY <1>1, <1>5, <1>6, <2>1, <2>3, <2>9 DEF Boost!Ours, Boost!BuildSlimManifest
      <3>3. Stamped(c, d)'
        <4>1. SidecarOf(d)'.by # "us"
          BY <1>3, <1>5, <2>3, <2>9
        <4> QED BY <2>1, <4>1 DEF Stamped
      <3>4. \A e \in Dir :
              (IF e \in cmd[c].stamped THEN Stamped(c, e) ELSE SidecarOf(e).by = "none")'
        <4>1. \A e \in Dir : e \in cmd[c].stamped => Stamped(c, e)'
          BY <1>1, <1>3, <1>5, <2>1, <2>3, <2>9, StampedKept
        <4> QED BY <1>5, <2>1, <2>3, <2>9, <3>3, <4>1
      <3> QED BY <1>1, <2>1, <3>1, <3>2, <3>4 DEF OwnWork
    <2> QED BY <1>1, <2>1, <2>3, <2>5, <2>6, <2>7, <2>8, <2>9, Stamps
  <1> QED BY <1>2, <1>7, <1>8

LEMMA NothingToStampKeeps ==
  ASSUME BoostInv, NEW c \in Clis, Boost!NothingToStamp(c)
  PROVE  BoostInv'
  <1>1. /\ BoostType /\ Shape(c) /\ cmd[c].at = "stamp" /\ Course(c)
        /\ UNCHANGED <<text, disk>>
    BY Stamping DEF Boost!NothingToStamp
  <1>2. PICK d \in Dir :
          /\ d \notin Boost!Projects /\ d \notin cmd[c].stamped
          /\ Boost!Pending(c, d) = {} /\ Boost!Named(c, d) = {}
          /\ cmd' = [cmd EXCEPT ![c].stamped = @ \cup {d}]
    BY DEF Boost!NothingToStamp
  <1>3. /\ cmd'[c] =
            [at |-> cmd[c].at, kind |-> cmd[c].kind, slims |-> cmd[c].slims,
              dirs |-> cmd[c].dirs, found |-> cmd[c].found, refused |-> cmd[c].refused,
              tree |-> cmd[c].tree, read |-> cmd[c].read, slimmed |-> cmd[c].slimmed,
              missed |-> cmd[c].missed, stamped |-> cmd[c].stamped \cup {d},
              failed |-> cmd[c].failed, alone |-> cmd[c].alone, raced |-> cmd[c].raced]
        /\ \A o \in Clis \ {c} : cmd'[o] = cmd[o]
        /\ cmd' = [o \in Clis |-> cmd'[o]]
    BY <1>1, <1>2 DEF Shape, BoostType
  <1>4. Shape(c)'
    BY <1>1, <1>3 DEF Shape
  <1>5. Course(c)'
    BY <1>1, <1>3, SameFiles DEF Course, Past, Boost!Unreadable
  <1>6. ~cmd[c].raced => Learned(c)'
    <2>1. ~cmd[c].raced => Learned(c)
      BY <1>1, Stamping
    <2> QED BY <1>1, <1>3, <2>1, SameFiles DEF Learned, Boost!Unreadable
  <1>7. ASSUME ~cmd[c].raced, cmd[c].alone
        PROVE  OwnWork(c)'
    <2>1. SidecarOf(d).by = "none"
      BY <1>1, <1>2, <1>7, Stamping
    <2>2. ~cmd[c].failed => Due(c, d) = {}
      BY <1>1, <1>2, <1>7, NamedAre
    <2>3. Due(c, d)' = Due(c, d)
      BY <1>1, <1>3, SameFiles, SMTT(30) DEF Due, Boost!IsDbtManifest
    <2>4. SidecarOf(d)' = SidecarOf(d)
      BY <1>1 DEF SidecarOf
    <2>5. Stamped(c, d)'
      BY <1>1, <1>2, <1>3, <2>1, <2>2, <2>3, <2>4, SameFiles DEF Stamped
    <2> QED BY <1>1, <1>3, <1>7, <2>5, OwnKept
  <1>8. disk' = [a \in Boost!Artifact |-> disk'[a]]
    BY <1>1 DEF BoostType
  <1> QED BY <1>1, <1>3, <1>4, <1>5, <1>6, <1>7, <1>8, NothingWritten, Stamps

LEMMA StampingEndsKeeps ==
  ASSUME BoostInv, NEW c \in Clis, Boost!StampingEnds(c)
  PROVE  BoostInv'
  <1>1. /\ BoostType /\ Shape(c) /\ cmd[c].at = "stamp" /\ Course(c)
        /\ UNCHANGED <<text, disk>>
    BY Stamping DEF Boost!StampingEnds
  <1>2. PICK fails \in BOOLEAN :
          /\ cmd[c].failed => fails
          /\ cmd[c].stamped = Dir \/ fails
          /\ cmd'[c] =
               [at |-> "pack", kind |-> cmd[c].kind, slims |-> cmd[c].slims,
                 dirs |-> cmd[c].dirs, found |-> cmd[c].found, refused |-> cmd[c].refused,
                 tree |-> cmd[c].tree, read |-> cmd[c].read, slimmed |-> cmd[c].slimmed,
                 missed |-> cmd[c].missed, stamped |-> cmd[c].stamped, failed |-> fails,
                 alone |-> cmd[c].alone, raced |-> cmd[c].raced]
          /\ \A o \in Clis \ {c} : cmd'[o] = cmd[o]
          /\ cmd' = [o \in Clis |-> cmd'[o]]
    <2>1. CASE cmd[c].stamped = Dir /\ cmd' = [cmd EXCEPT ![c].at = "pack"]
      <3>1. PICK fails \in BOOLEAN : fails = cmd[c].failed
        BY <1>1 DEF Shape
      <3>2. /\ cmd'[c] =
                 [at |-> "pack", kind |-> cmd[c].kind, slims |-> cmd[c].slims,
                   dirs |-> cmd[c].dirs, found |-> cmd[c].found, refused |-> cmd[c].refused,
                   tree |-> cmd[c].tree, read |-> cmd[c].read, slimmed |-> cmd[c].slimmed,
                   missed |-> cmd[c].missed, stamped |-> cmd[c].stamped, failed |-> fails,
                   alone |-> cmd[c].alone, raced |-> cmd[c].raced]
            /\ \A o \in Clis \ {c} : cmd'[o] = cmd[o]
            /\ cmd' = [o \in Clis |-> cmd'[o]]
        BY <1>1, <2>1, <3>1 DEF Shape, BoostType
      <3> QED BY <2>1, <3>1, <3>2
    <2>2. CASE cmd' = [cmd EXCEPT ![c].at = "pack", ![c].failed = TRUE]
      <3>1. /\ cmd'[c] =
                 [at |-> "pack", kind |-> cmd[c].kind, slims |-> cmd[c].slims,
                   dirs |-> cmd[c].dirs, found |-> cmd[c].found, refused |-> cmd[c].refused,
                   tree |-> cmd[c].tree, read |-> cmd[c].read, slimmed |-> cmd[c].slimmed,
                   missed |-> cmd[c].missed, stamped |-> cmd[c].stamped, failed |-> TRUE,
                   alone |-> cmd[c].alone, raced |-> cmd[c].raced]
            /\ \A o \in Clis \ {c} : cmd'[o] = cmd[o]
            /\ cmd' = [o \in Clis |-> cmd'[o]]
        BY <1>1, <2>2 DEF Shape, BoostType
      <3> QED BY <3>1
    <2> QED BY <2>1, <2>2 DEF Boost!StampingEnds
  <1>3. Shape(c)'
    BY <1>1, <1>2 DEF Shape
  <1>4. Course(c)'
    <2>1. cmd[c].dirs = {} /\ cmd[c].found = {} /\ ~cmd[c].refused
      BY <1>1, Stamping
    <2> QED BY <1>1, <1>2, <2>1, SameFiles DEF Course, Past, Boost!Unreadable
  <1>5. ~cmd[c].raced => Learned(c)'
    <2>1. ~cmd[c].raced => Learned(c)
      BY <1>1, Stamping
    <2> QED BY <1>1, <1>2, <2>1, SameFiles DEF Learned, Boost!Unreadable
  <1>6. ~cmd[c].raced /\ cmd[c].alone => OwnWork(c)'
    BY <1>1, <1>2, OwnKept
  <1>7. disk' = [a \in Boost!Artifact |-> disk'[a]]
    BY <1>1 DEF BoostType
  <1> QED BY <1>1, <1>2, <1>3, <1>4, <1>5, <1>6, <1>7, NothingWritten, Stamps

\* A command that begins has everything still to clean.
LEMMA BoostBegins ==
  ASSUME BoostInv, NEW c \in Clis, Boost!Begin(c)
  PROVE  BoostInv'
  <1>1. BoostType /\ Beside /\ ~Going(c) /\ UNCHANGED <<text, disk>>
    BY DEF BoostInv, Boost!Begin, Boost!Active, Going
  <1>2. PICK beside : beside = {o \in Clis \ {c} : Going(o)}
    BY Zenon
  <1>3. PICK q \in Steps :
          cmd' = [o \in Clis |->
            IF o = c
            THEN [Boost!Idle EXCEPT !.at = "clean", !.kind = q[1], !.slims = q[2],
                                    !.dirs = Dir, !.alone = beside = {},
                                    !.raced = \E b \in beside : cmd[b].raced]
            ELSE IF o \in beside THEN [cmd[o] EXCEPT !.alone = FALSE] ELSE cmd[o]]
    BY <1>2, ZenonT(30) DEF Boost!Begin, Boost!Active, Going
  <1>4. PICK lonely \in BOOLEAN, late \in BOOLEAN :
          lonely = (beside = {}) /\ late = (\E b \in beside : cmd[b].raced)
    OBVIOUS
  <1>5. /\ cmd' = [o \in Clis |-> cmd'[o]]
        /\ cmd'[c] = [at |-> "clean", kind |-> q[1], slims |-> q[2], dirs |-> Dir,
              found |-> {}, refused |-> FALSE, tree |-> [p \in Project |-> Nothing],
              read |-> [f \in Manifest |-> Nothing], slimmed |-> {}, missed |-> {},
              stamped |-> {}, failed |-> FALSE, alone |-> lonely, raced |-> late]
        /\ \A o \in Clis \ {c} :
             cmd'[o] = IF o \in beside THEN [cmd[o] EXCEPT !.alone = FALSE] ELSE cmd[o]
    BY <1>3, <1>4 DEF Boost!Idle
  <1>6. q[2] \in BOOLEAN /\ \A a \in Boost!Artifact : Boost!PlaceOf(a) \in Dir
    <2>1. q[2] \in BOOLEAN /\ Home \in [Manifest -> Dir]
      BY BoostSound DEF Boost!Sound
    <2> QED BY <2>1 DEF Boost!Artifact, Boost!PlaceOf
  <1>7. Shape(c)'
    BY <1>5, <1>6 DEF Shape
  <1>8. Good(c)'
    <2>1. Course(c)'
      <3>1. Boost!Manifests' \subseteq Manifest
        BY DEF Boost!Manifests
      <3> QED BY <1>5, <1>6, <3>1 DEF Course, Past, Boost!Unreadable
    <2>2. \A a \in Boost!Artifact : ~Passed(c, a)'
      BY <1>5, <1>6 DEF Passed, Boost!PlaceOf
    <2>3. Learned(c)'
      <3>1. Boost!Manifests' \subseteq Manifest /\ Boost!Projects' \subseteq Project
        BY DEF Boost!Manifests, Boost!Projects
      <3> QED BY <1>5, <3>1 DEF Learned
    <2>4. FreshTo(c)'
      <3>1. Boost!Manifests' \subseteq Manifest
        BY DEF Boost!Manifests
      <3> QED BY <2>2, <3>1, Keys DEF FreshTo
    <2>5. OwnWork(c)'
      BY <1>5, <2>2 DEF OwnWork, Past
    <2> QED BY <2>1, <2>3, <2>4, <2>5 DEF Good
  <1>9. ASSUME NEW o \in Clis \ {c}
        PROVE  /\ Shape(o)' /\ (Going(o)' <=> Going(o))
               /\ Going(o) => /\ ~cmd'[o].alone /\ cmd'[o].raced = cmd[o].raced
                              /\ Good(o)'
    <2>1. Shape(o)
      BY <1>1 DEF BoostType
    <2>2. CASE ~Going(o)
      <3>1. cmd'[o] = cmd[o]
        BY <1>2, <1>5, <2>2
      <3> QED BY <2>1, <2>2, <3>1 DEF Shape, Going
    <2>3. CASE Going(o)
      <3>1. cmd'[o] = [cmd[o] EXCEPT !.alone = FALSE]
        BY <1>2, <1>5, <2>3
      <3>2. cmd'[o] =
              [at |-> cmd[o].at, kind |-> cmd[o].kind, slims |-> cmd[o].slims,
                dirs |-> cmd[o].dirs, found |-> cmd[o].found, refused |-> cmd[o].refused,
                tree |-> cmd[o].tree, read |-> cmd[o].read, slimmed |-> cmd[o].slimmed,
                missed |-> cmd[o].missed, stamped |-> cmd[o].stamped,
                failed |-> cmd[o].failed, alone |-> FALSE, raced |-> cmd[o].raced]
        BY <2>1, <3>1 DEF Shape
      <3>3. Shape(o)' /\ Going(o)'
        BY <2>1, <2>3, <3>2 DEF Shape, Going
      <3>4. Good(o)
        BY <2>3 DEF BoostInv
      <3>5. Course(o)'
        BY <1>1, <3>2, <3>4, SameFiles DEF Good, Course, Past, Boost!Unreadable
      <3>6. ASSUME ~cmd[o].raced
            PROVE  Learned(o)' /\ FreshTo(o)'
        <4>1. Learned(o)'
          BY <1>1, <3>2, <3>4, <3>6, SameFiles DEF Good, Learned, Boost!Unreadable
        <4>2. \A a : Passed(o, a)' <=> Passed(o, a)
          BY <3>2 DEF Passed, Boost!PlaceOf
        <4>3. FreshTo(o)
          BY <3>4, <3>6 DEF Good
        <4>4. \A d \in Dir : Passed(o, <<"sidecar", d>>)' => FreshSidecar(d)'
          BY <1>1, <4>2, <4>3, SameFiles, NothingWritten DEF FreshTo
        <4>5. \A f \in Boost!Manifests : Passed(o, <<"slim", f>>)' => FreshSlim(f)'
          BY <1>1, <4>2, <4>3, SameFiles, NothingWritten, Keys DEF FreshTo
        <4> QED BY <1>1, <4>1, <4>4, <4>5, SameFiles DEF FreshTo
      <3> QED BY <2>3, <3>2, <3>3, <3>5, <3>6 DEF Good
    <2> QED BY <2>2, <2>3
  <1>10. Beside'
    <2>1. ASSUME NEW o \in Clis \ {c}, Going(o)
          PROVE  ~lonely /\ (late <=> cmd[o].raced)
      <3>1. o \in beside
        BY <1>2, <2>1
      <3>2. \A b \in beside : cmd[b].raced <=> cmd[o].raced
        BY <1>1, <1>2, <2>1 DEF Beside
      <3> QED BY <1>4, <3>1, <3>2
    <2>2. cmd'[c].alone = lonely /\ cmd'[c].raced = late
      BY <1>5
    <2> QED BY <1>1, <1>9, <2>1, <2>2 DEF Beside
  <1>11. BoostType'
    BY <1>1, <1>5, <1>7, <1>9 DEF BoostType
  <1> QED BY <1>8, <1>9, <1>10, <1>11 DEF BoostInv

\* Where a file or an artifact is written by others, all that run are raced.
LEMMA RaceKeeps ==
  ASSUME BoostInv, Boost!Race, DOMAIN text' = DOMAIN text,
         text' \in [DOMAIN text' -> Texts], disk' = [a \in Boost!Artifact |-> disk'[a]]
  PROVE  BoostInv'
  <1>1. BoostType /\ Beside
    BY DEF BoostInv
  <1>2. /\ cmd' = [o \in Clis |-> cmd'[o]]
        /\ \A o \in Clis : cmd'[o] = IF Going(o) THEN [cmd[o] EXCEPT !.raced = TRUE] ELSE cmd[o]
    BY DEF Boost!Race, Boost!Active, Going
  <1>3. Boost!Manifests' = Boost!Manifests /\ Boost!Projects' = Boost!Projects
    BY DEF Boost!Manifests, Boost!Projects
  <1>4. ASSUME NEW o \in Clis
        PROVE  /\ Shape(o)' /\ (Going(o)' <=> Going(o))
               /\ Going(o) => cmd'[o].alone = cmd[o].alone /\ cmd'[o].raced /\ Good(o)'
    <2>1. Shape(o)
      BY <1>1 DEF BoostType
    <2>2. CASE ~Going(o)
      <3>1. cmd'[o] = cmd[o]
        BY <1>2, <2>2
      <3> QED BY <2>1, <2>2, <3>1 DEF Shape, Going
    <2>3. CASE Going(o)
      <3>1. cmd'[o] =
              [at |-> cmd[o].at, kind |-> cmd[o].kind, slims |-> cmd[o].slims,
                dirs |-> cmd[o].dirs, found |-> cmd[o].found, refused |-> cmd[o].refused,
                tree |-> cmd[o].tree, read |-> cmd[o].read, slimmed |-> cmd[o].slimmed,
                missed |-> cmd[o].missed, stamped |-> cmd[o].stamped,
                failed |-> cmd[o].failed, alone |-> cmd[o].alone, raced |-> TRUE]
        BY <1>2, <2>1, <2>3 DEF Shape
      <3>2. Shape(o)' /\ Going(o)'
        BY <2>1, <2>3, <3>1 DEF Shape, Going
      <3>3. Course(o)
        BY <2>3 DEF BoostInv, Good
      <3>4. Course(o)'
        BY <1>3, <3>1, <3>3 DEF Course, Past, Boost!Unreadable
      <3> QED BY <2>3, <3>1, <3>2, <3>4 DEF Good
    <2> QED BY <2>2, <2>3
  <1>5. BoostType'
    BY <1>1, <1>2, <1>4 DEF BoostType
  <1>6. Beside'
    BY <1>1, <1>4 DEF Beside
  <1> QED BY <1>4, <1>5, <1>6 DEF BoostInv

LEMMA EditKeeps == BoostInv /\ Boost!Edit => BoostInv'
  <1> SUFFICES ASSUME BoostInv, Boost!Edit PROVE BoostInv'
    OBVIOUS
  <1>1. BoostType
    BY DEF BoostInv
  <1>2. PICK e \in Edits : e[1] \in DOMAIN text /\ text' = [text EXCEPT ![e[1]] = e[2]]
    BY DEF Boost!Edit
  <1>3. Boost!Race /\ disk' = disk
    BY DEF Boost!Edit
  <1>4. e[2] \in Texts
    BY BoostSound DEF Boost!Sound, Texts
  <1>5. DOMAIN text' = DOMAIN text /\ text' \in [DOMAIN text' -> Texts]
    BY <1>1, <1>2, <1>4 DEF BoostType
  <1>6. disk' = [a \in Boost!Artifact |-> disk'[a]]
    BY <1>1, <1>3 DEF BoostType
  <1> QED BY <1>3, <1>5, <1>6, RaceKeeps

LEMMA AppearsKeeps == BoostInv /\ Boost!Appears => BoostInv'
  <1> SUFFICES ASSUME BoostInv, Boost!Appears PROVE BoostInv'
    OBVIOUS
  <1>1. BoostType
    BY DEF BoostInv
  <1>2. PICK a \in Strangers : disk' = [disk EXCEPT ![a] = Boost!Foreign]
    BY DEF Boost!Appears
  <1>3. Boost!Race /\ text' = text
    BY DEF Boost!Appears
  <1>4. disk' = [b \in Boost!Artifact |-> disk'[b]]
    BY <1>1, <1>2 DEF BoostType
  <1>5. DOMAIN text' = DOMAIN text /\ text' \in [DOMAIN text' -> Texts]
    BY <1>1, <1>3 DEF BoostType
  <1> QED BY <1>3, <1>4, <1>5, RaceKeeps

LEMMA BoostStep == BoostInv /\ [Boost!BoostNext]_(Boost!boostVars) => BoostInv'
  <1> SUFFICES ASSUME BoostInv, [Boost!BoostNext]_(Boost!boostVars)
               PROVE  BoostInv'
    OBVIOUS
  <1>1. CASE UNCHANGED Boost!boostVars
    <2>1. UNCHANGED <<text, disk, cmd>>
      BY <1>1 DEF Boost!boostVars
    <2>2. BoostType' /\ Beside'
      BY <2>1 DEF BoostInv, BoostType, Shape, Beside, Going
    <2>3. ASSUME NEW c \in Clis, Going(c)'
          PROVE  Good(c)'
      <3>1. Good(c)
        BY <2>1, <2>3 DEF BoostInv, Going
      <3>2. Course(c)'
        BY <2>1, <3>1, SameFiles DEF Good, Course, Past, Boost!Unreadable
      <3>3. Learned(c) => Learned(c)'
        BY <2>1, SameFiles DEF Learned, Boost!Unreadable
      <3>4. \A a : Passed(c, a)' <=> Passed(c, a)
        BY <2>1 DEF Passed, Boost!PlaceOf
      <3>5. ASSUME FreshTo(c)
            PROVE  FreshTo(c)'
        <4>1. \A d \in Dir : Passed(c, <<"sidecar", d>>)' => FreshSidecar(d)'
          BY <2>1, <3>4, <3>5, SameFiles, NothingWritten DEF FreshTo
        <4>2. \A f \in Boost!Manifests : Passed(c, <<"slim", f>>)' => FreshSlim(f)'
          BY <2>1, <3>4, <3>5, SameFiles, NothingWritten, Keys DEF FreshTo
        <4> QED BY <2>1, <4>1, <4>2, SameFiles DEF FreshTo
      <3>6. ASSUME OwnWork(c)
            PROVE  OwnWork(c)'
        <4>1. \A d \in Dir : Stamped(c, d) => Stamped(c, d)'
          BY <2>1, NothingWritten, StampedKept
        <4>2. \A d \in Dir : SidecarOf(d)' = SidecarOf(d)
          BY <2>1, NothingWritten
        <4>3. \A f \in cmd'[c].slimmed :
                (SlimOf(f) = Boost!Ours(Boost!BuildSlimManifest(text[f])))'
          BY <2>1, <3>6 DEF OwnWork, SlimOf, Boost!Ours, Boost!BuildSlimManifest
        <4> QED BY <2>1, <3>4, <3>6, <4>1, <4>2, <4>3 DEF OwnWork, Past
      <3> QED BY <2>1, <3>1, <3>2, <3>3, <3>5, <3>6 DEF Good
    <2> QED BY <2>2, <2>3 DEF BoostInv
  <1>2. ASSUME NEW c \in Clis, Boost!Pack(c)
        PROVE  BoostInv'
    BY <1>2, BoostEnds DEF Boost!Pack, Going
  <1>3. ASSUME NEW c \in Clis, Boost!BoostKilled(c)
        PROVE  BoostInv'
    BY <1>3, BoostEnds DEF Boost!BoostKilled, Boost!Active, Going
  <1> QED BY <1>1, <1>2, <1>3, BoostBegins, ListKeeps, RemoveKeeps, RemoveFailsKeeps,
          EnsureCleanKeeps, HashTreeKeeps, ReadKeeps, SlimKeeps, SidecarKeeps,
          NothingToStampKeeps, StampingEndsKeeps, EditKeeps, AppearsKeeps
       DEF Boost!BoostNext

\* A deploy packs no stale stamp, nothing of another tool and no sidecar without its
\* slim copies, and if nothing failed all that is due is stamped, unless somebody wrote
\* to the tree meanwhile (CleanArtifacts, Run of cosmosboost).
THEOREM StampsFresh == Boost!BoostInit /\ [][Boost!BoostNext]_(Boost!boostVars) => []ShipsFresh
  <1>1. BoostInv => ShipsFresh
    <2> SUFFICES ASSUME BoostInv PROVE Boost!ShipsFresh
      BY DEF ShipsFresh
    <2> SUFFICES ASSUME NEW c \in Clis, Boost!Packing(c), NEW d \in Dir
                 PROVE  LET s == disk[<<"sidecar", d>>]
                            dbt == {f \in Boost!Within(d) : Boost!IsDbtManifest(text[f])}
                            due == IF d \in Boost!Projects /\ ~cmd[c].slims THEN {} ELSE dbt IN
          /\ s.by = "us" =>
               /\ d \in Boost!Projects =>
                    s.of.hash = [f \in Hashed[d] \cap DOMAIN text |-> text[f]]
               /\ d \notin Boost!Projects =>
                    \E f \in DOMAIN s.of.manifests : s.of.hash = Boost!HashDocument(text[f])
               /\ \A f \in DOMAIN s.of.manifests :
                    s.of.manifests[f].version = Boost!HashDocument(text[f])
          /\ \A f \in Boost!Within(d) : LET slim == disk[<<"slim", f>>] IN
               slim.by = "us" => slim.of = Boost!BuildSlimManifest(text[f])
          /\ cmd[c].alone =>
               /\ \A a \in Boost!Artifact : Boost!PlaceOf(a) = d => disk[a].by # "other"
               /\ s.by = "us" => \A f \in DOMAIN s.of.manifests :
                    LET named == s.of.manifests[f].slim IN
                    named # Nothing => disk[<<"slim", f>>] = Boost!Ours(named)
               /\ ~cmd[c].failed =>
                    IF d \in Boost!Projects \/ due # {}
                    THEN s.by = "us" /\ DOMAIN s.of.manifests = due
                    ELSE s.by = "none"
      BY DEF Boost!ShipsFresh
    <2>1. Going(c) /\ Past(c) /\ cmd[c].at = "pack" /\ ~cmd[c].raced
      BY DEF Boost!Packing, Going, Past
    <2>2. /\ Course(c) /\ FreshTo(c) /\ (cmd[c].alone => OwnWork(c))
          /\ \A a : Passed(c, a)
      BY <2>1, AllPassed DEF BoostInv, Good
    <2>3. FreshSidecar(d)
      BY <2>2 DEF FreshTo
    <2>4. \A f \in Boost!Within(d) : FreshSlim(f)
      BY <2>2 DEF FreshTo, Boost!Within
    <2>5. ASSUME cmd[c].alone
          PROVE  /\ \A a \in Boost!Artifact : disk[a].by # "other"
                 /\ \A f \in cmd[c].slimmed :
                      SlimOf(f) = Boost!Ours(Boost!BuildSlimManifest(text[f]))
                 /\ IF d \in cmd[c].stamped THEN Stamped(c, d) ELSE SidecarOf(d).by = "none"
      BY <2>1, <2>2, <2>5 DEF OwnWork
    <2>6. cmd[c].failed \/ d \in cmd[c].stamped
      BY <2>1, <2>2 DEF Course
    <2>7. ASSUME cmd[c].alone, SidecarOf(d).by = "us",
                 NEW f \in DOMAIN SidecarOf(d).of.manifests,
                 SidecarOf(d).of.manifests[f].slim # Nothing
          PROVE  SlimOf(f) = Boost!Ours(SidecarOf(d).of.manifests[f].slim)
      BY <2>5, <2>7 DEF Stamped
    <2>8. ASSUME cmd[c].alone, ~cmd[c].failed
          PROVE  IF d \in Boost!Projects \/ Due(c, d) # {}
                 THEN SidecarOf(d).by = "us" /\ DOMAIN SidecarOf(d).of.manifests = Due(c, d)
                 ELSE SidecarOf(d).by = "none"
      BY <2>5, <2>6, <2>8 DEF Stamped
    <2>9. /\ SidecarOf(d) = disk[<<"sidecar", d>>]
          /\ \A f : SlimOf(f) = disk[<<"slim", f>>]
      BY DEF SidecarOf, SlimOf
    <2>10. Due(c, d) = IF d \in Boost!Projects /\ ~cmd[c].slims THEN {}
                       ELSE {f \in Boost!Within(d) : Boost!IsDbtManifest(text[f])}
      BY DEF Due
    <2>11. SidecarOf(d).by = "us" /\ d \in Boost!Projects =>
             SidecarOf(d).of.hash = [f \in Hashed[d] \cap DOMAIN text |-> text[f]]
      BY <2>3 DEF FreshSidecar, Boost!HashProject
    <2>12. SidecarOf(d).by = "us" =>
             /\ d \notin Boost!Projects =>
                  \E f \in DOMAIN SidecarOf(d).of.manifests :
                    SidecarOf(d).of.hash = Boost!HashDocument(text[f])
             /\ \A f \in DOMAIN SidecarOf(d).of.manifests :
                  SidecarOf(d).of.manifests[f].version = Boost!HashDocument(text[f])
      BY <2>3 DEF FreshSidecar
    <2>13. \A f \in Boost!Within(d) :
             SlimOf(f).by = "us" => SlimOf(f).of = Boost!BuildSlimManifest(text[f])
      BY <2>4 DEF FreshSlim
    <2> QED BY <2>5, <2>7, <2>8, <2>9, <2>10, <2>11, <2>12, <2>13
  <1> QED BY <1>1, TreeStarts, BoostStep, PTL

-----------------------------------------------------------------------------
(* Deploys to a Private Cloud.                                             *)

\* Where a command is at its image, and at its files; who has yet to push.
OnImage == {"info", "build", "tag", "push", "untag", "update"}
OnFiles == {"dags", "tar", "gzip", "fill", "open", "upload"}
Unpushed == {c \in Clis : pc[c] \in {"info", "build", "tag", "push"}}

\* No more is pushed than was begun for it.
Counts ==
  /\ begun \in 0..MaxCommands /\ minute \in 0..MaxTime
  /\ \A d \in Deployments : dep[d].next \in Nat /\ dep[d].next + Cardinality(Unpushed) <= begun

\* What a terminal holds.
Terminal(c) ==
  /\ job[c] = [kind |-> job[c].kind, d |-> job[c].d, w |-> job[c].w,
               custom |-> job[c].custom, ref |-> job[c].ref, own |-> job[c].own,
               dags |-> job[c].dags, spent |-> job[c].spent, lost |-> job[c].lost,
               tries |-> job[c].tries]
  /\ job[c].spent \in BOOLEAN /\ job[c].lost \in BOOLEAN
  /\ pc[c] \in OnImage \cup OnFiles \cup {"idle", "done", "remote"}

\* What the machine and the platform keep, by what it is kept under.
Listed ==
  dep = [d \in Deployments |-> [image |-> dep[d].image, version |-> dep[d].version,
                                next |-> dep[d].next, dags |-> dep[d].dags]]
Kept ==
  /\ Listed
  /\ latest = [d \in Deployments |-> latest[d]]
  /\ pushed = [r \in Apc!Ref |-> pushed[r]] /\ tagged = [r \in Apc!Ref |-> tagged[r]]
  /\ code \in [Checkouts -> 0..MaxEdits]
  /\ tar = [w \in Checkouts |-> tar[w]] /\ gz = [w \in Checkouts |-> gz[w]]

Terminals == pc = [c \in Clis |-> pc[c]] /\ job = [c \in Clis |-> job[c]]
ApcType ==
  /\ Terminals
  /\ Kept /\ \A c \in Clis : Terminal(c)

\* A command is where what was asked of it leads.
OnErrand(c) ==
  /\ job[c].kind \in Apc!Kinds /\ job[c].d \in Deployments /\ job[c].w \in Checkouts
  /\ job[c].custom \in Custom \cup {Nothing}
  /\ pc[c] \in OnImage => job[c].kind \in {"full", "image"}
  /\ pc[c] = "remote" => job[c].kind = "remote"
  /\ pc[c] = "update" => byo
  /\ pc[c] # "info" /\ job[c].kind \in {"full", "image"} =>
       job[c].ref \in Apc!Ref /\ job[c].ref.of \in {Nothing, job[c].d}
  /\ pc[c] \in OnFiles => job[c].kind # "image"

\* Nobody has touched c's image, or its files.
ImageToItself(c) ==
  /\ job[c].kind \in {"full", "image"} /\ pc[c] # "info" /\ (byo \/ job[c].ref.of # Nothing)
  /\ Apc!Alone(c, {<<"latest", job[c].d>>, <<"tag", job[c].ref>>, <<"image", job[c].d>>})
FilesToItself(c) == Apc!Alone(c, {<<"file", job[c].w>>})

\* What c built is its Deployment's.
Arrived(c) ==
  LET has == dep[job[c].d] IN
  /\ has.image = job[c].ref /\ pushed[job[c].ref] = job[c].own
  /\ has.version \in {job[c].own, Nothing}

\* By each step of its own, what c has built is there: under the Deployment's
\* name, under the name to push, pushed, the Deployment's.
ImageSoFar(c) ==
  /\ pc[c] \in {"tag", "push", "untag", "update"} => latest[job[c].d] = job[c].own
  /\ pc[c] = "push" => tagged[job[c].ref] = job[c].own
  /\ pc[c] \in {"untag", "update"} => pushed[job[c].ref] = job[c].own
  /\ pc[c] = "untag" /\ ~byo => Arrived(c)
  /\ pc[c] \in OnFiles => Arrived(c)

\* The files hold what c has packed, which is read from its start unless a
\* connection was lost.
FilesSoFar(c) ==
  /\ pc[c] \in {"gzip", "fill", "open", "upload"} => job[c].dags \in Apc!Made
  /\ pc[c] \in {"gzip", "fill"} => tar[job[c].w] = job[c].dags
  /\ pc[c] = "fill" => gz[job[c].w] = Empty
  /\ pc[c] \in {"open", "upload"} => gz[job[c].w] = job[c].dags
  /\ pc[c] = "upload" /\ job[c].spent => job[c].lost

\* What is known of a command.
Errand(c) ==
  /\ OnErrand(c)
  /\ ImageToItself(c) => ImageSoFar(c)
  /\ FilesToItself(c) => FilesSoFar(c)
  /\ pc[c] # "upload" => ~job[c].spent

ApcInv ==
  ApcType /\ Counts /\ \A c \in Clis : ~Apc!Idle(c) => Errand(c)

\* What others do leaves what is known of a command, or comes between.
LEMMA OthersErrand ==
  ASSUME NEW o \in Clis, Errand(o), pc'[o] = pc[o], job'[o] = job[o], UNCHANGED byo,
         raced[o] \subseteq raced'[o],
         job[o].d \in Deployments =>
           latest'[job[o].d] = latest[job[o].d] \/ <<"latest", job[o].d>> \in raced'[o],
         job[o].ref \in Apc!Ref =>
           \/ tagged'[job[o].ref] = tagged[job[o].ref] /\ pushed'[job[o].ref] = pushed[job[o].ref]
           \/ <<"tag", job[o].ref>> \in raced'[o],
         job[o].d \in Deployments =>
           \/ /\ dep'[job[o].d].image = dep[job[o].d].image
              /\ dep'[job[o].d].version = dep[job[o].d].version
           \/ <<"image", job[o].d>> \in raced'[o],
         job[o].w \in Checkouts =>
           \/ tar'[job[o].w] = tar[job[o].w] /\ gz'[job[o].w] = gz[job[o].w]
           \/ <<"file", job[o].w>> \in raced'[o]
  PROVE  Errand(o)'
  <1>1. OnErrand(o)'
    BY DEF Errand, OnErrand
  <1>2. ASSUME ImageToItself(o)'
        PROVE  ImageSoFar(o)'
    <2>1. /\ <<"latest", job[o].d>> \notin raced'[o] /\ <<"tag", job[o].ref>> \notin raced'[o]
          /\ <<"image", job[o].d>> \notin raced'[o]
      BY <1>2 DEF ImageToItself, Apc!Alone
    <2>2. ImageToItself(o)
      BY <1>2, <2>1 DEF ImageToItself, Apc!Alone
    <2>3. ImageSoFar(o) /\ job[o].d \in Deployments /\ job[o].ref \in Apc!Ref
      BY <2>2 DEF Errand, OnErrand, ImageToItself
    <2> QED BY <2>1, <2>3 DEF ImageSoFar, Arrived
  <1>3. ASSUME FilesToItself(o)'
        PROVE  FilesSoFar(o)'
    <2>1. <<"file", job[o].w>> \notin raced'[o] /\ FilesToItself(o)
      BY <1>3 DEF FilesToItself, Apc!Alone
    <2>2. FilesSoFar(o) /\ job[o].w \in Checkouts
      BY <2>1 DEF Errand, OnErrand
    <2>3. Apc!Made' = Apc!Made
      BY DEF Apc!Made
    <2> QED BY <2>1, <2>2, <2>3 DEF FilesSoFar
  <1> QED BY <1>1, <1>2, <1>3 DEF Errand

\* A step of one command, which touches these things.
LEMMA OneErrand ==
  ASSUME ApcInv, NEW c \in Clis, NEW things, UNCHANGED byo, Kept', Counts', Terminal(c)',
         Terminals',
         \A o \in Clis \ {c} : pc'[o] = pc[o] /\ job'[o] = job[o],
         \A o \in Clis \ {c} : ~Apc!Idle(o) =>
           raced[o] \subseteq raced'[o] /\ things \subseteq raced'[o],
         \A d \in Deployments : latest'[d] = latest[d] \/ <<"latest", d>> \in things,
         \A r \in Apc!Ref :
           \/ tagged'[r] = tagged[r] /\ pushed'[r] = pushed[r]
           \/ <<"tag", r>> \in things,
         \A d \in Deployments :
           \/ dep'[d].image = dep[d].image /\ dep'[d].version = dep[d].version
           \/ <<"image", d>> \in things,
         \A w \in Checkouts :
           \/ tar'[w] = tar[w] /\ gz'[w] = gz[w]
           \/ <<"file", w>> \in things,
         Apc!Idle(c)' \/ Errand(c)'
  PROVE  ApcInv'
  <1>1. \A o \in Clis : Terminal(o)'
    <2>1. \A o \in Clis : Terminal(o)
      BY DEF ApcInv, ApcType, Terminals
    <2> QED BY <2>1 DEF Terminal
  <1>2. ASSUME NEW o \in Clis \ {c}, ~Apc!Idle(o)'
        PROVE  Errand(o)'
    <2>1. ~Apc!Idle(o)
      BY <1>2 DEF Apc!Idle
    <2>2. Errand(o)
      BY <2>1 DEF ApcInv
    <2>3. raced[o] \subseteq raced'[o] /\ things \subseteq raced'[o]
      BY <2>1
    <2> QED BY <2>2, <2>3, OthersErrand
  <1> QED BY <1>1, <1>2 DEF ApcInv, ApcType, Terminals

\* Who touches what has been told of it.
LEMMA Touched ==
  ASSUME NEW c \in Clis, NEW things, Apc!Touch(c, things),
         \A o \in Clis \ {c} : pc'[o] = pc[o]
  PROVE  /\ \A o \in Clis \ {c} : ~Apc!Idle(o) =>
              raced[o] \subseteq raced'[o] /\ things \subseteq raced'[o]
         /\ pc'[c] \notin {"idle", "done"} => raced'[c] = raced[c]
  BY DEF Apc!Touch, Apc!Idle

\* A terminal goes to a step, with a deploy.
LEMMA Goes ==
  ASSUME ApcType, NEW c \in Clis, NEW l, NEW j,
         pc' = [pc EXCEPT ![c] = l], job' = [job EXCEPT ![c] = j]
  PROVE  /\ pc'[c] = l /\ job'[c] = j
         /\ \A o \in Clis \ {c} : pc'[o] = pc[o] /\ job'[o] = job[o]
         /\ Terminals'
  BY DEF ApcType, Terminals

LEMMA StaysOn ==
  ASSUME ApcType, NEW c \in Clis, NEW l, pc' = [pc EXCEPT ![c] = l], job' = job
  PROVE  /\ pc'[c] = l /\ job'[c] = job[c]
         /\ \A o \in Clis \ {c} : pc'[o] = pc[o] /\ job'[o] = job[o]
         /\ Terminals'
  BY DEF ApcType, Terminals

LEMMA Finite ==
  /\ IsFiniteSet(Clis)
  /\ IsFiniteSet(Unpushed) /\ Cardinality(Unpushed) \in Nat
  <1>1. IsFiniteSet(Clis)
    BY ApcSound DEF Apc!Sound, Apc!IsFiniteSet, IsFiniteSet
  <1>2. Unpushed \subseteq Clis
    BY DEF Unpushed
  <1> QED BY <1>1, <1>2, FS_Subset, FS_CardinalityType

\* Nothing to push more, nothing pushed.
LEMMA CountsKept ==
  ASSUME Counts, Unpushed' \subseteq Unpushed, begun' = begun, minute' = minute,
         \A d \in Deployments : dep'[d].next = dep[d].next
  PROVE  Counts'
  <1>1. Cardinality(Unpushed') <= Cardinality(Unpushed) /\ Cardinality(Unpushed') \in Nat
    BY Finite, FS_Subset, FS_CardinalityType
  <1>2. MaxCommands \in Nat
    BY ApcSound DEF Apc!Sound
  <1> QED BY <1>1, <1>2, Finite DEF Counts

LEMMA UnpushedKept ==
  ASSUME ApcType, NEW c \in Clis, \A o \in Clis \ {c} : pc'[o] = pc[o],
         pc'[c] \in {"info", "build", "tag", "push"} => pc[c] \in {"info", "build", "tag", "push"}
  PROVE  Unpushed' \subseteq Unpushed
  BY DEF Unpushed

\* A command that is under way.
LEMMA Underway ==
  ASSUME ApcInv, NEW c \in Clis, ~Apc!Idle(c)
  PROVE  /\ ApcType /\ Kept /\ Counts /\ Terminal(c) /\ Errand(c) /\ OnErrand(c)
         /\ job[c].d \in Deployments /\ job[c].w \in Checkouts
  BY DEF ApcInv, ApcType, Terminals, Errand, OnErrand

LEMMA ApcStarts == Apc!Init => ApcInv
  <1> SUFFICES ASSUME Apc!Init PROVE ApcInv
    OBVIOUS
  <1>1. \A c \in Clis : Terminal(c) /\ Apc!Idle(c)
    BY DEF Apc!Init, Apc!NoRun, Apc!Idle, Terminal
  <1>2. MaxEdits \in Nat /\ MaxCommands \in Nat /\ MaxTime \in Nat
    BY ApcSound DEF Apc!Sound
  <1>3. Kept
    BY <1>2 DEF Kept, Listed, Apc!Init
  <1>4. Terminals
    BY DEF Apc!Init, Terminals
  <1>5. Counts
    <2>1. Unpushed = {}
      BY DEF Unpushed, Apc!Init
    <2>2. Cardinality(Unpushed) = 0
      BY <2>1, FS_EmptySet
    <2>3. begun = 0 /\ minute = 0 /\ \A d \in Deployments : dep[d].next = 0
      BY DEF Apc!Init
    <2> QED BY <1>2, <2>2, <2>3 DEF Counts
  <1> QED BY <1>1, <1>3, <1>4, <1>5 DEF ApcInv, ApcType, Terminals

LEMMA Constants == Apc!Ref' = Apc!Ref /\ Apc!Made' = Apc!Made
  BY DEF Apc!Ref, Apc!Made

LEMMA KeptSame ==
  ASSUME Kept, UNCHANGED <<dep, latest, pushed, tagged, code, tar, gz>>
  PROVE  Kept'
  BY Constants DEF Kept, Listed

\* A step of one command, which touches nothing but its own.
LEMMA QuietErrand ==
  ASSUME ApcInv, NEW c \in Clis, Kept', Counts', Terminal(c)',
         UNCHANGED <<byo, dep, pushed, latest, tagged, tar, gz>>,
         Terminals',
         \A o \in Clis \ {c} : pc'[o] = pc[o] /\ job'[o] = job[o],
         \A o \in Clis \ {c} : ~Apc!Idle(o) => raced[o] \subseteq raced'[o],
         Apc!Idle(c)' \/ Errand(c)'
  PROVE  ApcInv'
  <1> DEFINE things == {}
  <1>1. \A o \in Clis \ {c} : ~Apc!Idle(o) =>
          raced[o] \subseteq raced'[o] /\ things \subseteq raced'[o]
    OBVIOUS
  <1> HIDE DEF things
  <1> QED BY <1>1, OneErrand

\* A deploy is over.
LEMMA Ended ==
  ASSUME NEW c \in Clis, pc'[c] \in {"idle", "done"}, job'[c] = Apc!NoRun
  PROVE  Apc!Idle(c)' /\ Terminal(c)'
  BY DEF Apc!Idle, Terminal, Apc!NoRun

\* A name for the image: of its Deployment, or a tag alone.
LEMMA GetInfoStep ==
  ASSUME ApcInv, NEW c \in Clis, Apc!GetInfo(c)
  PROVE  ApcInv'
  <1>1. pc[c] = "info" /\ ~Apc!Idle(c)
    BY DEF Apc!GetInfo, Apc!Idle
  <1>2. /\ ApcType /\ Kept /\ Counts /\ Terminal(c) /\ Errand(c) /\ OnErrand(c)
        /\ job[c].d \in Deployments /\ job[c].w \in Checkouts
    BY <1>1, Underway
  <1>3. UNCHANGED <<byo, dep, pushed, latest, tagged, code, tar, gz, minute, begun, raced>>
    BY DEF Apc!GetInfo, Apc!platform, Apc!local, Apc!bounds
  <1> DEFINE ref == Apc!RefOf(job[c].d, job[c].custom)
  <1>4. /\ pc'[c] = "build" /\ job'[c] = [job[c] EXCEPT !.ref = ref]
        /\ \A o \in Clis \ {c} : pc'[o] = pc[o] /\ job'[o] = job[o]
        /\ Terminals'
    <2> HIDE DEF ref
    <2>1. /\ pc' = [pc EXCEPT ![c] = "build"]
          /\ job' = [job EXCEPT ![c] = [job[c] EXCEPT !.ref = ref]]
      BY DEF Apc!GetInfo, Apc!Goto, Apc!Set, ref
    <2> QED BY <2>1, <1>2, Goes
  <1>5. ref \in Apc!Ref /\ ref.of \in {Nothing, job[c].d}
    <2>1. job[c].d \in Deployments /\ job[c].custom \in Custom \cup {Nothing}
      BY <1>2 DEF OnErrand
    <2>2. MaxCommands \in Nat /\ MaxTime \in Nat
      BY ApcSound DEF Apc!Sound
    <2>3. Apc!NextTag(job[c].d) \in 0..(MaxCommands + MaxTime)
      <3>1. /\ minute \in 0..MaxTime /\ begun \in 0..MaxCommands
            /\ dep[job[c].d].next \in Nat
            /\ dep[job[c].d].next + Cardinality(Unpushed) <= begun
        BY <1>2, <2>1 DEF Counts
      <3> QED BY <3>1, <2>2, Finite DEF Apc!NextTag
    <2> QED BY <2>1, <2>3 DEF Apc!RefOf, Apc!Ref
  <1> HIDE DEF ref
  <1>6. job'[c] = [kind |-> job[c].kind, d |-> job[c].d, w |-> job[c].w,
                     custom |-> job[c].custom, ref |-> ref, own |-> job[c].own,
                     dags |-> job[c].dags, spent |-> job[c].spent, lost |-> job[c].lost,
                     tries |-> job[c].tries]
    BY <1>4, <1>2 DEF Terminal
  <1>7. Counts'
    BY <1>1, <1>2, <1>3, <1>4, UnpushedKept, CountsKept
  <1>8. Terminal(c)'
    BY <1>2, <1>4, <1>6 DEF Terminal, OnImage
  <1>9. job[c].kind \in {"full", "image"}
    BY <1>1, <1>2 DEF OnErrand, OnImage
  <1>10. Errand(c)'
    <2>1. OnErrand(c)'
      BY <1>2, <1>4, <1>5, <1>6, <1>9, Constants DEF OnErrand, OnImage, OnFiles
    <2>2. ImageSoFar(c)' /\ FilesSoFar(c)'
      BY <1>4 DEF ImageSoFar, FilesSoFar, OnFiles
    <2> QED BY <2>1, <2>2, <1>1, <1>2, <1>6 DEF Errand
  <1>11. Kept'
    BY <1>2, <1>3, KeptSame
  <1> QED BY <1>3, <1>4, <1>7, <1>8, <1>10, <1>11, QuietErrand

\* The image is what the Deployment's name stands for on the machine.
LEMMA BuildImageStep ==
  ASSUME ApcInv, NEW c \in Clis, Apc!BuildImage(c)
  PROVE  ApcInv'
  <1>1. pc[c] = "build" /\ ~Apc!Idle(c)
    BY DEF Apc!BuildImage, Apc!Idle
  <1>2. /\ ApcType /\ Kept /\ Counts /\ Terminal(c) /\ Errand(c) /\ OnErrand(c)
        /\ job[c].d \in Deployments /\ job[c].w \in Checkouts
    BY <1>1, Underway
  <1>3. UNCHANGED <<byo, dep, pushed, tagged, code, tar, gz, minute, begun>>
    BY DEF Apc!BuildImage, Apc!platform, Apc!local, Apc!bounds
  <1>4. PICK i : /\ latest' = [latest EXCEPT ![job[c].d] = i]
                 /\ job' = [job EXCEPT ![c] = [job[c] EXCEPT !.own = i]]
    BY DEF Apc!BuildImage, Apc!Set
  <1>5. /\ pc'[c] = "tag" /\ job'[c] = [job[c] EXCEPT !.own = i]
        /\ \A o \in Clis \ {c} : pc'[o] = pc[o] /\ job'[o] = job[o]
        /\ Terminals'
    <2>1. pc' = [pc EXCEPT ![c] = "tag"]
      BY DEF Apc!BuildImage, Apc!Goto
    <2> QED BY <2>1, <1>2, <1>4, Goes
  <1>6. job'[c] = [kind |-> job[c].kind, d |-> job[c].d, w |-> job[c].w,
                     custom |-> job[c].custom, ref |-> job[c].ref, own |-> i,
                     dags |-> job[c].dags, spent |-> job[c].spent, lost |-> job[c].lost,
                     tries |-> job[c].tries]
    BY <1>5, <1>2 DEF Terminal
  <1>7. Apc!Touch(c, {<<"latest", job[c].d>>})
    BY DEF Apc!BuildImage
  <1>8. /\ \A o \in Clis \ {c} : ~Apc!Idle(o) =>
             raced[o] \subseteq raced'[o] /\ {<<"latest", job[c].d>>} \subseteq raced'[o]
        /\ raced'[c] = raced[c]
    <2> DEFINE things == {<<"latest", job[c].d>>}
    <2>1. Apc!Touch(c, things)
      BY <1>7
    <2> HIDE DEF things
    <2>2. /\ \A o \in Clis \ {c} : ~Apc!Idle(o) =>
               raced[o] \subseteq raced'[o] /\ things \subseteq raced'[o]
          /\ raced'[c] = raced[c]
      BY <2>1, <1>5, Touched
    <2> QED BY <2>2 DEF things
  <1>9. Kept'
    BY <1>2, <1>3, <1>4, Constants DEF Kept, Listed
  <1>10. Counts'
    BY <1>1, <1>2, <1>3, <1>5, UnpushedKept, CountsKept
  <1>11. Terminal(c)'
    BY <1>2, <1>5, <1>6 DEF Terminal, OnImage
  <1>12. Errand(c)'
    <2>1. OnErrand(c)'
      BY <1>1, <1>2, <1>3, <1>5, <1>6, Constants DEF OnErrand, OnImage, OnFiles
    <2>2. latest'[job[c].d] = i
      BY <1>2, <1>4 DEF Kept, Listed
    <2>3. ImageSoFar(c)' /\ FilesSoFar(c)'
      BY <2>2, <1>5, <1>6 DEF ImageSoFar, FilesSoFar, OnFiles
    <2> QED BY <2>1, <2>3, <1>1, <1>2, <1>6 DEF Errand
  <1>13. \A d \in Deployments :
           latest'[d] = latest[d] \/ <<"latest", d>> \in {<<"latest", job[c].d>>}
    BY <1>2, <1>4 DEF Kept, Listed
  <1> QED BY <1>3, <1>5, <1>8, <1>9, <1>10, <1>11, <1>12, <1>13, OneErrand

\* The image gets the name that is pushed.
LEMMA TagImageStep ==
  ASSUME ApcInv, NEW c \in Clis, Apc!TagImage(c)
  PROVE  ApcInv'
  <1>1. pc[c] = "tag" /\ ~Apc!Idle(c)
    BY DEF Apc!TagImage, Apc!Idle
  <1>2. /\ ApcType /\ Kept /\ Counts /\ Terminal(c) /\ Errand(c) /\ OnErrand(c)
        /\ job[c].d \in Deployments /\ job[c].w \in Checkouts
    BY <1>1, Underway
  <1>3. UNCHANGED <<byo, dep, pushed, latest, code, tar, gz, minute, begun>>
    BY DEF Apc!TagImage, Apc!platform, Apc!local, Apc!bounds
  <1>4. /\ pc'[c] = "push" /\ job'[c] = job[c]
        /\ \A o \in Clis \ {c} : pc'[o] = pc[o] /\ job'[o] = job[o]
        /\ Terminals'
    <2>1. pc' = [pc EXCEPT ![c] = "push"] /\ job' = job
      BY DEF Apc!TagImage, Apc!Goto
    <2> QED BY <2>1, <1>2, StaysOn
  <1>5. /\ tagged' = [tagged EXCEPT ![job[c].ref] = latest[job[c].d]]
        /\ job' = job
    BY DEF Apc!TagImage
  <1>6. /\ \A o \in Clis \ {c} : ~Apc!Idle(o) =>
             /\ raced[o] \subseteq raced'[o]
             /\ {<<"tag", job[c].ref>>} \subseteq raced'[o]
        /\ pc'[c] \notin {"idle", "done"} => raced'[c] = raced[c]
    <2> DEFINE things == {<<"tag", job[c].ref>>}
    <2>1. Apc!Touch(c, things)
      BY DEF Apc!TagImage
    <2> HIDE DEF things
    <2>2. /\ \A o \in Clis \ {c} : ~Apc!Idle(o) =>
               raced[o] \subseteq raced'[o] /\ things \subseteq raced'[o]
          /\ pc'[c] \notin {"idle", "done"} => raced'[c] = raced[c]
      BY <2>1, <1>4, Touched
    <2> QED BY <2>2 DEF things
  <1>7. Kept'
    BY <1>2, <1>3, <1>5, Constants DEF Kept, Listed
  <1>8. Counts'
    BY <1>1, <1>2, <1>3, <1>4, UnpushedKept, CountsKept
  <1>9. Terminal(c)'
    BY <1>2, <1>4 DEF Terminal, OnImage
  <1>10. job[c].ref \in Apc!Ref
    BY <1>1, <1>2 DEF OnErrand, OnImage
  <1>11. Errand(c)'
    <2>1. OnErrand(c)'
      BY <1>1, <1>2, <1>3, <1>4, Constants DEF OnErrand, OnImage, OnFiles
    <2>2. ASSUME ImageToItself(c)'
          PROVE  ImageSoFar(c)'
      <3>1. ImageToItself(c)
        BY <2>2, <1>1, <1>3, <1>4, <1>6 DEF ImageToItself, Apc!Alone
      <3>2. latest[job[c].d] = job[c].own
        BY <3>1, <1>1, <1>2 DEF Errand, ImageSoFar
      <3>3. tagged'[job[c].ref] = job[c].own
        BY <3>2, <1>2, <1>5, <1>10 DEF Kept, Listed
      <3> QED BY <3>2, <3>3, <1>3, <1>4 DEF ImageSoFar, OnFiles
    <2>3. FilesSoFar(c)'
      BY <1>4 DEF FilesSoFar
    <2> QED BY <2>1, <2>2, <2>3, <1>1, <1>2, <1>4 DEF Errand
  <1>12. \A r \in Apc!Ref :
           \/ tagged'[r] = tagged[r] /\ pushed'[r] = pushed[r]
           \/ <<"tag", r>> \in {<<"tag", job[c].ref>>}
    BY <1>2, <1>3, <1>5 DEF Kept, Listed
  <1> QED BY <1>3, <1>4, <1>6, <1>7, <1>8, <1>9, <1>11, <1>12, OneErrand

\* What is pushed to the platform's own registry is its Deployment's.
LEMMA PushImageStep ==
  ASSUME ApcInv, NEW c \in Clis, Apc!PushImage(c)
  PROVE  ApcInv'
  <1>1. pc[c] = "push" /\ ~Apc!Idle(c)
    BY DEF Apc!PushImage, Apc!Idle
  <1>2. /\ ApcType /\ Kept /\ Counts /\ Terminal(c) /\ Errand(c) /\ OnErrand(c)
        /\ job[c].d \in Deployments /\ job[c].w \in Checkouts
    BY <1>1, Underway
  <1>3. UNCHANGED <<byo, latest, tagged, code, tar, gz, minute, begun>>
    BY DEF Apc!PushImage, Apc!platform, Apc!local, Apc!bounds
  <1>4. /\ pc'[c] = "untag" /\ job'[c] = job[c]
        /\ \A o \in Clis \ {c} : pc'[o] = pc[o] /\ job'[o] = job[o]
        /\ Terminals'
    <2>1. pc' = [pc EXCEPT ![c] = "untag"] /\ job' = job
      BY DEF Apc!PushImage, Apc!Goto
    <2> QED BY <2>1, <1>2, StaysOn
  <1>5. /\ pushed' = [pushed EXCEPT ![job[c].ref] = tagged[job[c].ref]]
        /\ byo \/ job[c].ref.of = Nothing => dep' = dep
        /\ ~(byo \/ job[c].ref.of = Nothing) =>
             dep' = [dep EXCEPT ![job[c].ref.of] =
               [image |-> job[c].ref, version |-> tagged[job[c].ref],
                next |-> dep[job[c].ref.of].next + 1, dags |-> dep[job[c].ref.of].dags]]
    BY DEF Apc!PushImage
  <1>6. /\ \A o \in Clis \ {c} : ~Apc!Idle(o) =>
             /\ raced[o] \subseteq raced'[o]
             /\ {<<"tag", job[c].ref>>, <<"image", job[c].ref.of>>} \subseteq raced'[o]
        /\ pc'[c] \notin {"idle", "done"} => raced'[c] = raced[c]
    <2> DEFINE things == {<<"tag", job[c].ref>>, <<"image", job[c].ref.of>>}
    <2>1. Apc!Touch(c, things)
      BY DEF Apc!PushImage
    <2> HIDE DEF things
    <2>2. /\ \A o \in Clis \ {c} : ~Apc!Idle(o) =>
               raced[o] \subseteq raced'[o] /\ things \subseteq raced'[o]
          /\ pc'[c] \notin {"idle", "done"} => raced'[c] = raced[c]
      BY <2>1, <1>4, Touched
    <2> QED BY <2>2 DEF things
  <1>7. job[c].ref \in Apc!Ref /\ job[c].ref.of \in {Nothing, job[c].d}
    BY <1>1, <1>2 DEF OnErrand, OnImage
  <1>8. \/ dep' = dep
        \/ /\ job[c].ref.of = job[c].d /\ ~byo
           /\ dep' = [dep EXCEPT ![job[c].d] =
                [image |-> job[c].ref, version |-> tagged[job[c].ref],
                 next |-> dep[job[c].d].next + 1, dags |-> dep[job[c].d].dags]]
    BY <1>2, <1>5, <1>7 DEF Kept, Listed
  <1>9. Kept'
    <2>1. dep' = [d \in Deployments |-> [image |-> dep'[d].image, version |-> dep'[d].version,
                                         next |-> dep'[d].next, dags |-> dep'[d].dags]]
      BY <1>2, <1>8 DEF Kept, Listed
    <2>2. pushed' = [r \in Apc!Ref |-> pushed'[r]]
      BY <1>2, <1>5 DEF Kept, Listed
    <2> QED BY <2>1, <2>2, <1>2, <1>3, Constants DEF Kept, Listed
  <1>10. Counts'
    <2>1. Unpushed' = Unpushed \ {c} /\ c \in Unpushed
      BY <1>1, <1>4 DEF Unpushed
    <2>2. Cardinality(Unpushed') = Cardinality(Unpushed) - 1 /\ Cardinality(Unpushed') \in Nat
      BY <2>1, Finite, FS_RemoveElement, FS_CardinalityType
    <2>3. \A d \in Deployments : dep'[d].next \in {dep[d].next, dep[d].next + 1}
      BY <1>2, <1>8 DEF Kept, Listed
    <2>4. begun \in 0..MaxCommands /\ MaxCommands \in Nat
      BY <1>2, ApcSound DEF Counts, Apc!Sound
    <2>5. ASSUME NEW d \in Deployments
          PROVE  dep'[d].next \in Nat /\ dep'[d].next + Cardinality(Unpushed') <= begun'
      <3>1. dep[d].next \in Nat /\ dep[d].next + Cardinality(Unpushed) <= begun
        BY <1>2 DEF Counts
      <3> QED BY <3>1, <2>2, <2>3, <2>4, <1>3, Finite
    <2> QED BY <2>5, <1>2, <1>3 DEF Counts
  <1>11. Terminal(c)'
    BY <1>2, <1>4 DEF Terminal, OnImage
  <1>12. Errand(c)'
    <2>1. OnErrand(c)'
      BY <1>1, <1>2, <1>3, <1>4, Constants DEF OnErrand, OnImage, OnFiles
    <2>2. ASSUME ImageToItself(c)'
          PROVE  ImageSoFar(c)'
      <3>1. ImageToItself(c)
        BY <2>2, <1>1, <1>3, <1>4, <1>6 DEF ImageToItself, Apc!Alone
      <3>2. latest[job[c].d] = job[c].own /\ tagged[job[c].ref] = job[c].own
        BY <3>1, <1>1, <1>2 DEF Errand, ImageSoFar
      <3>3. pushed'[job[c].ref] = job[c].own
        BY <3>2, <1>2, <1>5, <1>7 DEF Kept, Listed
      <3>4. ASSUME ~byo
            PROVE  Arrived(c)'
        <4>1. job[c].ref.of = job[c].d /\ job[c].d # Nothing
          BY <3>1, <3>4, <1>7 DEF ImageToItself
        <4>2. /\ dep'[job[c].ref.of].image = job[c].ref
              /\ dep'[job[c].ref.of].version = tagged[job[c].ref]
          BY <3>4, <4>1, <1>2, <1>5 DEF Kept, Listed
        <4>3. dep'[job[c].d].image = job[c].ref /\ dep'[job[c].d].version = tagged[job[c].ref]
          BY <4>1, <4>2
        <4> QED BY <4>3, <3>2, <3>3, <1>4 DEF Arrived
      <3> QED BY <3>2, <3>3, <3>4, <1>3, <1>4 DEF ImageSoFar, OnFiles
    <2>3. FilesSoFar(c)'
      BY <1>4 DEF FilesSoFar
    <2> QED BY <2>1, <2>2, <2>3, <1>1, <1>2, <1>4 DEF Errand
  <1>13. \A r \in Apc!Ref :
           \/ tagged'[r] = tagged[r] /\ pushed'[r] = pushed[r]
           \/ <<"tag", r>> \in {<<"tag", job[c].ref>>, <<"image", job[c].ref.of>>}
    BY <1>2, <1>3, <1>5 DEF Kept, Listed
  <1>14. \A d \in Deployments :
           \/ dep'[d].image = dep[d].image /\ dep'[d].version = dep[d].version
           \/ <<"image", d>> \in {<<"tag", job[c].ref>>, <<"image", job[c].ref.of>>}
    BY <1>2, <1>8 DEF Kept, Listed
  <1> QED BY <1>3, <1>4, <1>6, <1>9, <1>10, <1>11, <1>12, <1>13, <1>14, OneErrand

\* A deploy is over, or goes on as it is.
LEMMA EndsOrGoesOn ==
  ASSUME ApcType, NEW c \in Clis, NEW l, NEW k,
         Apc!End(c, l) \/ (Apc!Goto(c, k) /\ job' = job)
  PROVE  /\ \A o \in Clis \ {c} : pc'[o] = pc[o] /\ job'[o] = job[o]
         /\ Terminals'
         /\ \/ pc'[c] = l /\ job'[c] = Apc!NoRun
            \/ pc'[c] = k /\ job'[c] = job[c]
  <1>1. CASE Apc!End(c, l)
    <2>1. PICK j : j = Apc!NoRun
      OBVIOUS
    <2>2. pc' = [pc EXCEPT ![c] = l] /\ job' = [job EXCEPT ![c] = j]
      BY <1>1, <2>1 DEF Apc!End, Apc!Goto, Apc!Set
    <2> QED BY <2>1, <2>2, Goes, ZenonT(30)
  <1>2. CASE Apc!Goto(c, k) /\ job' = job
    <2>1. pc' = [pc EXCEPT ![c] = k] /\ job' = job
      BY <1>2 DEF Apc!Goto
    <2> QED BY <2>1, StaysOn
  <1> QED BY <1>1, <1>2

\* The name is removed; a BYO platform has still to be told.
LEMMA UntagImageStep ==
  ASSUME ApcInv, NEW c \in Clis, Apc!UntagImage(c)
  PROVE  ApcInv'
  <1>1. pc[c] = "untag" /\ ~Apc!Idle(c)
    BY DEF Apc!UntagImage, Apc!Idle
  <1>2. /\ ApcType /\ Kept /\ Counts /\ Terminal(c) /\ Errand(c) /\ OnErrand(c)
        /\ job[c].d \in Deployments /\ job[c].w \in Checkouts
    BY <1>1, Underway
  <1>3. UNCHANGED <<byo, dep, pushed, latest, code, tar, gz, minute, begun>>
    BY DEF Apc!UntagImage, Apc!platform, Apc!local, Apc!bounds
  <1>4. /\ \A o \in Clis \ {c} : pc'[o] = pc[o] /\ job'[o] = job[o]
        /\ Terminals'
        /\ \/ pc'[c] = "done" /\ job'[c] = Apc!NoRun
           \/ byo /\ pc'[c] = "update" /\ job'[c] = job[c]
           \/ ~byo /\ job[c].kind # "image" /\ pc'[c] = "dags" /\ job'[c] = job[c]
    <2>1. CASE byo
      <3>1. pc' = [pc EXCEPT ![c] = "update"] /\ job' = job
        BY <2>1 DEF Apc!UntagImage, Apc!Goto
      <3> QED BY <3>1, <2>1, <1>2, StaysOn
    <2>2. CASE ~byo
      <3>1. \/ Apc!End(c, "done")
            \/ job[c].kind # "image" /\ Apc!Goto(c, "dags") /\ job' = job
        BY <2>2 DEF Apc!UntagImage, Apc!AfterImage
      <3>2. CASE Apc!End(c, "done")
        <4>1. PICK j : j = Apc!NoRun
          OBVIOUS
        <4>2. pc' = [pc EXCEPT ![c] = "done"] /\ job' = [job EXCEPT ![c] = j]
          BY <3>2, <4>1 DEF Apc!End, Apc!Goto, Apc!Set
        <4> QED BY <4>1, <4>2, <1>2, Goes
      <3>3. CASE job[c].kind # "image" /\ Apc!Goto(c, "dags") /\ job' = job
        <4>1. pc' = [pc EXCEPT ![c] = "dags"] /\ job' = job
          BY <3>3 DEF Apc!Goto
        <4> QED BY <4>1, <3>3, <2>2, <1>2, StaysOn
      <3> QED BY <3>1, <3>2, <3>3
    <2> QED BY <2>1, <2>2
  <1>5. tagged' = [tagged EXCEPT ![job[c].ref] = Nothing]
    BY DEF Apc!UntagImage
  <1>6. /\ \A o \in Clis \ {c} : ~Apc!Idle(o) =>
             /\ raced[o] \subseteq raced'[o]
             /\ {<<"tag", job[c].ref>>} \subseteq raced'[o]
        /\ pc'[c] \notin {"idle", "done"} => raced'[c] = raced[c]
    <2> DEFINE things == {<<"tag", job[c].ref>>}
    <2>1. Apc!Touch(c, things)
      BY DEF Apc!UntagImage
    <2> HIDE DEF things
    <2>2. /\ \A o \in Clis \ {c} : ~Apc!Idle(o) =>
               raced[o] \subseteq raced'[o] /\ things \subseteq raced'[o]
          /\ pc'[c] \notin {"idle", "done"} => raced'[c] = raced[c]
      BY <2>1, <1>4, Touched
    <2> QED BY <2>2 DEF things
  <1>7. Kept'
    BY <1>2, <1>3, <1>5, Constants DEF Kept, Listed
  <1>8. Counts'
    <2>1. pc'[c] \in {"done", "update", "dags"}
      BY <1>4
    <2>2. Unpushed' \subseteq Unpushed
      BY <2>1, <1>1, <1>2, <1>4, UnpushedKept
    <2> QED BY <2>2, <1>2, <1>3, CountsKept
  <1>9. \A r \in Apc!Ref :
           \/ tagged'[r] = tagged[r] /\ pushed'[r] = pushed[r]
           \/ <<"tag", r>> \in {<<"tag", job[c].ref>>}
    BY <1>2, <1>3, <1>5 DEF Kept, Listed
  <1>10. CASE pc'[c] = "done"
    <2>1. Apc!Idle(c)' /\ Terminal(c)'
      BY <1>4, <1>10, Ended
    <2> QED BY <2>1, <1>3, <1>4, <1>6, <1>7, <1>8, <1>9, OneErrand
  <1>11. CASE pc'[c] # "done"
    <2>1. /\ job'[c] = job[c] /\ pc'[c] \in {"update", "dags"}
          /\ pc'[c] = "update" => byo
          /\ pc'[c] = "dags" => ~byo /\ job[c].kind # "image"
      BY <1>4, <1>11
    <2>2. Terminal(c)'
      BY <2>1, <1>2 DEF Terminal, OnImage, OnFiles
    <2>3. OnErrand(c)'
      BY <2>1, <1>1, <1>2, <1>3, Constants DEF OnErrand, OnImage, OnFiles
    <2>4. ASSUME ImageToItself(c)'
          PROVE  ImageSoFar(c)'
      <3>1. ImageToItself(c)
        BY <2>1, <2>4, <1>1, <1>3, <1>6 DEF ImageToItself, Apc!Alone
      <3>2. /\ latest[job[c].d] = job[c].own /\ pushed[job[c].ref] = job[c].own
            /\ ~byo => Arrived(c)
        BY <3>1, <1>1, <1>2 DEF Errand, ImageSoFar
      <3>3. ~byo => Arrived(c)'
        BY <3>2, <2>1, <1>3 DEF Arrived
      <3> QED BY <2>1, <3>2, <3>3, <1>3 DEF ImageSoFar, OnFiles
    <2>5. FilesSoFar(c)'
      BY <2>1 DEF FilesSoFar
    <2>6. Errand(c)'
      BY <2>1, <2>3, <2>4, <2>5, <1>1, <1>2 DEF Errand
    <2> QED BY <2>2, <2>6, <1>3, <1>4, <1>6, <1>7, <1>8, <1>9, OneErrand
  <1> QED BY <1>10, <1>11

\* A Deployment's image changes.
LEMMA Named ==
  ASSUME Kept, NEW d \in Deployments, NEW r, NEW v,
         dep' = [dep EXCEPT ![d].image = r, ![d].version = v]
  PROVE  /\ Listed'
         /\ \A x \in Deployments : dep'[x].next = dep[x].next
         /\ \A x \in Deployments \ {d} : dep'[x] = dep[x]
         /\ dep'[d].image = r /\ dep'[d].version = v
  <1>1. PICK i, u, n, g : dep[d] = [image |-> i, version |-> u, next |-> n, dags |-> g]
    <2>1. dep[d] = [image |-> dep[d].image, version |-> dep[d].version, next |-> dep[d].next,
                    dags |-> dep[d].dags]
      BY DEF Kept, Listed
    <2> QED BY <2>1
  <1>2. DOMAIN dep = Deployments /\ DOMAIN dep' = Deployments
    BY DEF Kept, Listed
  <1>3. dep'[d].image = r /\ dep'[d].version = v /\ dep'[d].next = n /\ dep'[d].dags = g
    BY <1>1, <1>2
  <1>4. dep'[d] = [image |-> r, version |-> v, next |-> n, dags |-> g]
    BY <1>1, <1>2, <1>3
  <1>5. dep' = [dep EXCEPT ![d] = dep'[d]]
    OBVIOUS
  <1>6. \A x \in Deployments \ {d} : dep'[x] = dep[x]
    BY <1>2
  <1>7. \A x \in Deployments :
          dep'[x] = [image |-> dep'[x].image, version |-> dep'[x].version,
                     next |-> dep'[x].next, dags |-> dep'[x].dags]
    BY <1>4, <1>6 DEF Kept, Listed
  <1>8. dep' = [x \in Deployments |-> dep'[x]]
    BY <1>2, <1>5 DEF Kept, Listed
  <1>9. Listed'
    BY <1>7, <1>8 DEF Listed
  <1>10. dep'[d].next = dep[d].next
    BY <1>1, <1>3
  <1>11. \A x \in Deployments : dep'[x].next = dep[x].next
    BY <1>6, <1>10
  <1> QED BY <1>3, <1>6, <1>9, <1>11

\* The platform is told the name and what the label says.
LEMMA UpdateImageStep ==
  ASSUME ApcInv, NEW c \in Clis, Apc!UpdateImage(c)
  PROVE  ApcInv'
  <1>1. pc[c] = "update" /\ ~Apc!Idle(c)
    BY DEF Apc!UpdateImage, Apc!Idle
  <1>2. /\ ApcType /\ Kept /\ Counts /\ Terminal(c) /\ Errand(c) /\ OnErrand(c)
        /\ job[c].d \in Deployments /\ job[c].w \in Checkouts
    BY <1>1, Underway
  <1>3. UNCHANGED <<byo, pushed, latest, tagged, code, tar, gz, minute, begun>>
    BY DEF Apc!UpdateImage, Apc!platform, Apc!local, Apc!bounds
  <1>4. job[c].kind # "image" \/ Apc!End(c, "done")
    BY DEF Apc!UpdateImage, Apc!AfterImage
  <1>5. /\ \A o \in Clis \ {c} : pc'[o] = pc[o] /\ job'[o] = job[o]
        /\ Terminals'
        /\ \/ pc'[c] = "done" /\ job'[c] = Apc!NoRun
           \/ pc'[c] = "dags" /\ job'[c] = job[c]
    <2>1. Apc!End(c, "done") \/ (Apc!Goto(c, "dags") /\ job' = job)
      BY DEF Apc!UpdateImage, Apc!AfterImage
    <2> QED BY <2>1, <1>2, EndsOrGoesOn
  <1>6. PICK v \in {latest[job[c].d], Nothing} :
          dep' = [dep EXCEPT ![job[c].d].image = job[c].ref, ![job[c].d].version = v]
    BY DEF Apc!UpdateImage
  <1>7. /\ \A o \in Clis \ {c} : ~Apc!Idle(o) =>
             /\ raced[o] \subseteq raced'[o]
             /\ {<<"image", job[c].d>>} \subseteq raced'[o]
        /\ pc'[c] \notin {"idle", "done"} => raced'[c] = raced[c]
    <2> DEFINE things == {<<"image", job[c].d>>}
    <2>1. Apc!Touch(c, things)
      BY DEF Apc!UpdateImage
    <2> HIDE DEF things
    <2>2. /\ \A o \in Clis \ {c} : ~Apc!Idle(o) =>
               raced[o] \subseteq raced'[o] /\ things \subseteq raced'[o]
          /\ pc'[c] \notin {"idle", "done"} => raced'[c] = raced[c]
      BY <2>1, <1>5, Touched
    <2> QED BY <2>2 DEF things
  <1>8. /\ Listed'
        /\ \A d \in Deployments : dep'[d].next = dep[d].next
        /\ \A d \in Deployments \ {job[c].d} : dep'[d] = dep[d]
        /\ dep'[job[c].d].image = job[c].ref /\ dep'[job[c].d].version = v
    <2>1. PICK d, r, u : d = job[c].d /\ r = job[c].ref /\ u = v
      OBVIOUS
    <2>2. d \in Deployments /\ dep' = [dep EXCEPT ![d].image = r, ![d].version = u]
      BY <2>1, <1>2, <1>6
    <2>3. /\ Listed'
          /\ \A x \in Deployments : dep'[x].next = dep[x].next
          /\ \A x \in Deployments \ {d} : dep'[x] = dep[x]
          /\ dep'[d].image = r /\ dep'[d].version = u
      <3>1. Kept
        BY <1>2
      <3> QED BY <3>1, <2>2, Named, ZenonT(30)
    <2> QED BY <2>1, <2>3
  <1>9. Kept'
    BY <1>2, <1>3, <1>8, Constants DEF Kept
  <1>10. Counts'
    <2>1. pc'[c] \in {"done", "dags"}
      BY <1>5
    <2>2. Unpushed' \subseteq Unpushed
      BY <2>1, <1>1, <1>2, <1>5, UnpushedKept
    <2> QED BY <2>2, <1>2, <1>3, <1>8, CountsKept
  <1>11. \A d \in Deployments :
           \/ dep'[d].image = dep[d].image /\ dep'[d].version = dep[d].version
           \/ <<"image", d>> \in {<<"image", job[c].d>>}
    BY <1>8
  <1>12. CASE pc'[c] = "done"
    <2>1. Apc!Idle(c)' /\ Terminal(c)'
      BY <1>5, <1>12, Ended
    <2> QED BY <2>1, <1>3, <1>5, <1>7, <1>9, <1>10, <1>11, OneErrand
  <1>13. CASE pc'[c] # "done"
    <2>1. job'[c] = job[c] /\ pc'[c] = "dags" /\ job[c].kind # "image"
      BY <1>2, <1>4, <1>5, <1>13 DEF Apc!End, Apc!Goto, ApcType, Terminals
    <2>2. Terminal(c)'
      BY <2>1, <1>2 DEF Terminal, OnFiles
    <2>3. OnErrand(c)'
      BY <2>1, <1>1, <1>2, <1>3, Constants DEF OnErrand, OnImage, OnFiles
    <2>4. ASSUME ImageToItself(c)'
          PROVE  ImageSoFar(c)'
      <3>1. ImageToItself(c)
        BY <2>1, <2>4, <1>1, <1>3, <1>7 DEF ImageToItself, Apc!Alone
      <3>2. latest[job[c].d] = job[c].own /\ pushed[job[c].ref] = job[c].own
        BY <3>1, <1>1, <1>2 DEF Errand, ImageSoFar
      <3>3. v \in {job[c].own, Nothing}
        BY <3>2, <1>6
      <3>4. Arrived(c)'
        BY <3>2, <3>3, <2>1, <1>3, <1>8 DEF Arrived
      <3> QED BY <2>1, <3>4, <1>3 DEF ImageSoFar, OnFiles
    <2>5. FilesSoFar(c)'
      BY <2>1 DEF FilesSoFar
    <2>6. Errand(c)'
      BY <2>1, <2>3, <2>4, <2>5, <1>1, <1>2 DEF Errand
    <2> QED BY <2>2, <2>6, <1>3, <1>5, <1>7, <1>9, <1>10, <1>11, OneErrand
  <1> QED BY <1>12, <1>13

\* An image that is there already: nothing is pushed.
LEMMA UpdateRemoteStep ==
  ASSUME ApcInv, NEW c \in Clis, Apc!UpdateRemote(c)
  PROVE  ApcInv'
  <1>1. pc[c] = "remote" /\ ~Apc!Idle(c)
    BY DEF Apc!UpdateRemote, Apc!Idle
  <1>2. /\ ApcType /\ Kept /\ Counts /\ Terminal(c) /\ Errand(c) /\ OnErrand(c)
        /\ job[c].d \in Deployments /\ job[c].w \in Checkouts
    BY <1>1, Underway
  <1>3. UNCHANGED <<byo, pushed, latest, tagged, code, tar, gz, minute, begun>>
    BY DEF Apc!UpdateRemote, Apc!platform, Apc!local, Apc!bounds
  <1>4. /\ \A o \in Clis \ {c} : pc'[o] = pc[o] /\ job'[o] = job[o]
        /\ Terminals'
        /\ \/ pc'[c] = "done" /\ job'[c] = Apc!NoRun
           \/ pc'[c] = "dags" /\ job'[c] = job[c]
    <2>1. Apc!End(c, "done") \/ (Apc!Goto(c, "dags") /\ job' = job)
      BY DEF Apc!UpdateRemote
    <2> QED BY <2>1, <1>2, EndsOrGoesOn
  <1>5. PICK r, v : dep' = [dep EXCEPT ![job[c].d].image = r, ![job[c].d].version = v]
    BY DEF Apc!UpdateRemote
  <1>6. /\ \A o \in Clis \ {c} : ~Apc!Idle(o) =>
             /\ raced[o] \subseteq raced'[o]
             /\ {<<"image", job[c].d>>} \subseteq raced'[o]
        /\ pc'[c] \notin {"idle", "done"} => raced'[c] = raced[c]
    <2> DEFINE things == {<<"image", job[c].d>>}
    <2>1. Apc!Touch(c, things)
      BY DEF Apc!UpdateRemote
    <2> HIDE DEF things
    <2>2. /\ \A o \in Clis \ {c} : ~Apc!Idle(o) =>
               raced[o] \subseteq raced'[o] /\ things \subseteq raced'[o]
          /\ pc'[c] \notin {"idle", "done"} => raced'[c] = raced[c]
      BY <2>1, <1>4, Touched
    <2> QED BY <2>2 DEF things
  <1>7. /\ Listed'
        /\ \A d \in Deployments : dep'[d].next = dep[d].next
        /\ \A d \in Deployments \ {job[c].d} : dep'[d] = dep[d]
    BY <1>2, <1>5, Named
  <1>8. Kept'
    BY <1>2, <1>3, <1>7, Constants DEF Kept
  <1>9. Counts'
    <2>1. pc'[c] \in {"done", "dags"}
      BY <1>4
    <2>2. Unpushed' \subseteq Unpushed
      BY <2>1, <1>1, <1>2, <1>4, UnpushedKept
    <2> QED BY <2>2, <1>2, <1>3, <1>7, CountsKept
  <1>10. \A d \in Deployments :
           \/ dep'[d].image = dep[d].image /\ dep'[d].version = dep[d].version
           \/ <<"image", d>> \in {<<"image", job[c].d>>}
    BY <1>7
  <1>11. job[c].kind = "remote"
    BY <1>1, <1>2 DEF OnErrand
  <1>12. CASE pc'[c] = "done"
    <2>1. Apc!Idle(c)' /\ Terminal(c)'
      BY <1>4, <1>12, Ended
    <2> QED BY <2>1, <1>3, <1>4, <1>6, <1>8, <1>9, <1>10, OneErrand
  <1>13. CASE pc'[c] # "done"
    <2>1. job'[c] = job[c] /\ pc'[c] = "dags"
      BY <1>4, <1>13
    <2>2. Terminal(c)'
      BY <2>1, <1>2 DEF Terminal, OnFiles
    <2>3. OnErrand(c)'
      BY <2>1, <1>1, <1>2, <1>11 DEF OnErrand, OnImage, OnFiles
    <2>4. ~ImageToItself(c)'
      BY <2>1, <1>11 DEF ImageToItself
    <2>5. FilesSoFar(c)'
      BY <2>1 DEF FilesSoFar
    <2>6. Errand(c)'
      BY <2>1, <2>3, <2>4, <2>5, <1>1, <1>2 DEF Errand
    <2> QED BY <2>2, <2>6, <1>3, <1>4, <1>6, <1>8, <1>9, <1>10, OneErrand
  <1> QED BY <1>12, <1>13

LEMMA CheckDagsStep ==
  ASSUME ApcInv, NEW c \in Clis, Apc!CheckDags(c)
  PROVE  ApcInv'
  <1>1. pc[c] = "dags" /\ ~Apc!Idle(c)
    BY DEF Apc!CheckDags, Apc!Idle
  <1>2. /\ ApcType /\ Kept /\ Counts /\ Terminal(c) /\ Errand(c) /\ OnErrand(c)
        /\ job[c].d \in Deployments /\ job[c].w \in Checkouts
    BY <1>1, Underway
  <1>3. UNCHANGED <<byo, dep, pushed, latest, tagged, code, tar, gz, minute, begun>>
    BY DEF Apc!CheckDags, Apc!platform, Apc!local, Apc!bounds
  <1>4. /\ \A o \in Clis \ {c} : pc'[o] = pc[o] /\ job'[o] = job[o]
        /\ Terminals'
        /\ \/ pc'[c] \in {"idle", "done"} /\ job'[c] = Apc!NoRun
           \/ pc'[c] = "tar" /\ job'[c] = job[c]
    <2>1. CASE job[c].kind = "dags"
      <3>1. Apc!End(c, "idle") \/ (Apc!Goto(c, "tar") /\ job' = job)
        BY <2>1 DEF Apc!CheckDags
      <3> QED BY <3>1, <1>2, EndsOrGoesOn
    <2>2. CASE job[c].kind # "dags"
      <3>1. Apc!End(c, "done") \/ (Apc!Goto(c, "tar") /\ job' = job)
        BY <2>2 DEF Apc!CheckDags
      <3> QED BY <3>1, <1>2, EndsOrGoesOn
    <2> QED BY <2>1, <2>2
  <1>5. /\ \A o \in Clis \ {c} : ~Apc!Idle(o) => raced[o] \subseteq raced'[o]
        /\ pc'[c] \notin {"idle", "done"} => raced'[c] = raced[c]
    BY <1>4, Touched DEF Apc!CheckDags
  <1>6. Kept'
    BY <1>2, <1>3, KeptSame
  <1>7. Counts'
    <2>1. pc'[c] \in {"idle", "done", "tar"}
      BY <1>4
    <2>2. Unpushed' \subseteq Unpushed
      BY <2>1, <1>1, <1>2, <1>4, UnpushedKept
    <2> QED BY <2>2, <1>2, <1>3, CountsKept
  <1>8. CASE pc'[c] # "tar"
    <2>1. Apc!Idle(c)' /\ Terminal(c)'
      BY <1>4, <1>8, Ended
    <2> QED BY <2>1, <1>3, <1>4, <1>5, <1>6, <1>7, QuietErrand
  <1>9. CASE pc'[c] = "tar"
    <2>1. job'[c] = job[c] /\ raced'[c] = raced[c]
      BY <1>4, <1>5, <1>9
    <2>2. Terminal(c)'
      BY <2>1, <1>2, <1>9 DEF Terminal, OnFiles
    <2>3. OnErrand(c)'
      BY <2>1, <1>1, <1>2, <1>9, Constants DEF OnErrand, OnImage, OnFiles
    <2>4. ASSUME ImageToItself(c)'
          PROVE  ImageSoFar(c)'
      <3>1. ImageToItself(c)
        BY <2>1, <2>4, <1>1, <1>3 DEF ImageToItself, Apc!Alone
      <3>2. Arrived(c)
        BY <3>1, <1>1, <1>2 DEF Errand, ImageSoFar, OnFiles
      <3> QED BY <2>1, <3>2, <1>3, <1>9 DEF ImageSoFar, Arrived
    <2>5. FilesSoFar(c)'
      BY <1>9 DEF FilesSoFar
    <2>6. Errand(c)'
      BY <2>1, <2>3, <2>4, <2>5, <1>1, <1>2, <1>9 DEF Errand
    <2> QED BY <2>2, <2>6, <1>3, <1>4, <1>5, <1>6, <1>7, QuietErrand
  <1> QED BY <1>8, <1>9

\* Among its files, a command's image stays as it is.
LEMMA ImageStays ==
  ASSUME NEW c \in Clis, Errand(c), pc[c] \in OnFiles, pc'[c] \in OnFiles,
         job'[c].kind = job[c].kind, job'[c].d = job[c].d, job'[c].ref = job[c].ref,
         job'[c].own = job[c].own, raced'[c] = raced[c],
         UNCHANGED <<byo, pushed>>,
         dep'[job[c].d].image = dep[job[c].d].image,
         dep'[job[c].d].version = dep[job[c].d].version
  PROVE  ImageToItself(c)' => ImageSoFar(c)'
  <1> SUFFICES ASSUME ImageToItself(c)' PROVE ImageSoFar(c)'
    OBVIOUS
  <1>1. ImageToItself(c)
    BY DEF ImageToItself, Apc!Alone, OnFiles
  <1>2. Arrived(c)
    BY <1>1 DEF Errand, ImageSoFar
  <1>3. Arrived(c)'
    BY <1>2 DEF Arrived
  <1> QED BY <1>3 DEF ImageSoFar, OnFiles

\* The DAGs of the checkout are packed.
LEMMA TarDagsStep ==
  ASSUME ApcInv, NEW c \in Clis, Apc!TarDags(c)
  PROVE  ApcInv'
  <1>1. pc[c] = "tar" /\ ~Apc!Idle(c)
    BY DEF Apc!TarDags, Apc!Idle
  <1>2. /\ ApcType /\ Kept /\ Counts /\ Terminal(c) /\ Errand(c) /\ OnErrand(c)
        /\ job[c].d \in Deployments /\ job[c].w \in Checkouts
    BY <1>1, Underway
  <1>3. UNCHANGED <<byo, dep, pushed, latest, tagged, code, gz, minute, begun>>
    BY DEF Apc!TarDags, Apc!platform, Apc!local, Apc!bounds
  <1>4. PICK x \in Apc!Made : /\ tar' = [tar EXCEPT ![job[c].w] = x]
                             /\ job' = [job EXCEPT ![c] = [job[c] EXCEPT !.dags = x]]
    <2>1. [of |-> job[c].w, edit |-> code[job[c].w]] \in Apc!Made
      BY <1>2 DEF Kept, Apc!Made
    <2> QED BY <2>1 DEF Apc!TarDags, Apc!Set
  <1>5. tar' = [tar EXCEPT ![job[c].w] = x]
    BY <1>4
  <1>6. /\ pc'[c] = "gzip" /\ job'[c] = [job[c] EXCEPT !.dags = x]
        /\ \A o \in Clis \ {c} : pc'[o] = pc[o] /\ job'[o] = job[o]
        /\ Terminals'
    <2>1. pc' = [pc EXCEPT ![c] = "gzip"]
      BY DEF Apc!TarDags, Apc!Goto
    <2> QED BY <2>1, <1>2, <1>4, Goes
  <1>7. job'[c] = [kind |-> job[c].kind, d |-> job[c].d, w |-> job[c].w,
                     custom |-> job[c].custom, ref |-> job[c].ref, own |-> job[c].own,
                     dags |-> x, spent |-> job[c].spent, lost |-> job[c].lost,
                     tries |-> job[c].tries]
    BY <1>6, <1>2 DEF Terminal
  <1>8. /\ \A o \in Clis \ {c} : ~Apc!Idle(o) =>
             /\ raced[o] \subseteq raced'[o]
             /\ {<<"file", job[c].w>>} \subseteq raced'[o]
        /\ pc'[c] \notin {"idle", "done"} => raced'[c] = raced[c]
    <2> DEFINE things == {<<"file", job[c].w>>}
    <2>1. Apc!Touch(c, things)
      BY DEF Apc!TarDags, Apc!File
    <2> HIDE DEF things
    <2>2. /\ \A o \in Clis \ {c} : ~Apc!Idle(o) =>
               raced[o] \subseteq raced'[o] /\ things \subseteq raced'[o]
          /\ pc'[c] \notin {"idle", "done"} => raced'[c] = raced[c]
      BY <2>1, <1>6, Touched
    <2> QED BY <2>2 DEF things
  <1>9. Kept'
    BY <1>2, <1>3, <1>5, Constants DEF Kept, Listed
  <1>10. Counts'
    BY <1>1, <1>2, <1>3, <1>6, UnpushedKept, CountsKept
  <1>11. Terminal(c)'
    BY <1>2, <1>6, <1>7 DEF Terminal, OnFiles
  <1>12. Errand(c)'
    <2>1. OnErrand(c)'
      BY <1>1, <1>2, <1>3, <1>6, <1>7, Constants DEF OnErrand, OnImage, OnFiles
    <2>2. ImageToItself(c)' => ImageSoFar(c)'
      BY <1>1, <1>2, <1>3, <1>6, <1>7, <1>8, ImageStays DEF OnFiles
    <2>3. tar'[job[c].w] = x
      BY <1>2, <1>5 DEF Kept
    <2>4. FilesSoFar(c)'
      BY <2>3, <1>6, <1>7, Constants DEF FilesSoFar
    <2> QED BY <2>1, <2>2, <2>4, <1>1, <1>2, <1>7 DEF Errand
  <1>13. \A w \in Checkouts :
           \/ tar'[w] = tar[w] /\ gz'[w] = gz[w]
           \/ <<"file", w>> \in {<<"file", job[c].w>>}
    BY <1>2, <1>3, <1>5 DEF Kept
  <1> QED BY <1>3, <1>6, <1>8, <1>9, <1>10, <1>11, <1>12, <1>13, OneErrand

\* The file to fill is made.
LEMMA CreateGzipStep ==
  ASSUME ApcInv, NEW c \in Clis, Apc!CreateGzip(c)
  PROVE  ApcInv'
  <1>1. pc[c] = "gzip" /\ ~Apc!Idle(c)
    BY DEF Apc!CreateGzip, Apc!Idle
  <1>2. /\ ApcType /\ Kept /\ Counts /\ Terminal(c) /\ Errand(c) /\ OnErrand(c)
        /\ job[c].d \in Deployments /\ job[c].w \in Checkouts
    BY <1>1, Underway
  <1>3. UNCHANGED <<byo, dep, pushed, latest, tagged, code, tar, minute, begun>>
    BY DEF Apc!CreateGzip, Apc!platform, Apc!local, Apc!bounds
  <1>4. /\ pc'[c] = "fill" /\ job'[c] = job[c]
        /\ \A o \in Clis \ {c} : pc'[o] = pc[o] /\ job'[o] = job[o]
        /\ Terminals'
    <2>1. pc' = [pc EXCEPT ![c] = "fill"] /\ job' = job
      BY DEF Apc!CreateGzip, Apc!Goto
    <2> QED BY <2>1, <1>2, StaysOn
  <1>5. gz' = [gz EXCEPT ![job[c].w] = Empty]
    BY DEF Apc!CreateGzip
  <1>6. /\ \A o \in Clis \ {c} : ~Apc!Idle(o) =>
             /\ raced[o] \subseteq raced'[o]
             /\ {<<"file", job[c].w>>} \subseteq raced'[o]
        /\ pc'[c] \notin {"idle", "done"} => raced'[c] = raced[c]
    <2> DEFINE things == {<<"file", job[c].w>>}
    <2>1. Apc!Touch(c, things)
      BY DEF Apc!CreateGzip, Apc!File
    <2> HIDE DEF things
    <2>2. /\ \A o \in Clis \ {c} : ~Apc!Idle(o) =>
               raced[o] \subseteq raced'[o] /\ things \subseteq raced'[o]
          /\ pc'[c] \notin {"idle", "done"} => raced'[c] = raced[c]
      BY <2>1, <1>4, Touched
    <2> QED BY <2>2 DEF things
  <1>7. Kept'
    BY <1>2, <1>3, <1>5, Constants DEF Kept, Listed
  <1>8. Counts'
    BY <1>1, <1>2, <1>3, <1>4, UnpushedKept, CountsKept
  <1>9. Terminal(c)'
    BY <1>2, <1>4 DEF Terminal, OnFiles
  <1>10. Errand(c)'
    <2>1. OnErrand(c)'
      BY <1>1, <1>2, <1>3, <1>4, Constants DEF OnErrand, OnImage, OnFiles
    <2>2. ImageToItself(c)' => ImageSoFar(c)'
      BY <1>1, <1>2, <1>3, <1>4, <1>6, ImageStays DEF OnFiles
    <2>3. ASSUME FilesToItself(c)'
          PROVE  FilesSoFar(c)'
      <3>1. FilesToItself(c)
        BY <2>3, <1>4, <1>6 DEF FilesToItself, Apc!Alone
      <3>2. job[c].dags \in Apc!Made /\ tar[job[c].w] = job[c].dags
        BY <3>1, <1>1, <1>2 DEF Errand, FilesSoFar
      <3>3. gz'[job[c].w] = Empty
        BY <1>2, <1>5 DEF Kept
      <3> QED BY <3>2, <3>3, <1>3, <1>4, Constants DEF FilesSoFar
    <2> QED BY <2>1, <2>2, <2>3, <1>1, <1>2, <1>4 DEF Errand
  <1>11. \A w \in Checkouts :
           \/ tar'[w] = tar[w] /\ gz'[w] = gz[w]
           \/ <<"file", w>> \in {<<"file", job[c].w>>}
    BY <1>2, <1>3, <1>5 DEF Kept
  <1> QED BY <1>3, <1>4, <1>6, <1>7, <1>8, <1>9, <1>10, <1>11, OneErrand

\* It holds what the packed file does, unless another has removed it.
LEMMA FillGzipStep ==
  ASSUME ApcInv, NEW c \in Clis, Apc!FillGzip(c)
  PROVE  ApcInv'
  <1>1. pc[c] = "fill" /\ ~Apc!Idle(c)
    BY DEF Apc!FillGzip, Apc!Idle
  <1>2. /\ ApcType /\ Kept /\ Counts /\ Terminal(c) /\ Errand(c) /\ OnErrand(c)
        /\ job[c].d \in Deployments /\ job[c].w \in Checkouts
    BY <1>1, Underway
  <1>3. UNCHANGED <<byo, dep, pushed, latest, tagged, code, tar, minute, begun>>
    BY DEF Apc!FillGzip, Apc!platform, Apc!local, Apc!bounds
  <1>4. /\ pc'[c] = "open" /\ job'[c] = job[c]
        /\ \A o \in Clis \ {c} : pc'[o] = pc[o] /\ job'[o] = job[o]
        /\ Terminals'
    <2>1. pc' = [pc EXCEPT ![c] = "open"] /\ job' = job
      BY DEF Apc!FillGzip, Apc!Goto
    <2> QED BY <2>1, <1>2, StaysOn
  <1>5. PICK x \in Apc!Opened(c, tar[job[c].w]) :
          gz' = IF gz[job[c].w] = Nothing THEN gz ELSE [gz EXCEPT ![job[c].w] = x]
    BY DEF Apc!FillGzip
  <1>6. /\ \A o \in Clis \ {c} : ~Apc!Idle(o) =>
             /\ raced[o] \subseteq raced'[o]
             /\ {<<"file", job[c].w>>} \subseteq raced'[o]
        /\ pc'[c] \notin {"idle", "done"} => raced'[c] = raced[c]
    <2> DEFINE things == {<<"file", job[c].w>>}
    <2>1. Apc!Touch(c, things)
      BY DEF Apc!FillGzip, Apc!File
    <2> HIDE DEF things
    <2>2. /\ \A o \in Clis \ {c} : ~Apc!Idle(o) =>
               raced[o] \subseteq raced'[o] /\ things \subseteq raced'[o]
          /\ pc'[c] \notin {"idle", "done"} => raced'[c] = raced[c]
      BY <2>1, <1>4, Touched
    <2> QED BY <2>2 DEF things
  <1>7. Kept'
    BY <1>2, <1>3, <1>5, Constants DEF Kept, Listed
  <1>8. Counts'
    BY <1>1, <1>2, <1>3, <1>4, UnpushedKept, CountsKept
  <1>9. Terminal(c)'
    BY <1>2, <1>4 DEF Terminal, OnFiles
  <1>10. Errand(c)'
    <2>1. OnErrand(c)'
      BY <1>1, <1>2, <1>3, <1>4, Constants DEF OnErrand, OnImage, OnFiles
    <2>2. ImageToItself(c)' => ImageSoFar(c)'
      BY <1>1, <1>2, <1>3, <1>4, <1>6, ImageStays DEF OnFiles
    <2>3. ASSUME FilesToItself(c)'
          PROVE  FilesSoFar(c)'
      <3>1. FilesToItself(c)
        BY <2>3, <1>4, <1>6 DEF FilesToItself, Apc!Alone
      <3>2. /\ job[c].dags \in Apc!Made /\ tar[job[c].w] = job[c].dags
            /\ gz[job[c].w] = Empty
        BY <3>1, <1>1, <1>2 DEF Errand, FilesSoFar
      <3>3. x = job[c].dags /\ Empty # Nothing
        BY <3>2, <1>5, ApcSound DEF Apc!Opened, Apc!Sound
      <3>4. gz'[job[c].w] = job[c].dags
        BY <3>2, <3>3, <1>2, <1>5 DEF Kept
      <3> QED BY <3>2, <3>4, <1>3, <1>4, Constants DEF FilesSoFar
    <2> QED BY <2>1, <2>2, <2>3, <1>1, <1>2, <1>4 DEF Errand
  <1>11. \A w \in Checkouts :
           \/ tar'[w] = tar[w] /\ gz'[w] = gz[w]
           \/ <<"file", w>> \in {<<"file", job[c].w>>}
    BY <1>2, <1>3, <1>5 DEF Kept
  <1> QED BY <1>3, <1>4, <1>6, <1>7, <1>8, <1>9, <1>10, <1>11, OneErrand

LEMMA OpenFileStep ==
  ASSUME ApcInv, NEW c \in Clis, Apc!OpenFile(c)
  PROVE  ApcInv'
  <1>1. pc[c] = "open" /\ ~Apc!Idle(c)
    BY DEF Apc!OpenFile, Apc!Idle
  <1>2. /\ ApcType /\ Kept /\ Counts /\ Terminal(c) /\ Errand(c) /\ OnErrand(c)
        /\ job[c].d \in Deployments /\ job[c].w \in Checkouts
    BY <1>1, Underway
  <1>3. UNCHANGED <<byo, dep, pushed, latest, tagged, code, tar, gz, minute, begun, raced>>
    BY DEF Apc!OpenFile, Apc!platform, Apc!local, Apc!bounds
  <1>4. /\ pc'[c] = "upload" /\ job'[c] = job[c]
        /\ \A o \in Clis \ {c} : pc'[o] = pc[o] /\ job'[o] = job[o]
        /\ Terminals'
    <2>1. pc' = [pc EXCEPT ![c] = "upload"] /\ job' = job
      BY DEF Apc!OpenFile, Apc!Goto
    <2> QED BY <2>1, <1>2, StaysOn
  <1>5. Kept'
    BY <1>2, <1>3, KeptSame
  <1>6. Counts'
    BY <1>1, <1>2, <1>3, <1>4, UnpushedKept, CountsKept
  <1>7. Terminal(c)'
    BY <1>2, <1>4 DEF Terminal, OnFiles
  <1>8. Errand(c)'
    <2>1. OnErrand(c)'
      BY <1>1, <1>2, <1>3, <1>4, Constants DEF OnErrand, OnImage, OnFiles
    <2>2. ImageToItself(c)' => ImageSoFar(c)'
      BY <1>1, <1>2, <1>3, <1>4, ImageStays DEF OnFiles
    <2>3. ASSUME FilesToItself(c)'
          PROVE  FilesSoFar(c)'
      <3>1. FilesToItself(c)
        BY <2>3, <1>3, <1>4 DEF FilesToItself, Apc!Alone
      <3>2. job[c].dags \in Apc!Made /\ gz[job[c].w] = job[c].dags /\ ~job[c].spent
        BY <3>1, <1>1, <1>2 DEF Errand, FilesSoFar
      <3> QED BY <3>2, <1>3, <1>4, Constants DEF FilesSoFar
    <2> QED BY <2>1, <2>2, <2>3, <1>4 DEF Errand
  <1> QED BY <1>3, <1>4, <1>5, <1>6, <1>7, <1>8, QuietErrand

\* The Deployment's DAGs change.
LEMMA Taken ==
  ASSUME Kept, NEW d \in Deployments, NEW b, dep' = [dep EXCEPT ![d].dags = b]
  PROVE  /\ Listed'
         /\ \A x \in Deployments : /\ dep'[x].image = dep[x].image
                                   /\ dep'[x].version = dep[x].version
                                   /\ dep'[x].next = dep[x].next
         /\ dep'[d].dags = b
  <1>1. PICK i, u, n, g : dep[d] = [image |-> i, version |-> u, next |-> n, dags |-> g]
    <2>1. dep[d] = [image |-> dep[d].image, version |-> dep[d].version, next |-> dep[d].next,
                    dags |-> dep[d].dags]
      BY DEF Kept, Listed
    <2> QED BY <2>1
  <1>2. DOMAIN dep = Deployments /\ DOMAIN dep' = Deployments
    BY DEF Kept, Listed
  <1>3. dep'[d].image = i /\ dep'[d].version = u /\ dep'[d].next = n /\ dep'[d].dags = b
    BY <1>1, <1>2
  <1>4. dep'[d] = [image |-> i, version |-> u, next |-> n, dags |-> b]
    BY <1>1, <1>2, <1>3
  <1>5. dep' = [dep EXCEPT ![d] = dep'[d]]
    OBVIOUS
  <1>6. \A x \in Deployments \ {d} : dep'[x] = dep[x]
    BY <1>2
  <1>7. \A x \in Deployments :
          dep'[x] = [image |-> dep'[x].image, version |-> dep'[x].version,
                     next |-> dep'[x].next, dags |-> dep'[x].dags]
    BY <1>4, <1>6 DEF Kept, Listed
  <1>8. dep' = [x \in Deployments |-> dep'[x]]
    BY <1>2, <1>5 DEF Kept, Listed
  <1>9. Listed'
    BY <1>7, <1>8 DEF Listed
  <1>10. /\ dep'[d].image = dep[d].image /\ dep'[d].version = dep[d].version
         /\ dep'[d].next = dep[d].next
    BY <1>1, <1>3
  <1>11. \A x \in Deployments : /\ dep'[x].image = dep[x].image
                                /\ dep'[x].version = dep[x].version
                                /\ dep'[x].next = dep[x].next
    BY <1>6, <1>10
  <1> QED BY <1>3, <1>9, <1>11

\* A deploy ends that has come to its files, or earlier.
LEMMA Over ==
  ASSUME ApcInv, NEW c \in Clis, ~Apc!Idle(c), NEW l \in {"idle", "done"}, Apc!End(c, l),
         NEW things, Apc!Touch(c, things),
         UNCHANGED <<byo, pushed, latest, tagged, code, minute, begun>>, Listed',
         \A d \in Deployments : /\ dep'[d].image = dep[d].image
                                /\ dep'[d].version = dep[d].version
                                /\ dep'[d].next = dep[d].next,
         tar' = [w \in Checkouts |-> tar'[w]], gz' = [w \in Checkouts |-> gz'[w]],
         \A w \in Checkouts :
           \/ tar'[w] = tar[w] /\ gz'[w] = gz[w]
           \/ <<"file", w>> \in things
  PROVE  ApcInv'
  <1>1. ApcType /\ Kept /\ Counts
    BY Underway
  <1>2. PICK j : j = Apc!NoRun
    OBVIOUS
  <1>3. /\ pc'[c] = l /\ job'[c] = j
        /\ \A o \in Clis \ {c} : pc'[o] = pc[o] /\ job'[o] = job[o]
        /\ Terminals'
    <2>1. pc' = [pc EXCEPT ![c] = l] /\ job' = [job EXCEPT ![c] = j]
      BY <1>2 DEF Apc!End, Apc!Goto, Apc!Set
    <2> QED BY <2>1, <1>1, Goes
  <1>4. Apc!Idle(c)' /\ Terminal(c)'
    BY <1>2, <1>3, Ended
  <1>5. \A o \in Clis \ {c} : ~Apc!Idle(o) =>
          raced[o] \subseteq raced'[o] /\ things \subseteq raced'[o]
    BY <1>3, Touched
  <1>6. Kept'
    BY <1>1, Constants DEF Kept
  <1>7. Counts'
    <2>1. Unpushed' \subseteq Unpushed
      BY <1>1, <1>3, UnpushedKept
    <2> QED BY <2>1, <1>1, CountsKept
  <1> QED BY <1>3, <1>4, <1>5, <1>6, <1>7, OneErrand

LEMMA OverQuietly ==
  ASSUME ApcInv, NEW c \in Clis, ~Apc!Idle(c), Apc!End(c, "idle"), Apc!Touch(c, {}),
         UNCHANGED <<byo, dep, pushed, latest, tagged, code, tar, gz, minute, begun>>
  PROVE  ApcInv'
  <1>1. PICK things : things = {}
    OBVIOUS
  <1>2. Apc!Touch(c, things)
    BY <1>1
  <1>3. Kept
    BY Underway
  <1>4. /\ Listed' /\ tar' = [w \in Checkouts |-> tar'[w]] /\ gz' = [w \in Checkouts |-> gz'[w]]
    BY <1>3 DEF Kept, Listed
  <1> QED BY <1>2, <1>4, Over

\* The packed files that a deploy removes are its checkout's.
LEMMA Cleaned ==
  ASSUME Kept, NEW c \in Clis, NEW made, Apc!Clean(c, made)
  PROVE  /\ tar' = [w \in Checkouts |-> tar'[w]] /\ gz' = [w \in Checkouts |-> gz'[w]]
         /\ UNCHANGED <<latest, tagged, code>>
         /\ \A w \in Checkouts : w = job[c].w \/ (tar'[w] = tar[w] /\ gz'[w] = gz[w])
  BY DEF Kept, Apc!Clean

\* What a platform may take, with what it has.
LEMMA MayTake ==
  ASSUME Kept, NEW c \in Clis, job[c].d \in Deployments, Apc!Take(c) \/ UNCHANGED dep
  PROVE  /\ Listed'
         /\ \A x \in Deployments : /\ dep'[x].image = dep[x].image
                                   /\ dep'[x].version = dep[x].version
                                   /\ dep'[x].next = dep[x].next
  <1>1. CASE UNCHANGED dep
    BY <1>1 DEF Kept, Listed
  <1>2. CASE Apc!Take(c)
    <2>1. PICK d, b : d = job[c].d /\ dep' = [dep EXCEPT ![d].dags = b]
      BY <1>2 DEF Apc!Take
    <2> QED BY <2>1, Taken
  <1> QED BY <1>1, <1>2

LEMMA FailStep ==
  ASSUME ApcInv, NEW c \in Clis, Apc!Fail(c)
  PROVE  ApcInv'
  <1>1. ~Apc!Idle(c)
    BY DEF Apc!Fail, Apc!Idle
  <1>2. Apc!End(c, "idle") /\ Apc!Touch(c, {})
    BY DEF Apc!Fail
  <1>3. UNCHANGED <<byo, dep, pushed, latest, tagged, code, tar, gz, minute, begun>>
    BY DEF Apc!Fail, Apc!platform, Apc!local, Apc!bounds
  <1> QED BY <1>1, <1>2, <1>3, OverQuietly

LEMMA KilledStep ==
  ASSUME ApcInv, NEW c \in Clis, Apc!Killed(c)
  PROVE  ApcInv'
  <1>1. ~Apc!Idle(c)
    BY DEF Apc!Killed, Apc!Idle
  <1>2. Apc!End(c, "idle") /\ Apc!Touch(c, {})
    BY DEF Apc!Killed
  <1>3. UNCHANGED <<byo, dep, pushed, latest, tagged, code, tar, gz, minute, begun>>
    BY DEF Apc!Killed, Apc!platform, Apc!local, Apc!bounds
  <1> QED BY <1>1, <1>2, <1>3, OverQuietly

LEMMA FailCleaningStep ==
  ASSUME ApcInv, NEW c \in Clis, Apc!FailCleaning(c)
  PROVE  ApcInv'
  <1>1. ~Apc!Idle(c) /\ Apc!End(c, "idle")
    BY DEF Apc!FailCleaning, Apc!Idle
  <1>2. Kept /\ job[c].d \in Deployments /\ job[c].w \in Checkouts
    BY <1>1, Underway
  <1>3. UNCHANGED <<byo, dep, pushed, minute, begun>>
    BY DEF Apc!FailCleaning, Apc!platform, Apc!bounds
  <1>4. PICK made : Apc!Clean(c, made)
    BY DEF Apc!FailCleaning
  <1>5. /\ tar' = [w \in Checkouts |-> tar'[w]] /\ gz' = [w \in Checkouts |-> gz'[w]]
        /\ UNCHANGED <<latest, tagged, code>>
        /\ \A w \in Checkouts : w = job[c].w \/ (tar'[w] = tar[w] /\ gz'[w] = gz[w])
    BY <1>2, <1>4, Cleaned
  <1>6. PICK things : things = {<<"file", job[c].w>>}
    OBVIOUS
  <1>7. Apc!Touch(c, things)
    BY <1>6 DEF Apc!FailCleaning, Apc!File
  <1>8. \A w \in Checkouts :
          \/ tar'[w] = tar[w] /\ gz'[w] = gz[w]
          \/ <<"file", w>> \in things
    BY <1>5, <1>6
  <1>9. Listed'
    BY <1>2, <1>3 DEF Kept, Listed
  <1> QED BY <1>1, <1>3, <1>5, <1>7, <1>8, <1>9, Over

LEMMA UploadSucceedsStep ==
  ASSUME ApcInv, NEW c \in Clis, Apc!UploadSucceeds(c)
  PROVE  ApcInv'
  <1>1. ~Apc!Idle(c) /\ Apc!End(c, "done")
    BY DEF Apc!UploadSucceeds, Apc!Idle
  <1>2. Kept /\ job[c].d \in Deployments /\ job[c].w \in Checkouts
    BY <1>1, Underway
  <1>3. UNCHANGED <<byo, pushed, minute, begun>>
    BY DEF Apc!UploadSucceeds, Apc!bounds
  <1>4. /\ Listed'
        /\ \A x \in Deployments : /\ dep'[x].image = dep[x].image
                                  /\ dep'[x].version = dep[x].version
                                  /\ dep'[x].next = dep[x].next
    BY <1>2, MayTake DEF Apc!UploadSucceeds
  <1>5. /\ tar' = [w \in Checkouts |-> tar'[w]] /\ gz' = [w \in Checkouts |-> gz'[w]]
        /\ UNCHANGED <<latest, tagged, code>>
        /\ \A w \in Checkouts : w = job[c].w \/ (tar'[w] = tar[w] /\ gz'[w] = gz[w])
    BY <1>2, Cleaned DEF Apc!UploadSucceeds
  <1>6. PICK things : things = {<<"dags", job[c].d>>, <<"file", job[c].w>>}
    OBVIOUS
  <1>7. Apc!Touch(c, things)
    BY <1>6 DEF Apc!UploadSucceeds, Apc!File
  <1>8. \A w \in Checkouts :
          \/ tar'[w] = tar[w] /\ gz'[w] = gz[w]
          \/ <<"file", w>> \in things
    BY <1>5, <1>6
  <1> QED BY <1>1, <1>3, <1>4, <1>5, <1>7, <1>8, Over

\* An attempt that did not succeed: the last one, or another follows.
LEMMA AgainStep ==
  ASSUME ApcInv, NEW c \in Clis, pc[c] = "upload", NEW sent \in BOOLEAN, NEW cut \in BOOLEAN,
         Apc!Again(c, sent, cut), sent => cut
  PROVE  ApcInv'
  <1>1. ~Apc!Idle(c)
    BY DEF Apc!Idle
  <1>2. /\ ApcType /\ Kept /\ Counts /\ Terminal(c) /\ Errand(c) /\ OnErrand(c)
        /\ job[c].d \in Deployments /\ job[c].w \in Checkouts
    BY <1>1, Underway
  <1>3. UNCHANGED <<byo, pushed, minute, begun>>
    BY DEF Apc!Again, Apc!bounds
  <1>4. /\ Listed'
        /\ \A x \in Deployments : /\ dep'[x].image = dep[x].image
                                  /\ dep'[x].version = dep[x].version
                                  /\ dep'[x].next = dep[x].next
    BY <1>2, MayTake DEF Apc!Again
  <1>5. PICK things : things = {<<"dags", job[c].d>>, <<"file", job[c].w>>}
    OBVIOUS
  <1>6. Apc!Touch(c, things)
    BY <1>5 DEF Apc!Again, Apc!File
  <1>7. CASE Apc!Clean(c, TRUE) /\ Apc!End(c, "idle")
    <2>1. /\ tar' = [w \in Checkouts |-> tar'[w]] /\ gz' = [w \in Checkouts |-> gz'[w]]
          /\ UNCHANGED <<latest, tagged, code>>
          /\ \A w \in Checkouts : w = job[c].w \/ (tar'[w] = tar[w] /\ gz'[w] = gz[w])
      BY <1>2, <1>7, Cleaned
    <2>2. \A w \in Checkouts :
            \/ tar'[w] = tar[w] /\ gz'[w] = gz[w]
            \/ <<"file", w>> \in things
      BY <2>1, <1>5
    <2> QED BY <2>1, <2>2, <1>1, <1>3, <1>4, <1>6, <1>7, Over
  <1>8. CASE /\ Apc!Set(c, [job[c] EXCEPT !.tries = @ + 1, !.spent = sent, !.lost = @ \/ cut])
             /\ UNCHANGED <<latest, tagged, code, tar, gz, pc>>
    <2>1. PICK b \in BOOLEAN : b = (job[c].lost \/ cut)
      BY <1>2 DEF Terminal
    <2>2. PICK j : j = [job[c] EXCEPT !.tries = @ + 1, !.spent = sent, !.lost = @ \/ cut]
      OBVIOUS
    <2>3. j = [kind |-> job[c].kind, d |-> job[c].d, w |-> job[c].w,
                custom |-> job[c].custom, ref |-> job[c].ref, own |-> job[c].own,
                dags |-> job[c].dags, spent |-> sent, lost |-> b, tries |-> j.tries]
      BY <2>1, <2>2, <1>2 DEF Terminal
    <2>4. pc' = [pc EXCEPT ![c] = "upload"] /\ job' = [job EXCEPT ![c] = j]
      BY <2>2, <1>2, <1>8 DEF Apc!Set, ApcType, Terminals
    <2>5. /\ pc'[c] = "upload" /\ job'[c] = j
          /\ \A o \in Clis \ {c} : pc'[o] = pc[o] /\ job'[o] = job[o]
          /\ Terminals'
      BY <2>4, <1>2, Goes
    <2>6. /\ \A o \in Clis \ {c} : ~Apc!Idle(o) =>
               raced[o] \subseteq raced'[o] /\ things \subseteq raced'[o]
          /\ raced'[c] = raced[c]
      BY <2>5, <1>6, Touched
    <2>7. Kept'
      BY <1>2, <1>3, <1>4, <1>8, Constants DEF Kept
    <2>8. Counts'
      <3>1. Unpushed' = Unpushed
        BY <1>8 DEF Unpushed
      <3> QED BY <3>1, <1>2, <1>3, <1>4, CountsKept
    <2>9. Terminal(c)'
      BY <2>3, <2>5 DEF Terminal, OnFiles
    <2>10. Errand(c)'
      <3>1. OnErrand(c)'
        BY <2>3, <2>5, <1>2, <1>3, Constants DEF OnErrand, OnImage, OnFiles
      <3>2. ImageToItself(c)' => ImageSoFar(c)'
        BY <2>3, <2>5, <2>6, <1>2, <1>3, <1>4, ImageStays DEF OnFiles
      <3>3. ASSUME FilesToItself(c)'
            PROVE  FilesSoFar(c)'
        <4>1. FilesToItself(c)
          BY <3>3, <2>3, <2>5, <2>6 DEF FilesToItself, Apc!Alone
        <4>2. job[c].dags \in Apc!Made /\ gz[job[c].w] = job[c].dags
          BY <4>1, <1>2 DEF Errand, FilesSoFar
        <4>3. sent => b
          BY <2>1
        <4> QED BY <4>2, <4>3, <2>3, <2>5, <1>8, Constants DEF FilesSoFar
      <3> QED BY <3>1, <3>2, <3>3, <2>5 DEF Errand
    <2> QED BY <2>5, <2>6, <2>7, <2>8, <2>9, <2>10, <1>3, <1>4, <1>8, OneErrand
  <1> QED BY <1>7, <1>8 DEF Apc!Again, Apc!local

LEMMA ServerFailsStep ==
  ASSUME ApcInv, NEW c \in Clis, Apc!ServerFails(c)
  PROVE  ApcInv'
  BY AgainStep DEF Apc!ServerFails

LEMMA ConnectionFailsStep ==
  ASSUME ApcInv, NEW c \in Clis, Apc!ConnectionFails(c)
  PROVE  ApcInv'
  BY AgainStep DEF Apc!ConnectionFails

\* A command begins with nothing of its own.
LEMMA BeginStep ==
  ASSUME ApcInv, NEW c \in Clis, Apc!Begin(c)
  PROVE  ApcInv'
  <1>1. Apc!Idle(c) /\ begun < MaxCommands /\ begun' = begun + 1
    BY DEF Apc!Begin
  <1>2. ApcType /\ Kept /\ Counts /\ Terminal(c)
    BY DEF ApcInv, ApcType, Terminals
  <1>3. UNCHANGED <<byo, dep, pushed, latest, tagged, code, tar, gz, minute, raced>>
    BY DEF Apc!Begin, Apc!platform, Apc!local
  <1>4. PICK q \in Orders :
          /\ Apc!Set(c, [Apc!NoRun EXCEPT !.kind = q.kind, !.d = q.d, !.w = q.w,
                                          !.custom = q.custom])
          /\ Apc!Goto(c, IF q.kind \in {"dags", "remote"} THEN q.kind ELSE "info")
    BY DEF Apc!Begin
  <1>5. PICK j : j = [Apc!NoRun EXCEPT !.kind = q.kind, !.d = q.d, !.w = q.w,
                                       !.custom = q.custom]
    OBVIOUS
  <1>6. PICK l \in {"dags", "remote", "info"} :
          /\ l = IF q.kind \in {"dags", "remote"} THEN q.kind ELSE "info"
    OBVIOUS
  <1>7. j = [kind |-> q.kind, d |-> q.d, w |-> q.w, custom |-> q.custom, ref |-> Nothing,
             own |-> Nothing, dags |-> Nothing, spent |-> FALSE, lost |-> FALSE, tries |-> 0]
    BY <1>5 DEF Apc!NoRun
  <1>8. /\ pc'[c] = l /\ job'[c] = j
        /\ \A o \in Clis \ {c} : pc'[o] = pc[o] /\ job'[o] = job[o]
        /\ Terminals'
    <2>1. pc' = [pc EXCEPT ![c] = l] /\ job' = [job EXCEPT ![c] = j]
      BY <1>4, <1>5, <1>6 DEF Apc!Set, Apc!Goto
    <2> QED BY <2>1, <1>2, Goes
  <1>9. /\ q.kind \in Apc!Kinds /\ q.d \in Deployments /\ q.w \in Checkouts
        /\ q.custom \in Custom \cup {Nothing}
    BY ApcSound DEF Apc!Sound
  <1>10. Kept'
    BY <1>2, <1>3, KeptSame
  <1>11. Counts'
    <2>1. Unpushed' \subseteq Unpushed \cup {c} /\ c \notin Unpushed
      BY <1>1, <1>8 DEF Unpushed, Apc!Idle
    <2>2. /\ IsFiniteSet(Unpushed \cup {c})
          /\ Cardinality(Unpushed \cup {c}) = Cardinality(Unpushed) + 1
      BY <2>1, Finite, FS_AddElement
    <2>3. Cardinality(Unpushed') <= Cardinality(Unpushed) + 1 /\ Cardinality(Unpushed') \in Nat
      BY <2>1, <2>2, FS_Subset, FS_CardinalityType
    <2>4. begun \in 0..MaxCommands /\ MaxCommands \in Nat /\ minute \in 0..MaxTime
      BY <1>2, ApcSound DEF Counts, Apc!Sound
    <2>5. ASSUME NEW d \in Deployments
          PROVE  dep'[d].next \in Nat /\ dep'[d].next + Cardinality(Unpushed') <= begun'
      <3>1. dep[d].next \in Nat /\ dep[d].next + Cardinality(Unpushed) <= begun
        BY <1>2 DEF Counts
      <3> QED BY <3>1, <2>3, <2>4, <1>1, <1>3, Finite
    <2>6. begun' \in 0..MaxCommands /\ minute' \in 0..MaxTime
      BY <2>4, <1>1, <1>3
    <2> QED BY <2>5, <2>6 DEF Counts
  <1>12. Terminal(c)'
    BY <1>7, <1>8 DEF Terminal, OnImage, OnFiles
  <1>13. Errand(c)'
    <2>1. OnErrand(c)'
      BY <1>6, <1>7, <1>8, <1>9 DEF OnErrand, OnImage, OnFiles, Apc!Kinds
    <2>2. ~ImageToItself(c)'
      BY <1>6, <1>7, <1>8 DEF ImageToItself
    <2>3. FilesSoFar(c)'
      BY <1>8 DEF FilesSoFar
    <2> QED BY <2>1, <2>2, <2>3, <1>7, <1>8 DEF Errand
  <1> QED BY <1>3, <1>8, <1>10, <1>11, <1>12, <1>13, QuietErrand

LEMMA EditStep ==
  ASSUME ApcInv, NEW w \in Checkouts, Apc!Edit(w)
  PROVE  ApcInv'
  <1>1. UNCHANGED <<byo, dep, pushed, latest, tagged, tar, gz, minute, pc, job, raced, begun>>
    BY DEF Apc!Edit, Apc!platform, Apc!bounds
  <1>2. code' = [code EXCEPT ![w] = @ + 1] /\ code[w] < MaxEdits
    BY DEF Apc!Edit
  <1>3. Kept /\ Counts /\ MaxEdits \in Nat
    BY ApcSound DEF ApcInv, ApcType, Terminals, Apc!Sound
  <1>4. code' \in [Checkouts -> 0..MaxEdits]
    BY <1>2, <1>3 DEF Kept
  <1>5. Listed'
    BY <1>1, <1>3 DEF Kept, Listed
  <1>6. Kept'
    BY <1>1, <1>3, <1>4, <1>5, Constants DEF Kept
  <1>7. Counts'
    <2>1. Unpushed' = Unpushed
      BY <1>1 DEF Unpushed
    <2> QED BY <2>1, <1>1, <1>3, CountsKept
  <1>8. /\ Terminals'
        /\ \A c \in Clis : Terminal(c)'
    BY <1>1 DEF ApcInv, ApcType, Terminals, Terminal
  <1>9. ASSUME NEW c \in Clis, ~Apc!Idle(c)'
        PROVE  Errand(c)'
    <2>1. Errand(c)
      BY <1>1, <1>9 DEF ApcInv, Apc!Idle
    <2> QED BY <2>1, <1>1, OthersErrand
  <1> QED BY <1>6, <1>7, <1>8, <1>9 DEF ApcInv, ApcType, Terminals

LEMMA TickStep ==
  ASSUME ApcInv, Apc!Tick
  PROVE  ApcInv'
  <1>1. UNCHANGED <<byo, dep, pushed, latest, tagged, code, tar, gz, pc, job, raced, begun>>
    BY DEF Apc!Tick, Apc!platform, Apc!local, Apc!bounds
  <1>2. minute' = minute + 1 /\ minute < MaxTime
    BY DEF Apc!Tick
  <1>3. Kept /\ Counts /\ MaxTime \in Nat
    BY ApcSound DEF ApcInv, ApcType, Terminals, Apc!Sound
  <1>4. Kept'
    BY <1>1, <1>3, KeptSame
  <1>5. Counts'
    <2>1. Unpushed' = Unpushed
      BY <1>1 DEF Unpushed
    <2>2. minute' \in 0..MaxTime
      BY <1>2, <1>3 DEF Counts
    <2> QED BY <2>1, <2>2, <1>1, <1>3 DEF Counts
  <1>6. /\ Terminals'
        /\ \A c \in Clis : Terminal(c)'
    BY <1>1 DEF ApcInv, ApcType, Terminals, Terminal
  <1>7. ASSUME NEW c \in Clis, ~Apc!Idle(c)'
        PROVE  Errand(c)'
    <2>1. Errand(c)
      BY <1>1, <1>7 DEF ApcInv, Apc!Idle
    <2> QED BY <2>1, <1>1, OthersErrand
  <1> QED BY <1>4, <1>5, <1>6, <1>7 DEF ApcInv, ApcType, Terminals

LEMMA ApcIdles == ASSUME ApcInv, UNCHANGED Apc!vars PROVE ApcInv'
  <1>1. UNCHANGED <<byo, dep, pushed, latest, tagged, code, tar, gz, minute, pc, job, raced,
                    begun>>
    BY DEF Apc!vars, Apc!platform, Apc!local, Apc!bounds
  <1>2. Kept' /\ Counts'
    <2>1. Kept /\ Counts
      BY DEF ApcInv, ApcType, Terminals
    <2>2. Unpushed' = Unpushed
      BY <1>1 DEF Unpushed
    <2> QED BY <2>1, <2>2, <1>1, KeptSame, CountsKept
  <1>3. /\ Terminals'
        /\ \A c \in Clis : Terminal(c)'
    BY <1>1 DEF ApcInv, ApcType, Terminals, Terminal
  <1>4. ASSUME NEW c \in Clis, ~Apc!Idle(c)'
        PROVE  Errand(c)'
    <2>1. Errand(c)
      BY <1>1, <1>4 DEF ApcInv, Apc!Idle
    <2> QED BY <2>1, <1>1, OthersErrand
  <1> QED BY <1>2, <1>3, <1>4 DEF ApcInv, ApcType, Terminals

LEMMA ApcStep == ASSUME ApcInv, [Apc!Next]_Apc!vars PROVE ApcInv'
  <1>1. ASSUME NEW c \in Clis,
               \/ Apc!Begin(c) \/ Apc!GetInfo(c) \/ Apc!BuildImage(c)
               \/ Apc!TagImage(c) \/ Apc!PushImage(c) \/ Apc!UntagImage(c)
               \/ Apc!UpdateImage(c) \/ Apc!UpdateRemote(c) \/ Apc!CheckDags(c)
               \/ Apc!TarDags(c) \/ Apc!CreateGzip(c) \/ Apc!FillGzip(c)
               \/ Apc!OpenFile(c) \/ Apc!UploadSucceeds(c) \/ Apc!ServerFails(c)
               \/ Apc!ConnectionFails(c) \/ Apc!Fail(c) \/ Apc!FailCleaning(c)
               \/ Apc!Killed(c)
        PROVE  ApcInv'
    <2>1. CASE Apc!Begin(c)
      BY <2>1, BeginStep
    <2>2. CASE Apc!GetInfo(c)
      BY <2>2, GetInfoStep
    <2>3. CASE Apc!BuildImage(c)
      BY <2>3, BuildImageStep
    <2>4. CASE Apc!TagImage(c)
      BY <2>4, TagImageStep
    <2>5. CASE Apc!PushImage(c)
      BY <2>5, PushImageStep
    <2>6. CASE Apc!UntagImage(c)
      BY <2>6, UntagImageStep
    <2>7. CASE Apc!UpdateImage(c)
      BY <2>7, UpdateImageStep
    <2>8. CASE Apc!UpdateRemote(c)
      BY <2>8, UpdateRemoteStep
    <2>9. CASE Apc!CheckDags(c)
      BY <2>9, CheckDagsStep
    <2>10. CASE Apc!TarDags(c)
      BY <2>10, TarDagsStep
    <2>11. CASE Apc!CreateGzip(c)
      BY <2>11, CreateGzipStep
    <2>12. CASE Apc!FillGzip(c)
      BY <2>12, FillGzipStep
    <2>13. CASE Apc!OpenFile(c)
      BY <2>13, OpenFileStep
    <2>14. CASE Apc!UploadSucceeds(c)
      BY <2>14, UploadSucceedsStep
    <2>15. CASE Apc!ServerFails(c)
      BY <2>15, ServerFailsStep
    <2>16. CASE Apc!ConnectionFails(c)
      BY <2>16, ConnectionFailsStep
    <2>17. CASE Apc!Fail(c)
      BY <2>17, FailStep
    <2>18. CASE Apc!FailCleaning(c)
      BY <2>18, FailCleaningStep
    <2>19. CASE Apc!Killed(c)
      BY <2>19, KilledStep
    <2> QED BY <1>1, <2>1, <2>2, <2>3, <2>4, <2>5, <2>6, <2>7, <2>8, <2>9, <2>10, <2>11, <2>12,
               <2>13, <2>14, <2>15, <2>16, <2>17, <2>18, <2>19
  <1>2. ASSUME NEW w \in Checkouts, Apc!Edit(w) PROVE ApcInv'
    BY <1>2, EditStep
  <1>3. CASE Apc!Tick
    BY <1>3, TickStep
  <1>4. CASE UNCHANGED Apc!vars
    BY <1>4, ApcIdles
  <1> QED BY <1>1, <1>2, <1>3, <1>4 DEF Apc!Next

-----------------------------------------------------------------------------
\* What is due when a deploy reports success: of its image, and of its DAGs.
ImageDue(c) ==
  LET j == job[c] IN
  /\ j.kind \in {"full", "image"}
  /\ byo \/ j.ref.of # Nothing
  /\ Apc!Alone(c, {<<"latest", j.d>>, <<"tag", j.ref>>, <<"image", j.d>>})
DagsDue(c) ==
  LET j == job[c] IN
  /\ j.kind \in {"full", "dags"} /\ dagDeploys /\ j.d \in TakesDags
  /\ ~j.lost /\ Apc!Alone(c, {<<"file", j.w>>, <<"dags", j.d>>})
Delivered(c) ==
  /\ ImageDue(c) => Apc!ImageArrived(c)
  /\ DagsDue(c) => dep'[job[c].d].dags \in Apc!Made /\ dep'[job[c].d].dags = job[c].dags

\* A deploy of an image alone ends with its name.
LEMMA UntagDelivers ==
  ASSUME ApcInv, NEW c \in Clis, Apc!UntagImage(c), pc'[c] = "done"
  PROVE  Delivered(c)
  <1>1. pc[c] = "untag" /\ ~Apc!Idle(c)
    BY DEF Apc!UntagImage, Apc!Idle
  <1>2. ApcType /\ Errand(c)
    BY <1>1, Underway
  <1>3. UNCHANGED dep
    BY DEF Apc!UntagImage, Apc!platform
  <1>4. ~byo /\ job[c].kind = "image"
    BY <1>2 DEF Apc!UntagImage, Apc!AfterImage, Apc!Goto, ApcType, Terminals
  <1>5. ASSUME ImageDue(c)
        PROVE  Apc!ImageArrived(c)
    <2>1. ImageToItself(c)
      BY <1>1, <1>5 DEF ImageDue, ImageToItself
    <2>2. Arrived(c)
      BY <2>1, <1>1, <1>2, <1>4 DEF Errand, ImageSoFar
    <2> QED BY <2>2, <1>3 DEF Arrived, Apc!ImageArrived
  <1> QED BY <1>4, <1>5 DEF Delivered, DagsDue

\* Or, where the platform has to be told, with that.
LEMMA UpdateDelivers ==
  ASSUME ApcInv, NEW c \in Clis, Apc!UpdateImage(c), pc'[c] = "done"
  PROVE  Delivered(c)
  <1>1. pc[c] = "update" /\ ~Apc!Idle(c)
    BY DEF Apc!UpdateImage, Apc!Idle
  <1>2. ApcType /\ Kept /\ Errand(c) /\ job[c].d \in Deployments
    BY <1>1, Underway
  <1>3. job[c].kind = "image"
    BY <1>2 DEF Apc!UpdateImage, Apc!AfterImage, Apc!Goto, ApcType, Terminals
  <1>4. PICK d, r, v :
          /\ d = job[c].d /\ r = job[c].ref /\ v \in {latest[job[c].d], Nothing}
          /\ dep' = [dep EXCEPT ![d].image = r, ![d].version = v]
    BY DEF Apc!UpdateImage
  <1>5. dep'[d].image = r /\ dep'[d].version = v
    <2>1. d \in Deployments /\ Kept
      BY <1>2, <1>4
    <2>2. DOMAIN dep = Deployments /\ DOMAIN dep[d] = {"image", "version", "next", "dags"}
      BY <2>1 DEF Kept, Listed
    <2> QED BY <2>1, <2>2, <1>4
  <1>6. ASSUME ImageDue(c)
        PROVE  Apc!ImageArrived(c)
    <2>1. ImageToItself(c)
      BY <1>1, <1>6 DEF ImageDue, ImageToItself
    <2>2. latest[job[c].d] = job[c].own /\ pushed[job[c].ref] = job[c].own
      BY <2>1, <1>1, <1>2 DEF Errand, ImageSoFar
    <2> QED BY <2>2, <1>4, <1>5 DEF Apc!ImageArrived
  <1> QED BY <1>3, <1>6 DEF Delivered, DagsDue

\* Where DAGs cannot be deployed alone, there are none due.
LEMMA CheckDelivers ==
  ASSUME ApcInv, NEW c \in Clis, Apc!CheckDags(c), pc'[c] = "done"
  PROVE  Delivered(c)
  <1>1. pc[c] = "dags" /\ ~Apc!Idle(c)
    BY DEF Apc!CheckDags, Apc!Idle
  <1>2. ApcType /\ Errand(c)
    BY <1>1, Underway
  <1>3. UNCHANGED dep
    BY DEF Apc!CheckDags, Apc!platform
  <1>4. ~(dagDeploys /\ job[c].d \in TakesDags)
    BY <1>2 DEF Apc!CheckDags, Apc!Goto, ApcType, Terminals
  <1>5. ASSUME ImageDue(c)
        PROVE  Apc!ImageArrived(c)
    <2>1. ImageToItself(c)
      BY <1>1, <1>5 DEF ImageDue, ImageToItself
    <2>2. Arrived(c)
      BY <2>1, <1>1, <1>2 DEF Errand, ImageSoFar, OnFiles
    <2> QED BY <2>2, <1>3 DEF Arrived, Apc!ImageArrived
  <1> QED BY <1>4, <1>5 DEF Delivered, DagsDue

\* What is taken of a file that nobody has touched is what was packed.
LEMMA UploadDelivers ==
  ASSUME ApcInv, NEW c \in Clis, Apc!UploadSucceeds(c)
  PROVE  Delivered(c)
  <1>1. pc[c] = "upload" /\ ~Apc!Idle(c)
    BY DEF Apc!UploadSucceeds, Apc!Idle
  <1>2. Kept /\ Errand(c) /\ job[c].d \in Deployments
    BY <1>1, Underway
  <1>3. PICK d, b : /\ d = job[c].d /\ b \in Apc!Bodies(c)
                    /\ dep' = [dep EXCEPT ![d].dags = b]
    BY DEF Apc!UploadSucceeds, Apc!Take
  <1>4. /\ dep'[d].image = dep[d].image /\ dep'[d].version = dep[d].version
        /\ dep'[d].dags = b
    <2>1. d \in Deployments /\ dep' = [dep EXCEPT ![d].dags = b] /\ Kept
      BY <1>2, <1>3
    <2> QED BY <2>1, Taken
  <1>5. ASSUME ImageDue(c)
        PROVE  Apc!ImageArrived(c)
    <2>1. ImageToItself(c)
      BY <1>1, <1>5 DEF ImageDue, ImageToItself
    <2>2. Arrived(c)
      BY <2>1, <1>1, <1>2 DEF Errand, ImageSoFar, OnFiles
    <2> QED BY <2>2, <1>3, <1>4 DEF Arrived, Apc!ImageArrived
  <1>6. ASSUME DagsDue(c)
        PROVE  b \in Apc!Made /\ b = job[c].dags
    <2>1. FilesToItself(c) /\ ~job[c].lost
      BY <1>6 DEF DagsDue, FilesToItself, Apc!Alone
    <2>2. /\ job[c].dags \in Apc!Made /\ gz[job[c].w] = job[c].dags
          /\ ~job[c].spent
      BY <2>1, <1>1, <1>2 DEF Errand, FilesSoFar
    <2> QED BY <2>2, <1>3 DEF Apc!Bodies, Apc!Opened
  <1> QED BY <1>3, <1>4, <1>5, <1>6 DEF Delivered

\* Nothing else ends with success.
LEMMA Delivers ==
  ASSUME ApcInv, [Apc!Next]_Apc!vars, NEW c \in Clis, ~Apc!Idle(c), pc'[c] = "done"
  PROVE  Delivered(c)
  <1>1. ApcType /\ OnErrand(c)
    BY Underway
  <1>2. ASSUME NEW o \in Clis, o # c,
               \/ Apc!Begin(o) \/ Apc!GetInfo(o) \/ Apc!BuildImage(o)
               \/ Apc!TagImage(o) \/ Apc!PushImage(o) \/ Apc!UntagImage(o)
               \/ Apc!UpdateImage(o) \/ Apc!UpdateRemote(o) \/ Apc!CheckDags(o)
               \/ Apc!TarDags(o) \/ Apc!CreateGzip(o) \/ Apc!FillGzip(o)
               \/ Apc!OpenFile(o) \/ Apc!UploadSucceeds(o) \/ Apc!ServerFails(o)
               \/ Apc!ConnectionFails(o) \/ Apc!Fail(o) \/ Apc!FailCleaning(o)
               \/ Apc!Killed(o)
        PROVE  FALSE
    <2>1. CASE Apc!Begin(o)
      BY <1>1, <1>2, <2>1 DEF Apc!Begin, Apc!Goto, Apc!Idle, ApcType, Terminals
    <2>2. CASE Apc!GetInfo(o)
      BY <1>1, <1>2, <2>2 DEF Apc!GetInfo, Apc!Goto, Apc!Idle, ApcType, Terminals
    <2>3. CASE Apc!BuildImage(o)
      BY <1>1, <1>2, <2>3 DEF Apc!BuildImage, Apc!Goto, Apc!Idle, ApcType, Terminals
    <2>4. CASE Apc!TagImage(o)
      BY <1>1, <1>2, <2>4 DEF Apc!TagImage, Apc!Goto, Apc!Idle, ApcType, Terminals
    <2>5. CASE Apc!PushImage(o)
      BY <1>1, <1>2, <2>5 DEF Apc!PushImage, Apc!Goto, Apc!Idle, ApcType, Terminals
    <2>6. CASE Apc!UntagImage(o)
      BY <1>1, <1>2, <2>6 DEF Apc!UntagImage, Apc!AfterImage, Apc!End, Apc!Goto, Apc!Idle,
         ApcType, Terminals
    <2>7. CASE Apc!UpdateImage(o)
      BY <1>1, <1>2, <2>7 DEF Apc!UpdateImage, Apc!AfterImage, Apc!End, Apc!Goto, Apc!Idle,
         ApcType, Terminals
    <2>8. CASE Apc!UpdateRemote(o)
      BY <1>1, <1>2, <2>8 DEF Apc!UpdateRemote, Apc!End, Apc!Goto, Apc!Idle, ApcType, Terminals
    <2>9. CASE Apc!CheckDags(o)
      BY <1>1, <1>2, <2>9 DEF Apc!CheckDags, Apc!End, Apc!Goto, Apc!Idle, ApcType, Terminals
    <2>10. CASE Apc!TarDags(o)
      BY <1>1, <1>2, <2>10 DEF Apc!TarDags, Apc!Goto, Apc!Idle, ApcType, Terminals
    <2>11. CASE Apc!CreateGzip(o)
      BY <1>1, <1>2, <2>11 DEF Apc!CreateGzip, Apc!Goto, Apc!Idle, ApcType, Terminals
    <2>12. CASE Apc!FillGzip(o)
      BY <1>1, <1>2, <2>12 DEF Apc!FillGzip, Apc!Goto, Apc!Idle, ApcType, Terminals
    <2>13. CASE Apc!OpenFile(o)
      BY <1>1, <1>2, <2>13 DEF Apc!OpenFile, Apc!Goto, Apc!Idle, ApcType, Terminals
    <2>14. CASE Apc!UploadSucceeds(o)
      BY <1>1, <1>2, <2>14 DEF Apc!UploadSucceeds, Apc!End, Apc!Goto, Apc!Idle, ApcType, Terminals
    <2>15. CASE Apc!ServerFails(o)
      BY <1>1, <1>2, <2>15 DEF Apc!ServerFails, Apc!Again, Apc!End, Apc!Goto, Apc!Idle, ApcType,
         Terminals
    <2>16. CASE Apc!ConnectionFails(o)
      BY <1>1, <1>2, <2>16 DEF Apc!ConnectionFails, Apc!Again, Apc!End, Apc!Goto, Apc!Idle,
         ApcType, Terminals
    <2>17. CASE Apc!Fail(o)
      BY <1>1, <1>2, <2>17 DEF Apc!Fail, Apc!End, Apc!Goto, Apc!Idle, ApcType, Terminals
    <2>18. CASE Apc!FailCleaning(o)
      BY <1>1, <1>2, <2>18 DEF Apc!FailCleaning, Apc!End, Apc!Goto, Apc!Idle, ApcType, Terminals
    <2>19. CASE Apc!Killed(o)
      BY <1>1, <1>2, <2>19 DEF Apc!Killed, Apc!End, Apc!Goto, Apc!Idle, ApcType, Terminals
    <2> QED BY <1>2, <2>1, <2>2, <2>3, <2>4, <2>5, <2>6, <2>7, <2>8, <2>9, <2>10, <2>11, <2>12,
               <2>13, <2>14, <2>15, <2>16, <2>17, <2>18, <2>19
  <1>3. ASSUME \/ Apc!Begin(c) \/ Apc!GetInfo(c) \/ Apc!BuildImage(c)
               \/ Apc!TagImage(c) \/ Apc!PushImage(c) \/ Apc!UntagImage(c)
               \/ Apc!UpdateImage(c) \/ Apc!UpdateRemote(c) \/ Apc!CheckDags(c)
               \/ Apc!TarDags(c) \/ Apc!CreateGzip(c) \/ Apc!FillGzip(c)
               \/ Apc!OpenFile(c) \/ Apc!UploadSucceeds(c) \/ Apc!ServerFails(c)
               \/ Apc!ConnectionFails(c) \/ Apc!Fail(c) \/ Apc!FailCleaning(c)
               \/ Apc!Killed(c)
        PROVE  Delivered(c)
    <2>1. CASE Apc!Begin(c)
      BY <2>1 DEF Apc!Begin
    <2>2. CASE Apc!GetInfo(c)
      BY <1>1, <2>2 DEF Apc!GetInfo, Apc!Goto, ApcType, Terminals
    <2>3. CASE Apc!BuildImage(c)
      BY <1>1, <2>3 DEF Apc!BuildImage, Apc!Goto, ApcType, Terminals
    <2>4. CASE Apc!TagImage(c)
      BY <1>1, <2>4 DEF Apc!TagImage, Apc!Goto, ApcType, Terminals
    <2>5. CASE Apc!PushImage(c)
      BY <1>1, <2>5 DEF Apc!PushImage, Apc!Goto, ApcType, Terminals
    <2>6. CASE Apc!UntagImage(c)
      BY <2>6, UntagDelivers
    <2>7. CASE Apc!UpdateImage(c)
      BY <2>7, UpdateDelivers
    <2>8. CASE Apc!UpdateRemote(c)
      <3>1. job[c].kind = "remote"
        BY <1>1, <2>8 DEF Apc!UpdateRemote, OnErrand
      <3> QED BY <3>1 DEF Delivered, ImageDue, DagsDue
    <2>9. CASE Apc!CheckDags(c)
      BY <2>9, CheckDelivers
    <2>10. CASE Apc!TarDags(c)
      BY <1>1, <2>10 DEF Apc!TarDags, Apc!Goto, ApcType, Terminals
    <2>11. CASE Apc!CreateGzip(c)
      BY <1>1, <2>11 DEF Apc!CreateGzip, Apc!Goto, ApcType, Terminals
    <2>12. CASE Apc!FillGzip(c)
      BY <1>1, <2>12 DEF Apc!FillGzip, Apc!Goto, ApcType, Terminals
    <2>13. CASE Apc!OpenFile(c)
      BY <1>1, <2>13 DEF Apc!OpenFile, Apc!Goto, ApcType, Terminals
    <2>14. CASE Apc!UploadSucceeds(c)
      BY <2>14, UploadDelivers
    <2>15. CASE Apc!ServerFails(c)
      BY <1>1, <2>15 DEF Apc!ServerFails, Apc!Again, Apc!End, Apc!Goto, Apc!Idle, ApcType,
         Terminals
    <2>16. CASE Apc!ConnectionFails(c)
      BY <1>1, <2>16 DEF Apc!ConnectionFails, Apc!Again, Apc!End, Apc!Goto, Apc!Idle, ApcType,
         Terminals
    <2>17. CASE Apc!Fail(c)
      BY <1>1, <2>17 DEF Apc!Fail, Apc!End, Apc!Goto, ApcType, Terminals
    <2>18. CASE Apc!FailCleaning(c)
      BY <1>1, <2>18 DEF Apc!FailCleaning, Apc!End, Apc!Goto, ApcType, Terminals
    <2>19. CASE Apc!Killed(c)
      BY <1>1, <2>19 DEF Apc!Killed, Apc!End, Apc!Goto, ApcType, Terminals
    <2> QED BY <1>3, <2>1, <2>2, <2>3, <2>4, <2>5, <2>6, <2>7, <2>8, <2>9, <2>10, <2>11, <2>12,
               <2>13, <2>14, <2>15, <2>16, <2>17, <2>18, <2>19
  <1>4. ASSUME NEW w \in Checkouts, Apc!Edit(w) PROVE FALSE
    BY <1>4 DEF Apc!Edit, Apc!Idle
  <1>5. ~Apc!Tick
    BY DEF Apc!Tick, Apc!Idle
  <1>6. ~UNCHANGED Apc!vars
    BY DEF Apc!vars, Apc!Idle
  <1> QED BY <1>2, <1>3, <1>4, <1>5, <1>6 DEF Apc!Next

\* A deploy to a Private Cloud that reports success has put what it built
\* where it was asked to, and the DAGs of its checkout, whole, if the
\* Deployment takes them (DeployArrives; src/apc/deploy/deploy.go,
\* src/pkg/fileutil/files.go).
THEOREM Arrives == Apc!Spec => DeployArrives
  <1>1. ApcInv /\ [Apc!Next]_Apc!vars => ApcInv'
    BY ApcStep
  <1>2. ASSUME ApcInv, [Apc!Next]_Apc!vars, NEW c \in Clis, ~Apc!Idle(c), pc'[c] = "done"
        PROVE  Delivered(c)
    BY <1>2, Delivers
  <1>3. ApcInv /\ [Apc!Next]_Apc!vars =>
          [\A c \in Clis :
             LET j == job[c] IN
             ~Apc!Idle(c) /\ pc'[c] = "done" =>
               /\ /\ j.kind \in {"full", "image"}
                  /\ byo \/ j.ref.of # Nothing
                  /\ Apc!Alone(c, {<<"latest", j.d>>, <<"tag", j.ref>>, <<"image", j.d>>})
                  => Apc!ImageArrived(c)
               /\ /\ j.kind \in {"full", "dags"} /\ dagDeploys /\ j.d \in TakesDags
                  /\ ~j.lost /\ Apc!Alone(c, {<<"file", j.w>>, <<"dags", j.d>>})
                  => dep'[j.d].dags \in Apc!Made /\ dep'[j.d].dags = j.dags]_Apc!vars
    BY <1>2 DEF Delivered, ImageDue, DagsDue
  <1> QED BY <1>1, <1>3, ApcStarts, PTL DEF Apc!Spec, DeployArrives, Apc!DeployArrives
=============================================================================
