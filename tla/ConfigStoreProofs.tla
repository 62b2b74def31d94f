------------------------- MODULE ConfigStoreProofs -------------------------
(***************************************************************************)
(* The safety properties of ConfigStore for any number of processes,       *)
(* domains and commands; and of what lies in the same directory, the login *)
(* that a context holds (CloudSession) and the Otto binary (OttoUpdate).   *)
(*                                                                         *)
(* The file is whole because a process writes only with the lock and only  *)
(* after its own truncation, which nothing but another truncation can      *)
(* follow.  A refresh token never outlives its access token because no     *)
(* memory holds one alone and no pending change can make it so.  A command *)
(* that meets no other keeps its promise because at every step what its    *)
(* plan still changes would make of its memory what it promised.           *)
(*                                                                         *)
(* A login fits because what a command has yet to save of it is one of a   *)
(* few plans, each of which ends in a token with an expiry of its own or an*)
(* earlier one, and a Workspace of its Organization.  The binary is whole  *)
(* because an install that is alone has to itself the inodes it unpacks to.*)
(*                                                                         *)
(* Session!Sound and Otto!Sound, which MCConfigStore assumes, say what the *)
(* constants of the last two are.                                          *)
(***************************************************************************)
EXTENDS MCConfigStore, SequenceTheorems, TLAPS

(***************************************************************************)
(* The lock.                                                               *)
(***************************************************************************)
LockInv ==
  /\ pc \in [CLIs -> Labels]
  /\ job \in [CLIs -> {"create", "migrate", "command"}]
  /\ lock \in CLIs \cup {Nothing}
  /\ \A c \in CLIs : pc[c] \in {"truncate", "write"} => lock = c
  /\ \A c \in CLIs : pc[c] = "write" => file.body = "empty"
  /\ file.body # "mixed"

LEMMA LockInit == Init => LockInv
  BY DEF Init, LockInv, Labels

LEMMA LockStep == LockInv /\ [Next]_vars => LockInv'
  <1> SUFFICES ASSUME LockInv, [Next]_vars PROVE LockInv'
    OBVIOUS
  <1> USE ConstantsAssumption DEF LockInv, Labels, Goto, Exit, SaveFailed
  <1>1. ASSUME NEW c \in CLIs,
               Start(c) \/ Read(c) \/ Reread(c) \/ Begin(c) \/ MakeChange(c) \/ Finish(c)
        PROVE  LockInv'
    BY <1>1 DEF Start, Read, Reread, Begin, MakeChange, Finish, Running
  <1>2. ASSUME NEW c \in CLIs, CreateFile(c) \/ Truncate(c)
        PROVE  LockInv'
    BY <1>2 DEF CreateFile, Truncate
  <1>3. ASSUME NEW c \in CLIs, AcquireLock(c) \/ LockTimesOut(c)
        PROVE  LockInv'
    BY <1>3 DEF AcquireLock, LockTimesOut
  <1>4. ASSUME NEW c \in CLIs, Write(c)
        PROVE  LockInv'
    BY <1>4 DEF Write
  <1>5. ASSUME NEW c \in CLIs, WriteFails(c)
        PROVE  LockInv'
    BY <1>5 DEF WriteFails
  <1>6. ASSUME NEW c \in CLIs, Killed(c)
        PROVE  LockInv'
    BY <1>6 DEF Killed, Running
  <1>7. CASE UNCHANGED vars
    BY <1>7 DEF vars
  <1> QED BY <1>1, <1>2, <1>3, <1>4, <1>5, <1>6, <1>7 DEF Next

\* However saves and creations interleave, the file never mixes two writers.
THEOREM Whole == Spec => []NeverMixed
  <1>1. LockInv => NeverMixed
    BY DEF LockInv, NeverMixed
  <1> QED BY <1>1, LockInit, LockStep, PTL DEF Spec

(***************************************************************************)
(* The credentials.                                                        *)
(***************************************************************************)
Paired(s) == s \in Settings /\ s.refresh \subseteq s.access

\* No change still to make can part the two tokens: none clears the access
\* token alone, and one that stores a refresh token follows its access token.
Pairing(t, s) ==
  /\ t \in Seq(Changes)
  /\ \A i \in 1..Len(t) :
       /\ t[i].op # "noaccess"
       /\ t[i].op = "refresh" =>
            IF i = 1 THEN t[i].domain \in s.access
                     ELSE t[i-1] = Change("access", t[i].domain)

\* Before the command itself begins.
Unplanned(c) ==
  job[c] # "command" \/ pc[c] \in {"off", "create", "read", "reread", "begin"}

TokenInv ==
  /\ Paired(file.data)
  /\ pc \in [CLIs -> Labels] /\ job \in [CLIs -> {"create", "migrate", "command"}]
  /\ cmd \in [CLIs -> Commands \cup {Idle}]
  /\ \A c \in CLIs : Running(c) => cmd[c] \in Commands
  /\ mem \in [CLIs -> Settings] /\ todo \in [CLIs -> Seq(Changes)]
  /\ \A c \in CLIs : Unplanned(c) => todo[c] = <<>>
  /\ \A c \in CLIs : Paired(mem[c]) /\ Pairing(todo[c], mem[c])

LEMMA ApplyPairs ==
  ASSUME NEW s, Paired(s), NEW k \in Changes, k.op # "noaccess",
         k.op = "refresh" => k.domain \in s.access
  PROVE  Paired(Apply(k, s)) /\ (k.op = "access" => k.domain \in Apply(k, s).access)
  <1>1. CASE k.op = "set"
    BY <1>1 DEF Paired, Settings, Pins, Changes, Apply
  <1>2. CASE k.op \in {"select", "reset"}
    BY <1>2 DEF Paired, Settings, Changes, Apply
  <1>3. CASE k.op \in {"context", "access", "refresh"}
    BY <1>3 DEF Paired, Settings, Changes, Apply
  <1>4. CASE k.op \in {"norefresh", "clear", "remove"}
    BY <1>4 DEF Paired, Settings, Changes, Apply
  <1> QED BY <1>1, <1>2, <1>3, <1>4 DEF Changes

LEMMA MigratedPairs ==
  ASSUME NEW s, Paired(s) PROVE Paired(Migrated(s))
  BY DEF Paired, Settings, Pins, Migrated

LEMMA BlankPairs == Paired(Blank) /\ \A b \in BOOLEAN : Paired([Blank EXCEPT !.stamp = b])
  BY DEF Paired, Blank, Settings, Pins

\* A list of changes that pairs the tokens whatever it starts from.
Closed(t) ==
  /\ t \in Seq(Changes)
  /\ \A i \in 1..Len(t) :
       /\ t[i].op # "noaccess"
       /\ t[i].op = "refresh" => i > 1 /\ t[i-1] = Change("access", t[i].domain)

LEMMA ClosedConcat ==
  ASSUME NEW t, Closed(t), NEW u, Closed(u) PROVE Closed(t \o u)
  <1> DEFINE v == t \o u
  <1>1. /\ v \in Seq(Changes)
        /\ Len(v) = Len(t) + Len(u)
        /\ \A i \in 1..Len(t) + Len(u) : v[i] = IF i <= Len(t) THEN t[i] ELSE u[i - Len(t)]
    BY ConcatProperties DEF Closed
  <1>2. Len(t) \in Nat /\ Len(u) \in Nat
    BY DEF Closed
  <1> HIDE DEF v
  <1>3. ASSUME NEW i \in 1..Len(v)
        PROVE  /\ v[i].op # "noaccess"
               /\ v[i].op = "refresh" => i > 1 /\ v[i-1] = Change("access", v[i].domain)
    <2>1. CASE i <= Len(t)
      <3>1. v[i] = t[i] /\ i \in 1..Len(t)
        BY <1>1, <1>2, <2>1
      <3>2. i > 1 => v[i-1] = t[i-1]
        BY <1>1, <1>2, <2>1
      <3> QED BY <3>1, <3>2 DEF Closed
    <2>2. CASE i > Len(t)
      <3> DEFINE n == i - Len(t)
      <3>1. v[i] = u[n] /\ n \in 1..Len(u)
        BY <1>1, <1>2, <2>2
      <3>2. ASSUME n > 1 PROVE i > 1 /\ v[i-1] = u[n-1]
        <4>1. i - 1 \in 1..Len(t) + Len(u) /\ ~(i - 1 <= Len(t)) /\ (i - 1) - Len(t) = n - 1
          BY <1>1, <1>2, <2>2, <3>2
        <4>2. v[i-1] = u[(i - 1) - Len(t)]
          BY <1>1, <4>1
        <4> QED BY <1>2, <2>2, <4>1, <4>2
      <3> HIDE DEF n
      <3> QED BY <3>1, <3>2 DEF Closed
    <2> QED BY <1>2, <2>1, <2>2
  <1>4. Closed(v)
    BY <1>1, <1>3 DEF Closed
  <1> QED BY <1>4 DEF v

LEMMA PlanPairs ==
  ASSUME NEW k \in Commands, NEW s, Paired(s)
  PROVE  Pairing(Plan(k, s), s)
  <1>1. Closed(Plan(k, s))
    <2>1. CASE k.op = "set"
      BY <2>1 DEF Commands, Plan, Closed, Change, Changes
    <2> SUFFICES ASSUME k.op # "set" PROVE Closed(Plan(k, s))
      BY <2>1
    <2> DEFINE d == k.domain
    <2>2. d \in Domains
      BY DEF Commands
    <2> HIDE DEF d
    <2>3. Closed(Selecting(s, d)) /\ Closed(Deselecting(s, d)) /\ Closed(<<>>)
      <3>1. Closed(<<>>) /\ Closed(<<Change("reset", d)>>) /\ Closed(<<Change("select", d)>>)
        BY <2>2 DEF Closed, Change, Changes
      <3>2. Closed(<<Change("context", d), Change("select", d)>>)
        BY <2>2 DEF Closed, Change, Changes
      <3> QED BY <3>1, <3>2 DEF Selecting, Deselecting
    <2>4. /\ Closed(<<Change("access", d), Change("refresh", d)>>)
          /\ Closed(<<Change("access", d), Change("norefresh", d)>>)
      BY <2>2 DEF Closed, Change, Changes
    <2>5. Closed(<<Change("clear", d)>>) /\ Closed(<<Change("remove", d)>>)
      BY <2>2 DEF Closed, Change, Changes
    <2>6. Closed(Logout(s, d)) /\ Closed(Delete(s, d))
      BY <2>3, <2>5, ClosedConcat DEF Logout, Delete
    <2>7. /\ Closed(Selecting(s, d) \o <<Change("access", d), Change("refresh", d)>>)
          /\ Closed(Selecting(s, d) \o <<Change("access", d), Change("norefresh", d)>>)
      BY <2>3, <2>4, ClosedConcat
    <2> QED BY <2>3, <2>6, <2>7 DEF Plan, Commands, d
  <1> QED BY <1>1 DEF Closed, Pairing

LEMMA EmptyPairs == ASSUME NEW s PROVE Pairing(<<>>, s)
  BY DEF Pairing

LEMMA TailPairs ==
  ASSUME NEW s, Paired(s), NEW t, Pairing(t, s), t # <<>>
  PROVE  /\ Paired(Apply(Head(t), s))
         /\ Pairing(Tail(t), Apply(Head(t), s))
  <1>1. t \in Seq(Changes) /\ Len(t) \in Nat /\ Len(t) > 0 /\ Head(t) = t[1] /\ t[1] \in Changes
    BY DEF Pairing
  <1>2. t[1].op # "noaccess" /\ (t[1].op = "refresh" => t[1].domain \in s.access)
    BY <1>1 DEF Pairing
  <1>3. /\ Paired(Apply(Head(t), s))
        /\ Head(t).op = "access" => Head(t).domain \in Apply(Head(t), s).access
    BY <1>1, <1>2, ApplyPairs
  <1>4. /\ Tail(t) \in Seq(Changes) /\ Len(Tail(t)) = Len(t) - 1
        /\ \A i \in 1..Len(t) - 1 : Tail(t)[i] = t[i+1]
    BY <1>1
  <1>5. ASSUME NEW i \in 1..Len(Tail(t))
        PROVE  /\ Tail(t)[i].op # "noaccess"
               /\ Tail(t)[i].op = "refresh" =>
                    IF i = 1 THEN Tail(t)[i].domain \in Apply(Head(t), s).access
                             ELSE Tail(t)[i-1] = Change("access", Tail(t)[i].domain)
    <2>1. i + 1 \in 1..Len(t) /\ Tail(t)[i] = t[i+1] /\ (i + 1) - 1 = i /\ i + 1 # 1
      BY <1>1, <1>4
    <2>2. /\ t[i+1].op # "noaccess"
          /\ t[i+1].op = "refresh" => t[i] = Change("access", t[i+1].domain)
      BY <2>1 DEF Pairing
    <2>3. CASE i = 1
      BY <1>1, <1>3, <2>1, <2>2, <2>3 DEF Change
    <2>4. CASE i # 1
      <3>1. Tail(t)[i-1] = t[i]
        <4>1. i - 1 \in 1..Len(t) - 1 /\ (i - 1) + 1 = i
          BY <1>1, <1>4, <2>4
        <4> QED BY <1>4, <4>1
      <3> QED BY <2>1, <2>2, <2>4, <3>1
    <2> QED BY <2>3, <2>4
  <1> QED BY <1>3, <1>4, <1>5 DEF Pairing

LEMMA TokenInit == Init => TokenInv
  <1> SUFFICES ASSUME Init PROVE TokenInv
    OBVIOUS
  <1>1. Paired(file.data)
    BY ConstantsAssumption, BlankPairs DEF Init, Paired
  <1> QED
    BY <1>1, BlankPairs, EmptyPairs
    DEF Init, TokenInv, Labels, Running, Unplanned, Paired

LEMMA TokenStep == TokenInv /\ [Next]_vars => TokenInv'
  <1> SUFFICES ASSUME TokenInv, [Next]_vars PROVE TokenInv'
    OBVIOUS
  <1> USE BlankPairs, EmptyPairs
      DEF TokenInv, Labels, Goto, Exit, SaveFailed, Unplanned, Running
  <1>1. ASSUME NEW c \in CLIs, Start(c) PROVE TokenInv'
    <2>1. /\ mem' = [mem EXCEPT ![c] = [Blank EXCEPT !.stamp = (file.body = "absent")]]
          /\ todo[c] = <<>> /\ cmd'[c] \in Commands
      BY <1>1 DEF Start
    <2>2. Paired([Blank EXCEPT !.stamp = (file.body = "absent")])
      BY DEF Paired, Blank, Settings, Pins
    <2>3. mem' \in [CLIs -> Settings] /\ \A e \in CLIs : Paired(mem'[e]) /\ Pairing(todo'[e], mem'[e])
      <3>1. [Blank EXCEPT !.stamp = (file.body = "absent")] \in Settings
        BY <2>2 DEF Paired
      <3>2. mem' \in [CLIs -> Settings]
        BY <2>1, <3>1
      <3>3. todo' = todo
        BY <1>1 DEF Start
      <3>4. ASSUME NEW e \in CLIs PROVE Paired(mem'[e]) /\ Pairing(todo'[e], mem'[e])
        <4>1. CASE e = c
          BY <2>1, <2>2, <3>3, <4>1
        <4>2. CASE e # c
          BY <2>1, <3>3, <4>2
        <4> QED BY <4>1, <4>2
      <3> QED BY <3>2, <3>4
    <2>4. /\ pc' \in [CLIs -> Labels] /\ cmd' \in [CLIs -> Commands \cup {Idle}]
          /\ \A e \in CLIs : pc'[e] # "off" => cmd'[e] \in Commands
      BY <1>1 DEF Start
    <2>5. \A e \in CLIs : Unplanned(e)' => todo'[e] = <<>>
      BY <1>1, <2>1 DEF Start
    <2> QED BY <1>1, <2>3, <2>4, <2>5 DEF Start
  <1>2. ASSUME NEW c \in CLIs, CreateFile(c) \/ AcquireLock(c) \/ Truncate(c) PROVE TokenInv'
    <2>1. CASE CreateFile(c)
      BY <2>1 DEF CreateFile
    <2>2. CASE AcquireLock(c)
      BY <2>2 DEF AcquireLock
    <2>3. CASE Truncate(c)
      BY <2>3 DEF Truncate
    <2> QED BY <1>2, <2>1, <2>2, <2>3
  <1>3. ASSUME NEW c \in CLIs, Read(c) PROVE TokenInv'
    <2>1. Paired(Loaded(mem[c]))
      BY DEF Paired, Loaded, Settings
    <2> QED BY <1>3, <2>1 DEF Read, Paired
  <1>4. ASSUME NEW c \in CLIs, Reread(c) PROVE TokenInv'
    BY <1>4 DEF Reread, Paired
  <1>5. ASSUME NEW c \in CLIs, Begin(c) PROVE TokenInv'
    <2>1. Pairing(Plan(cmd[c], mem[c]), mem[c])
      BY <1>5, PlanPairs DEF Begin
    <2> QED BY <1>5, <2>1 DEF Begin, Pairing
  <1>6. ASSUME NEW c \in CLIs, MakeChange(c) PROVE TokenInv'
    <2>1. /\ Paired(Apply(Head(todo[c]), mem[c]))
          /\ Pairing(Tail(todo[c]), Apply(Head(todo[c]), mem[c]))
      BY <1>6, TailPairs DEF MakeChange
    <2> QED BY <1>6, <2>1 DEF MakeChange, Paired, Pairing
  <1>7. ASSUME NEW c \in CLIs, Finish(c) \/ LockTimesOut(c) \/ WriteFails(c) \/ Killed(c)
        PROVE  TokenInv'
    <2>1. CASE Exit(c) /\ file' = file
      <3>1. mem' = [mem EXCEPT ![c] = Blank] /\ todo' = [todo EXCEPT ![c] = <<>>]
        BY <2>1
      <3>2. mem' \in [CLIs -> Settings] /\ \A e \in CLIs : Paired(mem'[e]) /\ Pairing(todo'[e], mem'[e])
        BY <3>1 DEF Paired
      <3>3. /\ pc' \in [CLIs -> Labels] /\ cmd' \in [CLIs -> Commands \cup {Idle}]
            /\ job' \in [CLIs -> {"create", "migrate", "command"}]
            /\ todo' \in [CLIs -> Seq(Changes)]
            /\ \A e \in CLIs : pc'[e] # "off" => cmd'[e] \in Commands
        BY <2>1, <3>1
      <3>4. \A e \in CLIs : Unplanned(e)' => todo'[e] = <<>>
        BY <2>1, <3>1
      <3> QED BY <2>1, <3>2, <3>3, <3>4
    <2>2. CASE SaveFailed(c) /\ file' = file /\ job[c] # "command" /\ Running(c)
      BY <2>2
    <2> QED BY <1>7, <2>1, <2>2 DEF Finish, LockTimesOut, WriteFails, Killed
  <1>8. ASSUME NEW c \in CLIs, Write(c) PROVE TokenInv'
    <2>1. Paired(Saved(c))
      BY MigratedPairs DEF Saved
    <2> QED BY <1>8, <2>1 DEF Write
  <1>9. CASE UNCHANGED vars
    BY <1>9 DEF vars
  <1> QED BY <1>1, <1>2, <1>3, <1>4, <1>5, <1>6, <1>7, <1>8, <1>9 DEF Next

\* No interleaving, failure or kill leaves a refresh token on disk without the
\* access token it belongs to, so a logout takes both or neither.
THEOREM LogoutWhole == Spec => []NoOrphanRefresh
  <1>1. TokenInv => NoOrphanRefresh
    BY DEF TokenInv, Paired, NoOrphanRefresh
  <1> QED BY <1>1, TokenInit, TokenStep, PTL DEF Spec

(***************************************************************************)
(* A command that met no other command and no fault.                       *)
(***************************************************************************)
\* Only the domain of a context holds credentials.
Held(s) == s \in Settings /\ s.access \subseteq s.contexts /\ s.refresh \subseteq s.contexts

LEMMA ApplyHolds ==
  ASSUME NEW s, Held(s), NEW k \in Changes PROVE Held(Apply(k, s))
  <1> USE DEF Held, Settings, Pins, Changes, Apply
  <1>1. CASE k.op = "set"
    BY <1>1
  <1>2. CASE k.op = "context"
    BY <1>2
  <1>3. CASE k.op = "select"
    BY <1>3
  <1>4. CASE k.op = "reset"
    BY <1>4
  <1>5. CASE k.op = "access"
    BY <1>5
  <1>6. CASE k.op = "refresh"
    BY <1>6
  <1>7. CASE k.op = "norefresh"
    BY <1>7
  <1>8. CASE k.op = "noaccess"
    BY <1>8
  <1>9. CASE k.op = "clear"
    BY <1>9
  <1>10. CASE k.op = "remove"
    BY <1>10
  <1> QED BY <1>1, <1>2, <1>3, <1>4, <1>5, <1>6, <1>7, <1>8, <1>9, <1>10

\* What a change leaves of the settings.
Leaves(r, s, current, contexts, access, refresh) ==
  /\ r \in Settings /\ r.stamp = s.stamp /\ r.pin = s.pin /\ r.current = current
  /\ r.contexts = contexts /\ r.access = access /\ r.refresh = refresh

LEMMA ChangeLeaves ==
  ASSUME NEW s \in Settings, NEW d \in Domains
  PROVE  /\ Leaves(Apply(Change("context", d), s), s, s.current,
                   s.contexts \cup {d}, s.access \ {d}, s.refresh \ {d})
         /\ Leaves(Apply(Change("select", d), s), s, d, s.contexts, s.access, s.refresh)
         /\ Leaves(Apply(Change("reset", d), s), s, Nothing, s.contexts, s.access, s.refresh)
         /\ Leaves(Apply(Change("access", d), s), s, s.current,
                   s.contexts \cup {d}, s.access \cup {d}, s.refresh)
         /\ Leaves(Apply(Change("refresh", d), s), s, s.current,
                   s.contexts \cup {d}, s.access, s.refresh \cup {d})
         /\ Leaves(Apply(Change("norefresh", d), s), s, s.current,
                   s.contexts \cup {d}, s.access, s.refresh \ {d})
         /\ Leaves(Apply(Change("clear", d), s), s, s.current,
                   s.contexts, s.access \ {d}, s.refresh \ {d})
         /\ Leaves(Apply(Change("remove", d), s), s, s.current,
                   s.contexts \ {d}, s.access \ {d}, s.refresh \ {d})
  <1> USE DEF Leaves, Settings, Pins, Apply, Change
  <1>1. Leaves(Apply(Change("context", d), s), s, s.current,
               s.contexts \cup {d}, s.access \ {d}, s.refresh \ {d})
    OBVIOUS
  <1>2. /\ Leaves(Apply(Change("select", d), s), s, d, s.contexts, s.access, s.refresh)
        /\ Leaves(Apply(Change("reset", d), s), s, Nothing, s.contexts, s.access, s.refresh)
    OBVIOUS
  <1>3. Leaves(Apply(Change("access", d), s), s, s.current,
               s.contexts \cup {d}, s.access \cup {d}, s.refresh)
    OBVIOUS
  <1>4. Leaves(Apply(Change("refresh", d), s), s, s.current,
               s.contexts \cup {d}, s.access, s.refresh \cup {d})
    OBVIOUS
  <1>5. Leaves(Apply(Change("norefresh", d), s), s, s.current,
               s.contexts \cup {d}, s.access, s.refresh \ {d})
    OBVIOUS
  <1>6. Leaves(Apply(Change("clear", d), s), s, s.current,
               s.contexts, s.access \ {d}, s.refresh \ {d})
    OBVIOUS
  <1>7. Leaves(Apply(Change("remove", d), s), s, s.current,
               s.contexts \ {d}, s.access \ {d}, s.refresh \ {d})
    OBVIOUS
  <1> HIDE DEF Leaves, Settings, Pins, Apply, Change
  <1> QED BY <1>1, <1>2, <1>3, <1>4, <1>5, <1>6, <1>7

LEMMA SetLeaves ==
  ASSUME NEW s, NEW p
  PROVE  Apply([op |-> "set", pin |-> p, domain |-> Nothing], s) = [s EXCEPT !.pin = p]
  BY DEF Apply

\* Every copy of the settings is one the code can make, and a file without text
\* says nothing.
HeldInv ==
  /\ Held(file.data) /\ file.body \in {"absent", "empty", "whole", "mixed"}
  /\ file.body \in {"absent", "empty"} => file.data = Blank
  /\ mem \in [CLIs -> Settings] /\ base \in [CLIs -> Settings]
  /\ \A c \in CLIs : Held(mem[c]) /\ Held(base[c])

\* The settings once the changes of a plan are made.
Final(t, s) ==
  CASE Len(t) = 0 -> s
    [] Len(t) = 1 -> Apply(t[1], s)
    [] Len(t) = 2 -> Apply(t[2], Apply(t[1], s))
    [] Len(t) = 3 -> Apply(t[3], Apply(t[2], Apply(t[1], s)))
    [] Len(t) = 4 -> Apply(t[4], Apply(t[3], Apply(t[2], Apply(t[1], s))))

Saving(c, j) == job[c] = j /\ pc[c] \in {"lock", "truncate", "write"}

\* Where such a command is: from the first save on, what its plan still changes
\* makes of its memory what it promised of the file it found.
OnCourse(c) ==
  LET was == Settled(base[c]) IN
  /\ pc[c] = "create" \/ Saving(c, "create") =>
       base[c] = Blank /\ mem[c] = [Blank EXCEPT !.stamp = TRUE]
  /\ pc[c] = "read" =>
       /\ file.body # "absent"
       /\ file.data = was \/ (file.data = base[c] /\ ~mem[c].stamp)
  /\ Saving(c, "migrate") => mem[c] = base[c] /\ ~base[c].stamp
  /\ pc[c] \in {"reread", "begin"} => file.body = "whole" /\ file.data = was
  /\ pc[c] \in {"begin", "ready"} => file.body = "whole" /\ file.data = mem[c]
  /\ pc[c] = "ready" => job[c] = "command"
  /\ pc[c] = "ready" \/ Saving(c, "command") =>
       /\ Len(todo[c]) <= 4
       /\ Promise(cmd[c], was, Final(todo[c], mem[c]))

ByItself(c) ==
  /\ Running(c) /\ \A o \in CLIs \ {c} : ~Running(o)
  /\ OnCourse(c)

AloneInv == alone \in [CLIs -> BOOLEAN] /\ \A c \in CLIs : alone[c] => ByItself(c)

LEMMA MigratedHolds ==
  ASSUME NEW s, Held(s) PROVE Held(Migrated(s)) /\ Migrated(s).stamp
  BY DEF Held, Settings, Pins, Migrated

LEMMA BlankHolds == Held(Blank) /\ \A b \in BOOLEAN : Held([Blank EXCEPT !.stamp = b])
  BY DEF Held, Blank, Settings, Pins

LEMMA SettledHolds ==
  ASSUME NEW s, Held(s) PROVE Held(Settled(s)) /\ Settled(s).stamp
  BY MigratedHolds DEF Settled

LEMMA HeldInit == Init => HeldInv
  <1> SUFFICES ASSUME Init PROVE HeldInv
    OBVIOUS
  <1>1. /\ Held(file.data) /\ file.body \in {"absent", "whole"}
        /\ file.body \in {"absent", "empty"} => file.data = Blank
    BY ConstantsAssumption, BlankHolds DEF Init, Held
  <1> QED BY <1>1, BlankHolds DEF Init, HeldInv, Held

LEMMA HeldStep == TokenInv /\ HeldInv /\ [Next]_vars => HeldInv'
  <1> SUFFICES ASSUME TokenInv, HeldInv, [Next]_vars PROVE HeldInv'
    OBVIOUS
  <1> DEFINE Remembers(c, s) == mem' = [mem EXCEPT ![c] = s]
             SameFile == file' = file
             SameBase == base' = base
  <1>1. ASSUME NEW c \in CLIs, NEW s, Held(s), Remembers(c, s), SameFile, SameBase
        PROVE  HeldInv'
    BY <1>1 DEF HeldInv, Held
  <1>2. ASSUME NEW c \in CLIs, Exit(c), SameFile PROVE HeldInv'
    BY <1>2, BlankHolds DEF Exit, HeldInv, Held
  <1>3. ASSUME NEW c \in CLIs, Start(c) PROVE HeldInv'
    <2>1. /\ Remembers(c, [Blank EXCEPT !.stamp = (file.body = "absent")])
          /\ base' = [base EXCEPT ![c] = file.data] /\ SameFile
      BY <1>3 DEF Start
    <2>2. Held([Blank EXCEPT !.stamp = (file.body = "absent")])
      BY BlankHolds
    <2> HIDE DEF Remembers
    <2>3. mem' \in [CLIs -> Settings] /\ \A e \in CLIs : Held(mem'[e])
      <3> DEFINE b == [Blank EXCEPT !.stamp = (file.body = "absent")]
      <3> HIDE DEF b
      <3> QED BY <2>1, <2>2 DEF HeldInv, Held, Remembers, b
    <2>4. base' \in [CLIs -> Settings] /\ \A e \in CLIs : Held(base'[e])
      BY <2>1 DEF HeldInv, Held
    <2> QED BY <2>1, <2>3, <2>4 DEF HeldInv
  <1>4. ASSUME NEW c \in CLIs, Read(c) PROVE HeldInv'
    <2>1. Held(Loaded(mem[c]))
      BY DEF HeldInv, Held, Loaded, Settings
    <2> QED BY <1>4, <2>1, <1>1 DEF Read
  <1>5. ASSUME NEW c \in CLIs, Reread(c) PROVE HeldInv'
    <2>1. CASE file.body = "mixed"
      BY <1>5, <2>1, <1>1 DEF Reread, HeldInv
    <2>2. CASE file.body # "mixed"
      BY <1>5, <2>2, <1>1 DEF Reread, HeldInv
    <2> QED BY <2>1, <2>2
  <1>6. ASSUME NEW c \in CLIs, MakeChange(c) PROVE HeldInv'
    <2>1. Head(todo[c]) \in Changes
      BY <1>6 DEF MakeChange, TokenInv
    <2>2. Held(Apply(Head(todo[c]), mem[c]))
      BY <2>1, ApplyHolds DEF HeldInv
    <2> QED BY <1>6, <2>2, <1>1 DEF MakeChange
  <1>7. ASSUME NEW c \in CLIs, CreateFile(c) \/ Truncate(c) PROVE HeldInv'
    <2>1. file' = [body |-> "empty", data |-> Blank] /\ mem' = mem /\ base' = base
      BY <1>7 DEF CreateFile, Truncate
    <2> QED BY <2>1, BlankHolds DEF HeldInv
  <1>8. ASSUME NEW c \in CLIs, Write(c) PROVE HeldInv'
    <2>1. Held(Saved(c))
      BY MigratedHolds DEF Saved, HeldInv
    <2>2. /\ file'.data = Saved(c) /\ file'.body \in {"whole", "mixed"}
          /\ mem' = mem /\ base' = base
      BY <1>8 DEF Write
    <2> QED BY <2>1, <2>2 DEF HeldInv
  <1>9. ASSUME NEW c \in CLIs, Begin(c) \/ AcquireLock(c) PROVE HeldInv'
    <2>1. file' = file /\ mem' = mem /\ base' = base
      BY <1>9 DEF Begin, AcquireLock
    <2> QED BY <2>1 DEF HeldInv
  <1>10. ASSUME NEW c \in CLIs, Finish(c) \/ Killed(c) PROVE HeldInv'
    BY <1>10, <1>2 DEF Finish, Killed
  <1>11. ASSUME NEW c \in CLIs, LockTimesOut(c) \/ WriteFails(c) PROVE HeldInv'
    <2>1. SaveFailed(c) /\ file' = file
      BY <1>11 DEF LockTimesOut, WriteFails
    <2>2. CASE Exit(c)
      BY <2>1, <2>2, <1>2
    <2>3. CASE mem' = mem /\ base' = base
      BY <2>1, <2>3 DEF HeldInv
    <2> QED BY <2>1, <2>2, <2>3 DEF SaveFailed
  <1>12. CASE UNCHANGED vars
    BY <1>12 DEF vars, HeldInv
  <1> QED
    BY <1>3, <1>4, <1>5, <1>6, <1>7, <1>8, <1>9, <1>10, <1>11, <1>12 DEF Next

LEMMA FinalTail ==
  ASSUME NEW t \in Seq(Changes), t # <<>>, Len(t) <= 4, NEW s
  PROVE  Len(Tail(t)) <= 4 /\ Final(Tail(t), Apply(Head(t), s)) = Final(t, s)
  <1>1. /\ Len(t) \in Nat /\ Len(t) > 0 /\ Head(t) = t[1]
        /\ Len(Tail(t)) = Len(t) - 1
        /\ \A i \in 1..Len(t) - 1 : Tail(t)[i] = t[i+1]
    OBVIOUS
  <1> DEFINE u == Tail(t)
             r == Apply(Head(t), s)
  <1>2. Len(u) = Len(t) - 1 /\ r = Apply(t[1], s)
    BY <1>1
  <1>3. /\ Len(t) > 1 => u[1] = t[2]
        /\ Len(t) > 2 => u[2] = t[3]
        /\ Len(t) > 3 => u[3] = t[4]
    BY <1>1
  <1> HIDE DEF u, r
  <1> SUFFICES Final(u, r) = Final(t, s)
    BY <1>1, <1>2 DEF u, r
  <1>4. CASE Len(t) = 1
    BY <1>2, <1>3, <1>4 DEF Final
  <1>5. CASE Len(t) = 2
    BY <1>2, <1>3, <1>5 DEF Final
  <1>6. CASE Len(t) = 3
    BY <1>2, <1>3, <1>6 DEF Final
  <1>7. CASE Len(t) = 4
    BY <1>2, <1>3, <1>7 DEF Final
  <1> QED BY <1>1, <1>4, <1>5, <1>6, <1>7

LEMMA Lists ==
  ASSUME NEW a, NEW b, NEW e, NEW f
  PROVE  /\ <<a>> \o <<>> = <<a>> /\ <<a>> \o <<b>> = <<a, b>>
         /\ <<a>> \o <<b, e>> = <<a, b, e>>
  <1> DEFINE S == {a, b, e, f}
  <1> DEFINE u == <<a>> \o <<b>>
             v == <<a>> \o <<b, e>>
  <1>1. <<a>> \in Seq(S) /\ <<b>> \in Seq(S) /\ <<b, e>> \in Seq(S) /\ <<a, b>> \in Seq(S)
        /\ <<e, f>> \in Seq(S) /\ <<a, b, e>> \in Seq(S) /\ <<a, b, e, f>> \in Seq(S)
    OBVIOUS
  <1> HIDE DEF S
  <1>2. u \in Seq(S) /\ Len(u) = 2 /\ u[1] = a /\ u[2] = b
    BY <1>1
  <1>3. v \in Seq(S) /\ Len(v) = 3 /\ v[1] = a /\ v[2] = b /\ v[3] = e
    BY <1>1
  <1> HIDE DEF u, v
  <1>5. u = <<a, b>>
    BY <1>1, <1>2, SeqEqual
  <1>6. v = <<a, b, e>>
    BY <1>1, <1>3, SeqEqual
  <1>8. <<a>> \o <<>> = <<a>>
    OBVIOUS
  <1> QED BY <1>5, <1>6, <1>8 DEF u, v

LEMMA ListOfFour ==
  ASSUME NEW a, NEW b, NEW e, NEW f PROVE <<a, b>> \o <<e, f>> = <<a, b, e, f>>
  <1> DEFINE S == {a, b, e, f}
             w == <<a, b>> \o <<e, f>>
  <1>1. <<a, b>> \in Seq(S) /\ <<e, f>> \in Seq(S) /\ <<a, b, e, f>> \in Seq(S)
    OBVIOUS
  <1> HIDE DEF S
  <1>2. w \in Seq(S) /\ Len(w) = 4 /\ w[1] = a /\ w[2] = b /\ w[3] = e /\ w[4] = f
    BY <1>1
  <1> HIDE DEF w
  <1>3. w = <<a, b, e, f>>
    BY <1>1, <1>2, SeqEqual
  <1> QED BY <1>3 DEF w

\* A plan has at most four changes, and made in turn they keep the promise.
LEMMA PlanDelivers ==
  ASSUME NEW k \in Commands, NEW s, Held(s), s.stamp
  PROVE  Len(Plan(k, s)) <= 4 /\ Promise(k, s, Final(Plan(k, s), s))
  <1>1. s \in Settings
    BY DEF Held
  <1>2. CASE k.op = "set"
    <2> DEFINE a == [op |-> "set", pin |-> k.pin, domain |-> Nothing]
    <2>1. Plan(k, s) = <<a>>
      BY <1>2 DEF Plan
    <2>3. Apply(a, s) = [s EXCEPT !.pin = k.pin]
      BY SetLeaves
    <2>2. Promise(k, s, [s EXCEPT !.pin = k.pin])
      BY <1>1, <1>2 DEF Promise, Settings, Pins
    <2> HIDE DEF a
    <2>4. Final(<<a>>, s) = Apply(a, s)
      BY DEF Final
    <2> QED BY <2>1, <2>2, <2>3, <2>4
  <1> SUFFICES ASSUME k.op # "set"
               PROVE  Len(Plan(k, s)) <= 4 /\ Promise(k, s, Final(Plan(k, s), s))
    BY <1>2
  <1> DEFINE d == k.domain
  <1>3. d \in Domains /\ k.op \in {"login", "token", "logout", "switch", "delete"}
    BY DEF Commands
  <1> HIDE DEF d
  <1> DEFINE Delivers == Len(Plan(k, s)) <= 4 /\ Promise(k, s, Final(Plan(k, s), s))
  <1> SUFFICES Delivers
    OBVIOUS
  \* No change, one, two, three and four.
  <1>0. ASSUME Plan(k, s) = <<>>, Promise(k, s, s)
        PROVE  Delivers
    <2>1. Final(<<>>, s) = s /\ Len(<<>>) = 0
      BY DEF Final
    <2> QED BY <1>0, <2>1
  <1>4. ASSUME NEW a, Plan(k, s) = <<a>>, Promise(k, s, Apply(a, s))
        PROVE  Delivers
    <2>1. Final(<<a>>, s) = Apply(a, s) /\ Len(<<a>>) = 1
      BY DEF Final
    <2> QED BY <1>4, <2>1
  <1>5. ASSUME NEW a, NEW b, Plan(k, s) = <<a, b>>, Promise(k, s, Apply(b, Apply(a, s)))
        PROVE  Delivers
    <2>1. Final(<<a, b>>, s) = Apply(b, Apply(a, s)) /\ Len(<<a, b>>) = 2
      BY DEF Final
    <2> QED BY <1>5, <2>1
  <1>6. ASSUME NEW a, NEW b, NEW e, Plan(k, s) = <<a, b, e>>,
               Promise(k, s, Apply(e, Apply(b, Apply(a, s))))
        PROVE  Delivers
    <2>1. Final(<<a, b, e>>, s) = Apply(e, Apply(b, Apply(a, s))) /\ Len(<<a, b, e>>) = 3
      BY DEF Final
    <2> QED BY <1>6, <2>1
  <1>7. ASSUME NEW a, NEW b, NEW e, NEW f, Plan(k, s) = <<a, b, e, f>>,
               Promise(k, s, Apply(f, Apply(e, Apply(b, Apply(a, s)))))
        PROVE  Delivers
    <2>1. /\ Final(<<a, b, e, f>>, s) = Apply(f, Apply(e, Apply(b, Apply(a, s))))
          /\ Len(<<a, b, e, f>>) = 4
      BY DEF Final
    <2> QED BY <1>7, <2>1
  <1> HIDE DEF Delivers
  \* Logout and delete.
  <1>8. ASSUME NEW a, NEW r, r = Apply(a, s), k.op \in {"logout", "delete"},
               NEW left, left = s.contexts \/ left = s.contexts \ {d},
               Leaves(r, s, s.current, left, s.access \ {d}, s.refresh \ {d}),
               Plan(k, s) = <<a>> \o Deselecting(s, d)
        PROVE  Delivers
    <2>1. r \in Settings
      BY <1>8 DEF Leaves
    <2>2. Leaves(Apply(Change("reset", d), r), r, Nothing, r.contexts, r.access, r.refresh)
      BY <2>1, <1>3, ChangeLeaves
    <2>3. CASE s.current = d
      <3>1. Plan(k, s) = <<a, Change("reset", d)>>
        BY <1>8, <2>3, Lists DEF Deselecting
      <3>2. Nothing # d
        BY <1>3, ConstantsAssumption
      <3>3. ASSUME NEW end, Leaves(end, r, Nothing, r.contexts, r.access, r.refresh)
            PROVE  Promise(k, s, end)
        BY <3>2, <3>3, <1>3, <1>8 DEF Promise, Leaves, d
      <3> QED BY <2>2, <3>1, <3>3, <1>5, <1>8
    <2>4. CASE s.current # d
      <3>1. Plan(k, s) = <<a>>
        BY <1>8, <2>4, Lists DEF Deselecting
      <3>2. Promise(k, s, r)
        BY <2>4, <1>3, <1>8 DEF Promise, Leaves, d
      <3> QED BY <3>1, <3>2, <1>4, <1>8
    <2> QED BY <2>3, <2>4
  <1>9. CASE k.op \in {"logout", "delete"} /\ Plan(k, s) = <<>> /\ d \notin s.contexts
    <2>1. Promise(k, s, s)
      BY <1>9 DEF Promise, Held, d
    <2> QED BY <2>1, <1>9, <1>0
  <1>10. CASE k.op = "logout"
    <2>1. CASE d \in s.contexts
      <3>1. Plan(k, s) = <<Change("clear", d)>> \o Deselecting(s, d)
        BY <1>10, <2>1 DEF Plan, Logout, d
      <3> QED BY <3>1, <1>1, <1>3, <1>8, <1>10, ChangeLeaves
    <2>2. CASE d \notin s.contexts
      BY <2>2, <1>9, <1>10 DEF Plan, Logout, d
    <2> QED BY <2>1, <2>2
  <1>11. CASE k.op = "delete"
    <2>1. CASE s.contexts # {}
      <3>1. Plan(k, s) = <<Change("remove", d)>> \o Deselecting(s, d)
        BY <1>11, <2>1 DEF Plan, Delete, d
      <3> QED BY <3>1, <1>1, <1>3, <1>8, <1>11, ChangeLeaves
    <2>2. CASE s.contexts = {}
      BY <2>2, <1>9, <1>11 DEF Plan, Delete, d
    <2> QED BY <2>1, <2>2
  \* Switch, login and a token: the context is selected, and made first if need be.
  <1> DEFINE Chosen(q) == /\ Leaves(q, s, d, s.contexts \cup {d}, q.access, q.refresh)
                          /\ q.access \ {d} = s.access \ {d}
                          /\ q.refresh \ {d} = s.refresh \ {d}
  <1>12. ASSUME NEW q, Chosen(q)
         PROVE  /\ k.op = "switch" => Promise(k, s, q)
                /\ k.op = "login" =>
                     Promise(k, s, Apply(Change("refresh", d), Apply(Change("access", d), q)))
                /\ k.op = "token" =>
                     Promise(k, s, Apply(Change("norefresh", d), Apply(Change("access", d), q)))
    <2>1. q \in Settings
      BY <1>12 DEF Leaves
    <2>2. Leaves(Apply(Change("access", d), q), q, q.current,
                 q.contexts \cup {d}, q.access \cup {d}, q.refresh)
      BY <2>1, <1>3, ChangeLeaves
    <2>3. ASSUME NEW r, Leaves(r, q, q.current, q.contexts \cup {d}, q.access \cup {d}, q.refresh)
          PROVE  /\ k.op = "login" => Promise(k, s, Apply(Change("refresh", d), r))
                 /\ k.op = "token" => Promise(k, s, Apply(Change("norefresh", d), r))
      <3>1. r \in Settings
        BY <2>3 DEF Leaves
      <3>2. Leaves(Apply(Change("refresh", d), r), r, r.current,
                   r.contexts \cup {d}, r.access, r.refresh \cup {d})
        BY <3>1, <1>3, ChangeLeaves
      <3>3. Leaves(Apply(Change("norefresh", d), r), r, r.current,
                   r.contexts \cup {d}, r.access, r.refresh \ {d})
        BY <3>1, <1>3, ChangeLeaves
      <3>4. ASSUME NEW y, k.op = "login",
                   Leaves(y, r, r.current, r.contexts \cup {d}, r.access, r.refresh \cup {d})
            PROVE  Promise(k, s, y)
        BY <3>4, <2>3, <1>12, <1>3 DEF Promise, Leaves, d
      <3>5. ASSUME NEW y, k.op = "token",
                   Leaves(y, r, r.current, r.contexts \cup {d}, r.access, r.refresh \ {d})
            PROVE  Promise(k, s, y)
        BY <3>5, <2>3, <1>12, <1>3 DEF Promise, Leaves, d
      <3> QED BY <3>2, <3>3, <3>4, <3>5
    <2>4. k.op = "switch" => Promise(k, s, q)
      BY <1>12, <1>3 DEF Promise, Leaves, d
    <2> QED BY <2>2, <2>3, <2>4
  <1>13. CASE k.op \in {"switch", "login", "token"} /\ d \in s.contexts
    <2> DEFINE sel == Change("select", d)
    <2>1. Leaves(Apply(sel, s), s, d, s.contexts, s.access, s.refresh)
      BY <1>1, <1>3, ChangeLeaves
    <2>2. Selecting(s, d) = <<sel>>
      BY <1>13 DEF Selecting
    <2> HIDE DEF sel
    <2>3. Chosen(Apply(sel, s))
      BY <2>1, <1>13 DEF Leaves
    <2> HIDE DEF Chosen
    <2>4. CASE k.op = "switch"
      <3>1. Plan(k, s) = <<sel>>
        BY <2>2, <2>4 DEF Plan, d
      <3> QED BY <3>1, <2>3, <2>4, <1>4, <1>12
    <2>5. CASE k.op = "login"
      <3>1. Plan(k, s) = <<sel, Change("access", d), Change("refresh", d)>>
        BY <2>2, <2>5, Lists DEF Plan, d
      <3> QED BY <3>1, <2>3, <2>5, <1>6, <1>12
    <2>6. CASE k.op = "token"
      <3>1. Plan(k, s) = <<sel, Change("access", d), Change("norefresh", d)>>
        BY <2>2, <2>6, Lists DEF Plan, d
      <3> QED BY <3>1, <2>3, <2>6, <1>6, <1>12
    <2> QED BY <1>13, <2>4, <2>5, <2>6
  <1>14. CASE k.op \in {"switch", "login", "token"} /\ d \notin s.contexts
    <2> DEFINE new == Change("context", d)
               sel == Change("select", d)
    <2>1. Leaves(Apply(new, s), s, s.current, s.contexts \cup {d}, s.access \ {d}, s.refresh \ {d})
      BY <1>1, <1>3, ChangeLeaves
    <2>2. ASSUME NEW r \in Settings
          PROVE  Leaves(Apply(sel, r), r, d, r.contexts, r.access, r.refresh)
      BY <1>3, ChangeLeaves
    <2>3. Selecting(s, d) = <<new, sel>>
      BY <1>14 DEF Selecting
    <2> HIDE DEF new, sel
    <2>4. Apply(new, s) \in Settings
      BY <2>1 DEF Leaves
    <2>5. Leaves(Apply(sel, Apply(new, s)), Apply(new, s), d,
                 Apply(new, s).contexts, Apply(new, s).access, Apply(new, s).refresh)
      BY <2>2, <2>4
    <2>6. Chosen(Apply(sel, Apply(new, s)))
      BY <2>1, <2>5 DEF Leaves
    <2> HIDE DEF Chosen
    <2>7. CASE k.op = "switch"
      <3>1. Plan(k, s) = <<new, sel>>
        BY <2>3, <2>7 DEF Plan, d
      <3> QED BY <3>1, <2>6, <2>7, <1>5, <1>12
    <2>8. CASE k.op = "login"
      <3> DEFINE a == Change("access", d)
                 b == Change("refresh", d)
      <3>2. Plan(k, s) = Selecting(s, d) \o <<a, b>>
        BY <2>8 DEF Plan, d
      <3>3. Promise(k, s, Apply(b, Apply(a, Apply(sel, Apply(new, s)))))
        BY <2>6, <2>8, <1>12
      <3> HIDE DEF a, b
      <3>4. <<new, sel>> \o <<a, b>> = <<new, sel, a, b>>
        BY ListOfFour
      <3>1. Plan(k, s) = <<new, sel, a, b>>
        BY <3>2, <3>4, <2>3
      <3> QED BY <3>1, <3>3, <1>7
    <2>9. CASE k.op = "token"
      <3> DEFINE a == Change("access", d)
                 b == Change("norefresh", d)
      <3>2. Plan(k, s) = Selecting(s, d) \o <<a, b>>
        BY <2>9 DEF Plan, d
      <3>3. Promise(k, s, Apply(b, Apply(a, Apply(sel, Apply(new, s)))))
        BY <2>6, <2>9, <1>12
      <3> HIDE DEF a, b
      <3>4. <<new, sel>> \o <<a, b>> = <<new, sel, a, b>>
        BY ListOfFour
      <3>1. Plan(k, s) = <<new, sel, a, b>>
        BY <3>2, <3>4, <2>3
      <3> QED BY <3>1, <3>3, <1>7
    <2> QED BY <1>14, <2>7, <2>8, <2>9
  <1> QED BY <1>3, <1>10, <1>11, <1>13, <1>14

LEMMA AloneInit == Init => AloneInv
  BY DEF Init, AloneInv

\* A step of another process would be one of a running process, and a step of the
\* command itself keeps it alone.
LEMMA AloneStep ==
  LockInv /\ TokenInv /\ HeldInv /\ AloneInv /\ [Next]_vars => AloneInv'
  <1> SUFFICES ASSUME LockInv, TokenInv, HeldInv, AloneInv, [Next]_vars PROVE AloneInv'
    OBVIOUS
  <1> DEFINE Keeps(c) == alone' = alone /\ cmd' = cmd /\ base' = base
             Goes(c, label) == pc' = [pc EXCEPT ![c] = label]
  \* What a step of c asks for, when c is running and stays so.
  <1>1. ASSUME NEW c \in CLIs, NEW label \in Labels \ {"off"}, Running(c), Goes(c, label),
               alone' = alone, alone[c] => OnCourse(c)'
        PROVE  AloneInv'
    <2>1. ASSUME NEW e \in CLIs, alone'[e] PROVE ByItself(e)'
      <3>1. ByItself(e) /\ e = c
        BY <1>1, <2>1 DEF AloneInv, ByItself
      <3>2. Running(c)' /\ \A o \in CLIs \ {c} : ~Running(o)'
        BY <1>1, <3>1 DEF ByItself, Running, LockInv
      <3> QED BY <1>1, <2>1, <3>1, <3>2 DEF ByItself
    <2> QED BY <1>1, <2>1 DEF AloneInv
  \* One that leaves c not alone, or not running.
  <1>2. ASSUME NEW c \in CLIs, Running(c), alone' = [alone EXCEPT ![c] = FALSE]
        PROVE  AloneInv'
    <2>1. ASSUME NEW e \in CLIs, alone'[e] PROVE FALSE
      <3>1. ByItself(e) /\ e # c
        BY <1>2, <2>1 DEF AloneInv
      <3> QED BY <1>2, <3>1 DEF ByItself
    <2> QED BY <1>2, <2>1 DEF AloneInv
  <1>3. ASSUME NEW c \in CLIs, Start(c) PROVE AloneInv'
    <2>1. /\ ~Running(c) /\ file' = file /\ base' = [base EXCEPT ![c] = file.data]
          /\ mem' = [mem EXCEPT ![c] = [Blank EXCEPT !.stamp = (file.body = "absent")]]
          /\ pc' = [pc EXCEPT ![c] = IF file.body = "absent" THEN "create" ELSE "read"]
          /\ alone' = [e \in CLIs |-> IF e = c THEN \A o \in CLIs : ~Running(o)
                                               ELSE alone[e] /\ ~Running(e)]
      BY <1>3 DEF Start, Goto
    <2>2. alone' \in [CLIs -> BOOLEAN]
      BY <2>1, Zenon DEF AloneInv
    <2>3. ASSUME NEW e \in CLIs, alone'[e] PROVE ByItself(e)'
      <3>1. e = c /\ \A o \in CLIs : ~Running(o)
        BY <2>1, <2>3 DEF AloneInv, ByItself
      <3>2. Running(c)' /\ \A o \in CLIs \ {c} : ~Running(o)'
        BY <2>1, <3>1 DEF Running, LockInv
      <3>3. OnCourse(c)'
        <4>1. base'[c] = file.data /\ mem'[c] = [Blank EXCEPT !.stamp = (file.body = "absent")]
          BY <2>1 DEF HeldInv
        <4>2. CASE file.body = "absent"
          <5>1. pc'[c] = "create" /\ base'[c] = Blank /\ mem'[c] = [Blank EXCEPT !.stamp = TRUE]
            BY <2>1, <4>1, <4>2 DEF HeldInv, LockInv
          <5> QED BY <5>1 DEF OnCourse, Saving
        <4>3. CASE file.body # "absent"
          <5>1. pc'[c] = "read" /\ ~mem'[c].stamp /\ file'.data = base'[c] /\ file'.body # "absent"
            BY <2>1, <4>1, <4>3 DEF LockInv, Blank
          <5> QED BY <5>1 DEF OnCourse, Saving
        <4> QED BY <4>2, <4>3
      <3> QED BY <3>1, <3>2, <3>3 DEF ByItself
    <2> QED BY <2>2, <2>3 DEF AloneInv
  <1>4. ASSUME NEW c \in CLIs, CreateFile(c) PROVE AloneInv'
    <2>1. /\ pc[c] = "create" /\ Goes(c, "lock") /\ job' = [job EXCEPT ![c] = "create"]
          /\ mem' = mem /\ base' = base /\ alone' = alone
      BY <1>4 DEF CreateFile, Goto
    <2>2. pc'[c] = "lock" /\ job'[c] = "create"
      BY <2>1 DEF LockInv
    <2>3. alone[c] => OnCourse(c)'
      BY <2>1, <2>2 DEF AloneInv, ByItself, OnCourse, Saving
    <2> QED BY <1>1, <2>1, <2>3 DEF Running, Labels
  <1>5. ASSUME NEW c \in CLIs, Read(c) PROVE AloneInv'
    <2> DEFINE label == IF file.body = "mixed" \/ mem'[c].stamp THEN "begin" ELSE "lock"
    <2>1. /\ pc[c] = "read" /\ mem' = [mem EXCEPT ![c] = Loaded(mem[c])]
          /\ Goes(c, label)
          /\ label = "lock" => job' = [job EXCEPT ![c] = "migrate"]
          /\ file' = file /\ base' = base /\ alone' = alone
      BY <1>5 DEF Read, Goto
    <2>2. alone[c] => OnCourse(c)'
      <3> SUFFICES ASSUME alone[c] PROVE OnCourse(c)'
        OBVIOUS
      <3>1. /\ file.body \in {"whole", "empty"}
            /\ file.data = Settled(base[c]) \/ (file.data = base[c] /\ ~mem[c].stamp)
        BY <2>1 DEF AloneInv, ByItself, OnCourse, LockInv, HeldInv
      <3>2. /\ Held(base[c]) /\ file.data \in Settings /\ mem[c] \in Settings
            /\ file.body = "empty" => ~file.data.stamp
        BY DEF HeldInv, Held, Blank
      <3>3. Settled(base[c]).stamp /\ (base[c].stamp => Settled(base[c]) = base[c])
        BY <3>2, SettledHolds DEF Settled
      <3>4. file.data.stamp \/ ~mem[c].stamp
        BY <3>1, <3>3
      <3>5. Loaded(mem[c]) = file.data
        BY <3>1, <3>2, <3>4 DEF Loaded, Settings, Pins
      <3>6. mem'[c] = file.data
        BY <2>1, <3>5 DEF HeldInv
      <3>7. CASE file.data.stamp
        <4>1. pc'[c] = "begin" /\ file'.body = "whole" /\ file'.data = Settled(base'[c])
          BY <2>1, <3>1, <3>2, <3>3, <3>6, <3>7 DEF LockInv
        <4> QED BY <2>1, <3>6, <4>1 DEF OnCourse, Saving
      <3>8. CASE ~file.data.stamp
        <4>1. /\ pc'[c] = "lock" /\ job'[c] = "migrate"
              /\ mem'[c] = base'[c] /\ ~base'[c].stamp
          BY <2>1, <3>1, <3>3, <3>6, <3>8 DEF LockInv
        <4> QED BY <4>1 DEF OnCourse, Saving
      <3> QED BY <3>7, <3>8
    <2>3. label \in Labels \ {"off"}
      BY DEF Labels
    <2> HIDE DEF label
    <2> QED BY <1>1, <2>1, <2>2, <2>3 DEF Running
  <1>6. ASSUME NEW c \in CLIs, Reread(c) PROVE AloneInv'
    <2>1. /\ pc[c] = "reread" /\ Goes(c, "begin")
          /\ mem' = [mem EXCEPT ![c] = file.data]
          /\ file' = file /\ base' = base /\ alone' = alone
      BY <1>6 DEF Reread, Goto, LockInv
    <2>2. pc'[c] = "begin" /\ mem'[c] = file.data
      BY <2>1 DEF LockInv, HeldInv
    <2>3. alone[c] => OnCourse(c)'
      BY <2>1, <2>2 DEF AloneInv, ByItself, OnCourse, Saving
    <2> QED BY <1>1, <2>1, <2>3 DEF Running, Labels
  <1>7. ASSUME NEW c \in CLIs, Begin(c) PROVE AloneInv'
    <2>1. /\ pc[c] = "begin" /\ Goes(c, "ready") /\ job' = [job EXCEPT ![c] = "command"]
          /\ todo' = [todo EXCEPT ![c] = Plan(cmd[c], mem[c])]
          /\ file' = file /\ cmd' = cmd /\ mem' = mem /\ base' = base /\ alone' = alone
      BY <1>7 DEF Begin, Goto
    <2>2. /\ pc'[c] = "ready" /\ job'[c] = "command" /\ todo'[c] = Plan(cmd[c], mem[c])
      BY <2>1 DEF LockInv, TokenInv
    <2>3. alone[c] => OnCourse(c)'
      <3> SUFFICES ASSUME alone[c] PROVE OnCourse(c)'
        OBVIOUS
      <3>1. /\ file.body = "whole" /\ file.data = mem[c] /\ mem[c] = Settled(base[c])
        BY <2>1 DEF AloneInv, ByItself, OnCourse
      <3>2. Held(mem[c]) /\ mem[c].stamp /\ cmd[c] \in Commands
        BY <2>1, <3>1, SettledHolds DEF HeldInv, TokenInv, Running
      <3>3. /\ Len(Plan(cmd[c], mem[c])) <= 4
            /\ Promise(cmd[c], mem[c], Final(Plan(cmd[c], mem[c]), mem[c]))
        BY <3>2, PlanDelivers
      <3> QED BY <2>1, <2>2, <3>1, <3>3 DEF OnCourse, Saving
    <2> QED BY <1>1, <2>1, <2>3 DEF Running, Labels
  <1>8. ASSUME NEW c \in CLIs, MakeChange(c) PROVE AloneInv'
    <2>1. /\ pc[c] = "ready" /\ todo[c] # <<>> /\ Goes(c, "lock")
          /\ mem' = [mem EXCEPT ![c] = Apply(Head(todo[c]), mem[c])]
          /\ todo' = [todo EXCEPT ![c] = Tail(todo[c])]
          /\ job' = job /\ cmd' = cmd /\ base' = base /\ alone' = alone
      BY <1>8 DEF MakeChange, Goto
    <2>2. /\ pc'[c] = "lock" /\ mem'[c] = Apply(Head(todo[c]), mem[c])
          /\ todo'[c] = Tail(todo[c]) /\ todo[c] \in Seq(Changes)
      BY <2>1 DEF LockInv, TokenInv
    <2>3. alone[c] => OnCourse(c)'
      <3> SUFFICES ASSUME alone[c] PROVE OnCourse(c)'
        OBVIOUS
      <3>1. /\ job[c] = "command" /\ Len(todo[c]) <= 4
            /\ Promise(cmd[c], Settled(base[c]), Final(todo[c], mem[c]))
        BY <2>1 DEF AloneInv, ByItself, OnCourse
      <3>2. Len(todo'[c]) <= 4 /\ Final(todo'[c], mem'[c]) = Final(todo[c], mem[c])
        BY <2>1, <2>2, <3>1, FinalTail
      <3> QED BY <2>1, <2>2, <3>1, <3>2 DEF OnCourse, Saving
    <2> QED BY <1>1, <2>1, <2>3 DEF Running, Labels
  <1>9. ASSUME NEW c \in CLIs, AcquireLock(c) \/ Truncate(c) PROVE AloneInv'
    <2>1. PICK label \in {"truncate", "write"} : Goes(c, label)
      BY <1>9 DEF AcquireLock, Truncate, Goto
    <2>2. /\ pc[c] \in {"lock", "truncate"} /\ pc'[c] \in {"truncate", "write"}
          /\ job' = job /\ cmd' = cmd /\ mem' = mem /\ todo' = todo
          /\ base' = base /\ alone' = alone
      BY <1>9, <2>1 DEF AcquireLock, Truncate, LockInv
    <2>3. alone[c] => OnCourse(c)'
      BY <2>2 DEF AloneInv, ByItself, OnCourse, Saving
    <2> QED BY <1>1, <2>1, <2>2, <2>3 DEF Running, Labels
  <1>10. ASSUME NEW c \in CLIs, Write(c) PROVE AloneInv'
    <2> DEFINE label == CASE job[c] = "create"  -> "read"
                          [] job[c] = "migrate" -> "reread"
                          [] job[c] = "command" -> "ready"
    <2>1. /\ pc[c] = "write" /\ Goes(c, label)
          /\ file' = [body |-> "whole", data |-> Saved(c)]
          /\ job' = job /\ cmd' = cmd /\ mem' = mem /\ todo' = todo
          /\ base' = base /\ alone' = alone
      BY <1>10 DEF Write, Goto, LockInv
    <2>2. label \in Labels \ {"off"} /\ job[c] \in {"create", "migrate", "command"}
      BY DEF Labels, LockInv
    <2>3. pc'[c] = label /\ file'.body = "whole" /\ file'.data = Saved(c)
      BY <2>1 DEF LockInv
    <2>4. alone[c] => OnCourse(c)'
      <3> SUFFICES ASSUME alone[c] PROVE OnCourse(c)'
        OBVIOUS
      <3>1. CASE job[c] = "create"
        <4>1. base[c] = Blank /\ mem[c] = [Blank EXCEPT !.stamp = TRUE]
          BY <2>1, <3>1 DEF AloneInv, ByItself, OnCourse, Saving
        <4>2. Saved(c) = Settled(base[c])
          BY <3>1, <4>1 DEF Saved, Settled, Migrated, Blank
        <4> QED BY <2>1, <2>3, <3>1, <4>2 DEF OnCourse, Saving
      <3>2. CASE job[c] = "migrate"
        <4>1. mem[c] = base[c] /\ ~base[c].stamp
          BY <2>1, <3>2 DEF AloneInv, ByItself, OnCourse, Saving
        <4>2. Saved(c) = Settled(base[c])
          BY <3>2, <4>1 DEF Saved, Settled
        <4> QED BY <2>1, <2>3, <3>2, <4>2 DEF OnCourse, Saving
      <3>3. CASE job[c] = "command"
        <4>1. /\ Len(todo[c]) <= 4
              /\ Promise(cmd[c], Settled(base[c]), Final(todo[c], mem[c]))
          BY <2>1, <3>3 DEF AloneInv, ByItself, OnCourse, Saving
        <4>2. Saved(c) = mem[c]
          BY <3>3 DEF Saved
        <4> QED BY <2>1, <2>3, <3>3, <4>1, <4>2 DEF OnCourse, Saving
      <3> QED BY <2>2, <3>1, <3>2, <3>3
    <2> HIDE DEF label
    <2> QED BY <1>1, <2>1, <2>2, <2>4 DEF Running
  <1>11. ASSUME NEW c \in CLIs,
                Finish(c) \/ LockTimesOut(c) \/ WriteFails(c) \/ Killed(c)
         PROVE  AloneInv'
    BY <1>11, <1>2 DEF Finish, LockTimesOut, WriteFails, Killed, SaveFailed, Exit, Running
  <1>12. CASE UNCHANGED vars
    <2>1. /\ pc' = pc /\ file' = file /\ job' = job /\ cmd' = cmd /\ mem' = mem
          /\ todo' = todo /\ base' = base /\ alone' = alone
      BY <1>12 DEF vars
    <2> QED BY <2>1 DEF AloneInv, ByItself, Running, OnCourse, Saving
  <1> QED
    BY <1>3, <1>4, <1>5, <1>6, <1>7, <1>8, <1>9, <1>10, <1>11, <1>12 DEF Next

\* A command that met no other command and no fault does what it says and nothing
\* else, however many settings it saves and whether or not it found the file stamped.
THEOREM DoesItsJob == Spec => AloneDoesItsJob
  <1>1. ASSUME TokenInv, AloneInv, NEW c \in CLIs, Finish(c), alone[c]
        PROVE  file.body = "whole" /\ Promise(cmd[c], Settled(base[c]), file.data)
    <2>1. pc[c] = "ready" /\ todo[c] = <<>>
      BY <1>1 DEF Finish
    <2>2. /\ file.body = "whole" /\ file.data = mem[c]
          /\ Promise(cmd[c], Settled(base[c]), Final(todo[c], mem[c]))
      BY <1>1, <2>1 DEF AloneInv, ByItself, OnCourse
    <2>3. Final(todo[c], mem[c]) = mem[c]
      BY <2>1 DEF Final
    <2> QED BY <2>2, <2>3
  <1> DEFINE Does == \A c \in CLIs : Finish(c) /\ alone[c] =>
               file.body = "whole" /\ Promise(cmd[c], Settled(base[c]), file.data)
  <1>2. TokenInv /\ AloneInv => Does
    BY <1>1
  <1>3. Init => LockInv /\ TokenInv /\ HeldInv /\ AloneInv
    BY LockInit, TokenInit, HeldInit, AloneInit
  <1>4. LockInv /\ TokenInv /\ HeldInv /\ AloneInv /\ [Next]_vars =>
          (LockInv /\ TokenInv /\ HeldInv /\ AloneInv)'
    BY LockStep, TokenStep, HeldStep, AloneStep
  <1>5. Spec => [][Does]_vars
    <2> HIDE DEF Does
    <2> QED BY <1>2, <1>3, <1>4, PTL DEF Spec
  <1> QED BY <1>5 DEF AloneDoesItsJob, Settled, Promise

(***************************************************************************)
(* The login a context holds.                                              *)
(***************************************************************************)
\* The saves that are left: so many, of these keys.
Left1(a) == Len(saves) = 1 /\ saves = <<saves[1]>> /\ saves[1].key = a
Left2(a, b) ==
  /\ Len(saves) = 2 /\ saves = <<saves[1], saves[2]>>
  /\ saves[1].key = a /\ saves[2].key = b
Left3(a, b, c) ==
  /\ Len(saves) = 3 /\ saves = <<saves[1], saves[2], saves[3]>>
  /\ saves[1].key = a /\ saves[2].key = b /\ saves[3].key = c
Left4(a, b, c, d) ==
  /\ Len(saves) = 4 /\ saves = <<saves[1], saves[2], saves[3], saves[4]>>
  /\ saves[1].key = a /\ saves[2].key = b /\ saves[3].key = c /\ saves[4].key = d

\* The expiry to be stored with a token is not later than the token's own.
Covers(t, e) == e \in Nat /\ (t # Nothing => t.until \in Nat /\ now + e <= t.until)
Impersonal(t) == t # Nothing => t.who \notin User

Fits == clean => ctx.ws \in Holds[ctx.org] /\ ctx.last \in Holds[ctx.org]
Lasting == ctx.token # Nothing => ctx.token.until >= now

\* Selecting a context, and logging out of it.
Aside ==
  /\ Fits
  /\ \/ Left1("select") /\ (then = "finish" \/ (then = "run" /\ setup # "sound"))
     \/ then = "finish" /\ (Left2("clear", "reset") \/ Left1("reset"))

\* The Organization: of a session, of a switch, of an API token or key.
Organizing ==
  \/ then = "workspaces" /\ Left1("org")
  \/ then = "session" /\ Left1("org") /\ ~clean
  \/ then = "run" /\ Lasting /\ ~clean /\ (Left2("ws", "org") \/ Left1("org"))

\* The Workspace: of a session, of a switch, of a renewal.
Choosing ==
  /\ then = "finish" \/ (then = "run" /\ (setup = "sound" => Lasting))
  /\ \/ /\ Left2("ws", "last") /\ saves[2].value = saves[1].value
        /\ clean => saves[1].value \in Holds[ctx.org]
     \/ /\ Left1("ws")
        /\ clean => saves[1].value \in Holds[ctx.org] /\ ctx.last \in Holds[ctx.org]
     \/ /\ Left1("last")
        /\ clean => saves[1].value \in Holds[ctx.org] /\ ctx.ws \in Holds[ctx.org]

\* The token of the environment, of a login, of a renewal.
Adopting ==
  /\ then = "organizations" /\ Fits
  /\ \/ /\ Left3("select", "token", "expires")
        /\ Covers(saves[2].value, saves[3].value) /\ Impersonal(saves[2].value)
     \/ /\ Left2("token", "expires")
        /\ Covers(saves[1].value, saves[2].value) /\ Impersonal(saves[1].value)
     \/ /\ Left1("expires")
        /\ Covers(ctx.token, saves[1].value) /\ (clean => ctx.token = Nothing)
Entering ==
  /\ then = "session" /\ Fits
  /\ \/ /\ Left4("select", "token", "refresh", "expires")
        /\ Covers(saves[2].value, saves[4].value)
     \/ Left3("token", "refresh", "expires") /\ Covers(saves[1].value, saves[3].value)
     \/ Left2("refresh", "expires") /\ Covers(ctx.token, saves[2].value)
     \/ Left1("expires") /\ Covers(ctx.token, saves[1].value)
Renewing ==
  /\ then = "run" /\ Fits
  /\ \/ /\ Left3("token", "expires", "ws") /\ Covers(saves[1].value, saves[2].value)
        /\ saves[3].value = ctx.last
     \/ /\ Left2("expires", "ws") /\ Covers(ctx.token, saves[1].value)
        /\ saves[2].value = ctx.last

Ahead == Aside \/ Organizing \/ Choosing \/ Adopting \/ Entering \/ Renewing

\* What holds of the context whatever the command does.
Stored ==
  /\ ctx = [token |-> ctx.token, expires |-> ctx.expires, refresh |-> ctx.refresh,
            org |-> ctx.org, ws |-> ctx.ws, last |-> ctx.last]
  /\ now \in Nat /\ ctx.expires \in Nat
  /\ of # Nothing => of.until \in Nat /\ ctx.expires <= of.until
  /\ ctx.token # Nothing => ctx.token.until \in Nat

\* What holds where the command is.
Placed ==
  /\ spc = "run" /\ setup = "sound" /\ of = ctx.token => Lasting
  /\ spc = "save" => Ahead
  /\ spc \notin {"save", "workspaces"} => Fits
  /\ spc = "organizations" => (clean => ctx.token = Nothing)

SessionInv == Stored /\ (spc # "off" => asOf = now) /\ Placed

(***************************************************************************)
(* The saves of a session.                                                 *)
(***************************************************************************)
LEMMA SessionInit == Session!Init => SessionInv
BY DEF Session!Init, Session!Blank, SessionInv, Stored, Placed, Fits

\* A save writes its key.
LEMMA SaveWrites ==
  ASSUME SessionInv, Session!Save, saves # <<>>,
         saves[1].key \in {"token", "refresh", "expires", "org", "ws", "last", "clear",
                    "select", "reset"}
  PROVE  /\ ctx' = [token |-> ctx'.token, expires |-> ctx'.expires, refresh |-> ctx'.refresh,
                    org |-> ctx'.org, ws |-> ctx'.ws, last |-> ctx'.last]
         /\ ctx'.token = IF saves[1].key = "token" THEN saves[1].value
                         ELSE IF saves[1].key = "clear" THEN Nothing ELSE ctx.token
         /\ ctx'.expires = IF saves[1].key = "expires" THEN now + saves[1].value
                           ELSE IF saves[1].key = "clear" THEN 0 ELSE ctx.expires
         /\ ctx'.org = IF saves[1].key = "org" THEN saves[1].value ELSE ctx.org
         /\ ctx'.ws = IF saves[1].key = "ws" THEN saves[1].value ELSE ctx.ws
         /\ ctx'.last = IF saves[1].key = "last" THEN saves[1].value ELSE ctx.last
         /\ of' = IF saves[1].key \in {"expires", "clear"} THEN ctx'.token ELSE of
         /\ clean' = (clean /\ ~(saves[1].key = "token" /\ saves[1].value # Nothing
                                 /\ saves[1].value.who \notin User))
         /\ now' = now /\ setup' = setup /\ asOf' = asOf /\ spc = "save"
         /\ Len(saves) = 1 => spc' = then
         /\ Len(saves) # 1 /\ Tail(saves) # <<>> =>
               spc' = "save" /\ saves' = Tail(saves) /\ then' = then
  <1> PICK s : s = saves[1]
    OBVIOUS
  <1>1. Head(saves) = s
    OBVIOUS
  <1>2. /\ ctx' = Session!Written(s)
        /\ of' = IF s.key \in {"expires", "clear"} THEN ctx'.token ELSE of
        /\ clean' = (clean /\ ~(s.key = "token" /\ s.value # Nothing
                                 /\ s.value.who \notin User))
        /\ now' = now /\ setup' = setup /\ asOf' = asOf /\ spc = "save"
        /\ Len(saves) = 1 => spc' = then
        /\ Len(saves) # 1 /\ Tail(saves) # <<>> =>
              spc' = "save" /\ saves' = Tail(saves) /\ then' = then
    BY <1>1 DEF Session!Save, Session!Goto, Session!GoOn
  <1>3. Stored
    BY DEF SessionInv
  <1>4. CASE s.key = "token"
    BY <1>2, <1>3, <1>4 DEF Session!Written, Stored
  <1>5. CASE s.key = "refresh"
    BY <1>2, <1>3, <1>5 DEF Session!Written, Stored
  <1>6. CASE s.key = "expires"
    BY <1>2, <1>3, <1>6 DEF Session!Written, Stored
  <1>7. CASE s.key = "org"
    BY <1>2, <1>3, <1>7 DEF Session!Written, Stored
  <1>8. CASE s.key = "ws"
    BY <1>2, <1>3, <1>8 DEF Session!Written, Stored
  <1>9. CASE s.key = "last"
    BY <1>2, <1>3, <1>9 DEF Session!Written, Stored
  <1>10. CASE s.key = "clear"
    BY <1>2, <1>3, <1>10 DEF Session!Written, Stored
  <1>11. CASE s.key \in {"select", "reset"}
    BY <1>2, <1>3, <1>11 DEF Session!Written, Stored
  <1> QED BY <1>4, <1>5, <1>6, <1>7, <1>8, <1>9, <1>10, <1>11

\* What is left of a list of saves.
LEMMA Tails ==
  /\ \A a, b : Tail(<<a, b>>) = <<b>>
  /\ \A a, b, c : Tail(<<a, b, c>>) = <<b, c>>
  /\ \A a, b, c, d : Tail(<<a, b, c, d>>) = <<b, c, d>>
OBVIOUS

\* A list that is left is not empty.
LEMMA Firsts ==
  /\ \A a : Left1(a) => saves # <<>> /\ saves[1].key = a
  /\ \A a, b : Left2(a, b) => saves # <<>> /\ saves[1].key = a
  /\ \A a, b, c : Left3(a, b, c) => saves # <<>> /\ saves[1].key = a
  /\ \A a, b, c, d : Left4(a, b, c, d) => saves # <<>> /\ saves[1].key = a
BY DEF Left1, Left2, Left3, Left4

LEMMA Next2 ==
  ASSUME SessionInv, Session!Save, NEW k1, NEW k2, Left2(k1, k2),
         k1 \in {"token", "refresh", "expires", "org", "ws", "last", "clear",
                  "select", "reset"}
  PROVE  /\ Left1(k2)'
         /\ saves[1]' = saves[2]
         /\ spc' = "save" /\ then' = then
  <1> PICK a, b : saves = <<a, b>>
    BY DEF Left2
  <1>1. Tail(saves) = <<b>> /\ saves[2] = b
    BY Tails
  <1>2. saves # <<>> /\ Len(saves) # 1 /\ Tail(saves) # <<>> /\ saves[1].key = k1
    BY <1>1 DEF Left2
  <1>3. spc' = "save" /\ then' = then /\ saves' = Tail(saves)
    BY <1>2, SaveWrites
  <1> QED BY <1>1, <1>3 DEF Left2, Left1

LEMMA Next3 ==
  ASSUME SessionInv, Session!Save, NEW k1, NEW k2, NEW k3, Left3(k1, k2, k3),
         k1 \in {"token", "refresh", "expires", "org", "ws", "last", "clear",
                  "select", "reset"}
  PROVE  /\ Left2(k2, k3)'
         /\ saves[1]' = saves[2] /\ saves[2]' = saves[3]
         /\ spc' = "save" /\ then' = then
  <1> PICK a, b, c : saves = <<a, b, c>>
    BY DEF Left3
  <1>1. Tail(saves) = <<b, c>> /\ saves[2] = b /\ saves[3] = c
    BY Tails
  <1>2. saves # <<>> /\ Len(saves) # 1 /\ Tail(saves) # <<>> /\ saves[1].key = k1
    BY <1>1 DEF Left3
  <1>3. spc' = "save" /\ then' = then /\ saves' = Tail(saves)
    BY <1>2, SaveWrites
  <1> QED BY <1>1, <1>3 DEF Left3, Left2

LEMMA Next4 ==
  ASSUME SessionInv, Session!Save, NEW k1, NEW k2, NEW k3, NEW k4, Left4(k1, k2, k3, k4),
         k1 \in {"token", "refresh", "expires", "org", "ws", "last", "clear",
                  "select", "reset"}
  PROVE  /\ Left3(k2, k3, k4)'
         /\ saves[1]' = saves[2] /\ saves[2]' = saves[3] /\ saves[3]' = saves[4]
         /\ spc' = "save" /\ then' = then
  <1> PICK a, b, c, d : saves = <<a, b, c, d>>
    BY DEF Left4
  <1>1. Tail(saves) = <<b, c, d>> /\ saves[2] = b /\ saves[3] = c /\ saves[4] = d
    BY Tails
  <1>2. saves # <<>> /\ Len(saves) # 1 /\ Tail(saves) # <<>> /\ saves[1].key = k1
    BY <1>1 DEF Left4
  <1>3. spc' = "save" /\ then' = then /\ saves' = Tail(saves)
    BY <1>2, SaveWrites
  <1> QED BY <1>1, <1>3 DEF Left4, Left3

LEMMA SavesToken ==
  ASSUME SessionInv, Session!Save, saves # <<>>, saves[1].key = "token"
  PROVE  /\ ctx' = [token |-> ctx'.token, expires |-> ctx'.expires, refresh |-> ctx'.refresh,
                    org |-> ctx'.org, ws |-> ctx'.ws, last |-> ctx'.last]
         /\ ctx'.token = saves[1].value /\ ctx'.expires = ctx.expires
         /\ ctx'.org = ctx.org /\ ctx'.ws = ctx.ws /\ ctx'.last = ctx.last
         /\ of' = of
         /\ clean' => clean /\ (saves[1].value = Nothing \/ saves[1].value.who \in User)
         /\ now' = now /\ setup' = setup /\ asOf' = asOf /\ spc = "save"
         /\ Len(saves) = 1 => spc' = then
BY SaveWrites

LEMMA SavesRefresh ==
  ASSUME SessionInv, Session!Save, saves # <<>>, saves[1].key = "refresh"
  PROVE  /\ ctx' = [token |-> ctx'.token, expires |-> ctx'.expires, refresh |-> ctx'.refresh,
                    org |-> ctx'.org, ws |-> ctx'.ws, last |-> ctx'.last]
         /\ ctx'.token = ctx.token /\ ctx'.expires = ctx.expires
         /\ ctx'.org = ctx.org /\ ctx'.ws = ctx.ws /\ ctx'.last = ctx.last
         /\ of' = of
         /\ clean' => clean
         /\ now' = now /\ setup' = setup /\ asOf' = asOf /\ spc = "save"
         /\ Len(saves) = 1 => spc' = then
BY SaveWrites

LEMMA SavesExpires ==
  ASSUME SessionInv, Session!Save, saves # <<>>, saves[1].key = "expires"
  PROVE  /\ ctx' = [token |-> ctx'.token, expires |-> ctx'.expires, refresh |-> ctx'.refresh,
                    org |-> ctx'.org, ws |-> ctx'.ws, last |-> ctx'.last]
         /\ ctx'.token = ctx.token /\ ctx'.expires = now + saves[1].value
         /\ ctx'.org = ctx.org /\ ctx'.ws = ctx.ws /\ ctx'.last = ctx.last
         /\ of' = ctx.token
         /\ clean' => clean
         /\ now' = now /\ setup' = setup /\ asOf' = asOf /\ spc = "save"
         /\ Len(saves) = 1 => spc' = then
BY SaveWrites

LEMMA SavesOrg ==
  ASSUME SessionInv, Session!Save, saves # <<>>, saves[1].key = "org"
  PROVE  /\ ctx' = [token |-> ctx'.token, expires |-> ctx'.expires, refresh |-> ctx'.refresh,
                    org |-> ctx'.org, ws |-> ctx'.ws, last |-> ctx'.last]
         /\ ctx'.token = ctx.token /\ ctx'.expires = ctx.expires
         /\ ctx'.org = saves[1].value /\ ctx'.ws = ctx.ws /\ ctx'.last = ctx.last
         /\ of' = of
         /\ clean' => clean
         /\ now' = now /\ setup' = setup /\ asOf' = asOf /\ spc = "save"
         /\ Len(saves) = 1 => spc' = then
BY SaveWrites

LEMMA SavesWs ==
  ASSUME SessionInv, Session!Save, saves # <<>>, saves[1].key = "ws"
  PROVE  /\ ctx' = [token |-> ctx'.token, expires |-> ctx'.expires, refresh |-> ctx'.refresh,
                    org |-> ctx'.org, ws |-> ctx'.ws, last |-> ctx'.last]
         /\ ctx'.token = ctx.token /\ ctx'.expires = ctx.expires
         /\ ctx'.org = ctx.org /\ ctx'.ws = saves[1].value /\ ctx'.last = ctx.last
         /\ of' = of
         /\ clean' => clean
         /\ now' = now /\ setup' = setup /\ asOf' = asOf /\ spc = "save"
         /\ Len(saves) = 1 => spc' = then
BY SaveWrites

LEMMA SavesLast ==
  ASSUME SessionInv, Session!Save, saves # <<>>, saves[1].key = "last"
  PROVE  /\ ctx' = [token |-> ctx'.token, expires |-> ctx'.expires, refresh |-> ctx'.refresh,
                    org |-> ctx'.org, ws |-> ctx'.ws, last |-> ctx'.last]
         /\ ctx'.token = ctx.token /\ ctx'.expires = ctx.expires
         /\ ctx'.org = ctx.org /\ ctx'.ws = ctx.ws /\ ctx'.last = saves[1].value
         /\ of' = of
         /\ clean' => clean
         /\ now' = now /\ setup' = setup /\ asOf' = asOf /\ spc = "save"
         /\ Len(saves) = 1 => spc' = then
BY SaveWrites

LEMMA SavesClear ==
  ASSUME SessionInv, Session!Save, saves # <<>>, saves[1].key = "clear"
  PROVE  /\ ctx' = [token |-> ctx'.token, expires |-> ctx'.expires, refresh |-> ctx'.refresh,
                    org |-> ctx'.org, ws |-> ctx'.ws, last |-> ctx'.last]
         /\ ctx'.token = Nothing /\ ctx'.expires = 0
         /\ ctx'.org = ctx.org /\ ctx'.ws = ctx.ws /\ ctx'.last = ctx.last
         /\ of' = Nothing
         /\ clean' => clean
         /\ now' = now /\ setup' = setup /\ asOf' = asOf /\ spc = "save"
         /\ Len(saves) = 1 => spc' = then
BY SaveWrites

LEMMA SavesSelect ==
  ASSUME SessionInv, Session!Save, saves # <<>>, saves[1].key = "select"
  PROVE  /\ ctx' = [token |-> ctx'.token, expires |-> ctx'.expires, refresh |-> ctx'.refresh,
                    org |-> ctx'.org, ws |-> ctx'.ws, last |-> ctx'.last]
         /\ ctx'.token = ctx.token /\ ctx'.expires = ctx.expires
         /\ ctx'.org = ctx.org /\ ctx'.ws = ctx.ws /\ ctx'.last = ctx.last
         /\ of' = of
         /\ clean' => clean
         /\ now' = now /\ setup' = setup /\ asOf' = asOf /\ spc = "save"
         /\ Len(saves) = 1 => spc' = then
BY SaveWrites

LEMMA SavesReset ==
  ASSUME SessionInv, Session!Save, saves # <<>>, saves[1].key = "reset"
  PROVE  /\ ctx' = [token |-> ctx'.token, expires |-> ctx'.expires, refresh |-> ctx'.refresh,
                    org |-> ctx'.org, ws |-> ctx'.ws, last |-> ctx'.last]
         /\ ctx'.token = ctx.token /\ ctx'.expires = ctx.expires
         /\ ctx'.org = ctx.org /\ ctx'.ws = ctx.ws /\ ctx'.last = ctx.last
         /\ of' = of
         /\ clean' => clean
         /\ now' = now /\ setup' = setup /\ asOf' = asOf /\ spc = "save"
         /\ Len(saves) = 1 => spc' = then
BY SaveWrites

LEMMA AsideSave ==
  ASSUME SessionInv, Session!Save, Aside
  PROVE  SessionInv'
  <1>1. CASE Left1("select") /\ (then = "finish" \/ (then = "run" /\ setup # "sound"))
    <2>1. saves # <<>> /\ saves[1].key = "select"
      BY <1>1, Firsts
    <2>2. Stored'
      BY <1>1, <2>1, SavesSelect DEF SessionInv, Stored, Covers, Aside
    <2>3. spc' = then /\ asOf' = now'
      BY <1>1, <2>1, SavesSelect DEF Left1, SessionInv
    <2>4. Placed'
      BY <1>1, <2>1, <2>3, SavesSelect DEF Aside, Placed, Fits, Lasting, Covers, Impersonal
    <2> QED BY <2>2, <2>3, <2>4 DEF SessionInv
  <1>2. CASE Left2("clear", "reset") /\ then = "finish"
    <2>1. saves # <<>> /\ saves[1].key = "clear"
      BY <1>2, Firsts
    <2>2. Stored'
      BY <1>2, <2>1, SavesClear DEF SessionInv, Stored, Covers, Aside
    <2>3. Aside'
      BY <1>2, <2>1, Next2, SavesClear DEF Aside, Fits, Lasting, Covers, Impersonal,
         SessionInv, Stored
    <2>4. spc' = "save" /\ asOf' = now'
      BY <1>2, <2>1, Next2, SavesClear DEF SessionInv
    <2> QED BY <2>2, <2>3, <2>4 DEF SessionInv, Placed, Ahead
  <1>3. CASE Left1("reset") /\ then = "finish"
    <2>1. saves # <<>> /\ saves[1].key = "reset"
      BY <1>3, Firsts
    <2>2. Stored'
      BY <1>3, <2>1, SavesReset DEF SessionInv, Stored, Covers, Aside
    <2>3. spc' = then /\ asOf' = now'
      BY <1>3, <2>1, SavesReset DEF Left1, SessionInv
    <2>4. Placed'
      BY <1>3, <2>1, <2>3, SavesReset DEF Aside, Placed, Fits, Lasting, Covers, Impersonal
    <2> QED BY <2>2, <2>3, <2>4 DEF SessionInv
  <1> QED BY <1>1, <1>2, <1>3 DEF Aside

LEMMA OrganizingSave ==
  ASSUME SessionInv, Session!Save, Organizing
  PROVE  SessionInv'
  <1>1. CASE Left1("org") /\ then = "workspaces"
    <2>1. saves # <<>> /\ saves[1].key = "org"
      BY <1>1, Firsts
    <2>2. Stored'
      BY <1>1, <2>1, SavesOrg DEF SessionInv, Stored, Covers, Organizing
    <2>3. spc' = then /\ asOf' = now'
      BY <1>1, <2>1, SavesOrg DEF Left1, SessionInv
    <2>4. Placed'
      BY <1>1, <2>1, <2>3, SavesOrg DEF Organizing, Placed, Fits, Lasting, Covers, Impersonal
    <2> QED BY <2>2, <2>3, <2>4 DEF SessionInv
  <1>2. CASE Left1("org") /\ then = "session" /\ ~clean
    <2>1. saves # <<>> /\ saves[1].key = "org"
      BY <1>2, Firsts
    <2>2. Stored'
      BY <1>2, <2>1, SavesOrg DEF SessionInv, Stored, Covers, Organizing
    <2>3. spc' = then /\ asOf' = now'
      BY <1>2, <2>1, SavesOrg DEF Left1, SessionInv
    <2>4. Placed'
      BY <1>2, <2>1, <2>3, SavesOrg DEF Organizing, Placed, Fits, Lasting, Covers, Impersonal
    <2> QED BY <2>2, <2>3, <2>4 DEF SessionInv
  <1>3. CASE Left1("org") /\ then = "run" /\ Lasting /\ ~clean
    <2>1. saves # <<>> /\ saves[1].key = "org"
      BY <1>3, Firsts
    <2>2. Stored'
      BY <1>3, <2>1, SavesOrg DEF SessionInv, Stored, Covers, Organizing
    <2>3. spc' = then /\ asOf' = now'
      BY <1>3, <2>1, SavesOrg DEF Left1, SessionInv
    <2>4. Placed'
      BY <1>3, <2>1, <2>3, SavesOrg DEF Organizing, Placed, Fits, Lasting, Covers, Impersonal
    <2> QED BY <2>2, <2>3, <2>4 DEF SessionInv
  <1>4. CASE Left2("ws", "org") /\ then = "run" /\ Lasting /\ ~clean
    <2>1. saves # <<>> /\ saves[1].key = "ws"
      BY <1>4, Firsts
    <2>2. Stored'
      BY <1>4, <2>1, SavesWs DEF SessionInv, Stored, Covers, Organizing
    <2>3. Organizing'
      BY <1>4, <2>1, Next2, SavesWs DEF Organizing, Fits, Lasting, Covers, Impersonal,
         SessionInv, Stored
    <2>4. spc' = "save" /\ asOf' = now'
      BY <1>4, <2>1, Next2, SavesWs DEF SessionInv
    <2> QED BY <2>2, <2>3, <2>4 DEF SessionInv, Placed, Ahead
  <1> QED BY <1>1, <1>2, <1>3, <1>4 DEF Organizing

LEMMA ChoosingSave ==
  ASSUME SessionInv, Session!Save, Choosing
  PROVE  SessionInv'
  <1>1. CASE Left2("ws", "last") /\ saves[2].value = saves[1].value
            /\ (clean => saves[1].value \in Holds[ctx.org])
    <2>1. saves # <<>> /\ saves[1].key = "ws"
      BY <1>1, Firsts
    <2>2. Stored'
      BY <1>1, <2>1, SavesWs DEF SessionInv, Stored, Covers, Choosing
    <2>3. Choosing'
      BY <1>1, <2>1, Next2, SavesWs DEF Choosing, Fits, Lasting, Covers, Impersonal,
         SessionInv, Stored
    <2>4. spc' = "save" /\ asOf' = now'
      BY <1>1, <2>1, Next2, SavesWs DEF SessionInv
    <2> QED BY <2>2, <2>3, <2>4 DEF SessionInv, Placed, Ahead
  <1>2. CASE Left1("ws")
            /\ (clean => saves[1].value \in Holds[ctx.org] /\ ctx.last \in Holds[ctx.org])
    <2>1. saves # <<>> /\ saves[1].key = "ws"
      BY <1>2, Firsts
    <2>2. Stored'
      BY <1>2, <2>1, SavesWs DEF SessionInv, Stored, Covers, Choosing
    <2>3. spc' = then /\ asOf' = now'
      BY <1>2, <2>1, SavesWs DEF Left1, SessionInv
    <2>4. Placed'
      BY <1>2, <2>1, <2>3, SavesWs DEF Choosing, Placed, Fits, Lasting, Covers, Impersonal
    <2> QED BY <2>2, <2>3, <2>4 DEF SessionInv
  <1>3. CASE Left1("last")
            /\ (clean => saves[1].value \in Holds[ctx.org] /\ ctx.ws \in Holds[ctx.org])
    <2>1. saves # <<>> /\ saves[1].key = "last"
      BY <1>3, Firsts
    <2>2. Stored'
      BY <1>3, <2>1, SavesLast DEF SessionInv, Stored, Covers, Choosing
    <2>3. spc' = then /\ asOf' = now'
      BY <1>3, <2>1, SavesLast DEF Left1, SessionInv
    <2>4. Placed'
      BY <1>3, <2>1, <2>3, SavesLast DEF Choosing, Placed, Fits, Lasting, Covers, Impersonal
    <2> QED BY <2>2, <2>3, <2>4 DEF SessionInv
  <1> QED BY <1>1, <1>2, <1>3 DEF Choosing

LEMMA AdoptingSave ==
  ASSUME SessionInv, Session!Save, Adopting
  PROVE  SessionInv'
  <1>1. CASE Left3("select", "token", "expires")
            /\ Covers(saves[2].value, saves[3].value) /\ Impersonal(saves[2].value)
    <2>1. saves # <<>> /\ saves[1].key = "select"
      BY <1>1, Firsts
    <2>2. Stored'
      BY <1>1, <2>1, SavesSelect DEF SessionInv, Stored, Covers, Adopting
    <2>3. Adopting'
      BY <1>1, <2>1, Next3, SavesSelect DEF Adopting, Fits, Lasting, Covers, Impersonal,
         SessionInv, Stored
    <2>4. spc' = "save" /\ asOf' = now'
      BY <1>1, <2>1, Next3, SavesSelect DEF SessionInv
    <2> QED BY <2>2, <2>3, <2>4 DEF SessionInv, Placed, Ahead
  <1>2. CASE Left2("token", "expires")
            /\ Covers(saves[1].value, saves[2].value) /\ Impersonal(saves[1].value)
    <2>1. saves # <<>> /\ saves[1].key = "token"
      BY <1>2, Firsts
    <2>2. Stored'
      BY <1>2, <2>1, SavesToken DEF SessionInv, Stored, Covers, Adopting
    <2>3. Adopting'
      BY <1>2, <2>1, Next2, SavesToken DEF Adopting, Fits, Lasting, Covers, Impersonal,
         SessionInv, Stored
    <2>4. spc' = "save" /\ asOf' = now'
      BY <1>2, <2>1, Next2, SavesToken DEF SessionInv
    <2> QED BY <2>2, <2>3, <2>4 DEF SessionInv, Placed, Ahead
  <1>3. CASE Left1("expires")
            /\ Covers(ctx.token, saves[1].value) /\ (clean => ctx.token = Nothing)
    <2>1. saves # <<>> /\ saves[1].key = "expires"
      BY <1>3, Firsts
    <2>2. Stored'
      BY <1>3, <2>1, SavesExpires DEF SessionInv, Stored, Covers, Adopting
    <2>3. spc' = then /\ asOf' = now'
      BY <1>3, <2>1, SavesExpires DEF Left1, SessionInv
    <2>4. Placed'
      BY <1>3, <2>1, <2>3, SavesExpires DEF Adopting, Placed, Fits, Lasting, Covers, Impersonal
    <2> QED BY <2>2, <2>3, <2>4 DEF SessionInv
  <1> QED BY <1>1, <1>2, <1>3 DEF Adopting

LEMMA EnteringSave ==
  ASSUME SessionInv, Session!Save, Entering
  PROVE  SessionInv'
  <1>1. CASE Left4("select", "token", "refresh", "expires")
            /\ Covers(saves[2].value, saves[4].value)
    <2>1. saves # <<>> /\ saves[1].key = "select"
      BY <1>1, Firsts
    <2>2. Stored'
      BY <1>1, <2>1, SavesSelect DEF SessionInv, Stored, Covers, Entering
    <2>3. Entering'
      BY <1>1, <2>1, Next4, SavesSelect DEF Entering, Fits, Lasting, Covers, Impersonal,
         SessionInv, Stored
    <2>4. spc' = "save" /\ asOf' = now'
      BY <1>1, <2>1, Next4, SavesSelect DEF SessionInv
    <2> QED BY <2>2, <2>3, <2>4 DEF SessionInv, Placed, Ahead
  <1>2. CASE Left3("token", "refresh", "expires") /\ Covers(saves[1].value, saves[3].value)
    <2>1. saves # <<>> /\ saves[1].key = "token"
      BY <1>2, Firsts
    <2>2. Stored'
      BY <1>2, <2>1, SavesToken DEF SessionInv, Stored, Covers, Entering
    <2>3. Entering'
      BY <1>2, <2>1, Next3, SavesToken DEF Entering, Fits, Lasting, Covers, Impersonal,
         SessionInv, Stored
    <2>4. spc' = "save" /\ asOf' = now'
      BY <1>2, <2>1, Next3, SavesToken DEF SessionInv
    <2> QED BY <2>2, <2>3, <2>4 DEF SessionInv, Placed, Ahead
  <1>3. CASE Left2("refresh", "expires") /\ Covers(ctx.token, saves[2].value)
    <2>1. saves # <<>> /\ saves[1].key = "refresh"
      BY <1>3, Firsts
    <2>2. Stored'
      BY <1>3, <2>1, SavesRefresh DEF SessionInv, Stored, Covers, Entering
    <2>3. Entering'
      BY <1>3, <2>1, Next2, SavesRefresh DEF Entering, Fits, Lasting, Covers, Impersonal,
         SessionInv, Stored
    <2>4. spc' = "save" /\ asOf' = now'
      BY <1>3, <2>1, Next2, SavesRefresh DEF SessionInv
    <2> QED BY <2>2, <2>3, <2>4 DEF SessionInv, Placed, Ahead
  <1>4. CASE Left1("expires") /\ Covers(ctx.token, saves[1].value)
    <2>1. saves # <<>> /\ saves[1].key = "expires"
      BY <1>4, Firsts
    <2>2. Stored'
      BY <1>4, <2>1, SavesExpires DEF SessionInv, Stored, Covers, Entering
    <2>3. spc' = then /\ asOf' = now'
      BY <1>4, <2>1, SavesExpires DEF Left1, SessionInv
    <2>4. Placed'
      BY <1>4, <2>1, <2>3, SavesExpires DEF Entering, Placed, Fits, Lasting, Covers, Impersonal
    <2> QED BY <2>2, <2>3, <2>4 DEF SessionInv
  <1> QED BY <1>1, <1>2, <1>3, <1>4 DEF Entering

LEMMA RenewingSave ==
  ASSUME SessionInv, Session!Save, Renewing
  PROVE  SessionInv'
  <1>1. CASE Left3("token", "expires", "ws") /\ Covers(saves[1].value, saves[2].value)
            /\ saves[3].value = ctx.last
    <2>1. saves # <<>> /\ saves[1].key = "token"
      BY <1>1, Firsts
    <2>2. Stored'
      BY <1>1, <2>1, SavesToken DEF SessionInv, Stored, Covers, Renewing
    <2>3. Renewing'
      BY <1>1, <2>1, Next3, SavesToken DEF Renewing, Fits, Lasting, Covers, Impersonal,
         SessionInv, Stored
    <2>4. spc' = "save" /\ asOf' = now'
      BY <1>1, <2>1, Next3, SavesToken DEF SessionInv
    <2> QED BY <2>2, <2>3, <2>4 DEF SessionInv, Placed, Ahead
  <1>2. CASE Left2("expires", "ws") /\ Covers(ctx.token, saves[1].value)
            /\ saves[2].value = ctx.last
    <2>1. saves # <<>> /\ saves[1].key = "expires"
      BY <1>2, Firsts
    <2>2. Stored'
      BY <1>2, <2>1, SavesExpires DEF SessionInv, Stored, Covers, Renewing
    <2>3. Choosing'
      BY <1>2, <2>1, Next2, SavesExpires DEF Renewing, Choosing, Fits, Lasting, Covers, Impersonal,
         SessionInv, Stored
    <2>4. spc' = "save" /\ asOf' = now'
      BY <1>2, <2>1, Next2, SavesExpires DEF SessionInv
    <2> QED BY <2>2, <2>3, <2>4 DEF SessionInv, Placed, Ahead
  <1> QED BY <1>1, <1>2 DEF Renewing

LEMMA SaveKeeps == SessionInv /\ Session!Save => SessionInv'
BY AsideSave, OrganizingSave, ChoosingSave, AdoptingSave, EnteringSave, RenewingSave
   DEF SessionInv, Placed, Ahead, Session!Save

(***************************************************************************)
(* The steps of a session between its saves.                               *)
(***************************************************************************)

\* A command goes on with its saves, or without any.
LEMMA GoesOn ==
  ASSUME NEW x, NEW label, Session!GoOn(x, label)
  PROVE  IF x = <<>> THEN spc' = label
                     ELSE spc' = "save" /\ saves' = x /\ then' = label
BY DEF Session!GoOn

LEMMA Before2 ==
  ASSUME NEW s, NEW a, NEW b
  PROVE  <<>> \o <<a, b>> = <<a, b>> /\ <<s>> \o <<a, b>> = <<s, a, b>>
  <1> DEFINE S == {s, a, b}
             c == <<s>> \o <<a, b>>
             d == <<s, a, b>>
  <1>1. <<s>> \in Seq(S) /\ <<a, b>> \in Seq(S) /\ d \in Seq(S)
    OBVIOUS
  <1>2. c \in Seq(S) /\ Len(c) = 3 /\ c[1] = s /\ c[2] = a /\ c[3] = b
    BY <1>1, ConcatProperties
  <1>3. Len(d) = 3 /\ d[1] = s /\ d[2] = a /\ d[3] = b
    OBVIOUS
  <1>4. <<>> \o <<a, b>> = <<a, b>>
    BY <1>1, ConcatEmptySeq
  <1>5. c = d
    <2> HIDE DEF S, c, d
    <2> QED BY <1>1, <1>2, <1>3, SeqEqual
  <1> QED BY <1>4, <1>5

LEMMA Before3 ==
  ASSUME NEW s, NEW a, NEW b, NEW e
  PROVE  <<>> \o <<a, b, e>> = <<a, b, e>> /\ <<s>> \o <<a, b, e>> = <<s, a, b, e>>
  <1> DEFINE S == {s, a, b, e}
             c == <<s>> \o <<a, b, e>>
             d == <<s, a, b, e>>
  <1>1. <<s>> \in Seq(S) /\ <<a, b, e>> \in Seq(S) /\ d \in Seq(S)
    OBVIOUS
  <1>2. c \in Seq(S) /\ Len(c) = 4 /\ c[1] = s /\ c[2] = a /\ c[3] = b /\ c[4] = e
    BY <1>1, ConcatProperties
  <1>3. Len(d) = 4 /\ d[1] = s /\ d[2] = a /\ d[3] = b /\ d[4] = e
    OBVIOUS
  <1>4. <<>> \o <<a, b, e>> = <<a, b, e>>
    BY <1>1, ConcatEmptySeq
  <1>5. c = d
    <2> HIDE DEF S, c, d
    <2> QED BY <1>1, <1>2, <1>3, SeqEqual
  <1> QED BY <1>4, <1>5

\* Before its saves a command makes the context the current one, if it is not.
LEMMA Selects ==
  Session!Selecting = IF selected THEN <<>> ELSE <<Session!Set("select", Nothing)>>
BY DEF Session!Selecting

LEMMA Selects2 ==
  ASSUME NEW a, NEW b, NEW label, Session!GoOn(Session!Selecting \o <<a, b>>, label)
  PROVE  /\ spc' = "save" /\ then' = label
         /\ \/ saves' = <<a, b>>
            \/ saves' = <<Session!Set("select", Nothing), a, b>>
  <1> PICK x : x = Session!Selecting \o <<a, b>>
    OBVIOUS
  <1>1. x = <<a, b>> \/ x = <<Session!Set("select", Nothing), a, b>>
    BY Selects, Before2
  <1>2. x # <<>>
    BY <1>1
  <1> QED BY <1>1, <1>2, GoesOn

LEMMA Selects3 ==
  ASSUME NEW a, NEW b, NEW c, NEW label,
         Session!GoOn(Session!Selecting \o <<a, b, c>>, label)
  PROVE  /\ spc' = "save" /\ then' = label
         /\ \/ saves' = <<a, b, c>>
            \/ saves' = <<Session!Set("select", Nothing), a, b, c>>
  <1> PICK x : x = Session!Selecting \o <<a, b, c>>
    OBVIOUS
  <1>1. x = <<a, b, c>> \/ x = <<Session!Set("select", Nothing), a, b, c>>
    BY Selects, Before3
  <1>2. x # <<>>
    BY <1>1
  <1> QED BY <1>1, <1>2, GoesOn

\* What is stored, where no step of the session writes.
LEMMA StoredKept == SessionInv /\ UNCHANGED <<ctx, of, now>> => Stored'
BY DEF SessionInv, Stored

\* Where a command ends, nothing is left to do.
LEMMA ExitKeeps ==
  ASSUME SessionInv, Session!Exit, UNCHANGED <<ctx, of, now>>,
         clean' => clean /\ spc \notin {"save", "workspaces"}
  PROVE  SessionInv'
BY StoredKept DEF SessionInv, Placed, Fits, Session!Exit

LEMMA FailKeeps ==
  ASSUME SessionInv, Session!Fail, UNCHANGED <<ctx, of, now>>, spc # "off",
         clean' => clean /\ spc \notin {"save", "workspaces"}
  PROVE  SessionInv'
BY StoredKept DEF SessionInv, Placed, Fits, Session!Exit, Session!Fail

\* The command goes on elsewhere: to an end, or past its hook.
LEMMA TurnKeeps ==
  ASSUME SessionInv, spc \notin {"off", "save", "workspaces"},
         UNCHANGED <<ctx, of, now, clean, asOf>>,
         NEW label, Session!GoOn(Session!Selecting, label),
         label = "finish" \/ (label = "run" /\ setup' # "sound")
  PROVE  SessionInv'
  <1>1. Stored' /\ Fits /\ asOf = now
    BY StoredKept DEF SessionInv, Placed
  <1>2. \/ spc' = label
        \/ /\ spc' = "save" /\ saves' = <<Session!Set("select", Nothing)>>
           /\ then' = label
    BY GoesOn, Selects
  <1>3. CASE spc' = label
    BY <1>1, <1>3 DEF SessionInv, Placed, Fits
  <1>4. CASE /\ spc' = "save" /\ saves' = <<Session!Set("select", Nothing)>>
             /\ then' = label
    <2>1. Aside'
      BY <1>1, <1>4 DEF Aside, Left1, Fits, Session!Set
    <2> QED BY <1>1, <1>4, <2>1 DEF SessionInv, Placed, Ahead
  <1> QED BY <1>2, <1>3, <1>4

\* A token of the environment is no user's, and its expiry is its own.
LEMMA AdoptKeeps ==
  ASSUME SessionInv, spc = "hook", UNCHANGED <<ctx, of, now, clean, asOf>>,
         NEW t, NEW e, Covers(t, e), Impersonal(t),
         Session!GoOn(Session!Selecting \o <<Session!Set("token", t), Session!Set("expires", e)>>,
                      "organizations")
  PROVE  SessionInv'
  <1> PICK sel : sel = Session!Set("select", Nothing)
    OBVIOUS
  <1> PICK token : token = Session!Set("token", t)
    OBVIOUS
  <1> PICK expires : expires = Session!Set("expires", e)
    OBVIOUS
  <1>1. Stored' /\ Fits /\ asOf = now
    BY StoredKept DEF SessionInv, Placed
  <1>2. /\ spc' = "save" /\ then' = "organizations"
        /\ saves' = <<token, expires>> \/ saves' = <<sel, token, expires>>
    BY Selects2
  <1>3. /\ sel.key = "select" /\ token.key = "token" /\ expires.key = "expires"
        /\ token.value = t /\ expires.value = e
    BY DEF Session!Set
  <1>4. Covers(t, e)' /\ Impersonal(t)'
    BY DEF Covers, Impersonal
  <1>5. Adopting'
    <2>1. CASE saves' = <<token, expires>>
      <3>1. Left2("token", "expires")' /\ saves[1]' = token /\ saves[2]' = expires
        BY <1>3, <2>1 DEF Left2
      <3> QED BY <1>1, <1>2, <1>3, <1>4, <3>1 DEF Adopting, Fits
    <2>2. CASE saves' = <<sel, token, expires>>
      <3>1. /\ Left3("select", "token", "expires")'
            /\ saves[2]' = token /\ saves[3]' = expires
        BY <1>3, <2>2 DEF Left3
      <3> QED BY <1>1, <1>2, <1>3, <1>4, <3>1 DEF Adopting, Fits
    <2> QED BY <1>2, <2>1, <2>2
  <1> QED BY <1>1, <1>2, <1>5 DEF SessionInv, Placed, Ahead

\* A list of saves that is a whole plan.
LEMMA PlanKeeps ==
  ASSUME SessionInv, spc # "off", UNCHANGED <<ctx, of, now, asOf>>, spc' = "save", Ahead'
  PROVE  SessionInv'
BY StoredKept DEF SessionInv, Placed

LEMMA StartKeeps ==
  ASSUME SessionInv, NEW k \in Session!Commands, Session!Start(k)
  PROVE  SessionInv'
BY StoredKept DEF SessionInv, Placed, Fits, Session!Start, Session!Goto, Session!GoOn

LEMMA CheckAPITokenKeeps ==
  ASSUME SessionInv, Session!CheckAPIToken
  PROVE  SessionInv'
  <1> PICK t : t = scmd.env
    OBVIOUS
  <1>1. spc = "hook" /\ t \in ApiToken /\ UNCHANGED <<ctx, of, now, clean, asOf>>
    BY DEF Session!CheckAPIToken, Session!UNCHANGED_world
  <1>2. /\ t.bad \in {"no", "malformed", "other"} /\ t.until \in Nat /\ t \notin User
        /\ now \in Nat
    BY <1>1, SessionSound DEF Session!Sound, SessionInv, Stored
  <1>3. \/ Session!GoOn(Session!Selecting, "finish")
        \/ setup' = "failed" /\ Session!GoOn(Session!Selecting, "run")
        \/ /\ t.until >= now
           /\ Session!GoOn(Session!Selecting
                             \o <<Session!Set("token", [who |-> t, until |-> t.until]),
                                  Session!Set("expires", t.until - now)>>, "organizations")
    BY <1>2 DEF Session!CheckAPIToken, Session!Lasts
  <1>4. t.until >= now => /\ Covers([who |-> t, until |-> t.until], t.until - now)
                          /\ Impersonal([who |-> t, until |-> t.until])
    BY <1>2 DEF Covers, Impersonal
  <1> QED BY <1>1, <1>3, <1>4, TurnKeeps, AdoptKeeps

LEMMA AdoptAPITokenKeeps ==
  ASSUME SessionInv, Session!AdoptAPIToken
  PROVE  SessionInv'
  <1>1. spc = "organizations" /\ UNCHANGED <<ctx, of, now, clean>>
    BY DEF Session!AdoptAPIToken, Session!UNCHANGED_world
  <1>2. ASSUME NEW w, NEW o, Session!Answered, UNCHANGED asOf,
               Session!GoOn(<<Session!Set("ws", w), Session!Set("org", o)>>, "run")
        PROVE  SessionInv'
    <2>1. /\ spc' = "save" /\ then' = "run"
          /\ saves' = <<Session!Set("ws", w), Session!Set("org", o)>>
      BY <1>2, GoesOn
    <2>2. Left2("ws", "org")'
      BY <2>1 DEF Left2, Session!Set
    <2>3. Lasting /\ ~clean
      BY <1>1, <1>2 DEF SessionInv, Stored, Placed, Lasting, Session!Answered, Session!Carries
    <2>4. Organizing'
      BY <1>1, <2>1, <2>2, <2>3 DEF Organizing, Lasting
    <2> QED BY <1>1, <1>2, <2>1, <2>4, PlanKeeps DEF Ahead
  <1> QED BY <1>1, <1>2, ExitKeeps DEF Session!AdoptAPIToken

LEMMA CheckAPIKeysKeeps ==
  ASSUME SessionInv, Session!CheckAPIKeys
  PROVE  SessionInv'
  <1> PICK k : k = scmd.env
    OBVIOUS
  <1>1. spc = "hook" /\ k \in Key /\ UNCHANGED <<ctx, of, now, clean>>
    BY DEF Session!CheckAPIKeys, Session!UNCHANGED_world
  <1>2. now \in Nat /\ Life \in Nat /\ k \notin User
    BY <1>1, SessionSound DEF Session!Sound, SessionInv, Stored
  <1>3. ASSUME NEW t \in {Nothing, [who |-> k, until |-> now + Life]}
        PROVE  Covers(t, IF t = Nothing THEN 0 ELSE Life) /\ Impersonal(t)
    BY <1>2 DEF Covers, Impersonal
  <1>4. ASSUME NEW t \in {Nothing, [who |-> k, until |-> now + Life]}, UNCHANGED asOf,
               Session!GoOn(Session!Selecting
                              \o <<Session!Set("token", t),
                                   Session!Set("expires", IF t = Nothing THEN 0 ELSE Life)>>,
                            "organizations")
        PROVE  SessionInv'
    BY <1>1, <1>3, <1>4, AdoptKeeps
  <1> QED BY <1>1, <1>4, TurnKeeps, ExitKeeps DEF Session!CheckAPIKeys

LEMMA AdoptAPIKeysKeeps ==
  ASSUME SessionInv, Session!AdoptAPIKeys
  PROVE  SessionInv'
  <1>1. spc = "organizations" /\ UNCHANGED <<ctx, of, now, clean>>
    BY DEF Session!AdoptAPIKeys, Session!UNCHANGED_world
  <1>2. ASSUME NEW w, NEW o, Session!Answered, UNCHANGED asOf,
               Session!GoOn(<<Session!Set("ws", w), Session!Set("org", o)>>, "run")
        PROVE  SessionInv'
    <2>1. /\ spc' = "save" /\ then' = "run"
          /\ saves' = <<Session!Set("ws", w), Session!Set("org", o)>>
      BY <1>2, GoesOn
    <2>2. Left2("ws", "org")'
      BY <2>1 DEF Left2, Session!Set
    <2>3. Lasting /\ ~clean
      BY <1>1, <1>2 DEF SessionInv, Stored, Placed, Lasting, Session!Answered, Session!Carries
    <2>4. Organizing'
      BY <1>1, <2>1, <2>2, <2>3 DEF Organizing, Lasting
    <2> QED BY <1>1, <1>2, <2>1, <2>4, PlanKeeps DEF Ahead
  <1> QED BY <1>1, <1>2, FailKeeps DEF Session!AdoptAPIKeys

\* A stored token that is not about to expire lasts, where the expiry is its own.
LEMMA CheckTokenKeeps ==
  ASSUME SessionInv, Session!CheckToken
  PROVE  SessionInv'
  <1>1. spc = "hook" /\ UNCHANGED <<ctx, of, now, clean>>
    BY DEF Session!CheckToken, Session!UNCHANGED_world
  <1>2. ASSUME ~Session!Expired, Session!Goto("run"), UNCHANGED asOf
        PROVE  SessionInv'
    <2>1. of = ctx.token => Lasting
      BY <1>2, SessionSound
         DEF Session!Sound, Session!Expired, SessionInv, Stored, Lasting
    <2>2. spc' = "run"
      BY <1>2 DEF Session!Goto, Session!GoOn
    <2> QED BY <1>1, <1>2, <2>1, <2>2, StoredKept DEF SessionInv, Placed, Fits, Lasting
  <1> QED BY <1>1, <1>2, FailKeeps DEF Session!CheckToken

LEMMA AskToLoginKeeps ==
  ASSUME SessionInv, Session!AskToLogin
  PROVE  SessionInv'
BY StoredKept DEF SessionInv, Placed, Fits, Session!AskToLogin, Session!UNCHANGED_world,
   Session!Goto, Session!GoOn

LEMMA RefreshKeeps ==
  ASSUME SessionInv, Session!Refresh
  PROVE  SessionInv'
  <1>1. spc = "hook" /\ UNCHANGED <<ctx, of, now, clean>>
    BY DEF Session!Refresh, Session!UNCHANGED_world
  <1>2. now \in Nat /\ Life \in Nat /\ Fits
    BY <1>1, SessionSound DEF Session!Sound, SessionInv, Stored, Placed
  <1>3. ASSUME NEW t, t = Nothing \/ t = [who |-> ctx.refresh, until |-> now + Life],
               Session!GoOn(Session!Renewed(t), "run"), UNCHANGED asOf
        PROVE  SessionInv'
    <2> PICK e : e = IF t = Nothing THEN 0 ELSE Life
      OBVIOUS
    <2>1. Session!Renewed(t) = <<Session!Set("token", t), Session!Set("expires", e),
                                 Session!Set("ws", ctx.last)>>
      BY DEF Session!Renewed
    <2>2. Covers(t, e)
      BY <1>2, <1>3 DEF Covers
    <2>3. /\ spc' = "save" /\ then' = "run"
          /\ saves' = <<Session!Set("token", t), Session!Set("expires", e),
                        Session!Set("ws", ctx.last)>>
      BY <1>3, <2>1, GoesOn
    <2>4. /\ Left3("token", "expires", "ws")'
          /\ saves'[1].value = t /\ saves'[2].value = e /\ saves'[3].value = ctx.last
      BY <2>3 DEF Left3, Session!Set
    <2>5. Renewing'
      BY <1>1, <1>2, <2>2, <2>3, <2>4 DEF Renewing, Fits, Covers
    <2> QED BY <1>1, <1>3, <2>3, <2>5, PlanKeeps DEF Ahead
  <1> QED BY <1>1, <1>3, FailKeeps, ExitKeeps DEF Session!Refresh

LEMMA LoginKeeps ==
  ASSUME SessionInv, Session!Login
  PROVE  SessionInv'
  <1>1. spc \in {"login", "token-login"} /\ UNCHANGED <<ctx, of, now, clean>>
    BY DEF Session!Login, Session!UNCHANGED_world
  <1>2. now \in Nat /\ Life \in Nat /\ Hour \in Nat /\ Fits
    BY <1>1, SessionSound DEF Session!Sound, SessionInv, Stored, Placed
  <1>3. ASSUME NEW u, UNCHANGED asOf, NEW given \in BOOLEAN,
               Session!GoOn(Session!Selecting \o Session!Entered(u, given), "session")
        PROVE  SessionInv'
    <2> PICK sel : sel = Session!Set("select", Nothing)
      OBVIOUS
    <2> PICK e : e = IF given THEN Hour ELSE Life
      OBVIOUS
    <2> PICK t : t = [who |-> u, until |-> now + e]
      OBVIOUS
    <2> PICK token : token = Session!Set("token", t)
      OBVIOUS
    <2> PICK refresh : refresh = Session!Set("refresh", IF given THEN Nothing ELSE u)
      OBVIOUS
    <2> PICK expires : expires = Session!Set("expires", e)
      OBVIOUS
    <2>1. Session!Entered(u, given) = <<token, refresh, expires>>
      BY DEF Session!Entered
    <2>2. Covers(t, e)
      BY <1>2 DEF Covers
    <2>3. /\ spc' = "save" /\ then' = "session"
          /\ \/ saves' = <<token, refresh, expires>>
             \/ saves' = <<sel, token, refresh, expires>>
      BY <1>3, <2>1, Selects3
    <2>4. /\ sel.key = "select" /\ token.key = "token" /\ refresh.key = "refresh"
          /\ expires.key = "expires" /\ token.value = t /\ expires.value = e
      BY DEF Session!Set
    <2>5. Covers(t, e)' /\ Fits'
      BY <1>1, <1>2, <2>2 DEF Covers, Fits
    <2>6. CASE saves' = <<token, refresh, expires>>
      <3>1. /\ Left3("token", "refresh", "expires")'
            /\ saves[1]' = token /\ saves[3]' = expires
        BY <2>4, <2>6 DEF Left3
      <3> QED BY <1>1, <1>3, <2>3, <2>4, <2>5, <3>1, PlanKeeps DEF Entering, Ahead
    <2>7. CASE saves' = <<sel, token, refresh, expires>>
      <3>1. /\ Left4("select", "token", "refresh", "expires")'
            /\ saves[2]' = token /\ saves[4]' = expires
        BY <2>4, <2>7 DEF Left4
      <3> QED BY <1>1, <1>3, <2>3, <2>4, <2>5, <3>1, PlanKeeps DEF Entering, Ahead
    <2> QED BY <2>3, <2>6, <2>7
  <1> QED BY <1>1, <1>3, FailKeeps DEF Session!Login

LEMMA LogoutKeeps ==
  ASSUME SessionInv, Session!Logout
  PROVE  SessionInv'
  <1>1. spc = "logout" /\ UNCHANGED <<ctx, of, now, clean, asOf>> /\ Fits
    BY DEF Session!Logout, Session!UNCHANGED_world, SessionInv, Placed
  <1>2. CASE selected
    <2>1. /\ spc' = "save" /\ then' = "finish"
          /\ saves' = <<Session!Set("clear", Nothing), Session!Set("reset", Nothing)>>
      BY <1>2, GoesOn DEF Session!Logout
    <2>2. Left2("clear", "reset")'
      BY <2>1 DEF Left2, Session!Set
    <2> QED BY <1>1, <2>1, <2>2, PlanKeeps DEF Aside, Fits, Ahead
  <1>3. CASE ~selected
    <2>1. spc' = "finish"
      BY <1>3, GoesOn DEF Session!Logout
    <2> QED BY <1>1, <2>1, StoredKept DEF SessionInv, Placed, Fits
  <1> QED BY <1>2, <1>3

LEMMA ResolveOrgKeeps ==
  ASSUME SessionInv, Session!ResolveOrg
  PROVE  SessionInv'
  <1>1. spc = "session" /\ UNCHANGED <<ctx, of, now, clean>>
    BY DEF Session!ResolveOrg, Session!UNCHANGED_world
  <1>2. ASSUME NEW o, Session!GoOn(<<Session!Set("org", o)>>, "workspaces"), UNCHANGED asOf
        PROVE  SessionInv'
    <2>1. /\ spc' = "save" /\ then' = "workspaces"
          /\ saves' = <<Session!Set("org", o)>>
      BY <1>2, GoesOn
    <2>2. Left1("org")'
      BY <2>1 DEF Left1, Session!Set
    <2> QED BY <1>1, <1>2, <2>1, <2>2, PlanKeeps DEF Organizing, Ahead
  <1> QED BY <1>1, <1>2, FailKeeps DEF Session!ResolveOrg

\* A Workspace chosen with the Organization, or none.
LEMMA ChoicesFit ==
  ASSUME NEW x \in Session!Choices
  PROVE  \/ x = <<>>
         \/ \E w \in Holds[ctx.org] :
               x = <<Session!Set("ws", w), Session!Set("last", w)>>
         \/ x = <<Session!Set("ws", ctx.last)>> /\ ctx.last \in Holds[ctx.org]
BY DEF Session!Choices, Session!LastUsed

\* The Workspace and the last one used, or that one again.
LEMMA ChoosingKeeps ==
  ASSUME SessionInv, spc # "off", UNCHANGED <<ctx, of, now, asOf>>, NEW label, NEW x,
         Session!GoOn(x, label),
         label = "finish" \/ (label = "run" /\ (setup' = "sound" => Lasting)),
         \/ \E w \in Holds[ctx.org] :
               x = <<Session!Set("ws", w), Session!Set("last", w)>>
         \/ x = <<Session!Set("ws", ctx.last)>> /\ ctx.last \in Holds[ctx.org]
  PROVE  SessionInv'
  <1> x # <<>>
    OBVIOUS
  <1>1. spc' = "save" /\ then' = label /\ saves' = x
    BY GoesOn
  <1>2. ASSUME NEW w \in Holds[ctx.org],
               x = <<Session!Set("ws", w), Session!Set("last", w)>>
        PROVE  Choosing'
    <2>1. Left2("ws", "last")' /\ saves'[1].value = w /\ saves'[2].value = w
      BY <1>1, <1>2 DEF Left2, Session!Set
    <2> QED BY <1>1, <2>1 DEF Choosing, Lasting
  <1>3. ASSUME x = <<Session!Set("ws", ctx.last)>>, ctx.last \in Holds[ctx.org]
        PROVE  Choosing'
    <2>1. Left1("ws")' /\ saves'[1].value = ctx.last
      BY <1>1, <1>3 DEF Left1, Session!Set
    <2> QED BY <1>1, <1>3, <2>1 DEF Choosing, Lasting
  <1> QED BY <1>1, <1>2, <1>3, PlanKeeps DEF Ahead

LEMMA AnsweredLasts == SessionInv /\ Session!Answered => Lasting
BY DEF SessionInv, Stored, Lasting, Session!Answered, Session!Carries

LEMMA ChooseWorkspaceKeeps ==
  ASSUME SessionInv, Session!ChooseWorkspace
  PROVE  SessionInv'
  <1>1. spc = "workspaces" /\ UNCHANGED <<ctx, of, now>>
    BY DEF Session!ChooseWorkspace
  <1>2. ASSUME Session!Answered, NEW x \in Session!Choices, UNCHANGED <<setup, asOf>>,
               Session!GoOn(x, IF setup = "sound" THEN "run" ELSE "finish"),
               clean' = (x # <<>>)
        PROVE  SessionInv'
    <2>1. Lasting
      BY <1>2, AnsweredLasts
    <2>2. CASE x = <<>>
      <3>1. spc' \in {"run", "finish"} /\ ~clean'
        BY <1>2, <2>2, GoesOn
      <3> QED
        BY <1>1, <1>2, <2>1, <3>1, StoredKept DEF SessionInv, Placed, Fits, Lasting
    <2>3. CASE x # <<>>
      BY <1>1, <1>2, <2>1, <2>3, ChoicesFit, ChoosingKeeps
    <2> QED BY <2>2, <2>3
  <1>3. CASE Session!Fail /\ clean' = FALSE
    BY <1>1, <1>3, FailKeeps
  <1> QED BY <1>2, <1>3 DEF Session!ChooseWorkspace

LEMMA CallKeeps ==
  ASSUME SessionInv, Session!Call \/ Session!Finish
  PROVE  SessionInv'
BY ExitKeeps DEF Session!Call, Session!Finish, Session!UNCHANGED_world

LEMMA SwitchOrganizationKeeps ==
  ASSUME SessionInv, Session!SwitchOrganization
  PROVE  SessionInv'
  <1>1. spc = "run" /\ UNCHANGED <<ctx, of, now>>
    BY DEF Session!SwitchOrganization
  <1>2. ASSUME Session!GoOn(<<Session!Set("org", scmd.arg)>>, "session"), clean' = FALSE,
               UNCHANGED asOf
        PROVE  SessionInv'
    <2>1. /\ spc' = "save" /\ then' = "session"
          /\ saves' = <<Session!Set("org", scmd.arg)>>
      BY <1>2, GoesOn
    <2>2. Left1("org")'
      BY <2>1 DEF Left1, Session!Set
    <2> QED BY <1>1, <1>2, <2>1, <2>2, PlanKeeps DEF Organizing, Ahead
  <1>3. CASE Session!Exit /\ UNCHANGED clean
    BY <1>1, <1>3, ExitKeeps
  <1> QED BY <1>2, <1>3 DEF Session!SwitchOrganization

LEMMA SwitchWorkspaceKeeps ==
  ASSUME SessionInv, Session!SwitchWorkspace
  PROVE  SessionInv'
  <1>1. spc = "run" /\ UNCHANGED <<ctx, of, now, clean>>
    BY DEF Session!SwitchWorkspace, Session!UNCHANGED_world
  <1>2. ASSUME NEW w \in Holds[ctx.org], UNCHANGED asOf,
               Session!GoOn(<<Session!Set("ws", w), Session!Set("last", w)>>, "finish")
        PROVE  SessionInv'
    BY <1>1, <1>2, ChoosingKeeps
  <1> QED BY <1>1, <1>2, ExitKeeps DEF Session!SwitchWorkspace

LEMMA KilledKeeps ==
  ASSUME SessionInv, Session!Killed
  PROVE  SessionInv'
BY ExitKeeps DEF Session!Killed

LEMMA WorldKeeps ==
  ASSUME SessionInv, Session!Tick \/ Session!Leave
  PROVE  SessionInv'
  <1>1. CASE Session!Tick
    <2>1. /\ spc = "off" /\ spc' = "off" /\ now' = now + 1
          /\ UNCHANGED <<ctx, of, clean>>
      BY <1>1 DEF Session!Tick
    <2>2. Stored'
      BY <2>1 DEF SessionInv, Stored
    <2> QED BY <2>1, <2>2 DEF SessionInv, Placed, Fits
  <1>2. CASE Session!Leave
    <2>1. spc = "off" /\ spc' = "off" /\ UNCHANGED <<ctx, of, clean, now>>
      BY <1>2 DEF Session!Leave
    <2> QED BY <2>1, StoredKept DEF SessionInv, Placed, Fits
  <1> QED BY <1>1, <1>2

LEMMA SessionStep == SessionInv /\ [Session!Next]_(Session!vars) => SessionInv'
  <1> SUFFICES ASSUME SessionInv, [Session!Next]_(Session!vars)
               PROVE  SessionInv'
    OBVIOUS
  <1>1. CASE Session!Next
    BY <1>1, StartKeeps, CheckAPITokenKeeps, AdoptAPITokenKeeps, CheckAPIKeysKeeps,
       AdoptAPIKeysKeeps, CheckTokenKeeps, AskToLoginKeeps, RefreshKeeps, LoginKeeps,
       LogoutKeeps, ResolveOrgKeeps, ChooseWorkspaceKeeps, CallKeeps,
       SwitchOrganizationKeeps, SwitchWorkspaceKeeps, SaveKeeps, KilledKeeps, WorldKeeps
       DEF Session!Next
  <1>2. CASE UNCHANGED Session!vars
    BY <1>2 DEF Session!vars, SessionInv, Stored, Placed, Ahead, Aside, Organizing,
       Choosing, Adopting, Entering, Renewing, Left1, Left2, Left3, Left4, Covers,
       Impersonal, Fits, Lasting
  <1> QED BY <1>1, <1>2

\* A command runs with a token that had not expired when it began, where the expiry
\* in the context is that token's, and in a Workspace of its Organization from a
\* login or a switch that chose one on (checkToken, switchToLastUsedWorkspace).
THEOREM LoginFits == Session!Spec => []SessionFits
  <1>1. SessionInv => SessionFits
    BY DEF SessionInv, Placed, Fits, Lasting, SessionFits, Session!SessionFits,
       Session!ExpiredUnused, Session!WorkspaceOfOrg
  <1> QED BY <1>1, SessionInit, SessionStep, PTL DEF Session!Spec

(***************************************************************************)
(* The Otto binary.                                                        *)
(***************************************************************************)
Is(c, l) == launch[c].at = l
Works(c) == launch[c].at \in Otto!Installing

Places == {"idle", "ensure", "cache", "auto", "exec", "get", "unpack", "binary", "package"}

\* What a command may be.
Run == [at : Places, then : {"idle", "cache", "exec", Nothing},
        ver : (MinVersion..Newest) \cup {Nothing}, todo : SUBSET {"binary", "package"},
        fd : Inode \cup {Nothing}, hit : BOOLEAN, alone : BOOLEAN]
Runs == [CLIs -> Run]

OttoType ==
  /\ latest \in MinVersion..Newest
  /\ launch \in Runs
  /\ bin \in [{"platform", "otto"} -> Inode \cup {Nothing}]
  /\ inode \in [Inode -> [vers : SUBSET (1..Newest), full : BOOLEAN]]
  /\ met \in BOOLEAN /\ cut \in BOOLEAN
  /\ pkg \in (1..Newest) \cup {Nothing, Torn}
  /\ \A c \in CLIs :
       /\ (launch[c].fd # Nothing) <=> Is(c, "binary")
       /\ Works(c) => launch[c].then \in {"idle", "cache", "exec"}
       /\ Works(c) /\ ~Is(c, "get") => launch[c].ver # Nothing

\* The binary in use is not the one being unpacked.
Apart == bin["platform"] # Nothing => bin["platform"] # bin["otto"]

\* Of two installs at work neither is alone, and they have met.
Overlaps ==
  /\ \A c, o \in CLIs : c # o /\ Works(c) /\ Works(o) => ~launch[c].alone
  /\ \A c \in CLIs : Works(c) /\ ~launch[c].alone => met

\* What an install that is alone has unpacked is there as it unpacked it.
Install(c) ==
  Works(c) /\ launch[c].alone /\ ~Is(c, "get") =>
    /\ Is(c, "binary") =>
         /\ launch[c].fd = bin["platform"] /\ ~launch[c].hit
         /\ inode[launch[c].fd].vers = {launch[c].ver}
         /\ "binary" \notin launch[c].todo
    /\ ~Is(c, "binary") /\ "binary" \notin launch[c].todo =>
         /\ bin["platform"] # Nothing
         /\ inode[bin["platform"]] = [vers |-> {launch[c].ver}, full |-> TRUE]
    /\ Is(c, "package") => "package" \notin launch[c].todo
    /\ ~Is(c, "package") /\ "package" \notin launch[c].todo => pkg = launch[c].ver

WholeOtto ==
  ~met /\ bin["otto"] # Nothing =>
    inode[bin["otto"]].full /\ \E v \in 1..Newest : inode[bin["otto"]].vers = {v}

\* Before an install unpacks, package.json tells of the binary, and past
\* EnsureBinary it is not too old.
Told ==
  ~met /\ ~cut /\ (\A c \in CLIs : Works(c) => Is(c, "get")) =>
    /\ \/ pkg = Nothing /\ bin["otto"] = Nothing
       \/ pkg \in 1..Newest /\ bin["otto"] # Nothing /\ inode[bin["otto"]].vers = {pkg}
    /\ \A c \in CLIs : \/ launch[c].at \in {"cache", "auto", "exec"}
                       \/ Is(c, "get") /\ launch[c].then = "exec"
         => pkg \in MinVersion..Newest

OttoInv == OttoType /\ Apart /\ Overlaps /\ (\A c \in CLIs : Install(c)) /\ WholeOtto /\ Told


LEMMA OttoStarts == Otto!OttoInit => OttoInv
  <1> SUFFICES ASSUME Otto!OttoInit PROVE OttoInv
    OBVIOUS
  <1>9. /\ MinVersion \in Nat \ {0} /\ Newest \in Nat /\ MinVersion <= Newest
        /\ Nothing \notin Nat \cup Inode /\ Inode # {}
    BY OttoSound DEF Otto!Sound
  <1> USE <1>9
  <1> DEFINE j == CHOOSE i \in Inode : TRUE
  <1>0. j \in Inode
    OBVIOUS
  <1>1. PICK v \in {Nothing} \cup (1..MinVersion) :
          /\ pkg = v
          /\ bin = [n \in {"platform", "otto"} |->
                      IF n = "otto" /\ v # Nothing THEN j ELSE Nothing]
          /\ inode = [i \in Inode |-> IF i = bin["otto"]
                                      THEN [vers |-> {v}, full |-> TRUE] ELSE Otto!Empty]
    BY DEF Otto!OttoInit
  <1> HIDE DEF j
  <1>7. /\ v # Nothing => v \in 1..Newest
        /\ bin["otto"] = (IF v # Nothing THEN j ELSE Nothing) /\ bin["platform"] = Nothing
        /\ \A i \in Inode : i # Nothing
    <2>1. v # Nothing => v \in 1..Newest
      OBVIOUS
    <2>2. /\ bin["otto"] = (IF v # Nothing THEN j ELSE Nothing)
          /\ bin["platform"] = Nothing
      BY <1>1
    <2> QED BY <2>1, <2>2
  <1>2. /\ launch = [c \in CLIs |-> Otto!Resting] /\ latest = MinVersion
        /\ met = FALSE /\ cut = FALSE
    BY DEF Otto!OttoInit
  <1>3. OttoType
    <2>1. launch \in Runs
      BY <1>2 DEF Runs, Run, Otto!Resting, Places
    <2>2. bin \in [{"platform", "otto"} -> Inode \cup {Nothing}]
      BY <1>0, <1>1
    <2>3. inode \in [Inode -> [vers : SUBSET (1..Newest), full : BOOLEAN]]
      <3>1. ASSUME NEW i \in Inode, i = bin["otto"]
            PROVE  v \in 1..Newest
        BY <1>7, <3>1
      <3>2. ASSUME NEW i \in Inode
            PROVE  inode[i] \in [vers : SUBSET (1..Newest), full : BOOLEAN]
        BY <1>1, <3>1 DEF Otto!Empty
      <3> QED BY <1>1, <3>2
    <2>4. latest \in MinVersion..Newest /\ pkg \in (1..Newest) \cup {Nothing, Torn}
      <3>1. pkg \in (1..Newest) \cup {Nothing, Torn}
        BY <1>1, <1>7
      <3>2. latest \in MinVersion..Newest
        BY <1>2
      <3> QED BY <3>1, <3>2
    <2> QED BY <1>2, <2>1, <2>2, <2>3, <2>4
        DEF OttoType, Is, Works, Otto!Resting, Otto!Installing
  <1>4. WholeOtto
    BY <1>0, <1>1, <1>7 DEF WholeOtto
  <1>5. Told
    BY <1>0, <1>1, <1>2, <1>7 DEF Told, Is, Works, Otto!Resting, Otto!Installing
  <1>6. Apart /\ Overlaps /\ \A c \in CLIs : Install(c)
    BY <1>0, <1>1, <1>2 DEF Apart, Overlaps, Install, Is, Works, Otto!Resting, Otto!Installing
  <1> QED BY <1>3, <1>4, <1>5, <1>6 DEF OttoInv

\* An install has a version from its download on.
LEMMA VersionIsSome ==
  ASSUME OttoInv, NEW c \in CLIs, Works(c), launch[c].at # "get"
  PROVE  launch[c].ver \in MinVersion..Newest /\ launch[c].ver \in 1..Newest
  <1>1. launch[c].ver \in (MinVersion..Newest) \cup {Nothing}
    BY DEF OttoInv, OttoType, Runs, Run
  <1>2. launch[c].ver # Nothing
    BY DEF OttoInv, OttoType, Is
  <1>3. MinVersion \in Nat \ {0} /\ Newest \in Nat
    BY OttoSound DEF Otto!Sound
  <1> QED BY <1>1, <1>2, <1>3

LEMMA DownloadKeeps ==
  ASSUME OttoInv, NEW c \in CLIs, NEW next \in {"idle", "cache", "exec"}, ~Works(c),
         Otto!Download(c, next), next = "exec" => Is(c, "auto"),
         UNCHANGED <<latest, pkg, inode, bin, cut>>
  PROVE  OttoInv'
  <1> USE OttoSound DEF Otto!Sound
  <1> DEFINE others == {o \in CLIs \ {c} : Works(o)}
  <1>1. /\ launch' = [o \in CLIs |->
             IF o = c THEN [Otto!Resting EXCEPT !.at = "get", !.then = next,
                                                !.alone = others = {}]
             ELSE IF o \in others THEN [launch[o] EXCEPT !.alone = FALSE] ELSE launch[o]]
        /\ met' = (met \/ others # {})
    BY DEF Otto!Download, Works, Otto!Busy
  <1>2. launch \in Runs /\ met \in BOOLEAN
    BY DEF OttoInv, OttoType, Runs, Run
  <1>3. /\ launch'[c] = [at |-> "get", then |-> next, ver |-> Nothing, todo |-> {},
                         fd |-> Nothing, hit |-> FALSE, alone |-> others = {}]
        /\ \A o \in CLIs \ {c} :
              launch'[o] = IF Works(o) THEN [launch[o] EXCEPT !.alone = FALSE] ELSE launch[o]
    BY <1>1 DEF Otto!Resting
  <1>4. launch' \in Runs
    <2>1. launch'[c] \in Run
      BY <1>3 DEF Run, Places
    <2>2. ASSUME NEW o \in CLIs \ {c}
          PROVE  launch'[o] \in Run
      <3>1. launch[o] \in Run /\ o # c
        BY <1>2, <2>2 DEF Runs
      <3>2. [launch[o] EXCEPT !.alone = FALSE] \in Run
        BY <3>1 DEF Run
      <3> QED BY <1>3, <2>2, <3>1, <3>2
    <2> QED BY <1>1, <2>1, <2>2 DEF Runs
  <1>5. \A o \in CLIs \ {c} :
           /\ launch'[o].at = launch[o].at /\ launch'[o].then = launch[o].then
           /\ launch'[o].ver = launch[o].ver /\ launch'[o].fd = launch[o].fd
           /\ Works(o)' <=> Works(o)
           /\ Works(o) => ~launch'[o].alone
    <2> SUFFICES ASSUME NEW o \in CLIs \ {c}
                 PROVE  /\ launch'[o].at = launch[o].at /\ launch'[o].then = launch[o].then
                        /\ launch'[o].ver = launch[o].ver /\ launch'[o].fd = launch[o].fd
                        /\ Works(o) => ~launch'[o].alone
      BY DEF Works
    <2>1. launch[o] \in Run /\ o # c
      BY <1>2 DEF Runs
    <2>2. CASE Works(o)
      <3>1. launch'[o] = [launch[o] EXCEPT !.alone = FALSE]
        BY <1>3, <2>1, <2>2
      <3> QED BY <2>1, <3>1 DEF Run
    <2>3. CASE ~Works(o)
      BY <1>3, <2>1, <2>3
    <2> QED BY <2>2, <2>3
  <1>6. Works(c)' /\ (Is(c, "get"))' /\ launch'[c].then = next /\ launch'[c].fd = Nothing
    BY <1>3 DEF Works, Is, Otto!Installing
  <1>7. (launch'[c].alone <=> others = {}) /\ (others # {} => met')
    BY <1>1, <1>3
  <1>8. OttoType'
    <2>1. ASSUME NEW o \in CLIs
          PROVE  /\ (launch'[o].fd # Nothing) <=> launch'[o].at = "binary"
                 /\ Works(o)' => launch'[o].then \in {"idle", "cache", "exec"}
                 /\ Works(o)' /\ launch'[o].at # "get" => launch'[o].ver # Nothing
      <3>1. CASE o = c
        BY <1>6, <3>1 DEF Is
      <3>2. CASE o # c
        BY <1>5, <3>2 DEF OttoInv, OttoType, Is
      <3> QED BY <3>1, <3>2
    <2> QED BY <1>1, <1>2, <1>4, <2>1 DEF OttoInv, OttoType, Runs, Run, Is
  <1>9. Overlaps'
    BY <1>5, <1>6, <1>7 DEF Overlaps
  <1>10. (\A o \in CLIs : Install(o))'
    BY <1>5, <1>6 DEF Install
  <1>11. met' = FALSE => met = FALSE /\ others = {}
    BY <1>1, <1>2
  <1> HIDE DEF others
  <1>12. Told'
    <2>1. ASSUME ~met', ~cut', \A o \in CLIs : Works(o)' => (Is(o, "get"))'
          PROVE  \A o \in CLIs : Works(o) => Is(o, "get")
      BY <1>5, <2>1 DEF Is
    <2> QED BY <1>3, <1>5, <1>6, <1>11, <2>1 DEF OttoInv, Told, Is
  <1> QED BY <1>8, <1>9, <1>10, <1>11, <1>12 DEF OttoInv, Apart, WholeOtto

\* A step from one place to another, before or after an install.
LEMMA MoveKeeps ==
  ASSUME OttoInv, NEW c \in CLIs, ~Works(c),
         NEW l \in {"ensure", "cache", "auto", "exec"},
         l \notin {"ensure"} /\ ~(launch[c].at \in {"cache", "auto", "exec"})
            => pkg \in MinVersion..Newest,
         launch' = [launch EXCEPT ![c].at = l],
         UNCHANGED <<latest, pkg, inode, bin, met, cut>>
  PROVE  OttoInv'
  <1>1. launch \in Runs
    BY DEF OttoInv, OttoType, Runs, Run
  <1>2. launch'[c] = [launch[c] EXCEPT !.at = l] /\ \A o \in CLIs \ {c} : launch'[o] = launch[o]
    BY <1>1 DEF Runs, Run
  <1>3. /\ launch'[c].at = l /\ launch'[c].fd = launch[c].fd
        /\ ~Works(c)' /\ (\A o \in CLIs \ {c} : (Works(o)' <=> Works(o)))
    BY <1>1, <1>2 DEF Runs, Run, Works, Otto!Installing
  <1>4. launch' \in Runs
    BY <1>1 DEF Runs, Run, Places
  <1>5. launch[c].fd = Nothing
    BY DEF OttoInv, OttoType, Works, Is, Otto!Installing
  <1>6. OttoType'
    BY <1>2, <1>3, <1>4, <1>5 DEF OttoInv, OttoType, Runs, Run, Is
  <1>7. Overlaps' /\ (\A o \in CLIs : Install(o))'
    BY <1>2, <1>3 DEF OttoInv, Overlaps, Install, Is
  <1>8. Told'
    BY <1>2, <1>3 DEF OttoInv, Told, Is
  <1> QED BY <1>6, <1>7, <1>8 DEF OttoInv, Apart, WholeOtto

\* A command that does not install comes to an end.
LEMMA RestKeeps ==
  ASSUME OttoInv, NEW c \in CLIs, ~Works(c), Otto!OttoExit(c),
         UNCHANGED <<latest, pkg, inode, bin, met, cut>>
  PROVE  OttoInv'
  <1>1. launch \in Runs
    BY DEF OttoInv, OttoType, Runs, Run
  <1>2. launch'[c] = Otto!Resting /\ \A o \in CLIs \ {c} : launch'[o] = launch[o]
    BY <1>1 DEF Runs, Otto!OttoExit
  <1>3. /\ ~Works(c)' /\ (\A o \in CLIs \ {c} : (Works(o)' <=> Works(o)))
    BY <1>1, <1>2 DEF Runs, Run, Works, Otto!Installing, Otto!Resting
  <1>4. launch' \in Runs
    BY <1>1 DEF Runs, Run, Places, Otto!OttoExit, Otto!Resting
  <1>6. OttoType'
    BY <1>2, <1>3, <1>4 DEF OttoInv, OttoType, Runs, Run, Is, Otto!Resting
  <1>7. Overlaps' /\ (\A o \in CLIs : Install(o))'
    BY <1>2, <1>3 DEF OttoInv, Overlaps, Install, Is
  <1>8. Told'
    BY <1>2, <1>3 DEF OttoInv, Told, Is, Otto!Resting
  <1> QED BY <1>6, <1>7, <1>8 DEF OttoInv, Apart, WholeOtto

LEMMA OttoBeginKeeps ==
  ASSUME OttoInv, NEW c \in CLIs, Otto!OttoBegin(c)
  PROVE  OttoInv'
  <1>1. ~Works(c) /\ UNCHANGED <<latest, pkg, inode, bin, cut>>
    BY DEF Otto!OttoBegin, Otto!At, Works, Otto!Installing
  <1> QED BY <1>1, DownloadKeeps, MoveKeeps DEF Otto!OttoBegin

LEMMA EnsureBinaryKeeps ==
  ASSUME OttoInv, NEW c \in CLIs, Otto!EnsureBinary(c)
  PROVE  OttoInv'
  <1>1. Is(c, "ensure") /\ ~Works(c) /\ UNCHANGED <<latest, pkg, inode, bin, cut>>
    BY DEF Otto!EnsureBinary, Otto!At, Works, Is, Otto!Installing
  <1>2. CASE Otto!OttoExit(c) /\ UNCHANGED met
    BY <1>1, <1>2, RestKeeps
  <1>3. CASE Otto!Download(c, "cache")
    BY <1>1, <1>3, DownloadKeeps
  <1>4. CASE /\ pkg \in MinVersion..Newest /\ launch' = [launch EXCEPT ![c].at = "cache"]
             /\ UNCHANGED met
    BY <1>1, <1>4, MoveKeeps
  <1> QED BY <1>2, <1>3, <1>4 DEF Otto!EnsureBinary

LEMMA AutoUpdateKeeps ==
  ASSUME OttoInv, NEW c \in CLIs, Otto!AutoUpdate(c)
  PROVE  OttoInv'
  <1>1. Is(c, "auto") /\ ~Works(c) /\ UNCHANGED <<latest, pkg, inode, bin, cut>>
    BY DEF Otto!AutoUpdate, Otto!At, Works, Is, Otto!Installing
  <1>2. CASE Otto!Download(c, "exec")
    BY <1>1, <1>2, DownloadKeeps
  <1>3. CASE launch' = [launch EXCEPT ![c].at = "exec"] /\ UNCHANGED met
    BY <1>1, <1>3, MoveKeeps DEF Is
  <1> QED BY <1>2, <1>3 DEF Otto!AutoUpdate


LEMMA GetKeeps ==
  ASSUME OttoInv, NEW c \in CLIs, Otto!Get(c)
  PROVE  OttoInv'
  <1>1. launch \in Runs /\ latest \in MinVersion..Newest /\ latest # Nothing
    <2>1. MinVersion \in Nat /\ Newest \in Nat /\ Nothing \notin Nat
      BY OttoSound DEF Otto!Sound
    <2> QED BY <2>1 DEF OttoInv, OttoType, Runs, Run
  <1>2. /\ Is(c, "get") /\ Works(c) /\ UNCHANGED <<latest, pkg, inode, bin, met, cut>>
        /\ launch' = [launch EXCEPT ![c].at = "unpack", ![c].ver = latest,
                                    ![c].todo = {"binary", "package"}]
    BY DEF Otto!Get, Otto!At, Is, Works, Otto!Installing
  <1>3. /\ launch'[c] = [launch[c] EXCEPT !.at = "unpack", !.ver = latest,
                                          !.todo = {"binary", "package"}]
        /\ \A o \in CLIs \ {c} : launch'[o] = launch[o]
    BY <1>1, <1>2 DEF Runs, Run
  <1>4. /\ launch'[c].at = "unpack" /\ launch'[c].ver = latest
        /\ launch'[c].todo = {"binary", "package"} /\ launch'[c].fd = launch[c].fd
        /\ launch'[c].then = launch[c].then /\ launch'[c].alone = launch[c].alone
    BY <1>1, <1>3 DEF Runs, Run
  <1>5. Works(c)' /\ \A o \in CLIs \ {c} : Works(o)' <=> Works(o)
    BY <1>3, <1>4 DEF Works, Otto!Installing
  <1>6. launch' \in Runs
    <2>1. launch[c] \in Run
      BY <1>1 DEF Runs
    <2>2. launch'[c] \in Run
      BY <1>1, <1>3, <2>1 DEF Run, Places
    <2> QED BY <1>1, <1>2, <1>3, <2>2 DEF Runs
  <1>7. OttoType'
    <2>1. ASSUME NEW o \in CLIs
          PROVE  /\ (launch'[o].fd # Nothing) <=> launch'[o].at = "binary"
                 /\ Works(o)' => launch'[o].then \in {"idle", "cache", "exec"}
                 /\ Works(o)' /\ launch'[o].at # "get" => launch'[o].ver # Nothing
      <3>1. CASE o = c
        BY <1>1, <1>2, <1>4, <3>1 DEF OttoInv, OttoType, Is
      <3>2. CASE o # c
        BY <1>3, <1>5, <3>2 DEF OttoInv, OttoType, Is
      <3> QED BY <3>1, <3>2
    <2> QED BY <1>2, <1>6, <2>1 DEF OttoInv, OttoType, Runs, Run, Is
  <1>8. Overlaps' /\ (\A o \in CLIs : Install(o))'
    BY <1>2, <1>3, <1>4, <1>5 DEF OttoInv, Overlaps, Install, Is
  <1>9. Told'
    <2>1. ~(Works(c)' => (Is(c, "get"))')
      BY <1>4, <1>5 DEF Is
    <2> QED BY <2>1 DEF Told
  <1> QED BY <1>2, <1>7, <1>8, <1>9 DEF OttoInv, Apart, WholeOtto

LEMMA OpenBinaryKeeps ==
  ASSUME OttoInv, NEW c \in CLIs, Otto!OpenBinary(c)
  PROVE  OttoInv'
  <1> DEFINE i == IF bin["platform"] # Nothing THEN bin["platform"]
                                               ELSE CHOOSE j \in Otto!Unused : TRUE
             others == Otto!Writers(i) \ {c}
  <1>1. /\ launch \in Runs /\ bin \in [{"platform", "otto"} -> Inode \cup {Nothing}]
        /\ inode \in [Inode -> [vers : SUBSET (1..Newest), full : BOOLEAN]]
    BY DEF OttoInv, OttoType, Runs, Run
  <1>2. /\ Is(c, "unpack") /\ Works(c) /\ UNCHANGED <<latest, pkg, met, cut>>
        /\ Otto!OpenEmpty(c, i) /\ bin' = [bin EXCEPT !["platform"] = i]
    BY DEF Otto!OpenBinary, Otto!At, Is, Works, Otto!Installing
  <1>3. i \in Inode /\ i # bin["otto"]
    <2>1. Otto!Unused # {}
      <3> DEFINE fd == [o \in CLIs \ {c} |-> launch[o].fd]
      <3>1. fd \in [CLIs \ {c} -> Inode \cup {Nothing}]
        BY <1>1 DEF Runs, Run
      <3>2. bin["platform"] \in Inode \cup {Nothing} /\ bin["otto"] \in Inode \cup {Nothing}
        BY <1>1
      <3>0. \A a, b \in Inode \cup {Nothing}, f \in [CLIs \ {c} -> Inode \cup {Nothing}] :
              \E k \in Inode \ {a, b} : \A o \in CLIs \ {c} : f[o] # k
        BY OttoSound DEF Otto!Sound
      <3> HIDE DEF fd
      <3>3. PICK k \in Inode \ {bin["platform"], bin["otto"]} : \A o \in CLIs \ {c} : fd[o] # k
        <4> DEFINE Enough(a, b, f) ==
                     \E k \in Inode \ {a, b} : \A o \in CLIs \ {c} : f[o] # k
        <4>1. \A a, b \in Inode \cup {Nothing}, f \in [CLIs \ {c} -> Inode \cup {Nothing}] :
                 Enough(a, b, f)
          BY <3>0
        <4> HIDE DEF Enough
        <4>2. Enough(bin["platform"], bin["otto"], fd)
          BY <4>1, <3>1, <3>2
        <4> QED BY <4>2 DEF Enough
      <3>4. \A o \in CLIs \ {c} : launch[o].fd # k
        BY <3>3 DEF fd
      <3>5. launch[c].fd = Nothing /\ Nothing # k
        BY <1>2, OttoSound DEF Otto!Sound, OttoInv, OttoType, Is
      <3>6. k \in Otto!Unused
        BY <1>1, <3>3, <3>4, <3>5 DEF Otto!Unused, Otto!Writers
      <3> QED BY <3>6
    <2>2. CASE bin["platform"] # Nothing
      BY <1>1, <2>2 DEF OttoInv, Apart
    <2>3. CASE bin["platform"] = Nothing
      <3>1. i \in Otto!Unused
        BY <2>1, <2>3
      <3> HIDE DEF i
      <3> QED BY <1>1, <3>1 DEF Otto!Unused
    <2> QED BY <2>2, <2>3
  <1>4. /\ bin' \in [{"platform", "otto"} -> Inode \cup {Nothing}]
        /\ bin'["platform"] = i /\ bin'["otto"] = bin["otto"]
    <2> HIDE DEF i
    <2> QED BY <1>1, <1>2, <1>3
  <1> HIDE DEF i
  <1>5. \A o \in others : o \in CLIs \ {c} /\ launch[o].fd = i /\ Works(o) /\ Is(o, "binary")
    BY <1>3, OttoSound DEF Otto!Sound, Otto!Writers, OttoInv, OttoType, Works, Is, Otto!Installing
  <1>6. launch[c].alone => others = {}
    BY <1>2, <1>5 DEF OttoInv, Overlaps
  <1>7. /\ inode' = [inode EXCEPT ![i] =
              [vers |-> {launch[c].ver} \cup {launch[o].ver : o \in others}, full |-> FALSE]]
        /\ launch' = [o \in CLIs |->
              IF o = c THEN [launch[c] EXCEPT !.at = "binary", !.fd = i, !.hit = FALSE,
                                              !.todo = @ \ {"binary"}]
              ELSE IF o \in others THEN [launch[o] EXCEPT !.hit = TRUE] ELSE launch[o]]
    BY <1>2 DEF Otto!OpenEmpty
  <1> DEFINE vs == {launch[c].ver} \cup {launch[o].ver : o \in others}
  <1>8. vs \subseteq 1..Newest
    BY <1>2, <1>5, VersionIsSome DEF Is
  <1>9. inode' \in [Inode -> [vers : SUBSET (1..Newest), full : BOOLEAN]]
        /\ inode'[i].vers = vs /\ \A k \in Inode \ {i} : inode'[k] = inode[k]
    <2> HIDE DEF vs
    <2> QED BY <1>1, <1>3, <1>7, <1>8 DEF vs
  <1> HIDE DEF vs, others
  <1>10. \A o \in CLIs : launch[o] \in Run
    BY <1>1 DEF Runs
  <1>11. /\ launch'[c] \in Run /\ launch'[c].at = "binary" /\ launch'[c].fd = i
         /\ launch'[c].hit = FALSE /\ launch'[c].todo = launch[c].todo \ {"binary"}
         /\ launch'[c].ver = launch[c].ver /\ launch'[c].then = launch[c].then
         /\ launch'[c].alone = launch[c].alone
    BY <1>3, <1>7, <1>10 DEF Run, Places
  <1>12. \A o \in CLIs \ {c} :
           /\ launch'[o] \in Run /\ launch'[o].at = launch[o].at /\ launch'[o].fd = launch[o].fd
           /\ launch'[o].then = launch[o].then /\ launch'[o].ver = launch[o].ver
           /\ launch'[o].alone = launch[o].alone
    <2> TAKE o \in CLIs \ {c}
    <2>1. launch'[o] = [launch[o] EXCEPT !.hit = TRUE] \/ launch'[o] = launch[o]
      BY <1>7
    <2> QED BY <1>10, <2>1 DEF Run
  <1>13. launch' \in Runs
    BY <1>7, <1>11, <1>12 DEF Runs
  <1>14. Works(c)' /\ \A o \in CLIs \ {c} : Works(o)' <=> Works(o)
    BY <1>11, <1>12 DEF Works, Otto!Installing
  <1>15. OttoType'
    <2>1. ASSUME NEW o \in CLIs
          PROVE  /\ (launch'[o].fd # Nothing) <=> launch'[o].at = "binary"
                 /\ Works(o)' => launch'[o].then \in {"idle", "cache", "exec"}
                 /\ Works(o)' /\ launch'[o].at # "get" => launch'[o].ver # Nothing
      <3>1. CASE o = c
        BY <1>2, <1>3, <1>11, <3>1, OttoSound DEF Otto!Sound, OttoInv, OttoType, Is
      <3>2. CASE o # c
        BY <1>12, <1>14, <3>2 DEF OttoInv, OttoType, Is
      <3> QED BY <3>1, <3>2
    <2> QED BY <1>2, <1>4, <1>9, <1>13, <2>1 DEF OttoInv, OttoType, Runs, Run, Is
  <1>16. Apart'
    BY <1>3, <1>4 DEF Apart
  <1>17. Overlaps'
    BY <1>2, <1>11, <1>12, <1>14 DEF OttoInv, Overlaps
  <1>18. Told'
    <2>1. ~(Works(c)' => (Is(c, "get"))')
      BY <1>11, <1>14 DEF Is
    <2> QED BY <2>1 DEF Told
  <1>19. (\A o \in CLIs : Install(o))'
    <2> SUFFICES ASSUME NEW o \in CLIs, Works(o)', launch'[o].alone
                 PROVE  (Install(o))'
      BY DEF Install
    <2>1. o = c
      BY <1>2, <1>12, <1>14 DEF OttoInv, Overlaps
    <2>2. inode'[i].vers = {launch[c].ver}
      BY <1>6, <1>9, <1>11, <2>1 DEF vs
    <2>3. "package" \notin launch[c].todo => pkg = launch[c].ver
      BY <1>2, <1>11, <2>1 DEF OttoInv, Install, Is
    <2> QED BY <1>2, <1>4, <1>11, <2>1, <2>2, <2>3 DEF Install, Is
  <1>20. WholeOtto'
    <2>1. bin["otto"] # Nothing => inode'[bin'["otto"]] = inode[bin["otto"]]
      BY <1>1, <1>3, <1>4, <1>9
    <2> QED BY <1>2, <1>4, <2>1 DEF OttoInv, WholeOtto
  <1> QED BY <1>15, <1>16, <1>17, <1>18, <1>19, <1>20 DEF OttoInv

LEMMA RefreshUpdateCacheKeeps ==
  ASSUME OttoInv, NEW c \in CLIs, Otto!RefreshUpdateCache(c)
  PROVE  OttoInv'
  <1> USE OttoSound DEF Otto!Sound, OttoInv, Is, Works, Otto!Installing, Otto!At, Otto!Busy,
         Otto!Resting, Otto!OttoExit, Otto!Fault, Runs, Run
  <1>1. OttoType'
    BY DEF Otto!RefreshUpdateCache, OttoType, Places,
          Apart, Overlaps, Install, WholeOtto, Told
  <1>2. Apart'
    BY DEF Otto!RefreshUpdateCache, OttoType, Places,
          Apart, Overlaps, Install, WholeOtto, Told
  <1>3. Overlaps'
    BY DEF Otto!RefreshUpdateCache, OttoType, Places,
          Apart, Overlaps, Install, WholeOtto, Told
  <1>4. (\A o \in CLIs : Install(o))'
    BY DEF Otto!RefreshUpdateCache, OttoType, Places,
          Apart, Overlaps, Install, WholeOtto, Told
  <1>5. WholeOtto'
    BY DEF Otto!RefreshUpdateCache, OttoType, Places,
          Apart, Overlaps, Install, WholeOtto, Told
  <1>6. Told'
    BY DEF Otto!RefreshUpdateCache, OttoType, Places,
          Apart, Overlaps, Install, WholeOtto, Told
  <1> QED BY <1>1, <1>2, <1>3, <1>4, <1>5, <1>6

LEMMA CloseBinaryKeeps ==
  ASSUME OttoInv, NEW c \in CLIs, Otto!CloseBinary(c)
  PROVE  OttoInv'
  <1> USE OttoSound DEF Otto!Sound, OttoInv, Is, Works, Otto!Installing, Otto!At, Otto!Busy,
         Otto!Resting, Otto!OttoExit, Otto!Fault, Runs, Run
  <1>1. OttoType'
    BY DEF Otto!CloseBinary, OttoType, Places,
          Apart, Overlaps, Install, WholeOtto, Told
  <1>2. Apart'
    BY DEF Otto!CloseBinary, OttoType, Places,
          Apart, Overlaps, Install, WholeOtto, Told
  <1>3. Overlaps'
    BY DEF Otto!CloseBinary, OttoType, Places,
          Apart, Overlaps, Install, WholeOtto, Told
  <1>4. (\A o \in CLIs : Install(o))'
    BY DEF Otto!CloseBinary, OttoType, Places,
          Apart, Overlaps, Install, WholeOtto, Told
  <1>5. WholeOtto'
    BY DEF Otto!CloseBinary, OttoType, Places,
          Apart, Overlaps, Install, WholeOtto, Told
  <1>6. Told'
    BY DEF Otto!CloseBinary, OttoType, Places,
          Apart, Overlaps, Install, WholeOtto, Told
  <1> QED BY <1>1, <1>2, <1>3, <1>4, <1>5, <1>6

LEMMA OpenPackageKeeps ==
  ASSUME OttoInv, NEW c \in CLIs, Otto!OpenPackage(c)
  PROVE  OttoInv'
  <1> USE OttoSound DEF Otto!Sound, OttoInv, Is, Works, Otto!Installing, Otto!At, Otto!Busy,
         Otto!Resting, Otto!OttoExit, Otto!Fault, Runs, Run
  <1>1. OttoType'
    BY DEF Otto!OpenPackage, OttoType, Places,
          Apart, Overlaps, Install, WholeOtto, Told
  <1>2. Apart'
    BY DEF Otto!OpenPackage, OttoType, Places,
          Apart, Overlaps, Install, WholeOtto, Told
  <1>3. Overlaps'
    BY DEF Otto!OpenPackage, OttoType, Places,
          Apart, Overlaps, Install, WholeOtto, Told
  <1>4. (\A o \in CLIs : Install(o))'
    BY DEF Otto!OpenPackage, OttoType, Places,
          Apart, Overlaps, Install, WholeOtto, Told
  <1>5. WholeOtto'
    BY DEF Otto!OpenPackage, OttoType, Places,
          Apart, Overlaps, Install, WholeOtto, Told
  <1>6. Told'
    BY DEF Otto!OpenPackage, OttoType, Places,
          Apart, Overlaps, Install, WholeOtto, Told
  <1> QED BY <1>1, <1>2, <1>3, <1>4, <1>5, <1>6

LEMMA ClosePackageKeeps ==
  ASSUME OttoInv, NEW c \in CLIs, Otto!ClosePackage(c)
  PROVE  OttoInv'
  <1> USE OttoSound DEF Otto!Sound, OttoInv, Is, Works, Otto!Installing, Otto!At, Otto!Busy,
         Otto!Resting, Otto!OttoExit, Otto!Fault, Runs, Run
  <1>1. OttoType'
    BY DEF Otto!ClosePackage, OttoType, Places,
          Apart, Overlaps, Install, WholeOtto, Told
  <1>2. Apart'
    BY DEF Otto!ClosePackage, OttoType, Places,
          Apart, Overlaps, Install, WholeOtto, Told
  <1>3. Overlaps'
    BY DEF Otto!ClosePackage, OttoType, Places,
          Apart, Overlaps, Install, WholeOtto, Told
  <1>4. (\A o \in CLIs : Install(o))'
    BY DEF Otto!ClosePackage, OttoType, Places,
          Apart, Overlaps, Install, WholeOtto, Told
  <1>5. WholeOtto'
    BY DEF Otto!ClosePackage, OttoType, Places,
          Apart, Overlaps, Install, WholeOtto, Told
  <1>6. Told'
    BY DEF Otto!ClosePackage, OttoType, Places,
          Apart, Overlaps, Install, WholeOtto, Told
  <1> QED BY <1>1, <1>2, <1>3, <1>4, <1>5, <1>6

LEMMA InstallFailsKeeps ==
  ASSUME OttoInv, NEW c \in CLIs, Otto!InstallFails(c)
  PROVE  OttoInv'
  <1> USE OttoSound DEF Otto!Sound, OttoInv, Is, Works, Otto!Installing, Otto!At, Otto!Busy,
         Otto!Resting, Otto!OttoExit, Otto!Fault, Runs, Run
  <1>1. OttoType'
    BY DEF Otto!InstallFails, Otto!AfterFailure, OttoType, Places,
          Apart, Overlaps, Install, WholeOtto, Told
  <1>2. Apart'
    BY DEF Otto!InstallFails, Otto!AfterFailure, OttoType, Places,
          Apart, Overlaps, Install, WholeOtto, Told
  <1>3. Overlaps'
    BY DEF Otto!InstallFails, Otto!AfterFailure, OttoType, Places,
          Apart, Overlaps, Install, WholeOtto, Told
  <1>4. (\A o \in CLIs : Install(o))'
    BY DEF Otto!InstallFails, Otto!AfterFailure, OttoType, Places,
          Apart, Overlaps, Install, WholeOtto, Told
  <1>5. WholeOtto'
    BY DEF Otto!InstallFails, Otto!AfterFailure, OttoType, Places,
          Apart, Overlaps, Install, WholeOtto, Told
  <1>6. Told'
    BY DEF Otto!InstallFails, Otto!AfterFailure, OttoType, Places,
          Apart, Overlaps, Install, WholeOtto, Told
  <1> QED BY <1>1, <1>2, <1>3, <1>4, <1>5, <1>6

LEMMA ExecKeeps ==
  ASSUME OttoInv, NEW c \in CLIs, Otto!Exec(c)
  PROVE  OttoInv'
  <1> USE OttoSound DEF Otto!Sound, OttoInv, Is, Works, Otto!Installing, Otto!At, Otto!Busy,
         Otto!Resting, Otto!OttoExit, Otto!Fault, Runs, Run
  <1>1. OttoType'
    BY DEF Otto!Exec, OttoType, Places,
          Apart, Overlaps, Install, WholeOtto, Told
  <1>2. Apart'
    BY DEF Otto!Exec, OttoType, Places,
          Apart, Overlaps, Install, WholeOtto, Told
  <1>3. Overlaps'
    BY DEF Otto!Exec, OttoType, Places,
          Apart, Overlaps, Install, WholeOtto, Told
  <1>4. (\A o \in CLIs : Install(o))'
    BY DEF Otto!Exec, OttoType, Places,
          Apart, Overlaps, Install, WholeOtto, Told
  <1>5. WholeOtto'
    BY DEF Otto!Exec, OttoType, Places,
          Apart, Overlaps, Install, WholeOtto, Told
  <1>6. Told'
    BY DEF Otto!Exec, OttoType, Places,
          Apart, Overlaps, Install, WholeOtto, Told
  <1> QED BY <1>1, <1>2, <1>3, <1>4, <1>5, <1>6

LEMMA OttoKilledKeeps ==
  ASSUME OttoInv, NEW c \in CLIs, Otto!OttoKilled(c)
  PROVE  OttoInv'
  <1> USE OttoSound DEF Otto!Sound, OttoInv, Is, Works, Otto!Installing, Otto!At, Otto!Busy,
         Otto!Resting, Otto!OttoExit, Otto!Fault, Runs, Run
  <1>1. OttoType'
    BY DEF Otto!OttoKilled, OttoType, Places,
          Apart, Overlaps, Install, WholeOtto, Told
  <1>2. Apart'
    BY DEF Otto!OttoKilled, OttoType, Places,
          Apart, Overlaps, Install, WholeOtto, Told
  <1>3. Overlaps'
    BY DEF Otto!OttoKilled, OttoType, Places,
          Apart, Overlaps, Install, WholeOtto, Told
  <1>4. (\A o \in CLIs : Install(o))'
    BY DEF Otto!OttoKilled, OttoType, Places,
          Apart, Overlaps, Install, WholeOtto, Told
  <1>5. WholeOtto'
    BY DEF Otto!OttoKilled, OttoType, Places,
          Apart, Overlaps, Install, WholeOtto, Told
  <1>6. Told'
    BY DEF Otto!OttoKilled, OttoType, Places,
          Apart, Overlaps, Install, WholeOtto, Told
  <1> QED BY <1>1, <1>2, <1>3, <1>4, <1>5, <1>6

LEMMA ReleaseKeeps ==
  ASSUME OttoInv, Otto!Release \/ Otto!CacheAges
  PROVE  OttoInv'
  <1> USE OttoSound DEF Otto!Sound, OttoInv, Is, Works, Otto!Installing, Otto!At, Otto!Busy,
         Otto!Resting, Otto!OttoExit, Otto!Fault, Runs, Run
  <1>1. OttoType'
    BY DEF Otto!Release, Otto!CacheAges, OttoType, Places,
          Apart, Overlaps, Install, WholeOtto, Told
  <1>2. Apart'
    BY DEF Otto!Release, Otto!CacheAges, OttoType, Places,
          Apart, Overlaps, Install, WholeOtto, Told
  <1>3. Overlaps'
    BY DEF Otto!Release, Otto!CacheAges, OttoType, Places,
          Apart, Overlaps, Install, WholeOtto, Told
  <1>4. (\A o \in CLIs : Install(o))'
    BY DEF Otto!Release, Otto!CacheAges, OttoType, Places,
          Apart, Overlaps, Install, WholeOtto, Told
  <1>5. WholeOtto'
    BY DEF Otto!Release, Otto!CacheAges, OttoType, Places,
          Apart, Overlaps, Install, WholeOtto, Told
  <1>6. Told'
    BY DEF Otto!Release, Otto!CacheAges, OttoType, Places,
          Apart, Overlaps, Install, WholeOtto, Told
  <1> QED BY <1>1, <1>2, <1>3, <1>4, <1>5, <1>6


LEMMA RenamePlatformBinaryKeeps ==
  ASSUME OttoInv, NEW c \in CLIs, Otto!RenamePlatformBinary(c)
  PROVE  OttoInv'
  <1> DEFINE p == bin["platform"]
             next == launch[c].then
  <1>1. /\ launch \in Runs /\ bin \in [{"platform", "otto"} -> Inode \cup {Nothing}]
        /\ met \in BOOLEAN /\ cut \in BOOLEAN
    BY DEF OttoInv, OttoType, Runs, Run
  <1>2. /\ Is(c, "unpack") /\ Works(c) /\ launch[c].todo = {}
        /\ UNCHANGED <<latest, pkg, inode>>
        /\ launch' = [launch EXCEPT ![c] = [Otto!Resting EXCEPT !.at = next]]
        /\ met' = (met /\ ~launch[c].alone) /\ cut' = (cut /\ ~launch[c].alone)
        /\ bin' = IF p # Nothing THEN [bin EXCEPT !["otto"] = p, !["platform"] = Nothing]
                                ELSE bin
    BY DEF Otto!RenamePlatformBinary, Otto!At, Is, Works, Otto!Installing
  <1>3. next \in {"idle", "cache", "exec"}
    BY <1>1, <1>2 DEF Runs, Run, OttoInv, OttoType
  <1>4. /\ launch'[c] = [Otto!Resting EXCEPT !.at = next]
        /\ \A o \in CLIs \ {c} : launch'[o] = launch[o]
    BY <1>1, <1>2 DEF Runs
  <1>5. /\ launch'[c].at = next /\ launch'[c].fd = Nothing /\ ~Works(c)'
        /\ \A o \in CLIs \ {c} : Works(o)' <=> Works(o)
    BY <1>3, <1>4 DEF Works, Otto!Resting, Otto!Installing
  <1>6. launch' \in Runs
    BY <1>1, <1>2, <1>3 DEF Runs, Run, Places, Otto!Resting
  <1>7. IF p # Nothing THEN bin'["otto"] = p /\ bin'["platform"] = Nothing
                       ELSE bin' = bin
    BY <1>1, <1>2
  <1>8. OttoType'
    <2>1. bin' \in [{"platform", "otto"} -> Inode \cup {Nothing}]
      BY <1>1, <1>2
    <2> QED BY <1>1, <1>2, <1>4, <1>5, <1>6, <2>1 DEF OttoInv, OttoType, Runs, Run, Is
  <1>9. Apart'
    BY <1>7 DEF OttoInv, Apart
  <1>10. CASE launch[c].alone
    <2>1. ~met' /\ ~cut' /\ \A o \in CLIs : ~Works(o)'
      BY <1>2, <1>5, <1>10 DEF OttoInv, Overlaps
    <2>2. /\ p # Nothing /\ inode[p] = [vers |-> {launch[c].ver}, full |-> TRUE]
          /\ pkg = launch[c].ver
      BY <1>2, <1>10 DEF OttoInv, Install, Is
    <2>3. launch[c].ver \in MinVersion..Newest /\ launch[c].ver \in 1..Newest
      BY <1>2, VersionIsSome DEF Is
    <2>4. /\ bin'["otto"] = p /\ bin'["otto"] # Nothing /\ pkg' = launch[c].ver
          /\ inode'[bin'["otto"]] = [vers |-> {launch[c].ver}, full |-> TRUE]
      BY <1>2, <1>7, <2>2
    <2>5. WholeOtto'
      BY <2>3, <2>4 DEF WholeOtto
    <2>6. Told'
      BY <2>3, <2>4 DEF Told
    <2> QED BY <1>8, <1>9, <2>1, <2>5, <2>6 DEF OttoInv, Overlaps, Install
  <1>11. CASE ~launch[c].alone
    <2>1. met /\ met'
      BY <1>2, <1>11 DEF OttoInv, Overlaps
    <2>2. WholeOtto' /\ Told'
      BY <2>1 DEF WholeOtto, Told
    <2>3. Overlaps' /\ (\A o \in CLIs : Install(o))'
      <3>1. \A o \in CLIs : Works(o)' => o # c /\ Works(o) /\ ~launch[o].alone
        BY <1>2, <1>5 DEF OttoInv, Overlaps
      <3> QED BY <1>4, <2>1, <3>1 DEF Overlaps, Install
    <2> QED BY <1>8, <1>9, <2>2, <2>3 DEF OttoInv
  <1> QED BY <1>10, <1>11

LEMMA OttoStep == OttoInv /\ [Otto!OttoNext]_(Otto!ottoVars) => OttoInv'
  <1> SUFFICES ASSUME OttoInv, [Otto!OttoNext]_(Otto!ottoVars)
               PROVE  OttoInv'
    OBVIOUS
  <1>1. CASE Otto!OttoNext
    BY <1>1, OttoBeginKeeps, EnsureBinaryKeeps, RefreshUpdateCacheKeeps, AutoUpdateKeeps,
       GetKeeps, OpenBinaryKeeps, CloseBinaryKeeps, OpenPackageKeeps, ClosePackageKeeps,
       RenamePlatformBinaryKeeps, InstallFailsKeeps, ExecKeeps, OttoKilledKeeps, ReleaseKeeps
       DEF Otto!OttoNext
  <1>2. CASE UNCHANGED Otto!ottoVars
    BY <1>2 DEF Otto!ottoVars, OttoInv, OttoType, Apart, Overlaps, Install, WholeOtto, Told,
       Is, Works
  <1> QED BY <1>1, <1>2

\* The binary in use is one whole release, however installs are interrupted, unless two
\* overlapped; and what a launch runs is the version package.json tells of, not below
\* the oldest this CLI can use (EnsureBinary, downloadAndInstall).
THEOREM BinaryWhole == Otto!OttoInit /\ [][Otto!OttoNext]_(Otto!ottoVars) => []OttoWhole
  <1>1. OttoInv => OttoWhole
    <2> SUFFICES ASSUME OttoInv, ~met
                 PROVE  Otto!OttoWhole
      BY DEF OttoWhole, Otto!OttoWhole
    <2>1. bin["otto"] # Nothing => Otto!Whole(bin["otto"])
      BY DEF OttoInv, WholeOtto, Otto!Whole
    <2>2. ASSUME ~cut, NEW c \in CLIs, Otto!At(c, "exec"), \A o \in CLIs : ~Otto!Busy(o)
          PROVE  /\ bin["otto"] # Nothing /\ inode[bin["otto"]].vers = {pkg}
                 /\ pkg >= MinVersion
      <3>1. /\ Told /\ \A o \in CLIs : ~Works(o)
            /\ launch[c].at = "exec"
        BY <2>2 DEF OttoInv, Works, Otto!Busy, Otto!At
      <3>2. pkg \in MinVersion..Newest
        BY <2>2, <3>1 DEF Told
      <3>3. MinVersion \in Nat /\ Newest \in Nat /\ Nothing \notin Nat
        BY OttoSound DEF Otto!Sound
      <3> QED BY <2>2, <3>1, <3>2, <3>3 DEF Told
    <2> QED BY <2>1, <2>2 DEF Otto!OttoWhole
  <1> QED BY <1>1, OttoStarts, OttoStep, PTL
=============================================================================
